---------------------------- MODULE PairedProofs ----------------------------
(***************************************************************************)
(* The pairing of the two viewers, proved for every session and every      *)
(* number of acts.                                                         *)
(***************************************************************************)
EXTENDS PairedViewers, WellFoundedInduction, TLAPS

----------------------------------------------------------------------------
(* What an operation on a viewer changes.                                   *)
Changes(v, w, F) == DOMAIN w = DOMAIN v /\ \A f \in DOMAIN v : f \notin F => w[f] = v[f]

(* Moving a viewer changes where it is and whether it plays.                *)
Motion == {"at", "follow", "paused"}

LEMMA ThreeFields ==
  \A v, a, b, c : Changes(v, [v EXCEPT !.at = a, !.follow = b, !.paused = c], Motion)
BY DEF Changes, Motion

LEMMA SeekMoves == \A v, s : Changes(v, seek(v, s), Motion)
BY DEF Changes, Motion, seek

LEMMA LiveMoves == \A v : Changes(v, go_live(v), Motion)
BY DEF Changes, Motion, seek, go_live

LEMMA FractionMoves == \A v, num, den : Changes(v, seek_to_fraction(v, num, den), Motion)
BY ThreeFields DEF seek_to_fraction

LEMMA PauseMoves == \A v, p : Changes(v, set_paused(v, p), Motion)
<1> SUFFICES ASSUME NEW v, NEW p PROVE Changes(v, set_paused(v, p), Motion)
  OBVIOUS
<1>1. Changes(v, [v EXCEPT !.paused = TRUE, !.follow = FALSE], Motion)
  BY DEF Changes, Motion
<1>2. Changes(v, [v EXCEPT !.paused = FALSE, !.follow = TRUE], Motion)
  BY DEF Changes, Motion
<1>3. Changes(v, v, Motion)
  BY DEF Changes
<1> QED
  BY <1>1, <1>2, <1>3 DEF set_paused

LEMMA KeyMoves == \A v : \A k \in Keys : Changes(v, handle_key(v, k), Motion)
<1> SUFFICES ASSUME NEW v, NEW k \in Keys PROVE Changes(v, handle_key(v, k), Motion)
  OBVIOUS
<1>1. Changes(v, toggle_play_pause(v), Motion)
  BY PauseMoves DEF toggle_play_pause
<1>2. \A forward : Changes(v, seek_prompt(v, forward), Motion)
  BY SeekMoves, LiveMoves DEF seek_prompt
<1>3. CASE k = "space"
  BY <1>1, <1>3 DEF handle_key
<1>4. CASE k = "back"
  BY <1>2, <1>4 DEF handle_key
<1>5. CASE k = "next"
  BY <1>2, <1>5 DEF handle_key
<1>6. CASE k = "live"
  BY LiveMoves, <1>6 DEF handle_key
<1> QED
  BY <1>3, <1>4, <1>5, <1>6 DEF Keys

LEMMA ApplyMoves == \A v, m, x : Changes(v, apply(v, m, x), Motion)
<1> SUFFICES ASSUME NEW v, NEW m, NEW x PROVE Changes(v, apply(v, m, x), Motion)
  OBVIOUS
<1> DEFINE f == fraction_for_playhead(v, m, x.playhead)
           w == seek_to_fraction(v, f[1], f[2])
<1>1. Changes(v, w, Motion)
  BY FractionMoves
<1>2. Changes(w, set_paused(w, x.paused), Motion)
  BY PauseMoves
<1>3. apply(v, m, x) = set_paused(w, x.paused)
  BY DEF apply
<1> HIDE DEF w
<1> QED
  BY <1>1, <1>2, <1>3 DEF Changes

LEMMA AdvanceMoves == \A v : Changes(v, advance(v), Motion)
BY DEF Changes, Motion, advance

(* None of it touches what a viewer has written, taken and stamped.         *)
Lasting == {"took", "written", "applied", "last", "jobs"}
Kept(v, w) == Changes(v, w, DOMAIN v \ Lasting)

LEMMA KeptTwice ==
  ASSUME NEW u, NEW v, NEW w, Kept(u, v), Kept(v, w) PROVE Kept(u, w)
BY DEF Kept, Changes

LEMMA MotionKeeps == \A v, w : Changes(v, w, Motion) => Kept(v, w)
BY DEF Kept, Changes, Motion, Lasting

LEMMA FrameKeeps ==
  /\ \A v, k : Kept(v, append_live(v, k))
  /\ \A v, w : Kept(v, w) => Kept(v, Moved(v, w))
  /\ \A v, k : Kept(v, Loaded(v, k))
  /\ \A v : Kept(v, Shown(v))
<1>1. \A v, k : Kept(v, append_live(v, k))
  BY DEF Kept, Changes, Lasting, append_live
<1>2. \A v, w : Kept(w, Moved(v, w))
  BY DEF Kept, Changes, Lasting, Moved
<1>3. \A v, k : Kept(v, Loaded(v, k))
  BY DEF Kept, Changes, Lasting, Loaded
<1>4. \A v : Kept(v, Shown(v))
  BY DEF Kept, Changes, Lasting, Shown
<1> QED
  BY <1>1, <1>2, <1>3, <1>4, KeptTwice

----------------------------------------------------------------------------
(* The last write wins.  Unless a write or a read went by that the stamps   *)
(* cannot order, no stamp a side keeps is above the sidecar's; who wrote    *)
(* the sidecar has taken it, and the other has, or still will.              *)
Winning ==
  /\ tui.written \in Int /\ tui.applied \in Int /\ web.last \in Int
  /\ tui.written <= view.stamp /\ tui.applied <= view.stamp /\ web.last <= view.stamp
  /\ view.writer = "tui" =>
       tui.took = view /\ (web.last < view.stamp \/ web.took = view)
  /\ view.writer = "web" =>
       /\ web.took = view
       /\ (tui.written < view.stamp /\ tui.applied < view.stamp) \/ tui.took = view
Stamped ==
  /\ {"took", "written", "applied"} \subseteq DOMAIN tui
  /\ {"took", "last", "jobs"} \subseteq DOMAIN web
  /\ now \in Int /\ view.stamp \in Int
  /\ view.writer \in {"tui", "web"} \/ view = NoView
  /\ \A x \in web.jobs : x.writer = "web" /\ x.stamp \in Int
Agreeing == Stamped /\ (~lost => Winning)

LEMMA KeptFields ==
  /\ \A v, w : Kept(v, w) /\ {"took", "written", "applied"} \subseteq DOMAIN v =>
       /\ {"took", "written", "applied"} \subseteq DOMAIN w
       /\ w.took = v.took /\ w.written = v.written /\ w.applied = v.applied
  /\ \A v, w : Kept(v, w) /\ {"took", "last", "jobs"} \subseteq DOMAIN v =>
       /\ {"took", "last", "jobs"} \subseteq DOMAIN w
       /\ w.took = v.took /\ w.last = v.last /\ w.jobs = v.jobs
BY DEF Kept, Changes, Lasting

(* Nothing is written and nothing is taken.                                 *)
LEMMA MovingKeeps ==
  ASSUME Agreeing, Kept(tui, tui'), Kept(web, web'), view' = view, now' \in Int,
         lost' <=> lost
  PROVE  Agreeing'
<1>1. /\ {"took", "written", "applied"} \subseteq DOMAIN tui'
      /\ tui'.took = tui.took /\ tui'.written = tui.written /\ tui'.applied = tui.applied
      /\ {"took", "last", "jobs"} \subseteq DOMAIN web'
      /\ web'.took = web.took /\ web'.last = web.last /\ web'.jobs = web.jobs
  BY KeptFields DEF Agreeing, Stamped
<1>2. Stamped'
  BY <1>1 DEF Agreeing, Stamped
<1>3. Winning => Winning'
  BY <1>1 DEF Winning
<1> QED
  BY <1>2, <1>3 DEF Agreeing

(* The terminal writes.                                                     *)
LEMMA TerminalWrites ==
  ASSUME Agreeing, NEW v, Kept(tui, v), on_input(v), web' = web, now' = now
  PROVE  Agreeing'
<1> DEFINE x == capture(v, v.launch, "tui")
<1>1. /\ {"took", "written", "applied"} \subseteq DOMAIN v
      /\ v.applied = tui.applied
  BY KeptFields DEF Agreeing, Stamped
<1>2. /\ view' = x /\ tui' = [v EXCEPT !.written = now, !.from = x, !.took = x]
      /\ lost' = (lost \/ now <= view.stamp)
  BY DEF on_input
<1>3. x.stamp = now /\ x.writer = "tui"
  BY DEF capture
<1> HIDE DEF x
<1>4. /\ {"took", "written", "applied"} \subseteq DOMAIN tui'
      /\ tui'.took = x /\ tui'.written = now /\ tui'.applied = tui.applied
  BY <1>1, <1>2
<1>5. Stamped'
  BY <1>2, <1>3, <1>4 DEF Agreeing, Stamped
<1>6. ASSUME Winning, ~(now <= view.stamp) PROVE Winning'
  <2>1. now \in Int /\ view.stamp \in Int
    BY DEF Agreeing, Stamped
  <2>2. view'.stamp = now /\ view'.writer = "tui" /\ tui'.took = view'
    BY <1>2, <1>3, <1>4
  <2> QED
    BY <1>4, <1>6, <2>1, <2>2 DEF Winning
<1> QED
  BY <1>2, <1>5, <1>6 DEF Agreeing

(* The terminal takes the browser's.                                        *)
LEMMA TerminalTakes == ASSUME Agreeing, on_frame PROVE Agreeing'
<1> DEFINE v == apply(tui, tui.launch, view)
<1>1. /\ {"took", "written", "applied"} \subseteq DOMAIN v
      /\ v.written = tui.written
  BY ApplyMoves, MotionKeeps, KeptFields DEF Agreeing, Stamped
<1>2. /\ should_apply(view) /\ view' = view /\ lost' = lost /\ web' = web /\ now' = now
      /\ tui' = [v EXCEPT !.applied = view.stamp, !.from = view, !.took = view]
  BY DEF on_frame, Applied
<1> HIDE DEF v
<1>3. /\ {"took", "written", "applied"} \subseteq DOMAIN tui'
      /\ tui'.took = view /\ tui'.written = tui.written /\ tui'.applied = view.stamp
  BY <1>1, <1>2
<1>4. Stamped'
  BY <1>2, <1>3 DEF Agreeing, Stamped
<1>5. Winning => Winning'
  BY <1>2, <1>3 DEF Winning, Agreeing, Stamped, should_apply
<1> QED
  BY <1>2, <1>4, <1>5 DEF Agreeing

(* The browser asks for a write and captures it.                            *)
LEMMA BrowserCaptures == ASSUME Agreeing, WriteCaptures PROVE Agreeing'
<1> DEFINE x == [playhead |-> web.sel, paused |-> web.paused, stamp |-> now, writer |-> "web"]
           y == IF web.sel = web.at THEN x ELSE NoView
<1>1. /\ web' = [web EXCEPT !.asked = @ - 1, !.jobs = @ \cup {x}, !.from = y]
      /\ tui' = tui /\ view' = view /\ lost' = lost /\ now' = now
  BY DEF WriteCaptures
<1>2. x.stamp = now /\ x.writer = "web"
  OBVIOUS
<1> HIDE DEF x, y
<1>3. /\ {"took", "last", "jobs"} \subseteq DOMAIN web'
      /\ web'.took = web.took /\ web'.last = web.last /\ web'.jobs = web.jobs \cup {x}
  BY <1>1 DEF Agreeing, Stamped
<1>4. Stamped'
  BY <1>1, <1>2, <1>3 DEF Agreeing, Stamped
<1>5. Winning => Winning'
  BY <1>1, <1>3 DEF Winning
<1> QED
  BY <1>1, <1>4, <1>5 DEF Agreeing

(* What it captured reaches the disk.                                       *)
LEMMA BrowserWrites == ASSUME Agreeing, NEW x \in web.jobs, WriteLands(x) PROVE Agreeing'
<1>1. /\ web' = [web EXCEPT !.jobs = @ \ {x}, !.last = x.stamp, !.took = x]
      /\ tui' = tui /\ view' = x /\ now' = now
      /\ lost' = (lost \/ x.stamp <= view.stamp)
  BY DEF WriteLands
<1>2. /\ {"took", "last", "jobs"} \subseteq DOMAIN web'
      /\ web'.took = x /\ web'.last = x.stamp /\ web'.jobs = web.jobs \ {x}
  BY <1>1 DEF Agreeing, Stamped
<1>3. x.writer = "web" /\ x.stamp \in Int /\ view.stamp \in Int
  BY DEF Agreeing, Stamped
<1>4. Stamped'
  BY <1>1, <1>2, <1>3 DEF Agreeing, Stamped
<1>5. ASSUME Winning, ~(x.stamp <= view.stamp) PROVE Winning'
  BY <1>1, <1>2, <1>3, <1>5 DEF Winning
<1> QED
  BY <1>1, <1>4, <1>5 DEF Agreeing

(* The poll takes what it read, or goes live, or does nothing.              *)
LEMMA BrowserTakes == ASSUME Agreeing, applyViewState PROVE Agreeing'
<1> DEFINE x == web.poll.view
           takes == x # NoView /\ (web.poll.changed \/ shouldApplyRemoteView(x))
           v == Shown(apply(web, web.len, x))
           w == IF web.poll.changed THEN Moved(web, go_live(web)) ELSE web
<1>1. /\ web' = IF takes THEN [v EXCEPT !.poll = Idle, !.last = x.stamp, !.from = x, !.took = x]
                 ELSE [w EXCEPT !.poll = Idle]
      /\ lost' = (lost \/ (takes /\ x # view))
      /\ tui' = tui /\ view' = view /\ now' = now
  BY DEF applyViewState
<1>2. /\ {"took", "last", "jobs"} \subseteq DOMAIN v
      /\ v.jobs = web.jobs
  <2>1. Kept(web, v)
    BY ApplyMoves, MotionKeeps, FrameKeeps, KeptTwice
  <2> HIDE DEF v
  <2> QED
    BY <2>1, KeptFields DEF Agreeing, Stamped
<1>3. Kept(web, w)
  BY FrameKeeps, LiveMoves, MotionKeeps DEF Kept, Changes
<1> HIDE DEF x, takes, v, w
<1>4. CASE ~takes
  <2>1. web' = [w EXCEPT !.poll = Idle]
    BY <1>1, <1>4
  <2>2. Kept(w, web')
    BY <2>1 DEF Kept, Changes, Lasting
  <2>3. Kept(web, web') /\ Kept(tui, tui')
    BY <1>1, <1>3, <2>2, KeptTwice DEF Kept, Changes
  <2>4. lost' <=> lost
    BY <1>1, <1>4
  <2>5. view' = view /\ now' \in Int
    BY <1>1 DEF Agreeing, Stamped
  <2> QED
    BY <2>3, <2>4, <2>5, MovingKeeps
<1>5. CASE takes
  <2>1. /\ {"took", "last", "jobs"} \subseteq DOMAIN web'
        /\ web'.took = x /\ web'.last = x.stamp /\ web'.jobs = web.jobs
    BY <1>1, <1>2, <1>5
  <2>2. Stamped'
    BY <1>1, <2>1 DEF Agreeing, Stamped
  <2>3. ASSUME Winning, x = view PROVE Winning'
    BY <1>1, <2>1, <2>3 DEF Winning, Agreeing, Stamped
  <2> QED
    BY <1>1, <1>5, <2>2, <2>3 DEF Agreeing
<1> QED
  BY <1>4, <1>5

LEMMA AgreeingStep == ASSUME Agreeing, [Next]_vars PROVE Agreeing'
<1>1. Kept(tui, tui) /\ Kept(web, web) /\ now \in Int
  BY DEF Kept, Changes, Agreeing, Stamped
<1>2. ASSUME Tick \/ Grows \/ Tears \/ UNCHANGED vars PROVE Agreeing'
  <2>1. tui' = tui /\ web' = web /\ view' = view /\ lost' = lost /\ now' \in Int
    BY <1>1, <1>2 DEF Tick, Grows, Tears, vars
  <2> QED
    BY <1>1, <2>1, MovingKeeps
<1>3. ASSUME NEW k \in Keys, TerminalKey(k) PROVE Agreeing'
  <2>1. on_input(handle_key(tui, k)) /\ web' = web /\ now' = now
    BY <1>3 DEF TerminalKey
  <2> QED
    BY <2>1, KeyMoves, MotionKeeps, TerminalWrites
<1>4. ASSUME TerminalScrubs PROVE Agreeing'
  <2>1. on_input([tui EXCEPT !.scrub = TRUE]) /\ web' = web /\ now' = now
    BY <1>4 DEF TerminalScrubs
  <2>2. Kept(tui, [tui EXCEPT !.scrub = TRUE])
    BY DEF Kept, Changes, Lasting
  <2> QED
    BY <2>1, <2>2, TerminalWrites
<1>5. ASSUME TerminalFrameSeeks \/ TerminalTails \/ TerminalPlays PROVE Agreeing'
  <2>1. web' = web /\ view' = view /\ lost' = lost /\ now' = now
    BY <1>5 DEF TerminalFrameSeeks, TerminalTails, TerminalPlays
  <2>2. \A v : Kept(v, [v EXCEPT !.scrub = FALSE])
    BY DEF Kept, Changes, Lasting
  <2>3. CASE TerminalFrameSeeks
    <3> DEFINE v == Moved(tui, seek_to_fraction(tui, 0, 1))
    <3>1. Kept(tui, v)
      BY FractionMoves, MotionKeeps, FrameKeeps
    <3>2. tui' = [v EXCEPT !.scrub = FALSE]
      BY <2>3 DEF TerminalFrameSeeks
    <3> HIDE DEF v
    <3> QED
      BY <1>1, <2>1, <2>2, <3>1, <3>2, KeptTwice, MovingKeeps
  <2>4. CASE TerminalTails \/ TerminalPlays
    <3>1. Kept(tui, tui')
      BY <2>4, FrameKeeps, AdvanceMoves, MotionKeeps DEF TerminalTails, TerminalPlays
    <3> QED
      BY <1>1, <2>1, <3>1, MovingKeeps
  <2> QED
    BY <1>5, <2>3, <2>4
<1>6. ASSUME NEW v, Kept(web, v), web' = Asks(v), tui' = tui, view' = view, lost' = lost, now' = now
      PROVE  Agreeing'
  <2> DEFINE u == Shown(Moved(web, v))
  <2>1. Kept(web, u)
    BY <1>6, FrameKeeps, KeptTwice
  <2>2. web' = [u EXCEPT !.asked = @ + 1]
    BY <1>6 DEF Asks
  <2> HIDE DEF u
  <2>3. Kept(u, web')
    BY <2>2 DEF Kept, Changes, Lasting
  <2> QED
    BY <1>1, <1>6, <2>1, <2>3, KeptTwice, MovingKeeps
<1>7. ASSUME NEW k \in Keys, WebKey(k) PROVE Agreeing'
  <2>1. /\ web' = Asks(handle_key(web, k)) /\ tui' = tui /\ view' = view /\ lost' = lost
        /\ now' = now
    BY <1>7 DEF WebKey
  <2> QED
    BY <1>6, <2>1, KeyMoves, MotionKeeps
<1>8. ASSUME NEW s, selectEvent(s) PROVE Agreeing'
  <2>1. /\ web' = Asks(agent_viewer_seek_sequence(web, s)) /\ tui' = tui /\ view' = view
        /\ lost' = lost /\ now' = now
    BY <1>8 DEF selectEvent
  <2>2. Kept(web, agent_viewer_seek_sequence(web, s))
    BY FractionMoves, MotionKeeps DEF agent_viewer_seek_sequence
  <2> QED
    BY <1>6, <2>1, <2>2
<1>9. ASSUME PollReads \/ loadLocatedSession \/ refreshShell \/ WebPlays PROVE Agreeing'
  <2>1. tui' = tui /\ view' = view /\ lost' = lost /\ now' = now
    BY <1>9 DEF PollReads, loadLocatedSession, refreshShell, WebPlays
  <2>2. CASE PollReads
    <3>1. Kept(web, web')
      BY <2>2 DEF PollReads, Kept, Changes, Lasting
    <3> QED
      BY <1>1, <2>1, <3>1, MovingKeeps
  <2>3. CASE loadLocatedSession
    <3> DEFINE v == Loaded(web, web.poll.n)
               u == [v EXCEPT !.poll.phase = "view", !.from = NoView]
    <3>1. Kept(web, v)
      BY FrameKeeps
    <3>2. web' = IF web.poll.torn THEN [web EXCEPT !.on = FALSE, !.poll = Idle] ELSE Shown(u)
      BY <2>3 DEF loadLocatedSession
    <3> HIDE DEF v
    <3>3. Kept(v, u)
      BY DEF Kept, Changes, Lasting
    <3> HIDE DEF u
    <3>4. Kept(web, Shown(u))
      BY <3>1, <3>3, FrameKeeps, KeptTwice
    <3>5. Kept(web, [web EXCEPT !.on = FALSE, !.poll = Idle])
      BY DEF Kept, Changes, Lasting
    <3> QED
      BY <1>1, <2>1, <3>2, <3>4, <3>5, MovingKeeps
  <2>4. CASE refreshShell \/ WebPlays
    <3>1. Kept(web, web')
      BY <2>4, FrameKeeps, AdvanceMoves, MotionKeeps DEF refreshShell, WebPlays
    <3> QED
      BY <1>1, <2>1, <3>1, MovingKeeps
  <2> QED
    BY <1>9, <2>2, <2>3, <2>4
<1>10. ASSUME Terminal PROVE Agreeing'
  BY <1>3, <1>4, <1>5, <1>10, TerminalTakes DEF Terminal
<1>11. ASSUME Browser PROVE Agreeing'
  BY <1>7, <1>8, <1>9, <1>11, BrowserCaptures, BrowserWrites, BrowserTakes DEF Browser
<1> QED
  BY <1>2, <1>10, <1>11 DEF Next

LEMMA AgreeingInit == ASSUME Init PROVE Agreeing
<1>1. /\ view = NoView /\ now = 1 /\ ~lost
      /\ {"took", "written", "applied"} \subseteq DOMAIN tui
      /\ {"took", "last", "jobs"} \subseteq DOMAIN web
      /\ tui.written = Never /\ tui.applied = Never /\ web.last = 0 /\ web.jobs = {}
  BY DEF Init
<1> QED
  BY <1>1 DEF Agreeing, Stamped, Winning, NoView, Never

(* Once neither side would take the sidecar on the disk, both have: the     *)
(* last write wins, for every session, however the acts, the polls, the     *)
(* writes and the reloads of the two processes fall, unless two of them     *)
(* have one stamp or a poll applied what was overwritten meanwhile.         *)
THEOREM LastWriteWins == Spec => []Converged
<1>1. Init => Agreeing
  BY AgreeingInit
<1>2. Agreeing /\ [Next]_vars => Agreeing'
  BY AgreeingStep
<1>3. Agreeing => Converged
  BY DEF Agreeing, Stamped, Winning, Converged, Quiet, should_apply, shouldApplyRemoteView
<1> QED
  BY <1>1, <1>2, <1>3, PTL DEF Spec

----------------------------------------------------------------------------
(* Positions and timelines.                                                 *)

LEMMA LeastOf ==
  ASSUME NEW S, S \subseteq Nat, S # {}
  PROVE  Min(S) \in S /\ \A j \in S : Min(S) <= j
<1> DEFINE Less == {p \in Nat \X Nat : p[1] < p[2]}
<1>1. IsWellFoundedOn(Less, Nat)
  BY NatLessThanWellFounded DEF OpToRel
<1> HIDE DEF Less
<1>2. PICK x \in S : \A y \in S : ~(<<y, x>> \in Less)
  BY <1>1, WFMin
<1>3. ASSUME NEW j \in S PROVE x <= j
  <2>1. ~(<<j, x>> \in Less) /\ j \in Nat /\ x \in Nat
    BY <1>2
  <2> QED
    BY <2>1 DEF Less
<1> QED
  BY <1>3 DEF Min

LEMMA GreatestOf ==
  ASSUME NEW n_ \in Nat, NEW S, S \subseteq 0..n_, S # {}
  PROVE  Max(S) \in S /\ \A j \in S : Max(S) >= j
<1> DEFINE Below == {n_ - i : i \in S}
<1>1. \A i \in S : i \in Nat /\ n_ - i \in Nat
  OBVIOUS
<1>2. Min(Below) \in Below /\ \A j \in Below : Min(Below) <= j
  <2>1. Below \subseteq Nat /\ Below # {}
    BY <1>1
  <2> HIDE DEF Below
  <2> QED
    BY <2>1, LeastOf
<1>3. PICK x \in S : Min(Below) = n_ - x
  BY <1>2
<1>4. ASSUME NEW j \in S PROVE x >= j
  <2>1. n_ - x <= n_ - j
    BY <1>2, <1>3
  <2> QED
    BY <1>1, <2>1
<1> QED
  BY <1>4 DEF Max

(* A timeline: items that are events, from 0, or sidecars; an event last.   *)
Line(t) == /\ t \in Seq(Nat \cup {Side}) /\ t # <<>> /\ t[Len(t)] # Side
           /\ ToSet(t) \ {Side} = 0..t[Len(t)]

LEMMA LineParts ==
  ASSUME NEW t, Line(t)
  PROVE  /\ Len(t) \in Nat /\ Len(t) \in 1..Len(t) /\ DOMAIN t = 1..Len(t) /\ t[Len(t)] \in Nat
         /\ \A i \in 1..Len(t) : t[i] # Side => t[i] \in 0..t[Len(t)]
         /\ \A s : s \in 0..t[Len(t)] <=> s \in ToSet(t) /\ s # Side
         /\ \A s \in ToSet(t) : Place(t, s) \in 1..Len(t) /\ t[Place(t, s)] = s
<1>1. Len(t) \in Nat /\ Len(t) # 0 /\ DOMAIN t = 1..Len(t)
      /\ \A i \in 1..Len(t) : t[i] \in Nat \cup {Side}
  BY DEF Line
<1>2. Len(t) \in 1..Len(t)
  BY <1>1
<1>3. t[Len(t)] \in Nat
  BY <1>1, <1>2 DEF Line
<1>4. ToSet(t) = {t[i] : i \in 1..Len(t)}
  BY <1>1 DEF ToSet
<1>5. \A i \in 1..Len(t) : t[i] # Side => t[i] \in 0..t[Len(t)]
  BY <1>4 DEF Line
<1>6. \A s : s \in 0..t[Len(t)] <=> s \in ToSet(t) /\ s # Side
  BY DEF Line
<1>7. \A s \in ToSet(t) : Place(t, s) \in 1..Len(t) /\ t[Place(t, s)] = s
  BY <1>1, <1>4 DEF Place
<1> QED
  BY <1>1, <1>2, <1>3, <1>5, <1>6, <1>7

(* The first event at a position or after it.                               *)
LEMMA NextEvent ==
  ASSUME NEW t, Line(t), NEW p \in 1..Len(t)
  PROVE  LET i == CHOOSE i \in p..Len(t) : t[i] # Side /\ \A j \in p..(i - 1) : t[j] = Side
         IN  i \in p..Len(t) /\ t[i] # Side /\ (t[p] # Side => i = p)
<1> DEFINE Next_(i) == t[i] # Side /\ \A j \in p..(i - 1) : t[j] = Side
           S == {i \in p..Len(t) : t[i] # Side}
<1>1. Len(t) \in Nat /\ p \in Nat /\ p..Len(t) \subseteq 1..Len(t) /\ Len(t) \in p..Len(t)
      /\ t[Len(t)] # Side
  BY LineParts DEF Line
<1>2. Min(S) \in S /\ \A j \in S : Min(S) <= j
  <2>1. S \subseteq Nat /\ S # {}
    BY <1>1
  <2> HIDE DEF S
  <2> QED
    BY <2>1, LeastOf
<1>3. \E i \in p..Len(t) : Next_(i)
  <2>1. Min(S) \in p..Len(t) /\ t[Min(S)] # Side
    BY <1>2
  <2>2. ASSUME NEW j \in p..(Min(S) - 1) PROVE t[j] = Side
    <3>1. j \in p..Len(t) /\ ~(Min(S) <= j)
      BY <1>1, <2>1
    <3> QED
      BY <1>2, <3>1
  <2> QED
    BY <2>1, <2>2
<1> DEFINE i == CHOOSE i \in p..Len(t) : Next_(i)
<1>4. i \in p..Len(t) /\ Next_(i)
  BY <1>3
<1>5. t[p] # Side => i = p
  <2> HIDE DEF i
  <2> SUFFICES ASSUME t[p] # Side, i # p PROVE FALSE
    OBVIOUS
  <2>1. p \in p..(i - 1)
    BY <1>1, <1>4
  <2> QED
    BY <1>4, <2>1
<1> QED
  BY <1>4, <1>5

LEMMA FloorPlace == ASSUME NEW t, Line(t) PROVE floor(t) \in 1..Len(t)
<1> DEFINE S == {i \in 1..Len(t) : t[i] # Side}
<1>1. /\ DOMAIN t = 1..Len(t) /\ Len(t) \in Nat /\ Len(t) \in 1..Len(t) /\ t[Len(t)] # Side
  BY LineParts DEF Line
<1>2. Min(S) \in S /\ \A j \in S : Min(S) <= j
  <2>1. S \subseteq Nat /\ S # {}
    BY <1>1
  <2> HIDE DEF S
  <2> QED
    BY <2>1, LeastOf
<1>3. \A j \in 1..(Min(S) - 1) : t[j] = Side
  <2> SUFFICES ASSUME NEW j \in 1..(Min(S) - 1) PROVE t[j] = Side
    OBVIOUS
  <2>1. Min(S) \in 1..Len(t)
    BY <1>2
  <2>2. j \in 1..Len(t) /\ ~(Min(S) <= j)
    BY <1>1, <2>1
  <2> QED
    BY <1>2, <2>2
<1>4. \E i \in DOMAIN t : t[i] # Side /\ \A j \in 1..(i - 1) : t[j] = Side
  BY <1>1, <1>2, <1>3
<1> QED
  BY <1>1, <1>4 DEF floor

(* A place, spread over as many steps as there are, is found again.         *)
LEMMA RoundedIsExact ==
  /\ \A a \in Int : \A b \in Nat \ {0} : Rounded(a, b) \in Int
  /\ \A p \in Nat : \A d \in Nat \ {0} : Rounded(p * d, d) = p
<1>1. \A a \in Int : \A b \in Nat \ {0} : Rounded(a, b) \in Int
  BY DEF Rounded
<1>2. ASSUME NEW p \in Nat, NEW d \in Nat \ {0} PROVE Rounded(p * d, d) = p
  <2> DEFINE x == 2 * (p * d) + d
             q == 2 * d
  <2>1. p * d \in Nat /\ x \in Nat /\ q \in Nat /\ q > 0
    OBVIOUS
  <2>2. x = q * p + d /\ 0 <= d /\ d < q
    OBVIOUS
  <2> QED
    BY <2>1, <2>2 DEF Rounded
<1> QED
  BY <1>1, <1>2

LEMMA TimelineParts ==
  ASSUME Told(story), NEW k \in DOMAIN story
  PROVE  /\ Line(Timeline(k)) /\ Edge(k) = Timeline(k)[Len(Timeline(k))] /\ Edge(k) \in Nat
         /\ story[k].prompts \subseteq 0..Edge(k)
         /\ \A j \in DOMAIN story : j <= k => Edge(j) <= Edge(k)
<1> DEFINE t == story[k].items
<1>1. \A j \in DOMAIN story : /\ story[j] \in [items : Seq(Nat \cup {Side}), prompts : SUBSET Nat]
                              /\ story[j].items # <<>>
                              /\ story[j].items[Len(story[j].items)] # Side
                              /\ ToSet(story[j].items) \ {Side} = 0..story[j].items[Len(story[j].items)]
  <2> DEFINE Load == [items : Seq(Nat \cup {Side}), prompts : SUBSET Nat]
  <2>1. story \in Seq(Load)
    BY DEF Told
  <2>2. \A j \in DOMAIN story : story[j] \in Load
    <3> HIDE DEF Load
    <3> QED
      BY <2>1
  <2> QED
    BY <2>2 DEF Told
<1>2. \A j \in DOMAIN story : Line(story[j].items)
  BY <1>1 DEF Line
<1>3. Edge(k) = t[Len(t)] /\ Edge(k) \in Nat
  BY <1>2, LineParts DEF Edge, Timeline
<1>4. story[k].prompts \subseteq 0..Edge(k)
  <2>1. story[k].prompts \subseteq ToSet(t) /\ story[k].prompts \subseteq Nat
    BY <1>1 DEF Told
  <2>2. \A s : s \in 0..t[Len(t)] <=> s \in ToSet(t) /\ s # Side
    BY <1>2, LineParts
  <2>3. Side \notin Nat
    BY DEF Side
  <2> QED
    BY <1>3, <2>1, <2>2, <2>3
<1>5. ASSUME NEW j \in DOMAIN story, j <= k PROVE Edge(j) <= Edge(k)
  <2> DEFINE u == story[j].items
  <2>1. ToSet(u) \subseteq ToSet(t)
    <3>1. j \in 1..k
      BY <1>5 DEF Told
    <3> QED
      BY <3>1 DEF Told
  <2>2. /\ \A s : s \in 0..t[Len(t)] <=> s \in ToSet(t) /\ s # Side
        /\ \A s : s \in 0..u[Len(u)] <=> s \in ToSet(u) /\ s # Side
        /\ u[Len(u)] \in Nat /\ t[Len(t)] \in Nat
    BY <1>2, LineParts
  <2> HIDE DEF t, u
  <2>3. u[Len(u)] \in 0..t[Len(t)]
    <3>1. u[Len(u)] \in 0..u[Len(u)]
      BY <2>2
    <3> QED
      BY <2>1, <2>2, <3>1
  <2> QED
    BY <2>2, <2>3 DEF Edge, Timeline, t, u
<1> QED
  BY <1>2, <1>3, <1>4, <1>5 DEF Timeline

----------------------------------------------------------------------------
(* What moves a viewer leaves it on an event of its timeline.               *)

Standing(st, v) ==
  /\ {"len", "at", "follow", "paused", "from"} \subseteq DOMAIN v
  /\ v.len \in DOMAIN st /\ v.paused \in BOOLEAN
  /\ v.at \in 0..st[v.len].items[Len(st[v.len].items)]
Steady(v, w) == Changes(v, w, Motion) /\ w.at \in 0..Edge(v.len) /\ w.paused \in BOOLEAN

LEMMA StandingParts ==
  ASSUME Told(story), NEW v, Standing(story, v)
  PROVE  /\ {"len", "at", "follow", "paused", "from"} \subseteq DOMAIN v
         /\ v.len \in DOMAIN story /\ v.at \in 0..Edge(v.len) /\ v.paused \in BOOLEAN
         /\ Line(Timeline(v.len)) /\ Edge(v.len) \in Nat
         /\ Edge(v.len) = Timeline(v.len)[Len(Timeline(v.len))]
         /\ Steady(v, v)
BY TimelineParts DEF Standing, Edge, Timeline, Steady, Changes

LEMMA SteadyStands ==
  ASSUME Told(story), NEW v, Standing(story, v), NEW w, Steady(v, w)
  PROVE  Standing(story, w) /\ w.len = v.len /\ w.from = v.from
BY DEF Standing, Edge, Timeline, Steady, Changes, Motion

LEMMA SteadyTwice ==
  ASSUME Told(story), NEW u, Standing(story, u), NEW v, Steady(u, v), NEW w, Steady(v, w)
  PROVE  Steady(u, w)
<1>1. v.len = u.len
  BY SteadyStands
<1> QED
  BY <1>1 DEF Steady, Changes

LEMMA SeekRestsOn ==
  ASSUME Told(story), NEW v, Standing(story, v), NEW s \in 0..Edge(v.len)
  PROVE  Steady(v, seek(v, s)) /\ seek(v, s).at = s
<1>1. /\ "at" \in DOMAIN v /\ "follow" \in DOMAIN v /\ "paused" \in DOMAIN v
      /\ v.paused \in BOOLEAN
  BY StandingParts
<1> DEFINE a == s >= Edge(v.len)
           b == v.paused /\ s < Edge(v.len)
           w == [v EXCEPT !.at = s, !.follow = a, !.paused = b]
<1>2. seek(v, s) = w
  BY DEF seek
<1> HIDE DEF a
<1>3. b \in BOOLEAN
  BY <1>1
<1> HIDE DEF b
<1>4. w.at = s /\ w.paused = b
  BY <1>1
<1> HIDE DEF w
<1> QED
  BY <1>2, <1>3, <1>4, SeekMoves DEF Steady

LEMMA LiveRests ==
  ASSUME Told(story), NEW v, Standing(story, v)
  PROVE  Steady(v, go_live(v))
<1> DEFINE w == seek(v, Edge(v.len))
           u == [w EXCEPT !.paused = FALSE]
<1>1. Edge(v.len) \in 0..Edge(v.len)
  BY StandingParts
<1>2. Steady(v, w)
  BY <1>1, SeekRestsOn
<1>3. Standing(story, w)
  BY <1>2, SteadyStands
<1> HIDE DEF w
<1>4. "paused" \in DOMAIN w /\ "at" \in DOMAIN w
  BY <1>3, StandingParts
<1>5. u.at = w.at /\ u.paused = FALSE
  BY <1>4
<1>6. go_live(v) = u
  BY DEF go_live, w
<1> HIDE DEF u
<1> QED
  BY <1>2, <1>5, <1>6, LiveMoves DEF Steady

LEMMA PauseRests ==
  ASSUME Told(story), NEW v, Standing(story, v), NEW p \in BOOLEAN
  PROVE  /\ Steady(v, set_paused(v, p))
         /\ set_paused(v, p).at = v.at /\ set_paused(v, p).paused = p
<1>1. /\ "at" \in DOMAIN v /\ "follow" \in DOMAIN v /\ "paused" \in DOMAIN v
      /\ v.paused \in BOOLEAN /\ v.at \in 0..Edge(v.len)
  BY StandingParts
<1> DEFINE w == set_paused(v, p)
<1>2. w.at = v.at /\ w.paused = p
  <2>1. CASE p /\ v.paused
    BY <1>1, <2>1 DEF set_paused
  <2>2. CASE p /\ ~v.paused
    <3> DEFINE u == [v EXCEPT !.paused = TRUE, !.follow = FALSE]
    <3>1. u.at = v.at /\ u.paused = TRUE
      BY <1>1
    <3>2. w = u /\ p = TRUE
      BY <2>2 DEF set_paused
    <3> QED
      BY <3>1, <3>2
  <2>3. CASE ~p
    <3> DEFINE u == [v EXCEPT !.paused = FALSE, !.follow = TRUE]
    <3>1. u.at = v.at /\ u.paused = FALSE
      BY <1>1
    <3>2. w = u /\ p = FALSE
      BY <2>3 DEF set_paused
    <3> QED
      BY <3>1, <3>2
  <2> QED
    BY <2>1, <2>2, <2>3
<1> HIDE DEF w
<1> QED
  BY <1>1, <1>2, PauseMoves DEF Steady, w

LEMMA KeyRests ==
  ASSUME Told(story), NEW v, Standing(story, v), NEW k \in Keys
  PROVE  Steady(v, handle_key(v, k))
<1>1. Edge(v.len) \in Nat /\ v.paused \in BOOLEAN /\ v.len \in DOMAIN story
  BY StandingParts
<1>2. Steady(v, toggle_play_pause(v))
  <2>1. (v.follow /\ ~v.paused) \in BOOLEAN
    OBVIOUS
  <2> QED
    BY <2>1, PauseRests DEF toggle_play_pause
<1>3. ASSUME NEW forward \in BOOLEAN PROVE Steady(v, seek_prompt(v, forward))
  <2> DEFINE ps == {p \in story[v.len].prompts : IF forward THEN p > v.at ELSE p < v.at}
  <2>1. ps \subseteq 0..Edge(v.len)
    BY <1>1, TimelineParts
  <2>2. seek_prompt(v, forward) =
          IF ps # {} THEN seek(v, IF forward THEN Min(ps) ELSE Max(ps))
          ELSE IF forward THEN go_live(v) ELSE seek(v, 0)
    BY DEF seek_prompt
  <2> HIDE DEF ps
  <2>3. ps # {} => Min(ps) \in 0..Edge(v.len) /\ Max(ps) \in 0..Edge(v.len)
    <3> SUFFICES ASSUME ps # {} PROVE Min(ps) \in 0..Edge(v.len) /\ Max(ps) \in 0..Edge(v.len)
      OBVIOUS
    <3>1. Max(ps) \in ps
      BY <1>1, <2>1, GreatestOf
    <3>2. Min(ps) \in ps
      <4>1. ps \subseteq Nat
        BY <2>1
      <4> QED
        BY <4>1, LeastOf
    <3> QED
      BY <2>1, <3>1, <3>2
  <2>4. 0 \in 0..Edge(v.len)
    BY <1>1
  <2> QED
    BY <2>2, <2>3, <2>4, SeekRestsOn, LiveRests
<1>4. CASE k = "space"
  BY <1>2, <1>4 DEF handle_key
<1>5. CASE k = "back"
  BY <1>3, <1>5 DEF handle_key
<1>6. CASE k = "next"
  BY <1>3, <1>6 DEF handle_key
<1>7. CASE k = "live"
  BY LiveRests, <1>7 DEF handle_key
<1> QED
  BY <1>4, <1>5, <1>6, <1>7 DEF Keys

LEMMA AdvanceRests ==
  ASSUME Told(story), NEW v, Standing(story, v), Plays(v)
  PROVE  Steady(v, advance(v))
<1>1. /\ "at" \in DOMAIN v /\ "paused" \in DOMAIN v /\ v.paused \in BOOLEAN
      /\ v.at \in 0..Edge(v.len) /\ Edge(v.len) \in Nat
  BY StandingParts
<1> DEFINE w == [v EXCEPT !.at = @ + 1]
<1>2. w.at = v.at + 1 /\ w.paused = v.paused /\ advance(v) = w
  BY <1>1 DEF advance
<1>3. v.at + 1 \in 0..Edge(v.len)
  BY <1>1 DEF Plays
<1> HIDE DEF w
<1> QED
  BY <1>1, <1>2, <1>3, AdvanceMoves DEF Steady

(* The scrubber finds an event, wherever it is dragged.                     *)
LEMMA FractionRests ==
  ASSUME Told(story), NEW v, Standing(story, v), NEW num \in Nat, NEW den \in Nat \ {0}
  PROVE  /\ Steady(v, seek_to_fraction(v, num, den))
         /\ \A p \in 1..Len(Timeline(v.len)) :
              /\ Framed(v.len) /\ Timeline(v.len)[p] # Side
              /\ Rounded(num * (Len(Timeline(v.len)) - 1), den) = p - 1
              => seek_to_fraction(v, num, den).at = Timeline(v.len)[p]
<1> DEFINE t == Timeline(v.len)
           reach == Len(t) - floor(t)
           x == floor(t) + Rounded(num * reach, den)
           target == Clamped(x, 1, Len(t))
           i == CHOOSE i \in target..Len(t) : t[i] # Side /\ \A j \in target..(i - 1) : t[j] = Side
           a == target >= Len(t)
           b == v.paused /\ ~a
           w == [v EXCEPT !.at = t[i], !.follow = a, !.paused = b]
<1>1. /\ "at" \in DOMAIN v /\ "follow" \in DOMAIN v /\ "paused" \in DOMAIN v
      /\ v.paused \in BOOLEAN /\ Line(t) /\ Edge(v.len) = t[Len(t)]
  BY StandingParts
<1>2. seek_to_fraction(v, num, den) = w
  BY DEF seek_to_fraction
<1>3. Len(t) \in Nat /\ Len(t) \in 1..Len(t) /\ floor(t) \in 1..Len(t)
  BY <1>1, LineParts, FloorPlace
<1>4. x \in Int
  <2>1. reach \in Int
    BY <1>3
  <2> HIDE DEF reach
  <2>2. num * reach \in Int
    BY <2>1
  <2>3. Rounded(num * reach, den) \in Int
    BY <2>2, RoundedIsExact
  <2> QED
    BY <1>3, <2>3
<1>5. target \in 1..Len(t)
  <2> HIDE DEF x
  <2> QED
    BY <1>3, <1>4 DEF Clamped
<1>6. i \in target..Len(t) /\ t[i] # Side /\ (t[target] # Side => i = target)
  <2> HIDE DEF target, t
  <2> QED
    BY <1>1, <1>5, NextEvent
<1>7. t[i] \in 0..Edge(v.len)
  <2>1. i \in 1..Len(t)
    <3> HIDE DEF i, target
    <3> QED
      BY <1>3, <1>5, <1>6
  <2> HIDE DEF i, t
  <2> QED
    BY <1>1, <1>6, <2>1, LineParts
<1>8. ASSUME NEW p \in 1..Len(t), Framed(v.len), t[p] # Side,
             Rounded(num * (Len(t) - 1), den) = p - 1
      PROVE  t[i] = t[p]
  <2>1. floor(t) = 1
    BY <1>8 DEF Framed
  <2>2. reach = Len(t) - 1
    BY <2>1
  <2>3. x = 1 + (p - 1)
    BY <1>8, <2>1, <2>2
  <2>4. x = p
    BY <1>3, <2>3
  <2>5. target = p
    <3> HIDE DEF x
    <3> QED
      BY <1>3, <2>4 DEF Clamped
  <2> HIDE DEF i, target
  <2> QED
    BY <1>6, <1>8, <2>5
<1> HIDE DEF i, a, t
<1>9. w.at = t[i] /\ w.paused = b /\ b \in BOOLEAN
  BY <1>1
<1> HIDE DEF w
<1>10. Steady(v, seek_to_fraction(v, num, den))
  BY <1>2, <1>7, <1>9, FractionMoves DEF Steady
<1> QED
  BY <1>2, <1>8, <1>9, <1>10 DEF t

(* An event by its place in the manifest or the timeline.                   *)
LEMMA PlaceRests ==
  ASSUME Told(story), NEW v, Standing(story, v), NEW m \in DOMAIN story, NEW s
  PROVE  LET f == fraction_for_playhead(v, m, s)
             w == seek_to_fraction(v, f[1], f[2])
         IN  /\ Steady(v, w)
             /\ m = v.len /\ Framed(v.len) /\ Knows(v.len, s) /\ s # Side => w.at = s
<1> DEFINE f == fraction_for_playhead(v, m, s)
           w == seek_to_fraction(v, f[1], f[2])
           within(t) == IF Len(t) = 1 THEN <<0, 1>> ELSE <<Place(t, s) - 1, Len(t) - 1>>
           own == Timeline(v.len)
           known == Timeline(m)
<1>1. Line(known) /\ Line(own)
  BY StandingParts, TimelineParts
<1>2. ASSUME NEW t, Line(t), s \in ToSet(t)
      PROVE  /\ within(t)[1] \in Nat /\ within(t)[2] \in Nat \ {0}
             /\ Place(t, s) \in 1..Len(t) /\ t[Place(t, s)] = s
             /\ Rounded(within(t)[1] * (Len(t) - 1), within(t)[2]) = Place(t, s) - 1
  <2>1. /\ Len(t) \in Nat /\ Len(t) \in 1..Len(t)
        /\ Place(t, s) \in 1..Len(t) /\ t[Place(t, s)] = s
    BY <1>2, LineParts
  <2>2. CASE Len(t) = 1
    <3>1. within(t)[1] = 0 /\ within(t)[2] = 1
      BY <2>2
    <3>2. Place(t, s) = 1
      BY <2>1, <2>2
    <3>3. Rounded(0 * 1, 1) = 0
      BY RoundedIsExact
    <3> HIDE DEF within
    <3> QED
      BY <2>1, <2>2, <3>1, <3>2, <3>3
  <2>3. CASE Len(t) # 1
    <3>1. within(t)[1] = Place(t, s) - 1 /\ within(t)[2] = Len(t) - 1
      BY <2>3
    <3>2. Place(t, s) - 1 \in Nat /\ Len(t) - 1 \in Nat \ {0}
      BY <2>1, <2>3
    <3>3. Rounded((Place(t, s) - 1) * (Len(t) - 1), Len(t) - 1) = Place(t, s) - 1
      BY <3>2, RoundedIsExact
    <3> HIDE DEF within
    <3> QED
      BY <2>1, <3>1, <3>2, <3>3
  <2> QED
    BY <2>2, <2>3
<1>3. f = IF s \in ToSet(known) THEN within(known)
          ELSE IF s \in ToSet(own) THEN within(own) ELSE <<1, 1>>
  BY DEF fraction_for_playhead
<1> HIDE DEF within, known, own
<1>4. f[1] \in Nat /\ f[2] \in Nat \ {0}
  <2>1. s \in ToSet(known) => f[1] \in Nat /\ f[2] \in Nat \ {0}
    BY <1>1, <1>2, <1>3
  <2>2. s \notin ToSet(known) /\ s \in ToSet(own) => f[1] \in Nat /\ f[2] \in Nat \ {0}
    BY <1>1, <1>2, <1>3
  <2>3. s \notin ToSet(known) /\ s \notin ToSet(own) => f[1] = 1 /\ f[2] = 1
    BY <1>3
  <2> QED
    BY <2>1, <2>2, <2>3
<1> HIDE DEF f
<1>5. Steady(v, w)
  BY <1>4, FractionRests
<1>6. ASSUME m = v.len, Framed(v.len), Knows(v.len, s), s # Side PROVE w.at = s
  <2>1. s \in ToSet(own) /\ known = own
    BY <1>6 DEF Knows, own, known
  <2>2. f = within(own)
    BY <1>3, <2>1
  <2>3. /\ Place(own, s) \in 1..Len(own) /\ own[Place(own, s)] = s
        /\ Rounded(f[1] * (Len(own) - 1), f[2]) = Place(own, s) - 1
    BY <1>1, <1>2, <2>1, <2>2
  <2> QED
    BY <1>4, <1>6, <2>3, FractionRests DEF own
<1> QED
  BY <1>5, <1>6 DEF f

LEMMA ApplyRests ==
  ASSUME Told(story), NEW v, Standing(story, v), NEW m \in DOMAIN story,
         NEW x, x.playhead \in Nat, x.paused \in BOOLEAN
  PROVE  /\ Steady(v, apply(v, m, x)) /\ apply(v, m, x).paused = x.paused
         /\ m = v.len /\ Framed(v.len) /\ Knows(v.len, x.playhead) =>
              apply(v, m, x).at = x.playhead
<1> DEFINE f == fraction_for_playhead(v, m, x.playhead)
           w == seek_to_fraction(v, f[1], f[2])
<1>1. x.playhead # Side
  BY DEF Side
<1>2. /\ Steady(v, w)
      /\ m = v.len /\ Framed(v.len) /\ Knows(v.len, x.playhead) => w.at = x.playhead
  BY <1>1, PlaceRests
<1>3. apply(v, m, x) = set_paused(w, x.paused)
  BY DEF apply
<1> HIDE DEF w
<1>4. Standing(story, w)
  BY <1>2, SteadyStands
<1>5. /\ Steady(w, set_paused(w, x.paused))
      /\ set_paused(w, x.paused).at = w.at /\ set_paused(w, x.paused).paused = x.paused
  BY <1>4, PauseRests
<1> QED
  BY <1>2, <1>3, <1>5, SteadyTwice

(* What is captured is an event, and the one the viewer is on when its      *)
(* manifest is that of what it holds.                                       *)
LEMMA CaptureRests ==
  ASSUME Told(story), NEW v, Standing(story, v), NEW m \in DOMAIN story
  PROVE  /\ playhead_sequence(v, m) \in Nat
         /\ m = v.len => playhead_sequence(v, m) = v.at
<1> DEFINE known == Timeline(m)
           own == Timeline(v.len)
           at(i) == IF i <= Len(known) /\ known[i] # Side THEN known[i] ELSE own[i]
           q == Place(own, v.at)
           idx == {i \in 1..q : at(i) # Side}
<1>1. playhead_sequence(v, m) = IF idx = {} THEN 0 ELSE at(Max(idx))
  BY DEF playhead_sequence
<1>2. Line(known) /\ Line(own) /\ v.at \in 0..own[Len(own)]
  BY StandingParts, TimelineParts
<1> HIDE DEF known, own
<1>3. /\ v.at \in ToSet(own) /\ v.at # Side
      /\ Len(known) \in Nat /\ Len(own) \in Nat
      /\ \A i \in 1..Len(known) : known[i] # Side => known[i] \in Nat
      /\ \A i \in 1..Len(own) : own[i] # Side => own[i] \in Nat
  BY <1>2, LineParts
<1>4. q \in 1..Len(own) /\ own[q] = v.at
  BY <1>2, <1>3, LineParts
<1>5. \A i \in 1..q : at(i) # Side => at(i) \in Nat
  BY <1>3, <1>4
<1>6. idx \subseteq 1..q /\ q \in Nat /\ q \in 1..q
  BY <1>3, <1>4
<1>7. idx # {} => Max(idx) \in idx /\ \A j \in idx : Max(idx) >= j
  <2>1. idx \subseteq 0..q
    BY <1>6
  <2> HIDE DEF idx, q
  <2> QED
    BY <1>6, <2>1, GreatestOf
<1>8. playhead_sequence(v, m) \in Nat
  <2>1. idx # {} => at(Max(idx)) \in Nat
    BY <1>5, <1>7
  <2> QED
    BY <1>1, <2>1
<1>9. ASSUME m = v.len PROVE playhead_sequence(v, m) = v.at
  <2>1. known = own
    BY <1>9 DEF known, own
  <2>2. at(q) = v.at
    BY <1>4, <2>1
  <2>3. q \in idx
    <3>1. at(q) # Side
      BY <1>3, <2>2
    <3> HIDE DEF at, q
    <3> QED
      BY <1>6, <3>1
  <2>4. Max(idx) \in 1..q /\ Max(idx) >= q
    BY <1>6, <1>7, <2>3
  <2>5. Max(idx) = q
    <3> HIDE DEF idx, q
    <3> QED
      BY <1>6, <2>4
  <2> QED
    BY <1>1, <2>2, <2>3, <2>5
<1> QED
  BY <1>8, <1>9

----------------------------------------------------------------------------
(* Who rests where a sidecar put it, rests on that sidecar's event and      *)
(* plays or pauses as it says, if manifest and timeline agree.              *)

Sidecars == [playhead : Nat, paused : BOOLEAN, stamp : Nat, writer : {"none", "tui", "web"}]
Polls == [phase : {"idle", "load", "view"}, n : Nat, torn : BOOLEAN, changed : BOOLEAN,
          view : Sidecars]

Rests(st, v, m) ==
  /\ v.from # NoView /\ m = v.len
  /\ floor(st[v.len].items) = 1 /\ v.from.playhead \in ToSet(st[v.len].items)
  => v.at = v.from.playhead /\ v.paused = v.from.paused

Seated(st, v, m) == Standing(st, v) /\ v.from \in Sidecars /\ Rests(st, v, m)

(* The terminal's manifest is that of its launch, or of an earlier load     *)
(* than what it holds; the browser's is that of what it holds.              *)
TerminalSeat(st, v) ==
  /\ Seated(st, v, v.launch)
  /\ "launch" \in DOMAIN v /\ v.launch \in DOMAIN st /\ v.launch <= v.len
BrowserSeat(st, v) ==
  /\ Seated(st, v, v.len)
  /\ {"sel", "poll", "jobs"} \subseteq DOMAIN v
  /\ v.sel \in Nat /\ v.jobs \subseteq Sidecars /\ v.poll \in Polls
  /\ v.poll.phase = "load" => v.poll.n \in DOMAIN st

Resting ==
  /\ Told(story) /\ n \in DOMAIN story /\ torn \in BOOLEAN /\ now \in Nat /\ view \in Sidecars
  /\ TerminalSeat(story, tui) /\ BrowserSeat(story, web)

Seat == {"len", "at", "follow", "paused", "from"}

LEMMA SameSeat ==
  ASSUME NEW st, NEW v, NEW m, Seated(st, v, m), NEW w, NEW F, Changes(v, w, F),
         \A f \in Seat : f \notin F
  PROVE  Seated(st, w, m) /\ w.len = v.len
<1>1. /\ Seat \subseteq DOMAIN v /\ DOMAIN w = DOMAIN v
      /\ w.len = v.len /\ w.at = v.at /\ w.follow = v.follow /\ w.paused = v.paused
      /\ w.from = v.from
  BY DEF Seated, Standing, Seat, Changes
<1> QED
  BY <1>1 DEF Seated, Standing, Rests, Seat

(* A viewer that moves by itself, by an operation that leaves it on an      *)
(* event.                                                                   *)
LEMMA MovedSits ==
  ASSUME Told(story), NEW v, NEW m, Seated(story, v, m), NEW w, Steady(v, w)
  PROVE  /\ Seated(story, Moved(v, w), m)
         /\ Changes(v, Moved(v, w), Motion \cup {"from"})
<1>1. Standing(story, v) /\ v.from \in Sidecars /\ Rests(story, v, m)
  BY DEF Seated
<1>2. Standing(story, w) /\ w.len = v.len /\ w.from = v.from
  BY <1>1, SteadyStands
<1>3. DOMAIN w = DOMAIN v /\ Changes(v, w, Motion)
  BY DEF Steady, Changes
<1> DEFINE same == <<v.at, v.paused>> = <<w.at, w.paused>>
           y == IF same THEN w.from ELSE NoView
           u == [w EXCEPT !.from = y]
<1>4. Moved(v, w) = u
  BY DEF Moved
<1>5. y \in Sidecars
  BY <1>1, <1>2 DEF NoView, Sidecars
<1>6. y # NoView => same /\ y = v.from
  BY <1>2
<1>7. same => v.at = w.at /\ v.paused = w.paused
  OBVIOUS
<1> HIDE DEF same, y
<1>8. /\ DOMAIN u = DOMAIN w /\ u.from = y
      /\ u.len = w.len /\ u.at = w.at /\ u.paused = w.paused
  BY <1>2 DEF Standing
<1>9. Changes(w, u, {"from"})
  BY DEF Changes
<1> HIDE DEF u
<1>10. Standing(story, u)
  BY <1>2, <1>8 DEF Standing
<1>11. Rests(story, u, m)
  BY <1>1, <1>2, <1>6, <1>7, <1>8 DEF Rests
<1>12. Changes(v, u, Motion \cup {"from"})
  BY <1>3, <1>9 DEF Changes
<1> QED
  BY <1>4, <1>5, <1>8, <1>10, <1>11, <1>12 DEF Seated

(* A viewer that a sidecar has just put somewhere.                          *)
LEMMA PutSits ==
  ASSUME Told(story), NEW v, Standing(story, v), NEW m, NEW x \in Sidecars,
         NEW w, Changes(v, w, DOMAIN v \ {"len", "at", "follow", "paused"}), w.from = x,
         m = v.len /\ Framed(v.len) /\ Knows(v.len, x.playhead)
           => v.at = x.playhead /\ v.paused = x.paused
  PROVE  Seated(story, w, m) /\ w.len = v.len
<1>1. /\ DOMAIN w = DOMAIN v /\ Seat \subseteq DOMAIN v
      /\ w.len = v.len /\ w.at = v.at /\ w.follow = v.follow /\ w.paused = v.paused
  BY DEF Changes, Standing, Seat
<1>2. Standing(story, w)
  BY <1>1 DEF Standing, Seat
<1>3. Rests(story, w, m)
  BY <1>1 DEF Rests, Framed, Knows, Timeline
<1> QED
  BY <1>1, <1>2, <1>3 DEF Seated

LEMMA TerminalSits ==
  ASSUME NEW st, NEW v, TerminalSeat(st, v), NEW w, NEW F, Changes(v, w, F), "launch" \notin F,
         Seated(st, w, v.launch), v.launch <= w.len
  PROVE  TerminalSeat(st, w)
BY DEF TerminalSeat, Changes

LEMMA BrowserSits ==
  ASSUME NEW st, NEW v, BrowserSeat(st, v), NEW w, NEW F, Changes(v, w, F),
         {"poll", "jobs"} \cap F = {}, Seated(st, w, w.len), w.sel \in Nat
  PROVE  BrowserSeat(st, w)
BY DEF BrowserSeat, Changes

(* The terminal's operator acts: what is written is where it rests.         *)
LEMMA TerminalRests ==
  ASSUME Resting, NEW v, Steady(tui, v) \/ v = [tui EXCEPT !.scrub = TRUE], on_input(v),
         UNCHANGED <<story, n, torn, web, now>>
  PROVE  Resting'
<1> DEFINE F == Motion \cup {"scrub"}
<1>1. Told(story) /\ TerminalSeat(story, tui) /\ Seated(story, tui, tui.launch)
      /\ Standing(story, tui) /\ now \in Nat
  BY DEF Resting, TerminalSeat, Seated
<1>2. Standing(story, v) /\ Changes(tui, v, F) /\ v.len = tui.len
  <2>1. CASE Steady(tui, v)
    <3>1. Changes(tui, v, Motion)
      BY <2>1 DEF Steady
    <3> QED
      BY <1>1, <2>1, <3>1, SteadyStands DEF Changes
  <2>2. CASE v = [tui EXCEPT !.scrub = TRUE]
    <3>1. Changes(tui, v, {"scrub"})
      BY <2>2 DEF Changes
    <3>2. \A f \in Seat : f \notin {"scrub"}
      BY DEF Seat
    <3> QED
      BY <1>1, <3>1, <3>2, SameSeat DEF Seated, Changes
  <2> QED
    BY <2>1, <2>2
<1>3. "launch" \in DOMAIN v /\ v.launch = tui.launch /\ v.launch \in DOMAIN story
      /\ v.launch <= v.len
  BY <1>1, <1>2 DEF Changes, Motion, TerminalSeat
<1> DEFINE x == capture(v, v.launch, "tui")
<1>4. /\ x.playhead \in Nat /\ x \in Sidecars
      /\ v.launch = v.len => x.playhead = v.at
      /\ x.paused = v.paused
  <2>1. playhead_sequence(v, v.launch) \in Nat
        /\ (v.launch = v.len => playhead_sequence(v, v.launch) = v.at)
    BY <1>1, <1>2, <1>3, CaptureRests
  <2>2. v.paused \in BOOLEAN
    BY <1>2 DEF Standing
  <2> QED
    BY <1>1, <2>1, <2>2 DEF capture, Sidecars
<1>5. view' = x /\ tui' = [v EXCEPT !.written = now, !.from = x, !.took = x]
  BY DEF on_input
<1> HIDE DEF x
<1> DEFINE w == [v EXCEPT !.written = now, !.from = x, !.took = x]
<1>6. Changes(v, w, {"written", "from", "took"}) /\ w.from = x
  BY <1>2 DEF Changes, Standing
<1> HIDE DEF w
<1>7. Changes(v, w, DOMAIN v \ {"len", "at", "follow", "paused"})
  BY <1>6 DEF Changes
<1>8. Seated(story, w, v.launch) /\ w.len = v.len
  BY <1>1, <1>2, <1>4, <1>6, <1>7, PutSits
<1>9. TerminalSeat(story, w)
  <2>1. Changes(tui, w, F \cup {"written", "from", "took"})
    BY <1>2, <1>6 DEF Changes
  <2>2. "launch" \notin F \cup {"written", "from", "took"}
    BY DEF Motion
  <2> HIDE DEF F
  <2> QED
    BY <1>1, <1>3, <1>8, <2>1, <2>2, TerminalSits
<1>10. tui' = w
  BY <1>5 DEF w
<1> QED
  BY <1>4, <1>5, <1>9, <1>10 DEF Resting

(* The terminal moves by itself.                                            *)
LEMMA TerminalMovesOn ==
  ASSUME Resting, NEW v, Steady(tui, v),
         NEW w, w = Moved(tui, v) \/ w = [Moved(tui, v) EXCEPT !.scrub = FALSE]
  PROVE  TerminalSeat(story, w)
<1> DEFINE u == Moved(tui, v)
           F == Motion \cup {"from"}
           G == F \cup {"scrub"}
<1>1. Told(story) /\ TerminalSeat(story, tui) /\ Seated(story, tui, tui.launch)
  BY DEF Resting, TerminalSeat
<1>2. Seated(story, u, tui.launch) /\ Changes(tui, u, F)
  BY <1>1, MovedSits
<1>3. Standing(story, v) /\ v.len = tui.len
  BY <1>1, SteadyStands DEF Seated
<1>4. u.len = tui.len /\ tui.launch <= tui.len
  BY <1>1, <1>2 DEF Changes, Motion, TerminalSeat, Seated, Standing
<1> HIDE DEF u
<1>5. Seated(story, w, tui.launch) /\ w.len = u.len /\ Changes(tui, w, G)
  <2>1. CASE w = u
    BY <1>2, <2>1 DEF Changes
  <2>2. CASE w = [u EXCEPT !.scrub = FALSE]
    <3>1. Changes(u, w, {"scrub"})
      BY <2>2 DEF Changes
    <3>2. \A f \in Seat : f \notin {"scrub"}
      BY DEF Seat
    <3>3. Changes(tui, w, G)
      BY <1>2, <3>1 DEF Changes
    <3> QED
      BY <1>2, <3>1, <3>2, <3>3, SameSeat
  <2> QED
    BY <2>1, <2>2 DEF u
<1>6. "launch" \notin G
  BY DEF Motion
<1> HIDE DEF G
<1> QED
  BY <1>1, <1>4, <1>5, <1>6, TerminalSits

(* The terminal takes what the browser wrote.                               *)
LEMMA TerminalApplies == ASSUME Resting, on_frame PROVE TerminalSeat(story, tui')
<1> DEFINE v == apply(tui, tui.launch, view)
           w == [v EXCEPT !.applied = view.stamp, !.from = view, !.took = view]
           F == Motion \cup {"applied", "from", "took"}
<1>1. /\ Told(story) /\ TerminalSeat(story, tui) /\ Standing(story, tui)
      /\ tui.launch \in DOMAIN story /\ tui.launch <= tui.len /\ view \in Sidecars
  BY DEF Resting, TerminalSeat, Seated
<1>2. view.playhead \in Nat /\ view.paused \in BOOLEAN
  BY <1>1 DEF Sidecars
<1>3. /\ Steady(tui, v) /\ v.paused = view.paused
      /\ tui.launch = tui.len /\ Framed(tui.len) /\ Knows(tui.len, view.playhead) =>
           v.at = view.playhead
  BY <1>1, <1>2, ApplyRests
<1>4. tui' = w
  BY DEF on_frame, Applied
<1> HIDE DEF v
<1>5. Standing(story, v) /\ v.len = tui.len
  BY <1>1, <1>3, SteadyStands
<1>6. Changes(v, w, {"applied", "from", "took"}) /\ w.from = view
  BY <1>5 DEF Changes, Standing
<1> HIDE DEF w
<1>7. Changes(v, w, DOMAIN v \ {"len", "at", "follow", "paused"})
  BY <1>6 DEF Changes
<1>8. Seated(story, w, tui.launch) /\ w.len = v.len
  BY <1>1, <1>3, <1>5, <1>6, <1>7, PutSits
<1>9. Changes(tui, w, F) /\ "launch" \notin F
  BY <1>3, <1>6 DEF Changes, Steady, Motion
<1> HIDE DEF F
<1> QED
  BY <1>1, <1>4, <1>5, <1>8, <1>9, TerminalSits

(* The terminal reads more of the file: its manifest falls behind.          *)
LEMMA TerminalReads == ASSUME Resting, TerminalTails PROVE TerminalSeat(story, tui')
<1> DEFINE a == IF tui.follow /\ tui.at >= Edge(tui.len) THEN Edge(n) ELSE tui.at
           v == [tui EXCEPT !.len = n, !.at = a]
           same == <<tui.at, tui.paused>> = <<v.at, v.paused>>
           y == IF same THEN v.from ELSE NoView
           w == [v EXCEPT !.from = y]
<1>1. /\ Told(story) /\ TerminalSeat(story, tui) /\ Standing(story, tui)
      /\ tui.from \in Sidecars /\ n \in DOMAIN story
      /\ tui.launch \in DOMAIN story /\ tui.launch <= tui.len
  BY DEF Resting, TerminalSeat, Seated
<1>2. tui' = w /\ tui.len < n
  BY DEF TerminalTails, Moved, append_live
<1>3. /\ tui.len \in DOMAIN story /\ tui.at \in 0..Edge(tui.len)
      /\ Edge(tui.len) \in Nat /\ Edge(n) \in Nat /\ DOMAIN story \subseteq Nat
  <2>1. DOMAIN story = 1..Len(story) /\ Len(story) \in Nat
    BY <1>1 DEF Told
  <2> QED
    BY <1>1, <2>1, StandingParts, TimelineParts
<1>4. Edge(tui.len) <= Edge(n)
  <2>1. tui.len <= n
    BY <1>1, <1>2, <1>3
  <2> QED
    BY <1>1, <1>3, <2>1, TimelineParts
<1>5. a \in 0..Edge(n)
  BY <1>3, <1>4
<1> HIDE DEF a
<1>6. DOMAIN v = DOMAIN tui /\ v.len = n /\ v.at = a /\ v.paused = tui.paused /\ v.from = tui.from
      /\ Changes(tui, v, {"len", "at"})
  BY <1>1 DEF Standing, Changes
<1> HIDE DEF v
<1>7. y \in Sidecars
  BY <1>1, <1>6 DEF NoView, Sidecars
<1> HIDE DEF y
<1>8. DOMAIN w = DOMAIN tui /\ w.len = n /\ w.at = a /\ w.paused = tui.paused /\ w.from = y
      /\ Changes(tui, w, {"len", "at", "from"})
  BY <1>1, <1>6 DEF Standing, Changes
<1> HIDE DEF w
<1>9. Standing(story, w)
  BY <1>1, <1>5, <1>8 DEF Standing, Edge, Timeline
<1>10. tui.launch # w.len /\ tui.launch <= w.len
  BY <1>1, <1>2, <1>3, <1>8
<1>11. Seated(story, w, tui.launch)
  BY <1>7, <1>8, <1>9, <1>10 DEF Seated, Rests
<1> QED
  BY <1>1, <1>2, <1>8, <1>10, <1>11, TerminalSits

(* The browser moves by itself.                                             *)
LEMMA BrowserMovesOn ==
  ASSUME Resting, NEW v, Steady(web, v) PROVE BrowserSeat(story, Moved(web, v))
<1> DEFINE u == Moved(web, v)
           F == Motion \cup {"from"}
<1>1. Told(story) /\ BrowserSeat(story, web) /\ Seated(story, web, web.len)
  BY DEF Resting, BrowserSeat
<1>2. Seated(story, u, web.len) /\ Changes(web, u, F)
  BY <1>1, MovedSits
<1> HIDE DEF u
<1>3. u.len = web.len /\ u.sel = web.sel /\ web.sel \in Nat
  BY <1>1, <1>2 DEF Changes, Motion, BrowserSeat, Seated, Standing
<1>4. {"poll", "jobs"} \cap F = {}
  BY DEF Motion
<1> HIDE DEF F
<1> QED
  BY <1>1, <1>2, <1>3, <1>4, BrowserSits DEF u

(* The shell re-reads the playhead, asks for a write, polls.                *)
LEMMA BrowserShows ==
  ASSUME Told(story), NEW v, BrowserSeat(story, v)
  PROVE  BrowserSeat(story, Shown(v)) /\ BrowserSeat(story, [v EXCEPT !.asked = @ + 1])
<1>1. Seated(story, v, v.len) /\ Standing(story, v) /\ v.sel \in Nat
  BY DEF BrowserSeat, Seated
<1>2. v.at \in Nat
  BY <1>1, StandingParts
<1>3. BrowserSeat(story, Shown(v))
  <2> DEFINE w == [v EXCEPT !.sel = v.at]
  <2>1. Changes(v, w, {"sel"}) /\ w.sel = v.at
    BY DEF Changes, BrowserSeat
  <2>2. Seated(story, w, v.len) /\ w.len = v.len
    BY <1>1, <2>1, SameSeat DEF Seat
  <2>3. Shown(v) = w
    BY DEF Shown
  <2> HIDE DEF w
  <2> QED
    BY <1>2, <2>1, <2>2, <2>3, BrowserSits
<1>4. BrowserSeat(story, [v EXCEPT !.asked = @ + 1])
  <2> DEFINE w == [v EXCEPT !.asked = @ + 1]
  <2>1. Changes(v, w, {"asked"}) /\ w.sel = v.sel
    BY DEF Changes, BrowserSeat
  <2> HIDE DEF w
  <2>2. Seated(story, w, v.len) /\ w.len = v.len
    BY <1>1, <2>1, SameSeat DEF Seat
  <2>3. BrowserSeat(story, w)
    BY <1>1, <2>1, <2>2, BrowserSits
  <2> QED
    BY <2>3 DEF w
<1> QED
  BY <1>3, <1>4

LEMMA BrowserPolls ==
  ASSUME NEW st, NEW v, BrowserSeat(st, v), NEW q \in Polls,
         q.phase = "load" => q.n \in DOMAIN st,
         NEW w, Changes(v, w, {"poll", "on"}), w.poll = q
  PROVE  BrowserSeat(st, w)
<1>1. Seated(st, v, v.len)
  BY DEF BrowserSeat
<1>2. Seated(st, w, v.len) /\ w.len = v.len
  BY <1>1, SameSeat DEF Seat
<1>3. {"sel", "poll", "jobs"} \subseteq DOMAIN w /\ w.sel = v.sel /\ w.jobs = v.jobs
  BY DEF BrowserSeat, Changes
<1> QED
  BY <1>2, <1>3 DEF BrowserSeat

LEMMA IdleIsAPoll == Idle \in Polls /\ Idle.phase # "load" /\ NoView \in Sidecars
BY DEF Idle, Polls, NoView, Sidecars

(* The browser captures a write: it rests on it if the shell knew where it  *)
(* was.                                                                     *)
LEMMA BrowserCapturesIt == ASSUME Resting, WriteCaptures PROVE BrowserSeat(story, web')
<1> DEFINE x == [playhead |-> web.sel, paused |-> web.paused, stamp |-> now, writer |-> "web"]
           y == IF web.sel = web.at THEN x ELSE NoView
           w == [web EXCEPT !.asked = @ - 1, !.jobs = @ \cup {x}, !.from = y]
<1>1. /\ BrowserSeat(story, web) /\ Seated(story, web, web.len) /\ Standing(story, web)
      /\ web.sel \in Nat /\ web.paused \in BOOLEAN /\ now \in Nat
  BY DEF Resting, BrowserSeat, Seated, Standing
<1>2. web' = w
  BY DEF WriteCaptures
<1>3. x \in Sidecars
  BY <1>1 DEF Sidecars
<1>4. x.playhead = web.sel /\ x.paused = web.paused
  OBVIOUS
<1> HIDE DEF x
<1>5. y \in Sidecars /\ (y # NoView => y.playhead = web.at /\ y.paused = web.paused)
  BY <1>3, <1>4, IdleIsAPoll
<1> HIDE DEF y
<1>6. /\ Seat \subseteq DOMAIN web /\ {"sel", "poll", "jobs"} \subseteq DOMAIN web
      /\ DOMAIN w = DOMAIN web
      /\ w.len = web.len /\ w.at = web.at /\ w.follow = web.follow /\ w.paused = web.paused
      /\ w.from = y /\ w.sel = web.sel /\ w.poll = web.poll /\ w.jobs = web.jobs \cup {x}
  BY <1>1 DEF BrowserSeat, Standing, Seat
<1> HIDE DEF w
<1>7. Standing(story, w) /\ Rests(story, w, w.len)
  BY <1>1, <1>5, <1>6 DEF Standing, Rests
<1> QED
  BY <1>1, <1>2, <1>3, <1>5, <1>6, <1>7 DEF BrowserSeat, Seated

LEMMA BrowserWritesIt ==
  ASSUME Resting, NEW x \in web.jobs, WriteLands(x)
  PROVE  BrowserSeat(story, web') /\ view' \in Sidecars
<1> DEFINE w == [web EXCEPT !.jobs = @ \ {x}, !.last = x.stamp, !.took = x]
<1>1. BrowserSeat(story, web) /\ Seated(story, web, web.len)
  BY DEF Resting, BrowserSeat
<1>2. web' = w /\ view' = x
  BY DEF WriteLands
<1>3. Changes(web, w, {"jobs", "last", "took"}) /\ w.jobs = web.jobs \ {x}
  BY <1>1 DEF BrowserSeat, Changes
<1> HIDE DEF w
<1>4. Seated(story, w, web.len) /\ w.len = web.len
  BY <1>1, <1>3, SameSeat DEF Seat
<1>5. {"sel", "poll", "jobs"} \subseteq DOMAIN w /\ w.sel = web.sel /\ w.poll = web.poll
  BY <1>1, <1>3 DEF BrowserSeat, Changes
<1> QED
  BY <1>1, <1>2, <1>3, <1>4, <1>5 DEF BrowserSeat

(* A load shows the transcript anew, at its edge.                           *)
LEMMA BrowserLoads == ASSUME Resting, loadLocatedSession PROVE BrowserSeat(story, web')
<1> DEFINE k == web.poll.n
           q == [web.poll EXCEPT !.phase = "view"]
           l == Loaded(web, k)
           v == [l EXCEPT !.poll = q, !.from = NoView]
<1>1. /\ BrowserSeat(story, web) /\ Standing(story, web) /\ Told(story)
      /\ web.poll.phase = "load" /\ k \in DOMAIN story /\ web.poll \in Polls
  BY DEF Resting, BrowserSeat, Seated, loadLocatedSession
<1>2. ASSUME web.poll.torn PROVE BrowserSeat(story, web')
  <2>1. web' = [web EXCEPT !.on = FALSE, !.poll = Idle]
    BY <1>2 DEF loadLocatedSession
  <2>2. Changes(web, web', {"poll", "on"}) /\ web'.poll = Idle
    BY <1>1, <2>1 DEF Changes, BrowserSeat
  <2> QED
    BY <1>1, <2>2, IdleIsAPoll, BrowserPolls
<1>3. ASSUME ~web.poll.torn PROVE BrowserSeat(story, web')
  <2>1. /\ {"len", "at", "follow", "paused", "from", "sel", "poll", "jobs"} \subseteq DOMAIN web
        /\ web.jobs \subseteq Sidecars /\ web.sel \in Nat
    BY <1>1 DEF BrowserSeat, Standing
  <2>2. web' = Shown(v)
    <3>1. "poll" \in DOMAIN l /\ l.poll = web.poll
      BY <2>1 DEF Loaded
    <3>2. [l EXCEPT !.poll.phase = "view", !.from = NoView] = v
      BY <3>1
    <3> QED
      BY <1>3, <3>2 DEF loadLocatedSession
  <2>3. /\ DOMAIN l = DOMAIN web /\ l.len = k /\ l.at = Edge(k) /\ l.paused = FALSE
        /\ l.sel = web.sel /\ l.jobs = web.jobs
    BY <2>1 DEF Loaded
  <2> HIDE DEF l
  <2>4. q \in Polls /\ q.phase = "view"
    BY <1>1 DEF Polls
  <2> HIDE DEF q
  <2>5. /\ DOMAIN v = DOMAIN web /\ v.len = k /\ v.at = Edge(k) /\ v.paused = FALSE
        /\ v.sel = web.sel /\ v.jobs = web.jobs /\ v.from = NoView /\ v.poll = q
    BY <2>1, <2>3
  <2> HIDE DEF v
  <2>6. Edge(k) \in 0..Edge(k)
    <3>1. Edge(k) \in Nat
      BY <1>1, TimelineParts
    <3> QED
      BY <3>1
  <2>7. Standing(story, v) /\ Rests(story, v, v.len)
    BY <1>1, <2>1, <2>5, <2>6 DEF Standing, Rests, Edge, Timeline
  <2>8. BrowserSeat(story, v)
    BY <2>1, <2>4, <2>5, <2>7, IdleIsAPoll DEF BrowserSeat, Seated
  <2> QED
    BY <1>1, <2>2, <2>8, BrowserShows
<1> QED
  BY <1>2, <1>3

(* The sidecar the poll read is taken, or the edge is.                      *)
LEMMA BrowserApplies == ASSUME Resting, applyViewState PROVE BrowserSeat(story, web')
<1> DEFINE x == web.poll.view
           takes == x # NoView /\ (web.poll.changed \/ shouldApplyRemoteView(x))
           a == apply(web, web.len, x)
           v == Shown(a)
           w == [v EXCEPT !.poll = Idle, !.last = x.stamp, !.from = x, !.took = x]
           u == IF web.poll.changed THEN Moved(web, go_live(web)) ELSE web
<1>1. /\ BrowserSeat(story, web) /\ Standing(story, web) /\ Told(story)
      /\ web.poll \in Polls /\ web.len \in DOMAIN story
  BY DEF Resting, BrowserSeat, Seated, Standing
<1>2. x \in Sidecars
  BY <1>1 DEF Polls
<1>3. web' = IF takes THEN w ELSE [u EXCEPT !.poll = Idle]
  BY DEF applyViewState
<1>4. BrowserSeat(story, u)
  BY <1>1, LiveRests, BrowserMovesOn
<1>5. ASSUME ~takes PROVE BrowserSeat(story, web')
  <2>1. web' = [u EXCEPT !.poll = Idle]
    BY <1>3, <1>5
  <2> HIDE DEF u
  <2>2. Changes(u, web', {"poll", "on"}) /\ web'.poll = Idle
    BY <1>4, <2>1 DEF Changes, BrowserSeat
  <2> QED
    BY <1>4, <2>2, IdleIsAPoll, BrowserPolls
<1>6. BrowserSeat(story, w)
  <2>1. x.playhead \in Nat /\ x.paused \in BOOLEAN
    BY <1>2 DEF Sidecars
  <2> HIDE DEF x
  <2>2. /\ Steady(web, a) /\ a.paused = x.paused
        /\ Framed(web.len) /\ Knows(web.len, x.playhead) => a.at = x.playhead
    BY <1>1, <2>1, ApplyRests
  <2>3. Standing(story, a) /\ a.len = web.len
    BY <1>1, <2>2, SteadyStands
  <2>4. /\ {"sel", "poll", "jobs"} \subseteq DOMAIN a /\ a.jobs = web.jobs
        /\ web.jobs \subseteq Sidecars /\ a.at \in Nat
    <3>1. a.at \in Nat
      BY <1>1, <2>3, StandingParts
    <3>2. Changes(web, a, Motion)
      BY <2>2 DEF Steady
    <3> HIDE DEF a
    <3> QED
      BY <1>1, <3>1, <3>2 DEF BrowserSeat, Changes, Motion
  <2> HIDE DEF a
  <2>5. v = [a EXCEPT !.sel = a.at]
    BY DEF Shown
  <2> HIDE DEF v
  <2>6. /\ Changes(a, w, {"sel", "poll", "last", "from", "took"})
        /\ w.from = x /\ w.poll = Idle /\ w.sel = a.at /\ w.jobs = a.jobs
        /\ DOMAIN w = DOMAIN a
    BY <2>3, <2>4, <2>5 DEF Changes, Standing
  <2> HIDE DEF w
  <2>7. Changes(a, w, DOMAIN a \ {"len", "at", "follow", "paused"})
    BY <2>6 DEF Changes
  <2>8. Seated(story, w, a.len) /\ w.len = a.len
    BY <1>1, <1>2, <2>2, <2>3, <2>6, <2>7, PutSits DEF x
  <2> QED
    BY <2>4, <2>6, <2>8, IdleIsAPoll DEF BrowserSeat
<1> QED
  BY <1>3, <1>5, <1>6

LEMMA RestingStep == ASSUME Resting, [Next]_vars PROVE Resting'
<1>1. /\ Told(story) /\ TerminalSeat(story, tui) /\ BrowserSeat(story, web)
      /\ Standing(story, tui) /\ Standing(story, web) /\ view \in Sidecars
  BY DEF Resting, TerminalSeat, BrowserSeat, Seated
<1>2. ASSUME TerminalSeat(story, tui'), UNCHANGED <<story, n, torn, web, view, now>>
      PROVE  Resting'
  BY <1>2 DEF Resting
<1>3. ASSUME BrowserSeat(story, web'), view' \in Sidecars, UNCHANGED <<story, n, torn, tui, now>>
      PROVE  Resting'
  BY <1>3 DEF Resting
<1>4. ASSUME Tick \/ Grows \/ Tears \/ UNCHANGED vars PROVE Resting'
  <2>1. UNCHANGED <<story, tui, web, view>>
    BY <1>4 DEF Tick, Grows, Tears, vars
  <2>2. n' \in DOMAIN story /\ torn' \in BOOLEAN /\ now' \in Nat
    <3>1. /\ DOMAIN story = 1..Len(story) /\ Len(story) \in Nat
          /\ n \in DOMAIN story /\ torn \in BOOLEAN /\ now \in Nat
      BY DEF Resting, Told
    <3>2. torn' \in BOOLEAN
      BY <1>4, <3>1 DEF Tick, Grows, Tears, vars
    <3>3. n' = n \/ (n < Len(story) /\ n' = n + 1)
      BY <1>4 DEF Tick, Grows, Tears, vars
    <3>4. now' = now \/ now' = now + 1
      BY <1>4 DEF Tick, Grows, Tears, vars
    <3> QED
      BY <3>1, <3>2, <3>3, <3>4
  <2> QED
    BY <2>1, <2>2 DEF Resting
<1>5. ASSUME NEW k \in Keys, TerminalKey(k) PROVE Resting'
  <2>1. on_input(handle_key(tui, k)) /\ UNCHANGED <<story, n, torn, web, now>>
    BY <1>5 DEF TerminalKey
  <2>2. Steady(tui, handle_key(tui, k))
    BY <1>1, KeyRests
  <2> QED
    BY <2>1, <2>2, TerminalRests
<1>6. ASSUME TerminalScrubs PROVE Resting'
  BY <1>6, TerminalRests DEF TerminalScrubs
<1>7. ASSUME TerminalFrameSeeks PROVE Resting'
  <2>1. Steady(tui, seek_to_fraction(tui, 0, 1))
    BY <1>1, FractionRests
  <2>2. /\ tui' = [Moved(tui, seek_to_fraction(tui, 0, 1)) EXCEPT !.scrub = FALSE]
        /\ UNCHANGED <<story, n, torn, web, view, now>>
    BY <1>7 DEF TerminalFrameSeeks
  <2> QED
    BY <1>2, <2>1, <2>2, TerminalMovesOn
<1>8. ASSUME on_frame PROVE Resting'
  <2>1. UNCHANGED <<story, n, torn, web, view, now>>
    BY <1>8 DEF on_frame
  <2> QED
    BY <1>2, <1>8, <2>1, TerminalApplies
<1>9. ASSUME TerminalTails PROVE Resting'
  <2>1. UNCHANGED <<story, n, torn, web, view, now>>
    BY <1>9 DEF TerminalTails
  <2> QED
    BY <1>2, <1>9, <2>1, TerminalReads
<1>10. ASSUME TerminalPlays PROVE Resting'
  <2>1. /\ Plays(tui) /\ tui' = Moved(tui, advance(tui))
        /\ UNCHANGED <<story, n, torn, web, view, now>>
    BY <1>10 DEF TerminalPlays
  <2>2. Steady(tui, advance(tui))
    BY <1>1, <2>1, AdvanceRests
  <2> QED
    BY <1>2, <2>1, <2>2, TerminalMovesOn
<1>11. ASSUME NEW v, Steady(web, v), web' = Asks(v), UNCHANGED <<story, n, torn, tui, view, now>>
       PROVE  Resting'
  <2>1. BrowserSeat(story, Moved(web, v))
    BY <1>11, BrowserMovesOn
  <2>2. BrowserSeat(story, Shown(Moved(web, v)))
    BY <1>1, <2>1, BrowserShows
  <2>3. BrowserSeat(story, web')
    BY <1>1, <1>11, <2>2, BrowserShows DEF Asks
  <2> QED
    BY <1>1, <1>3, <1>11, <2>3
<1>12. ASSUME NEW k \in Keys, WebKey(k) PROVE Resting'
  <2>1. web' = Asks(handle_key(web, k)) /\ UNCHANGED <<story, n, torn, tui, view, now>>
    BY <1>12 DEF WebKey
  <2> QED
    BY <1>1, <1>11, <2>1, KeyRests
<1>13. ASSUME NEW s \in 0..Edge(web.len), selectEvent(s) PROVE Resting'
  <2>1. /\ web' = Asks(agent_viewer_seek_sequence(web, s))
        /\ UNCHANGED <<story, n, torn, tui, view, now>>
    BY <1>13 DEF selectEvent
  <2>2. web.len \in DOMAIN story
    BY <1>1 DEF Standing
  <2>3. Steady(web, agent_viewer_seek_sequence(web, s))
    BY <1>1, <2>2, PlaceRests DEF agent_viewer_seek_sequence
  <2> QED
    BY <1>11, <2>1, <2>3
<1>14. ASSUME WriteCaptures PROVE Resting'
  <2>1. UNCHANGED <<story, n, torn, tui, view, now>>
    BY <1>14 DEF WriteCaptures
  <2> QED
    BY <1>1, <1>3, <1>14, <2>1, BrowserCapturesIt
<1>15. ASSUME NEW x \in web.jobs, WriteLands(x) PROVE Resting'
  <2>1. UNCHANGED <<story, n, torn, tui, now>>
    BY <1>15 DEF WriteLands
  <2> QED
    BY <1>3, <1>15, <2>1, BrowserWritesIt
<1>16. ASSUME PollReads PROVE Resting'
  <2> DEFINE q == [phase |-> IF Changed THEN "load" ELSE "view", n |-> n,
                   torn |-> torn, changed |-> Changed, view |-> view]
             w == [web EXCEPT !.poll = q]
  <2>1. web' = w /\ UNCHANGED <<story, n, torn, tui, view, now>>
    BY <1>16 DEF PollReads
  <2>2. n \in DOMAIN story /\ n \in Nat /\ torn \in BOOLEAN
    BY DEF Resting, Told
  <2>3. Changed \in BOOLEAN
    BY <2>2 DEF Changed
  <2>4. q \in Polls /\ q.n = n
    BY <1>1, <2>2, <2>3 DEF Polls
  <2> HIDE DEF q
  <2>5. Changes(web, w, {"poll", "on"}) /\ w.poll = q
    BY <1>1 DEF Changes, BrowserSeat
  <2>6. BrowserSeat(story, w)
    BY <1>1, <2>2, <2>4, <2>5, BrowserPolls
  <2> HIDE DEF w
  <2> QED
    BY <1>1, <1>3, <2>1, <2>6
<1>17. ASSUME loadLocatedSession PROVE Resting'
  <2>1. UNCHANGED <<story, n, torn, tui, view, now>>
    BY <1>17 DEF loadLocatedSession
  <2> QED
    BY <1>1, <1>3, <1>17, <2>1, BrowserLoads
<1>18. ASSUME applyViewState PROVE Resting'
  <2>1. UNCHANGED <<story, n, torn, tui, view, now>>
    BY <1>18 DEF applyViewState
  <2> QED
    BY <1>1, <1>3, <1>18, <2>1, BrowserApplies
<1>19. ASSUME refreshShell PROVE Resting'
  <2>1. web' = Shown(web) /\ UNCHANGED <<story, n, torn, tui, view, now>>
    BY <1>19 DEF refreshShell
  <2> QED
    BY <1>1, <1>3, <2>1, BrowserShows
<1>20. ASSUME WebPlays PROVE Resting'
  <2>1. /\ Plays(web) /\ web' = Moved(web, advance(web))
        /\ UNCHANGED <<story, n, torn, tui, view, now>>
    BY <1>20 DEF WebPlays
  <2>2. Steady(web, advance(web))
    BY <1>1, <2>1, AdvanceRests
  <2> QED
    BY <1>1, <1>3, <2>1, <2>2, BrowserMovesOn
<1> QED
  BY <1>4, <1>5, <1>6, <1>7, <1>8, <1>9, <1>10, <1>12, <1>13, <1>14, <1>15, <1>16, <1>17, <1>18,
     <1>19, <1>20 DEF Next, Terminal, Browser

LEMMA RestingFromTheStart == ASSUME Init PROVE Resting
<1> PICK s \in Stories : \E k \in 1..Len(s) :
      /\ story = Shows(s) /\ n = k /\ torn = FALSE
      /\ tui = [len |-> k, at |-> Edge(k), follow |-> TRUE, paused |-> FALSE, from |-> NoView,
                took |-> NoView, written |-> Never, applied |-> Never, scrub |-> FALSE, launch |-> k]
      /\ web = [len |-> k, at |-> Edge(k), follow |-> TRUE, paused |-> FALSE, from |-> NoView,
                took |-> NoView, sel |-> Edge(k), last |-> 0, poll |-> Idle, asked |-> 0,
                jobs |-> {}, on |-> TRUE]
      /\ view = NoView /\ now = 1
  BY DEF Init
<1> PICK k \in 1..Len(s) :
      /\ story = Shows(s) /\ n = k /\ torn = FALSE
      /\ tui = [len |-> k, at |-> Edge(k), follow |-> TRUE, paused |-> FALSE, from |-> NoView,
                took |-> NoView, written |-> Never, applied |-> Never, scrub |-> FALSE, launch |-> k]
      /\ web = [len |-> k, at |-> Edge(k), follow |-> TRUE, paused |-> FALSE, from |-> NoView,
                took |-> NoView, sel |-> Edge(k), last |-> 0, poll |-> Idle, asked |-> 0,
                jobs |-> {}, on |-> TRUE]
      /\ view = NoView /\ now = 1
  OBVIOUS
<1>1. Told(story)
  BY StoriesAreTold
<1>2. k \in DOMAIN story
  BY DEF Shows
<1>3. Edge(k) \in Nat /\ k \in Nat
  <2>1. k \in Nat
    BY <1>1, <1>2 DEF Told
  <2> QED
    BY <1>1, <1>2, <2>1, TimelineParts
<1>4. Edge(k) \in 0..Edge(k)
  BY <1>3
<1>5. Standing(story, tui) /\ Standing(story, web)
  <2>1. Edge(k) = story[k].items[Len(story[k].items)]
    BY DEF Edge, Timeline
  <2> HIDE DEF Edge
  <2>2. Standing(story, tui)
    BY <1>2, <1>4, <2>1 DEF Standing
  <2>3. Standing(story, web)
    BY <1>2, <1>4, <2>1 DEF Standing
  <2> QED
    BY <2>2, <2>3
<1>6. Rests(story, tui, tui.launch) /\ Rests(story, web, web.len)
  BY DEF Rests
<1>7. TerminalSeat(story, tui)
  BY <1>2, <1>3, <1>5, <1>6, IdleIsAPoll DEF TerminalSeat, Seated
<1>8. BrowserSeat(story, web)
  BY <1>3, <1>5, <1>6, IdleIsAPoll DEF BrowserSeat, Seated
<1> QED
  BY <1>1, <1>2, <1>7, <1>8, IdleIsAPoll DEF Resting

(* Two viewers whose last move was the same sidecar rest on the same event, *)
(* and both play or both pause: for every session that loads as the ones    *)
(* there are do, whatever was read, written and taken before, however far   *)
(* the two have read.                                                       *)
THEOREM PairedRest == Spec => []Paired
<1>1. Init => Resting
  BY RestingFromTheStart
<1>2. Resting /\ [Next]_vars => Resting'
  BY RestingStep
<1>3. Resting => Paired
  BY DEF Resting, TerminalSeat, BrowserSeat, Seated, Rests, Paired, Framed, Knows, Timeline
<1> QED
  BY <1>1, <1>2, <1>3, PTL DEF Spec
=============================================================================
