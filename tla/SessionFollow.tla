--------------------------- MODULE SessionFollow ---------------------------
(***************************************************************************)
(* A terminal viewer on a growing session file: the launch of              *)
(* `fleetscope <dir>` (crates/fleetscope-cli/src/main.rs run_view), the    *)
(* watcher that re-projects the whole file at every poll and forwards the  *)
(* lines past a count (crates/fleetscope-cli/src/follow.rs), and the part  *)
(* of the vendored renderer that takes what it is sent.  The producer that *)
(* writes the file is the environment: it appends whole records, in any    *)
(* order and more than once, leaves half a line for a while, and starts    *)
(* the file over.                                                          *)
(***************************************************************************)
EXTENDS AdkProjection

CONSTANTS Records,       \* the records the producer may write
          MaxRecords,    \* bound: the longest file
          MaxRotations   \* bound: how often the file starts over

ASSUME FollowBounds == MaxRecords \in Nat /\ MaxRotations \in Nat

(* A record's key is its id and the digest of its content: records with    *)
(* the same key are the same record.                                       *)
ASSUME RecordsAreKeyed ==
  Records \subseteq Record /\ \A r, s \in Records : r.key = s.key => r = s

(* The projection of every file there can be, as a table.                  *)
Files    == UNION {[1..n -> Records] : n \in 0..MaxRecords}
Sessions == [f \in Files |-> build(f)]
Wires    == [f \in Files |-> IF f = <<>> THEN [session |-> 0, main |-> <<>>, subs |-> <<>>]
                             ELSE compile(Sessions[f])]
Heads    == [f \in Files |-> LET events == ToSet(prepare_events(f))
                             IN  [empty |-> events = {}, user |-> root_id(events),
                                  main |-> root(Agents(events)),
                                  session |-> session_id(f)]]
Readable == {f \in Files : Loads(f, FALSE)}

VARIABLES
  file,        \* the records on disk, in the order they were written
  torn,        \* the last line of the file is only half written
  rotations,   \* how often the file started over
  tui,         \* the renderer: [up, session, lines], the lines by transcript
  delivered,   \* the watcher's count: [counts, on], the counts by transcript
  seen,        \* history: the file at the last load that succeeded
  clean        \* history: nothing happened that the counts cannot tell

vars == <<file, torn, rotations, tui, delivered, seen, clean>>

(* The transcripts of a projection: main, named by no path, and one for    *)
(* each agent below the root.                                              *)
Transcripts(w) ==
  [a \in {<<>>} \cup DOMAIN w.subs |-> IF a = <<>> THEN w.main ELSE w.subs[a]]

NotStarted == [counts |-> [a \in {<<>>} |-> 0], on |-> FALSE]
Nothing    == [counts |-> [a \in {<<>>} |-> 0], on |-> TRUE]
Count(w)   == LET all == Transcripts(w)
              IN  [counts |-> [a \in DOMAIN all |-> Len(all[a])], on |-> TRUE]

Init ==
  /\ file = <<>> /\ torn = FALSE /\ rotations = 0
  /\ tui = [up |-> FALSE, session |-> 0, lines |-> [a \in {<<>>} |-> <<>>]]
  /\ delivered = NotStarted
  /\ seen = <<>> /\ clean = TRUE

-----------------------------------------------------------------------------
(* The producer.                                                           *)

(* A record that belongs after everything written so far: recorded later   *)
(* than all of it, or a repeat, or a fragment the adapter drops; and it    *)
(* names neither another root nor the session anew.                        *)
InOrder(e) ==
  \/ e \in ToSet(file) \/ e.partial
  \/ \A x \in unique_events(file) : x.at # 0 /\ x.at < e.at

SameHead(e) == Heads[file].empty \/ Heads[Append(file, e)] = Heads[file]

Appends(e) ==
  /\ Len(file) < MaxRecords
  /\ file' = Append(file, e)
  /\ torn' = FALSE
  /\ clean' = (clean /\ (~tui.up \/ (delivered.on /\ InOrder(e) /\ SameHead(e))))
  /\ UNCHANGED <<rotations, tui, delivered, seen>>

Tears ==
  /\ ~torn /\ Len(file) < MaxRecords
  /\ torn' = TRUE
  /\ clean' = (clean /\ (~tui.up \/ delivered.on))
  /\ UNCHANGED <<file, rotations, tui, delivered, seen>>

StartsOver ==
  /\ rotations < MaxRotations /\ file # <<>>
  /\ rotations' = rotations + 1
  /\ file' = <<>> /\ torn' = FALSE
  /\ clean' = (clean /\ ~tui.up)
  /\ UNCHANGED <<tui, delivered, seen>>

-----------------------------------------------------------------------------
(* The viewer.                                                             *)

(* A half written line, or a file with nothing to show, fails the load.    *)
load_ok == ~torn /\ file \in Readable

(* The renderer takes a batch only when it is about the session it shows,  *)
(* and each line to the transcript it came from.                           *)
Held(lines, a) == IF a \in DOMAIN lines THEN lines[a] ELSE <<>>
handle_batch(app, session, lines) ==
  IF app.session = session
  THEN [app EXCEPT !.lines = [a \in DOMAIN app.lines \cup DOMAIN lines |->
                                Held(app.lines, a) \o Held(lines, a)]]
  ELSE app

(* run_view: a file that does not load ends the program before it shows    *)
(* anything.                                                               *)
run_view ==
  /\ ~tui.up /\ load_ok
  /\ LET w == Wires[file]
     IN  tui' = [up |-> TRUE, session |-> w.session, lines |-> Transcripts(w)]
  /\ seen' = file
  /\ UNCHANGED <<file, torn, rotations, delivered, clean>>

(* The watcher's own load, some time later: what is on disk now counts as  *)
(* delivered, and nothing does when it cannot be read.                     *)
watch_starts ==
  /\ tui.up /\ ~delivered.on
  /\ delivered' = IF load_ok THEN Count(Wires[file]) ELSE Nothing
  /\ UNCHANGED <<file, torn, rotations, tui, seen, clean>>

tail_lines(lines, n) == SubSeq(lines, n + 1, Len(lines))

(* Defect: one count serves every transcript.                              *)
AlreadySentInMain(counts, a) == counts[<<>>]

AlreadySent(counts, a) == IF a \in DOMAIN counts THEN counts[a] ELSE 0

(* One poll of a file that loads; one that does not is reported (once) and *)
(* nothing else happens.  Fewer main lines than delivered is a rotation,   *)
(* and everything is sent anew; otherwise every transcript's lines past    *)
(* its count.                                                              *)
poll ==
  /\ delivered.on /\ load_ok
  /\ \E w \in {Wires[file]} :
       LET all    == Transcripts(w)
           shrunk == Len(w.main) < delivered.counts[<<>>]
           from   == IF shrunk THEN Nothing.counts ELSE delivered.counts
           shown  == IF shrunk
                     THEN [tui EXCEPT !.session = w.session, !.lines = [a \in {<<>>} |-> <<>>]]
                     ELSE tui
       IN  /\ tui' = handle_batch(shown, w.session,
                        [a \in DOMAIN all |-> tail_lines(all[a], AlreadySent(from, a))])
           /\ delivered' = [on |-> TRUE,
                            counts |-> [a \in DOMAIN all \cup DOMAIN from |->
                                          IF a \in DOMAIN all THEN Len(all[a]) ELSE from[a]]]
           /\ clean' = (clean \/ shrunk)
  /\ seen' = file
  /\ UNCHANGED <<file, torn, rotations>>

Producer == (\E e \in Records : Appends(e)) \/ Tears \/ StartsOver
Watcher  == watch_starts \/ poll

Next == Producer \/ run_view \/ Watcher

Spec == Init /\ [][Next]_vars

-----------------------------------------------------------------------------
(* What the viewer promises.                                               *)

(* "Only the lines past what has already been delivered are sent, so the   *)
(* renderer still receives an append stream": what the renderer holds is   *)
(* the projection of the whole file as last read, each line once and in    *)
(* its place, although every poll projects anew and sends tails by count.  *)
(* It holds as long as records are written in the order of their times and *)
(* name no other root, nothing is written between the two first loads, and *)
(* no rotation goes unnoticed.                                             *)
TailIsWhole ==
  clean /\ tui.up => LET w == Wires[seen]
                     IN  tui.session = w.session /\ tui.lines = Transcripts(w)

(* However the records arrive, no agent acts before it is spawned: every   *)
(* event of an agent with a parent comes after that agent's one spawn, and *)
(* so does the spawn of its children.                                      *)
SpawnFirst ==
  file \in Readable =>
    LET events == Sessions[file].events
    IN  \A i \in DOMAIN events :
          LET spawns == {j \in DOMAIN events : /\ events[j].what = "spawn"
                                               /\ events[j].child = events[i].agent}
          IN  Len(events[i].agent) > 1 => Cardinality(spawns) = 1 /\ \A j \in spawns : j < i
============================================================================
