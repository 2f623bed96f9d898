------------------------------ MODULE LivePage ------------------------------
(***************************************************************************)
(* The web app's live page over the run controller: features/live/         *)
(* client.ts polls the API and starts runs, features/live/state.ts derives *)
(* the view from the answers it last got.                                  *)
(*                                                                         *)
(* A tick is three requests, one after another.  A new tick begins every   *)
(* 400 ms whatever became of the last one, so several are under way and    *)
(* their answers arrive in any order.  A request is answered from the      *)
(* ledger at some moment, or never; the answer is delivered later still.   *)
(***************************************************************************)
EXTENDS RunController, FiniteSetsExt

CONSTANTS
  Slots,    (* bound: ticks under way at once                               *)
  NoId      (* no run                                                       *)

VARIABLES
  session,  (* client.ts's session object                                   *)
  ticks,    (* ticks[i]: the request a tick waits for, and its answer       *)
  start,    (* the POST /runs under way                                     *)
  view,     (* what the page shows                                          *)
  punctual  (* no tick has begun before another ended, no request was lost  *)

pageVars == <<session, ticks, start, view, punctual>>
allVars  == <<run, events, exec, worker, pipe, requests, api, crashes,
              session, ticks, start, view, punctual>>

(* A RunSnapshot and an EventsPage, or nothing.                             *)
NoSnapshot == [id |-> NoId, ended |-> FALSE, succeeded |-> FALSE]
NoPage     == [mark |-> 0, complete |-> FALSE]

Snapshot(r) == [id |-> r, ended |-> run[r].ended,
                succeeded |-> run[r].terminalResult = "succeeded"]
PageOf(r)   == [mark |-> Max(Stored(events[r]) \cup {0}), complete |-> run[r].ended]

Idle == [stage |-> "idle", about |-> NoId, answered |-> FALSE, ok |-> FALSE,
         snapshot |-> NoSnapshot, page |-> NoPage]

(* Defect: an end, however it was, is taken for success.                    *)
DerivedHopefully(s) ==
  LET finished == s.run.ended \/ s.page.complete
      Shows(state, canStart, canReplay) ==
        [state |-> state, canStart |-> canStart, canReplay |-> canReplay,
         run |-> s.run.id, mark |-> s.page.mark]
  IN CASE ~s.capability -> Shows("unavailable", FALSE, FALSE)
       [] s.capability /\ s.starting -> Shows("starting", FALSE, FALSE)
       [] s.capability /\ ~s.starting /\ s.run = NoSnapshot -> Shows("ready", TRUE, FALSE)
       [] s.capability /\ ~s.starting /\ s.run # NoSnapshot /\ finished ->
            Shows("completed", TRUE, TRUE)
       [] OTHER -> Shows("running", FALSE, FALSE)

(* deriveLive, for a deployment that may start runs.  The states between    *)
(* the first event and the end differ only in wording.                      *)
Derived(s) ==
  LET finished == s.run.ended \/ s.page.complete
      Shows(state, canStart, canReplay) ==
        [state |-> state, canStart |-> canStart, canReplay |-> canReplay,
         run |-> s.run.id, mark |-> s.page.mark]
  IN CASE ~s.capability -> Shows("unavailable", FALSE, FALSE)
       [] s.capability /\ s.starting -> Shows("starting", FALSE, FALSE)
       [] s.capability /\ ~s.starting /\ s.run = NoSnapshot -> Shows("ready", TRUE, FALSE)
       [] s.capability /\ ~s.starting /\ s.run # NoSnapshot /\ finished ->
            IF s.replaying THEN Shows("historical_replay", FALSE, TRUE)
            ELSE Shows(IF s.run.succeeded THEN "completed" ELSE "failed", TRUE, TRUE)
       [] s.capability /\ ~s.starting /\ s.run # NoSnapshot /\ ~finished ->
            Shows(IF s.page.mark = 0 THEN "awaiting_agent" ELSE "running", FALSE, FALSE)

PageInit ==
  /\ session = [capability |-> FALSE, run |-> NoSnapshot, page |-> NoPage, runId |-> NoId,
                starting |-> FALSE, replaying |-> FALSE]
  /\ ticks = [i \in Slots |-> Idle]
  /\ start = [pc |-> "idle", answer |-> NoId]
  /\ view = Derived(session)
  /\ punctual = TRUE

----------------------------------------------------------------------------
(* Requests and their answers.                                              *)

Begin(i) == ticks' = [ticks EXCEPT ![i] = [Idle EXCEPT !.stage = "capability"]]
Alone(i) == \A j \in Slots \ {i} : ticks[j] = Idle

(* The interval timer, or a click that reads everything again.              *)
TickBegins(i) ==
  /\ ticks[i] = Idle
  /\ Begin(i)
  /\ punctual' = (punctual /\ Alone(i))
  /\ UNCHANGED <<session, start, view>>

ReplayClicked(i) ==
  /\ view.canReplay
  /\ ticks[i] = Idle
  /\ Begin(i)
  /\ session' = [session EXCEPT !.replaying = TRUE]
  /\ punctual' = (punctual /\ Alone(i))
  /\ UNCHANGED <<start, view>>

Waits(i) == ticks[i] # Idle /\ ~ticks[i].answered

(* The API answers from the ledger as it is now.                            *)
Served(i) ==
  /\ api = "up"
  /\ Waits(i)
  /\ LET about == ticks[i].about
     IN ticks' = [ticks EXCEPT
          ![i].answered = TRUE, ![i].ok = TRUE,
          ![i].snapshot = IF ticks[i].stage = "run" THEN Snapshot(about) ELSE NoSnapshot,
          ![i].page = IF ticks[i].stage = "events" THEN PageOf(about) ELSE NoPage]
  /\ UNCHANGED <<session, start, view, punctual>>

(* No answer, a broken one, or an API that is down: get() returns null.     *)
Lost(i) ==
  /\ Waits(i)
  /\ ticks' = [ticks EXCEPT ![i].answered = TRUE]
  /\ punctual' = FALSE
  /\ UNCHANGED <<session, start, view>>

(* The next request names the run the session holds when it is sent.        *)
Ask(i, stage) ==
  ticks' = [ticks EXCEPT ![i] = [Idle EXCEPT !.stage = stage, !.about = session.runId]]

CapabilityArrives(i) ==
  /\ ticks[i].stage = "capability" /\ ticks[i].answered
  /\ session' = [session EXCEPT !.capability = ticks[i].ok]
  /\ IF session.runId = NoId
     THEN /\ ticks' = [ticks EXCEPT ![i] = Idle]
          /\ view' = Derived(session')
     ELSE Ask(i, "run") /\ UNCHANGED view
  /\ UNCHANGED <<start, punctual>>

(* Defect: the page is emptied until its events arrive.                     *)
RunArrivesClearing(i) ==
  /\ ticks[i].stage = "run" /\ ticks[i].answered
  /\ session' = [session EXCEPT !.run = ticks[i].snapshot, !.page = NoPage]
  /\ Ask(i, "events")
  /\ UNCHANGED <<start, view, punctual>>

RunArrives(i) ==
  /\ ticks[i].stage = "run" /\ ticks[i].answered
  /\ session' = [session EXCEPT !.run = ticks[i].snapshot]
  /\ Ask(i, "events")
  /\ UNCHANGED <<start, view, punctual>>

EventsArrive(i) ==
  /\ ticks[i].stage = "events" /\ ticks[i].answered
  /\ session' = [session EXCEPT !.page = ticks[i].page]
  /\ ticks' = [ticks EXCEPT ![i] = Idle]
  /\ view' = Derived(session')
  /\ UNCHANGED <<start, punctual>>

----------------------------------------------------------------------------
(* Starting a run.                                                          *)

StartClicked ==
  /\ view.canStart
  /\ start.pc = "idle"
  /\ start' = [pc |-> "posting", answer |-> NoId]
  /\ session' = [session EXCEPT !.starting = TRUE, !.replaying = FALSE]
  /\ view' = Derived(session')
  /\ UNCHANGED <<ticks, punctual>>

(* The controller admits the run; the answer may still be lost.             *)
PostServed(r) ==
  /\ start.pc = "posting"
  /\ StartRun(r)
  /\ start' = [pc |-> "answered", answer |-> r]
  /\ UNCHANGED <<session, ticks, view, punctual>>

(* A refusal, a lost request or a lost answer.                              *)
PostRefused ==
  /\ start.pc \in {"posting", "answered"}
  /\ start' = [pc |-> "answered", answer |-> NoId]
  /\ start' # start
  /\ UNCHANGED <<session, ticks, view, punctual>>

PostArrives(i) ==
  /\ start.pc = "answered"
  /\ ticks[i] = Idle
  /\ start' = [pc |-> "idle", answer |-> NoId]
  /\ session' = [session EXCEPT !.starting = FALSE,
                                !.runId = IF start.answer = NoId THEN @ ELSE start.answer]
  /\ Begin(i)
  /\ punctual' = (punctual /\ Alone(i))
  /\ UNCHANGED view

----------------------------------------------------------------------------
PageStep ==
  \/ \E i \in Slots : \/ TickBegins(i) \/ ReplayClicked(i) \/ Served(i) \/ Lost(i)
                      \/ CapabilityArrives(i) \/ RunArrives(i) \/ EventsArrive(i)
                      \/ PostArrives(i)
  \/ StartClicked
  \/ PostRefused

PageNext ==
  \/ ServerStep /\ UNCHANGED pageVars
  \/ PostStep /\ UNCHANGED pageVars
  \/ PageStep /\ UNCHANGED vars
  \/ \E r \in Runs : PostServed(r)

PageSpec == Init /\ PageInit /\ [][PageNext]_allVars

----------------------------------------------------------------------------
(* "The page must never be able to claim something the run did not do": a   *)
(* run is shown as completed only when the ledger says it succeeded,        *)
(* whatever mixture of old answers the view is made of.                     *)
SuccessShownIsRecorded ==
  view.state = "completed" => run[view.run].terminalResult = "succeeded"

(* As long as no tick overlaps another and no request is lost, the cursor   *)
(* of the run shown never goes back; otherwise an older page may replace a  *)
(* newer one.                                                               *)
ShownCursorAdvances ==
  [][punctual' /\ view.run # NoId /\ view'.run = view.run => view'.mark >= view.mark]_allVars
=============================================================================
