--------------------------- MODULE AdkProjection ---------------------------
(***************************************************************************)
(* The session viewer's projection, as operators: what the ADK adapter     *)
(* (crates/agent-viewer-core/src/adapter/adk.rs) makes of the records of a *)
(* session file, and the renderer input the wire compiler                  *)
(* (crates/agent-viewer-core/src/wire.rs) makes of that.                   *)
(*                                                                         *)
(* A record is [key, at, author, branch, partial, invocation, parts, ends, *)
(* transfer]: its stable key (id and content digest: two records with one  *)
(* key are the same record), recorded time in milliseconds (0: none), its  *)
(* author and the names on its branch, the kinds of its parts, the terminal*)
(* facts it states and the agent it transfers to (0: none).  Agent names   *)
(* are naturals, so that they have an order; User is the author "user".    *)
(* Texts, tool names and summaries are left out.                           *)
(***************************************************************************)
EXTENDS Naturals, FiniteSets, Sequences, SequencesExt, FiniteSetsExt

Record == [key : Nat, at : Nat, author : Nat, branch : Seq(Nat), partial : BOOLEAN,
           invocation : Nat, parts : Seq({"thought", "text", "call", "result"}),
           ends : SUBSET STRING, transfer : Nat]

User     == 0
DefaultRoot == <<1>>        \* the agent "root", when nothing names one

(* The order of agent ids: names compared along the path, a parent first. *)
PathBefore(p, q) ==
  \E k \in 1..Len(q) : /\ Len(p) >= k - 1
                       /\ \A j \in 1..(k - 1) : p[j] = q[j]
                       /\ Len(p) = k - 1 \/ p[k] < q[k]

Least(paths) == CHOOSE p \in paths : \A q \in paths : p = q \/ PathBefore(p, q)

(* A set in an order that is total on it: the n-th element has n - 1 before *)
(* it.                                                                      *)
Sorted(S, before(_, _)) ==
  LET rank == [x \in S |-> Cardinality({y \in S : before(y, x)})]
  IN  [n \in 1..Cardinality(S) |-> CHOOSE x \in S : rank[x] = n - 1]

(* Author and branch name the agent; a branch that already ends in the     *)
(* author is the agent's own path.                                         *)
agent_path(e) ==
  IF e.branch # <<>> /\ Last(e.branch) = e.author THEN e.branch
  ELSE Append(e.branch, e.author)

branch_root(e) == IF e.branch = <<>> THEN {} ELSE {<<e.branch[1]>>}

(* Repeats collapse and fragments are dropped.                             *)
unique_events(file) == {e \in ToSet(file) : ~e.partial}

(* Records without a time follow the last timed one in the order of their  *)
(* keys.                                                                   *)
stamped_events(file) ==
  LET unique  == unique_events(file)
      missing == {e \in unique : e.at = 0}
      base    == Max({e.at : e \in unique} \cup {0})
  IN  {[e EXCEPT !.at = IF @ # 0 THEN @
          ELSE base + Cardinality({m \in missing : m.key <= e.key})] : e \in unique}

EventBefore(a, b) == a.at < b.at \/ (a.at = b.at /\ a.key < b.key)

prepare_events(file) == Sorted(stamped_events(file), EventBefore)

(* Agents named by authors and by the branches of user records.            *)
Named(events) ==
  {agent_path(e) : e \in {x \in events : x.author # User}}
    \cup UNION {branch_root(e) : e \in {x \in events : x.author = User}}

Prefixes1(paths) == UNION {{SubSeq(p, 1, k) : k \in 1..Len(p)} : p \in paths}

root_id(events) ==
  LET candidates == {p \in Named(events) : Len(p) = 1}
      top        == {p \in Prefixes1(Named(events)) : Len(p) = 1}
  IN  IF candidates # {} THEN Least(candidates)
      ELSE IF top # {} THEN Least(top) ELSE DefaultRoot

event_agent_id(events, e) ==
  IF e.author # User THEN agent_path(e)
  ELSE IF e.branch # <<>> THEN <<e.branch[1]>> ELSE root_id(events)

transfer_path(events, e) == Append(event_agent_id(events, e), e.transfer)

Agents(events) ==
  Prefixes1(Named(events) \cup {root_id(events)}
              \cup {transfer_path(events, e) : e \in {x \in events : x.transfer # 0}})

(* Where an agent enters: the earliest record that names it, one of its    *)
(* descendants, or a transfer to it.                                       *)
SpawnTime(events, id) ==
  Min({e.at : e \in {x \in events : \/ IsPrefix(id, event_agent_id(events, x))
                                    \/ x.transfer # 0 /\ transfer_path(events, x) = id}})

(* One spawn per agent that has a parent, emitted by the parent.           *)
declare_agents(events) ==
  {[at |-> SpawnTime(events, id), rank |-> 0, path |-> id, key |-> 0, part |-> 0,
    agent |-> Front(id), what |-> "spawn"] : id \in {p \in Agents(events) : Len(p) > 1}}

(* The lines of one record: its parts in order, reasoning left out, and at *)
(* most one terminal fact after them, an error before anything else.       *)
push_event(events, e) ==
  LET line(k, what) == [at |-> e.at, rank |-> 1, path |-> <<>>, key |-> e.key, part |-> k,
                        agent |-> event_agent_id(events, e), what |-> what]
      kind(p)  == IF p = "text" /\ e.author = User THEN "prompt" ELSE p
      terminal == IF "error" \in e.ends THEN {"failed"}
                  ELSE IF e.ends # {} THEN {"completed"} ELSE {}
  IN  {line(k, kind(e.parts[k])) : k \in {n \in DOMAIN e.parts : e.parts[n] # "thought"}}
        \cup {line(Len(e.parts) + 1, fact) : fact \in terminal}

(* Defect: at the same time, what an agent did goes before its spawn.      *)
BeforeEvidenceFirst(a, b) ==
  \/ a.at < b.at
  \/ a.at = b.at /\ a.rank > b.rank
  \/ a.at = b.at /\ a.rank = b.rank
       /\ IF a.rank = 0 THEN PathBefore(a.path, b.path)
          ELSE a.key < b.key \/ (a.key = b.key /\ a.part < b.part)

(* By time; at the same time spawns first; then by path, or key and part.  *)
Before(a, b) ==
  \/ a.at < b.at
  \/ a.at = b.at /\ a.rank < b.rank
  \/ a.at = b.at /\ a.rank = b.rank
       /\ IF a.rank = 0 THEN PathBefore(a.path, b.path)
          ELSE a.key < b.key \/ (a.key = b.key /\ a.part < b.part)

(* The session is the first invocation a record of the file names.         *)
session_id(file) ==
  LET named == {i \in DOMAIN file : file[i].invocation # 0}
  IN  IF named = {} THEN 0 ELSE file[Min(named)].invocation

(* The session: agents, and events numbered from 0 in the order shown.     *)
build(file) ==
  LET events == ToSet(prepare_events(file))
      sorted == Sorted(declare_agents(events)
                               \cup UNION {push_event(events, e) : e \in events}, Before)
  IN  [session |-> session_id(file),
       agents  |-> Agents(events),
       events  |-> [i \in DOMAIN sorted |->
                     [seq |-> i - 1, agent |-> sorted[i].agent, what |-> sorted[i].what,
                      child |-> sorted[i].path]]]

(* A file that cannot be read: a half written line, or nothing to show.    *)
Loads(file, torn) == ~torn /\ file # <<>> /\ build(file).events # <<>>

(* The root of a session: the first agent without a parent.                *)
root(agents) == Least({p \in agents : Len(p) = 1})

SeqBefore(a, b) == a.seq < b.seq

(* Spawns and terminal facts go to the main transcript, and so does what   *)
(* the root says; everything else goes to its agent's own file.            *)
compile(session) ==
  LET top       == root(session.agents)
      inMain(e) == e.what \in {"spawn", "failed", "completed"} \/ e.agent = top
      events    == ToSet(session.events)
  IN  [session |-> session.session,
       main    |-> Sorted({e \in events : inMain(e)}, SeqBefore),
       subs    |-> [a \in session.agents \ {top} |->
                     Sorted({e \in events : ~inMain(e) /\ e.agent = a}, SeqBefore)]]

Wire(file) == compile(build(file))
============================================================================
