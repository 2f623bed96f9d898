--------------------------- MODULE SceneCompiler ---------------------------
(***************************************************************************)
(* packages/scenario-compiler/src/zoetrope/adapter.ts: a canonical stream  *)
(* becomes a renderer session (one main transcript, and a meta and a       *)
(* transcript per sub-agent) and the render manifest that maps events to   *)
(* renderer entries and back.                                              *)
(*                                                                         *)
(* A slot is one emitted item: the file it goes to ("main" or an agent),   *)
(* whether it is a text, a tool use, a tool result or an agent's meta, and *)
(* the call it belongs to.  What a line says is left out; that a line is   *)
(* never earlier than the one before it is wire.ts's orderedTimestamp.     *)
(***************************************************************************)
EXTENDS Naturals, Sequences, FiniteSets

Put(f, x, v) == [y \in DOMAIN f \cup {x} |-> IF y = x THEN v ELSE f[y]]
Empty == [x \in {} |-> x]

SPAWN_TOOL == "Agent"

(* The tool chip a platform decision is drawn as.                           *)
PLATFORM_TOOL ==
  [t \in {"registry.version_resolved", "memory.written", "memory.recalled", "memory.rejected",
          "identity.allowed", "identity.denied", "gateway.routed", "gateway.denied",
          "armor.allowed", "armor.blocked", "armor.sanitized", "armor.flagged",
          "policy.evaluated", "runtime.controlled"} |->
     CASE t = "registry.version_resolved" -> "AgentRegistry.resolve"
       [] t = "memory.written" -> "MemoryBank.write"
       [] t \in {"memory.recalled", "memory.rejected"} -> "MemoryBank.recall"
       [] t \in {"identity.allowed", "identity.denied"} -> "AgentIdentity.authorize"
       [] t \in {"gateway.routed", "gateway.denied"} -> "AgentGateway.route"
       [] t = "policy.evaluated" -> "Warden.policy"
       [] t = "runtime.controlled" -> "Warden.control"
       [] OTHER -> "ModelArmor.screen"]

ErrorTypes == {"memory.rejected", "identity.denied", "gateway.denied", "armor.blocked"}

(* Defect: what the model is told from memory is not looked at.             *)
USES_INPUT_IN_TOOLS == {"tool.requested", "agent.spawned"}

USES_INPUT_AS_CONTENT ==
  {"memory.written", "memory.recalled", "tool.requested", "agent.spawned"}

Blank == [slots |-> <<>>, entries |-> <<>>, nodes |-> Empty, spawns |-> Empty,
          pending |-> Empty, blocked |-> {}, denied |-> {}, violations |-> {}]

(* Where an event's lines go: the sub-agent it names, once that is known.   *)
Node(s, e) == IF e.agent \in DOMAIN s.nodes THEN s.nodes[e.agent] ELSE "main"

Emit(s, file, item, call) ==
  [s EXCEPT !.slots = Append(@, [file |-> file, item |-> item, call |-> call])]
Text(s, e) == Emit(s, Node(s, e), "text", <<>>)

(* A tool use whose result is awaited.                                      *)
Request(s, e, call, tool, node, n) ==
  [Emit(s, Node(s, e), "use", call) EXCEPT
     !.pending = Put(@, call, [tool |-> tool, node |-> node, origin |-> n, resolved |-> FALSE])]

(* A result goes to the transcript that holds the request, if one is known. *)
Result(s, e, call) ==
  IF call \in DOMAIN s.pending
  THEN [Emit(s, s.pending[call].node, "result", call) EXCEPT !.pending[call].resolved = TRUE]
  ELSE Emit(s, Node(s, e), "result", call)

Unresolved(s, call) == call \in DOMAIN s.pending /\ ~s.pending[call].resolved
Named(e) == <<"named", e.call>>
CallOf(e, n) == IF e.call # "none" THEN Named(e) ELSE <<"call", n>>

(* The root agent is the main node.  Any other has a transcript of its own, *)
(* and is spawned by a tool use where the CHILD's lines go: in main, for an *)
(* agent seen for the first time, whoever its parent is.                    *)
Spawned(s, e, n) ==
  IF e.parent = "none"
  THEN [Text(s, e) EXCEPT !.nodes = Put(@, e.agent, "main")]
  ELSE [Request(s, e, <<"spawn", n>>, SPAWN_TOOL, "main", n) EXCEPT
          !.nodes = Put(@, e.agent, e.agent), !.spawns = Put(@, e.agent, <<"spawn", n>>)]

Started(s, e) ==
  IF Node(s, e) = "main" THEN Text(s, e)
  ELSE Emit(Emit(s, Node(s, e), "meta", <<>>), Node(s, e), "text", <<>>)

Ended(s, e) ==
  IF e.agent \in DOMAIN s.spawns /\ Unresolved(s, s.spawns[e.agent])
  THEN Result(Text(s, e), e, s.spawns[e.agent])
  ELSE Text(s, e)

(* A decision resolves the call that asked for it; any other is a chip of   *)
(* its own, which also ends the call it refuses.                            *)
Decided(s, e, n) ==
  LET tool == PLATFORM_TOOL[e.type]
      chip == Result(Request(s, e, <<"plat", n>>, tool, Node(s, e), n), e, <<"plat", n>>)
  IN IF Unresolved(s, Named(e)) /\ s.pending[Named(e)].tool = tool THEN Result(s, e, Named(e))
     ELSE IF Unresolved(s, Named(e)) /\ e.type \in ErrorTypes THEN Result(chip, e, Named(e))
     ELSE chip

Lines(s, e, n) ==
  CASE e.type \in {"case.milestone_changed", "usage.recorded"} -> s
    [] e.type = "agent.spawned" -> IF e.agent = "none" THEN s ELSE Spawned(s, e, n)
    [] e.type = "agent.started" -> Started(s, e)
    [] e.type \in {"agent.completed", "agent.failed"} -> Ended(s, e)
    [] e.type = "tool.requested" -> Request(s, e, CallOf(e, n), e.tool, Node(s, e), n)
    [] e.type \in {"tool.succeeded", "tool.failed"} -> Result(s, e, CallOf(e, n))
    [] e.type \in DOMAIN PLATFORM_TOOL -> Decided(s, e, n)
    [] OTHER -> Text(s, e)

(* The security-ordering checks.                                            *)
Misuse(s, e) ==
  \/ e.type \in USES_INPUT_AS_CONTENT /\ e.input # "none" /\ e.input \in s.blocked
  \/ e.type = "agent.spawned" /\ e.parent # "none" /\ e.capability # "none"
       /\ e.capability \in s.denied
Checked(s, e, n) ==
  [s EXCEPT !.blocked = IF e.type = "armor.blocked" THEN @ \cup ({e.input} \ {"none"}) ELSE @,
            !.denied = IF e.type = "gateway.denied" THEN @ \cup ({e.capability} \ {"none"}) ELSE @,
            !.violations = IF Misuse(s, e) THEN @ \cup {n} ELSE @]

(* Defect: an entry covers one line, whatever the event emitted.            *)
CompileOneLine(s, e, n) ==
  LET done == Checked(Lines(s, e, n), e, n)
  IN [done EXCEPT !.entries = Append(@, [start |-> Len(s.slots), count |-> 1])]

(* One event: its lines, the checks, and its manifest entry, which may be   *)
(* empty.  Starts count from 0, as the renderer's indices do.               *)
Compile(s, e, n) ==
  LET done == Checked(Lines(s, e, n), e, n)
  IN [done EXCEPT !.entries = Append(@, [start |-> Len(s.slots),
                                         count |-> Len(done.slots) - Len(s.slots)])]

(* A spawn nobody acknowledged is a violation of the whole stream.          *)
compileZoetropeScene(stream) ==
  LET Scenes[n \in 0..Len(stream)] ==
        IF n = 0 THEN Blank ELSE Compile(Scenes[n - 1], stream[n], n)
      scene == Scenes[Len(stream)]
      Unacknowledged == {c \in DOMAIN scene.pending :
                           scene.pending[c].tool = SPAWN_TOOL /\ ~scene.pending[c].resolved}
  IN [scene EXCEPT !.violations = @ \cup {scene.pending[c].origin : c \in Unacknowledged}]

(* What the files hold: one meta for each agent that has any, the           *)
(* transcript of each such agent, and main.                                 *)
Announced(scene) ==
  {scene.slots[n].file : n \in {m \in DOMAIN scene.slots : scene.slots[m].item = "meta"}}
MainLines(scene) == SelectSeq(scene.slots, LAMBDA x : x.file = "main")
Transcript(scene, agent) == SelectSeq(scene.slots, LAMBDA x : x.file = agent /\ x.item # "meta")
TimelineItems(scene) ==
  Cardinality({n \in DOMAIN scene.slots :
                 \/ scene.slots[n].file = "main"
                 \/ scene.slots[n].file \in Announced(scene) /\ scene.slots[n].item # "meta"})
  + Cardinality(Announced(scene))

----------------------------------------------------------------------------
(* render-manifest.ts: reading the map.                                     *)

rendererEntryCount(manifest) ==
  IF manifest = <<>> THEN 0
  ELSE manifest[Len(manifest)].start + manifest[Len(manifest)].count

Visible(manifest) == {n \in DOMAIN manifest : manifest[n].count > 0}

(* The last visible event of a set of them, 0 when there is none.           *)
Latest(S) == IF S = {} THEN 0 ELSE CHOOSE n \in S : \A m \in S : m <= n

manifestEntryForCaseSequence(manifest, sequence) ==
  LET Before == {n \in Visible(manifest) : n <= sequence}
  IN IF Before # {} THEN Latest(Before)
     ELSE IF Visible(manifest) = {} THEN 0
     ELSE CHOOSE n \in Visible(manifest) : \A m \in Visible(manifest) : n <= m

manifestEntryForRendererIndex(manifest, index) ==
  Latest({n \in Visible(manifest) : manifest[n].start <= index})

(* The entries whose items do not follow those before without a hole; and 0 *)
(* when together they do not account for all the items there are.           *)
validateRenderManifest(manifest, total) ==
  LET expectedNextStart(n) == IF n = 1 THEN 0 ELSE manifest[n - 1].start + manifest[n - 1].count
      Holes == {n \in DOMAIN manifest : manifest[n].start # expectedNextStart(n)}
  IN Holes \cup (IF expectedNextStart(Len(manifest) + 1) = total THEN {} ELSE {0})
=============================================================================
