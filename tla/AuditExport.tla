---------------------------- MODULE AuditExport ----------------------------
(***************************************************************************)
(* packages/projector/src/audit-export.ts: the evidence of a case as one   *)
(* document, and the check anyone may run on it.  Two documents have the   *)
(* same digest if and only if they are the same, so a digest is what it is *)
(* taken of.  Wording, versions and the modes a caller supplies are left   *)
(* out.                                                                    *)
(***************************************************************************)
EXTENDS Projector

(* The platform services whose decisions are listed one by one.             *)
Service(type) ==
  CASE type = "registry.version_resolved" -> "registry"
    [] type \in {"identity.allowed", "identity.denied"} -> "identity"
    [] type \in {"gateway.routed", "gateway.denied"} -> "gateway"
    [] OTHER -> "armor"
badgesOf(state, events, service) == {n \in state.badges : Service(events[n].type) = service}

(* The observable state as the digest covers it: what the prefix projects   *)
(* to, how far that is, and whether it is all there is.                     *)
hashState(events, n) ==
  [state |-> project(events, n), cursor |-> n, atEdge |-> atEdge(events, n)]

(* The export of the first n events, with its integrity manifest.           *)
buildAuditExport(events, n) ==
  LET prefix == SubSeq(events, 1, n)
      state == project(events, n)
      body == [eventCursor |-> n, atEdge |-> atEdge(events, n), observed |-> state,
               platformDecisions |->
                 [s \in {"identity", "gateway", "armor", "registry", "memory"} |->
                    badgesOf(state, events, s)],
               terminal |-> state.caseState \in {"completed", "failed", "cancelled"},
               canonicalEvents |-> prefix]
  IN [body |-> body,
      integrity |-> [streamRevision |-> prefix, stateHash |-> hashState(events, n),
                     exportDigest |-> body, eventCount |-> Len(prefix)]]

(* The problems of a document: the state is projected anew from the events  *)
(* it carries, which are then all the events there are.                     *)
verifyAuditExport(doc) ==
  LET events == doc.body.canonicalEvents
      Unless(holds, problem) == IF holds THEN {} ELSE {problem}
  IN Unless(doc.body = doc.integrity.exportDigest, "exportDigest")
     \cup Unless(events = doc.integrity.streamRevision, "streamRevision")
     \cup Unless(Len(events) = doc.integrity.eventCount, "eventCount")
     \cup Unless(hashState(events, Len(events)) = doc.integrity.stateHash, "stateHash")
=============================================================================
