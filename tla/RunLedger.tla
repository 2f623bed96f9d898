----------------------------- MODULE RunLedger -----------------------------
(***************************************************************************)
(* The run ledger's file: packages/run-ledger over the FileRunStore of     *)
(* apps/api/src/runs/store.ts.  Run versions and events share one file of  *)
(* lines; every read parses the whole file again.  What is modelled beside *)
(* the reads and the appends is what a file can do to them: a write cut    *)
(* short (the process killed, the disk full) leaves a line with no newline *)
(* and the next append continues that line.                                *)
(***************************************************************************)
EXTENDS Naturals, Sequences, SequencesExt, FiniteSets

CONSTANTS
  Runs,
  Versions,      (* versions of a run record, as far as a reader tells them *)
  Events,        (* event bodies                                            *)
  MaxSequence,   (* bound: sequences are 1..MaxSequence                     *)
  MaxLines       (* bound: appends tried                                    *)

ASSUME LedgerAssumption ==
  /\ MaxSequence \in Nat /\ MaxLines \in Nat
  /\ "none" \notin Versions \cup Events

Numbers == 1..MaxSequence

VersionLine == [kind : {"version"}, run : Runs, body : Versions]
EventLine   == [kind : {"event"}, run : Runs, sequence : Numbers, body : Events]
Line == VersionLine \cup EventLine

(* A line that JSON.parse refuses; every reader skips it.                   *)
Malformed == [kind |-> "malformed"]

VARIABLES
  file,      (* the lines of the file                                       *)
  tail,      (* how the file ends: "newline", "fragment" or "unterminated"  *)
  next,      (* next[r]: the sequence r's writer assigns next               *)
  put,       (* put[r]: the version last returned by RunLedger.put          *)
  failures,  (* writes cut short so far                                     *)
  cursor,    (* cursor[r]: the poller's high-water mark                     *)
  seen       (* seen[r]: the sequences the poller was given                 *)

vars == <<file, tail, next, put, failures, cursor, seen>>

Init ==
  /\ file = <<>> /\ tail = "newline"
  /\ next = [r \in Runs |-> 1]
  /\ put = [r \in Runs |-> "none"]
  /\ failures = 0
  /\ cursor = [r \in Runs |-> 0]
  /\ seen = [r \in Runs |-> {}]

----------------------------------------------------------------------------
(* Readers: RunLedger.versions/all/get and RunEventLedger.all.              *)

VersionsOf(lines, r) == {i \in DOMAIN lines : lines[i].kind = "version" /\ lines[i].run = r}
EventsOf(lines, r, s) ==
  {i \in DOMAIN lines : lines[i].kind = "event" /\ lines[i].run = r /\ lines[i].sequence = s}

(* The last version written is the current state.                           *)
versionIn(lines, r) ==
  LET at == VersionsOf(lines, r) IN IF at = {} THEN "none" ELSE lines[Max(at)].body

(* Defect: the last line written under a sequence wins.                     *)
eventInLatest(lines, r, s) ==
  LET at == EventsOf(lines, r, s) IN IF at = {} THEN "none" ELSE lines[Max(at)].body

(* The first one written under a sequence wins.                             *)
eventIn(lines, r, s) ==
  LET at == EventsOf(lines, r, s) IN IF at = {} THEN "none" ELSE lines[Min(at)].body

get(r) == versionIn(file, r)
eventAt(r, s) == eventIn(file, r, s)
all(r) == {s \in Numbers : eventAt(r, s) # "none"}

since(r, after) == {s \in all(r) : s > after}
highWaterMark(r) == IF all(r) = {} THEN 0 ELSE CHOOSE s \in all(r) : \A t \in all(r) : t <= s

----------------------------------------------------------------------------
(* FileRunStore.append.                                                     *)

(* Defect: once a line is broken the file is never in step again.           *)
WriteUnsynced(line) ==
  IF tail = "fragment" THEN file' = Append(file, Malformed) /\ UNCHANGED tail
  ELSE /\ file' = IF tail = "newline" THEN Append(file, line)
                  ELSE ReplaceAt(file, Len(file), Malformed)
       /\ tail' = "newline"

(* The whole line and its newline reach the file.  They continue whatever   *)
(* the file ended with.                                                     *)
Write(line) ==
  /\ file' = CASE tail = "newline"      -> Append(file, line)
               [] tail = "fragment"     -> Append(file, Malformed)
               [] tail = "unterminated" -> ReplaceAt(file, Len(file), Malformed)
  /\ tail' = "newline"

(* The write stops inside the line, or just before its newline.             *)
CutShort(line) ==
  /\ failures < MaxLines
  /\ failures' = failures + 1
  /\ \/ tail # "unterminated" /\ tail' = "fragment" /\ UNCHANGED file
     \/ tail = "unterminated" /\ tail' = "fragment" /\ file' = Front(file)
     \/ tail = "newline" /\ tail' = "unterminated" /\ file' = Append(file, line)

(* RunLedger.put: the caller is handed the record it wrote.                 *)
Put(r, v) ==
  /\ Len(file) + failures < MaxLines
  /\ Write([kind |-> "version", run |-> r, body |-> v])
  /\ put' = [put EXCEPT ![r] = v]
  /\ UNCHANGED <<next, failures, cursor, seen>>

PutFails(r, v) ==
  /\ Len(file) + failures < MaxLines
  /\ CutShort([kind |-> "version", run |-> r, body |-> v])
  /\ UNCHANGED <<next, put, cursor, seen>>

(* RunEventLedger.append.  The stream numbers densely, and numbers an event *)
(* before it is written; a restarted worker begins again at 1.              *)
Store(r, s, e) ==
  /\ Len(file) + failures < MaxLines
  /\ s = next[r]
  /\ Write([kind |-> "event", run |-> r, sequence |-> s, body |-> e])
  /\ next' = [next EXCEPT ![r] = s + 1]
  /\ UNCHANGED <<put, failures, cursor, seen>>

StoreFails(r, s, e) ==
  /\ Len(file) + failures < MaxLines
  /\ s = next[r]
  /\ CutShort([kind |-> "event", run |-> r, sequence |-> s, body |-> e])
  /\ next' = [next EXCEPT ![r] = s + 1]
  /\ UNCHANGED <<put, cursor, seen>>

WriterRestarts(r) ==
  /\ next[r] > 1
  /\ next' = [next EXCEPT ![r] = 1]
  /\ UNCHANGED <<file, tail, put, failures, cursor, seen>>

(* Defect: the poller keeps the next sequence it expects as its mark.       *)
PollPast(r) ==
  /\ get(r) # "none"
  /\ seen' = [seen EXCEPT ![r] = @ \cup since(r, cursor[r])]
  /\ cursor' = [cursor EXCEPT ![r] = highWaterMark(r) + 1]
  /\ UNCHANGED <<file, tail, next, put, failures>>

(* GET /runs/:runId/events?after=cursor, for a run the ledger knows: the    *)
(* poller is given what follows its mark and keeps the mark of the answer.  *)
Poll(r) ==
  /\ get(r) # "none"
  /\ seen' = [seen EXCEPT ![r] = @ \cup since(r, cursor[r])]
  /\ cursor' = [cursor EXCEPT ![r] = highWaterMark(r)]
  /\ UNCHANGED <<file, tail, next, put, failures>>

Next ==
  \E r \in Runs :
    \/ \E v \in Versions : Put(r, v) \/ PutFails(r, v)
    \/ \E s \in Numbers, e \in Events : Store(r, s, e) \/ StoreFails(r, s, e)
    \/ WriterRestarts(r)
    \/ Poll(r)

Spec == Init /\ [][Next]_vars

----------------------------------------------------------------------------
(* Properties.                                                              *)

(* The lines that later appends leave alone.                                *)
finished == IF tail = "unterminated" THEN Front(file) ELSE file

View == INSTANCE LedgerView
          WITH latest <- [r \in Runs |-> versionIn(finished, r)],
               stored <- [r \in Runs |-> [s \in Numbers |-> eventIn(finished, r, s)]]

(* What a line with its newline says keeps the promise made to readers,     *)
(* through duplicates, restarted writers and writes cut anywhere.           *)
ImplementsView == View!ViewSpec

(* "One corrupt append must not make every previous run unreadable": a cut  *)
(* write costs at most itself and the append after it, and while no line of *)
(* the file is broken "the current state is the last one written", the one  *)
(* put returned.                                                            *)
Broken == {i \in DOMAIN file : file[i] = Malformed}
CutCostsOneLine ==
  /\ Cardinality(Broken) <= failures
  /\ tail # "unterminated" /\ Broken = {} => \A r \in Runs : get(r) = put[r]

(* "cannot skip an event that arrived out of order": of a writer that       *)
(* numbers densely, and while no write is cut short, what is stored at or   *)
(* below a poller's mark was given to it.                                   *)
NothingSkipped ==
  failures = 0 => \A r \in Runs : {s \in all(r) : s <= cursor[r]} \subseteq seen[r]
=============================================================================
