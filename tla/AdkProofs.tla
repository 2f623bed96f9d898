----------------------------- MODULE AdkProofs -----------------------------
(***************************************************************************)
(* Proofs about AdkSession, for any budget of model calls and any number   *)
(* of injected faults: what a run records is all that happened, and what   *)
(* it calls a success is evidenced.                                        *)
(***************************************************************************)
EXTENDS AdkSession, FiniteSetTheorems, SequenceTheorems, TLAPS

Truth == {"live", "controlled_fault", "unknown"}
Item == [agent : Agents, kind : Kinds, truth : Truth]

----------------------------------------------------------------------------
(* Streams.                                                                 *)

(* Where the events of P stand in a stream.                                 *)
At(s, P) == {i \in DOMAIN s : s[i] \in P}
Of(kind) == {x \in Item : x.kind = kind}
Labelled == {x \in Item : x.kind = "tool_result" /\ x.truth = "controlled_fault"}

LEMMA AtIsFinite ==
  ASSUME NEW s \in Seq(Item), NEW P
  PROVE  IsFiniteSet(At(s, P)) /\ Cardinality(At(s, P)) \in Nat
<1>1. DOMAIN s = 1..Len(s) /\ Len(s) \in Nat
  BY LenProperties
<1>2. IsFiniteSet(1..Len(s))
  BY <1>1, FS_Interval
<1>3. IsFiniteSet(At(s, P))
  BY <1>1, <1>2, FS_Subset DEF At
<1> QED
  BY <1>3, FS_CardinalityType

(* An event appended is counted where it belongs.                           *)
LEMMA AtAppended ==
  ASSUME NEW s \in Seq(Item), NEW e \in Item, NEW P
  PROVE  /\ Append(s, e) \in Seq(Item)
         /\ At(Append(s, e), P) = At(s, P) \cup (IF e \in P THEN {Len(s) + 1} ELSE {})
         /\ e \notin P => At(Append(s, e), P) = At(s, P)
         /\ Cardinality(At(Append(s, e), P))
              = Cardinality(At(s, P)) + (IF e \in P THEN 1 ELSE 0)
<1>1. /\ Append(s, e) \in Seq(Item) /\ Len(Append(s, e)) = Len(s) + 1
      /\ \A i \in 1..Len(s) : Append(s, e)[i] = s[i]
      /\ Append(s, e)[Len(s) + 1] = e
  BY AppendProperties
<1>2. /\ DOMAIN s = 1..Len(s) /\ Len(s) \in Nat /\ DOMAIN Append(s, e) = 1..(Len(s) + 1)
  BY <1>1, LenProperties
<1>3. At(Append(s, e), P) = At(s, P) \cup (IF e \in P THEN {Len(s) + 1} ELSE {})
  BY <1>1, <1>2 DEF At
<1>4. Len(s) + 1 \notin At(s, P)
  BY <1>2 DEF At
<1>5. Cardinality(At(s, P) \cup {Len(s) + 1}) = Cardinality(At(s, P)) + 1
  BY <1>4, AtIsFinite, FS_AddElement
<1>6. Cardinality(At(s, P)) \in Nat
  BY AtIsFinite
<1>7. CASE e \in P
  BY <1>1, <1>3, <1>5, <1>7
<1>8. CASE e \notin P
  BY <1>1, <1>3, <1>6, <1>8
<1> QED
  BY <1>7, <1>8

(* What absorb puts on the stream: perhaps a start, perhaps the delegation, *)
(* then the event's own record if it has one.                               *)
Opened(author) ==
  IF author \in started THEN stream ELSE Append(stream, Ev(author, "agent_start", "live"))
First(author) == author = "review" /\ ~delegated
Introduced(author) ==
  IF First(author) THEN Append(Opened(author), Ev("root", "delegation", "live"))
  ELSE Opened(author)

LEMMA EvType ==
  ASSUME NEW agent \in Agents, NEW kind \in Kinds, NEW truth \in Truth
  PROVE  Ev(agent, kind, truth) \in Item
BY DEF Ev, Item

LEMMA IntroducedType ==
  ASSUME stream \in Seq(Item), NEW author \in Agents
  PROVE  Opened(author) \in Seq(Item) /\ Introduced(author) \in Seq(Item)
<1>1. Ev(author, "agent_start", "live") \in Item /\ Ev("root", "delegation", "live") \in Item
  BY EvType DEF Kinds, Truth, Agents
<1>2. Opened(author) \in Seq(Item)
  BY <1>1, AppendProperties DEF Opened
<1> QED
  BY <1>1, <1>2, AppendProperties DEF Introduced

LEMMA AbsorbedStream ==
  ASSUME stream \in Seq(Item), NEW author \in Agents, NEW records, Absorb(author, records)
  PROVE  /\ records = <<>> => stream' = Introduced(author)
         /\ \A e \in Item : records = <<e>> => stream' = Append(Introduced(author), e)
<1>1. Ev(author, "agent_start", "live") \in Item /\ Ev("root", "delegation", "live") \in Item
  BY EvType DEF Kinds, Truth, Agents
<1>2. Opened(author) \in Seq(Item) /\ Introduced(author) \in Seq(Item)
  BY IntroducedType
<1> DEFINE start == IF author \in started THEN <<>> ELSE <<Ev(author, "agent_start", "live")>>
           first == IF First(author) THEN <<Ev("root", "delegation", "live")>> ELSE <<>>
<1>3. stream' = stream \o start \o first \o records
  BY DEF Absorb, First
<1>4. stream \o start = Opened(author)
  BY <1>1, ConcatEmptySeq, AppendIsConcat DEF Opened
<1>5. Opened(author) \o first = Introduced(author)
  BY <1>1, <1>2, ConcatEmptySeq, AppendIsConcat DEF Introduced
<1>6. stream' = Introduced(author) \o records
  BY <1>3, <1>4, <1>5
<1> HIDE DEF start, first
<1>7. records = <<>> => stream' = Introduced(author)
  BY <1>2, <1>6, ConcatEmptySeq
<1>8. ASSUME NEW e \in Item, records = <<e>> PROVE stream' = Append(Introduced(author), e)
  BY <1>2, <1>6, <1>8, AppendIsConcat
<1> QED
  BY <1>7, <1>8

(* Starts and delegations apart, an absorbed event adds its own record only.*)
LEMMA AbsorbedAt ==
  ASSUME stream \in Seq(Item), NEW author \in Agents, NEW records, Absorb(author, records),
         NEW P, \A x \in P : x.kind \notin {"agent_start", "delegation"}
  PROVE  /\ records = <<>> => stream' \in Seq(Item) /\ At(stream', P) = At(stream, P)
         /\ \A e \in Item : records = <<e>> =>
              /\ stream' \in Seq(Item)
              /\ At(stream', P) = At(stream, P)
                   \cup (IF e \in P THEN {Len(Introduced(author)) + 1} ELSE {})
              /\ Cardinality(At(stream', P))
                   = Cardinality(At(stream, P)) + (IF e \in P THEN 1 ELSE 0)
<1>1. /\ Ev(author, "agent_start", "live") \in Item \ P
      /\ Ev("root", "delegation", "live") \in Item \ P
  <2>1. Ev(author, "agent_start", "live") \in Item /\ Ev("root", "delegation", "live") \in Item
    BY EvType DEF Kinds, Truth, Agents
  <2> QED
    BY <2>1 DEF Ev
<1>2. Opened(author) \in Seq(Item) /\ Introduced(author) \in Seq(Item)
  BY IntroducedType
<1>a. \A s \in Seq(Item), e \in Item \ P : At(Append(s, e), P) = At(s, P)
  BY AtAppended
<1>3. At(Opened(author), P) = At(stream, P)
  BY <1>1, <1>a DEF Opened
<1>4. At(Introduced(author), P) = At(stream, P)
  BY <1>1, <1>2, <1>3, <1>a DEF Introduced
<1>5. CASE records = <<>>
  BY <1>2, <1>4, <1>5, AbsorbedStream
<1>6. ASSUME NEW e \in Item, records = <<e>>
      PROVE  /\ stream' \in Seq(Item)
             /\ At(stream', P) = At(stream, P)
                  \cup (IF e \in P THEN {Len(Introduced(author)) + 1} ELSE {})
             /\ Cardinality(At(stream', P))
                  = Cardinality(At(stream, P)) + (IF e \in P THEN 1 ELSE 0)
  <2>1. stream' = Append(Introduced(author), e)
    BY <1>6, AbsorbedStream
  <2> QED
    BY <1>2, <1>4, <2>1, AtAppended
<1>7. ASSUME NEW e \in Item PROVE <<>> # <<e>>
  OBVIOUS
<1> QED
  BY <1>5, <1>6, <1>7

----------------------------------------------------------------------------
(* The inductive invariant.                                                 *)

Faulted == IF attempts < FaultAttempts THEN attempts ELSE FaultAttempts
ReviewReads == {x \in Item : x.kind = "tool_result" /\ x.agent = "review"}

(* The budget counts what ADK issued, and every attempt of the tool follows *)
(* a model call of its own; an answer waits only between the tool and ADK.  *)
Paced ==
  /\ used = issued
  /\ attempts <= issued
  /\ runner \in {"answer", "transfer", "tool"} => attempts < issued
  /\ runner = "tool answered" => response # "none"
  /\ response # "none" => runner \in {"tool answered", "closed"}
  /\ response = "fault" => 1 <= attempts /\ attempts <= FaultAttempts

Counts ==
  /\ Cardinality(At(stream, Of("model_call"))) = issued
  /\ Cardinality(At(stream, Labelled)) = IF response = "fault" THEN Faulted - 1 ELSE Faulted

(* What _Translation remembers is what the stream shows.                    *)
Delegated(s) ==
  \E i \in At(s, Of("delegation")) : \A j \in At(s, ReviewReads) : i < j
Remembered ==
  /\ At(stream, Of("incident")) # {} => errored
  /\ ~delegated => At(stream, ReviewReads) = {}
  /\ delegated => Delegated(stream)

Judged == result = "succeeded" => runner = "closed" /\ delegated /\ ~errored

Inv == TypeOK /\ Paced /\ Counts /\ Remembered /\ Judged

LEMMA SetsOfItems ==
  /\ Of("model_call") \subseteq Item /\ Of("incident") \subseteq Item
  /\ Labelled \subseteq Item /\ ReviewReads \subseteq Item
  /\ \A x \in Of("model_call") \cup Of("incident") \cup Labelled \cup ReviewReads :
       x.kind \notin {"agent_start", "delegation", "run_start", "run_end", "agent_end", "tool_call"}
BY DEF Of, Labelled, ReviewReads

LEMMA StreamType == TypeOK => stream \in Seq(Item)
BY DEF TypeOK, Item, Truth

LEMMA NumbersType ==
  ASSUME AdkAssumption, TypeOK, Paced
  PROVE  /\ used \in Nat /\ issued \in Nat /\ attempts \in Nat
         /\ used = issued /\ MaxModelCalls \in Nat /\ FaultAttempts \in Nat
<1>1. used \in 0..MaxModelCalls /\ issued \in 0..MaxModelCalls /\ attempts \in 0..MaxModelCalls
  BY DEF TypeOK
<1>2. MaxModelCalls \in Nat /\ FaultAttempts \in Nat /\ used = issued
  BY DEF AdkAssumption, Paced
<1> QED
  BY <1>1, <1>2

LEMMA InvInit == ASSUME AdkAssumption, Init PROVE Inv
<1> DEFINE e == Ev("root", "run_start", "live")
<1>1. e \in Item /\ <<>> \in Seq(Item)
  BY EvType, EmptySeq DEF Agents, Kinds, Truth
<1>2. stream = Append(<<>>, e)
  BY DEF Init
<1>3. \A P : At(<<>>, P) = {}
  BY DEF At
<1>4. ASSUME NEW P, e \notin P PROVE At(stream, P) = {} /\ Cardinality(At(stream, P)) = 0
  <2> HIDE DEF e
  <2>1. At(Append(<<>>, e), P) = At(<<>>, P)
    BY <1>1, <1>4, AtAppended
  <2>2. At(stream, P) = {}
    BY <2>1, <1>2, <1>3
  <2> QED
    BY <2>2, FS_EmptySet
<1>5. e \notin Of("model_call") /\ e \notin Of("incident") /\ e \notin Labelled /\ e \notin ReviewReads
  BY DEF Of, Labelled, ReviewReads, Ev
<1>6. stream \in Seq(Item)
  BY <1>1, <1>2, AtAppended
<1>7. TypeOK
  <2>1. stream \in Seq([agent : Agents, kind : Kinds,
                       truth : {"live", "controlled_fault", "unknown"}])
    BY <1>6 DEF Item, Truth
  <2>2. 0 \in 0..MaxModelCalls
    BY DEF AdkAssumption
  <2> QED
    BY <2>1, <2>2 DEF Init, TypeOK, Agents
<1>8. Counts /\ Remembered
  BY <1>4, <1>5 DEF Init, Counts, Remembered, Faulted, AdkAssumption
<1> QED
  BY <1>7, <1>8 DEF Init, Inv, Paced, Judged

----------------------------------------------------------------------------
(* The delegation comes before every read of the delegated agent.           *)

LEMMA DelegatedAppended ==
  ASSUME NEW s \in Seq(Item), NEW e \in Item, Delegated(s)
  PROVE  Delegated(Append(s, e))
<1>1. PICK i \in At(s, Of("delegation")) : \A j \in At(s, ReviewReads) : i < j
  BY DEF Delegated
<1>2. i \in At(Append(s, e), Of("delegation"))
  BY <1>1, AtAppended
<1>3. DOMAIN s = 1..Len(s) /\ Len(s) \in Nat /\ i \in 1..Len(s)
  BY <1>1, LenProperties DEF At
<1>4. \A j \in At(Append(s, e), ReviewReads) : j \in At(s, ReviewReads) \/ j = Len(s) + 1
  BY AtAppended
<1>5. \A j \in At(Append(s, e), ReviewReads) : i < j
  BY <1>1, <1>3, <1>4
<1> QED
  BY <1>2, <1>5 DEF Delegated

LEMMA DelegationMade ==
  ASSUME NEW s \in Seq(Item), At(s, ReviewReads) = {}
  PROVE  Delegated(Append(s, Ev("root", "delegation", "live")))
<1> DEFINE e == Ev("root", "delegation", "live")
<1>1. e \in Item
  BY EvType DEF Agents, Kinds, Truth
<1>2. e \in Of("delegation") /\ e \notin ReviewReads
  BY <1>1 DEF Of, ReviewReads, Ev
<1> HIDE DEF e
<1>3. At(Append(s, e), ReviewReads) = {}
  BY <1>1, <1>2, AtAppended
<1>4. Len(s) + 1 \in At(Append(s, e), Of("delegation"))
  BY <1>1, <1>2, AtAppended
<1> QED
  BY <1>3, <1>4 DEF Delegated, e

(* What absorb leaves of the part of Remembered that concerns delegation.   *)
LEMMA AbsorbedDelegation ==
  ASSUME TypeOK, Remembered, NEW author \in Agents, NEW records, Absorb(author, records),
         records = <<>> \/ \E e \in Item : e.agent = author /\ records = <<e>>
  PROVE  /\ stream' \in Seq(Item) /\ started' \subseteq Agents /\ delegated' \in BOOLEAN
         /\ ~delegated' => At(stream', ReviewReads) = {}
         /\ delegated' => Delegated(stream')
<1>1. stream \in Seq(Item)
  BY StreamType
<1>2. Opened(author) \in Seq(Item) /\ Introduced(author) \in Seq(Item)
  BY <1>1, IntroducedType
<1> DEFINE start == Ev(author, "agent_start", "live")
<1>3. start \in Item /\ start \notin ReviewReads
  <2>1. start \in Item
    BY EvType DEF Kinds, Truth
  <2> QED
    BY <2>1 DEF Ev, ReviewReads
<1>4. /\ At(Opened(author), ReviewReads) = At(stream, ReviewReads)
      /\ Delegated(stream) => Delegated(Opened(author))
  <2> HIDE DEF start
  <2>1. CASE author \in started
    BY <2>1 DEF Opened
  <2>2. CASE author \notin started
    <3>1. Opened(author) = Append(stream, start)
      BY <2>2 DEF Opened, start
    <3> QED
      BY <1>1, <1>3, <3>1, AtAppended, DelegatedAppended
  <2> QED
    BY <2>1, <2>2
<1>5. delegated' = (delegated \/ First(author)) /\ started' = started \cup {author}
  BY DEF Absorb, First
<1>6. delegated' => Delegated(Introduced(author))
  BY <1>2, <1>4, <1>5, DelegationMade DEF Remembered, Introduced, First
<1>7. ~delegated' => author # "review" /\ At(Introduced(author), ReviewReads) = {}
  BY <1>4, <1>5 DEF Remembered, Introduced, First
<1>8. /\ started' \subseteq Agents
      /\ delegated' \in BOOLEAN
  BY <1>5 DEF TypeOK
<1>9. CASE records = <<>>
  BY <1>1, <1>2, <1>6, <1>7, <1>8, <1>9, AbsorbedStream
<1>10. ASSUME NEW e \in Item, e.agent = author, records = <<e>>
       PROVE  /\ stream' \in Seq(Item)
              /\ ~delegated' => At(stream', ReviewReads) = {}
              /\ delegated' => Delegated(stream')
  <2>1. stream' = Append(Introduced(author), e)
    BY <1>1, <1>10, AbsorbedStream
  <2>2. ~delegated' => e \notin ReviewReads
    BY <1>7, <1>10 DEF ReviewReads
  <2> QED
    BY <1>2, <1>6, <1>7, <2>1, <2>2, AtAppended, DelegatedAppended
<1> QED
  BY <1>8, <1>9, <1>10

----------------------------------------------------------------------------
(* One lemma per kind of step.                                              *)

(* The end of a run: nothing counts any more.                               *)
LEMMA CloseStep ==
  ASSUME AdkAssumption, Inv, NEW outcome \in Results, Close(outcome),
         outcome = "succeeded" => delegated /\ ~errored
  PROVE  Inv'
<1> DEFINE e == Ev("root", "run_end", IF outcome \in {"succeeded", "failed"} THEN "live" ELSE "unknown")
<1>1. stream \in Seq(Item)
  BY StreamType DEF Inv
<1>2. e \in Item
  BY EvType DEF Agents, Kinds, Truth
<1>3. /\ e \notin Of("model_call") /\ e \notin Of("incident")
      /\ e \notin Labelled /\ e \notin ReviewReads
  BY DEF Of, Labelled, ReviewReads, Ev
<1>4. /\ stream' = Append(stream, e)
      /\ result' = outcome /\ runner' = "closed"
      /\ UNCHANGED <<speaker, used, issued, attempts, response, facts,
                     started, delegated, errored, read_succeeded>>
  BY DEF Close, translation
<1> HIDE DEF e
<1>5. stream' \in Seq(Item)
  BY <1>1, <1>2, <1>4, AtAppended
<1>6. \A P : e \notin P => At(stream', P) = At(stream, P)
  BY <1>1, <1>2, <1>4, AtAppended
<1>7. TypeOK'
  BY <1>4, <1>5 DEF Inv, TypeOK, Item, Truth
<1>8. Paced' /\ Judged'
  BY <1>4 DEF Inv, Paced, Judged
<1>9. Counts'
  BY <1>3, <1>4, <1>6 DEF Inv, Counts, Faulted
<1>10. Remembered'
  BY <1>1, <1>2, <1>3, <1>4, <1>6, DelegatedAppended DEF Inv, Remembered
<1> QED
  BY <1>7, <1>8, <1>9, <1>10 DEF Inv

LEMMA AskStep == ASSUME AdkAssumption, Inv, AskModel PROVE Inv'
<1> DEFINE e == Ev(speaker, "model_call", "live")
<1>1. stream \in Seq(Item)
  BY StreamType DEF Inv
<1>2. e \in Item
  BY EvType DEF Inv, TypeOK, Kinds, Truth
<1>3. e \in Of("model_call") /\ e \notin Of("incident") /\ e \notin Labelled /\ e \notin ReviewReads
  BY <1>2 DEF Of, Labelled, ReviewReads, Ev
<1>4. /\ stream' = Append(stream, e)
      /\ runner = "model" /\ runner' = "answer" /\ used < MaxModelCalls
      /\ used' = used + 1 /\ issued' = issued + 1
      /\ UNCHANGED <<speaker, attempts, response, facts,
                     started, delegated, errored, read_succeeded, result>>
  BY DEF AskModel, translation
<1> HIDE DEF e
<1>5. stream' \in Seq(Item)
  BY <1>1, <1>2, <1>4, AtAppended
<1>6. \A P : e \notin P => At(stream', P) = At(stream, P)
  BY <1>1, <1>2, <1>4, AtAppended
<1>a. used \in Nat /\ issued \in Nat /\ attempts \in Nat /\ used = issued /\ MaxModelCalls \in Nat
  BY NumbersType DEF Inv
<1>7. TypeOK'
  <2>1. used' \in 0..MaxModelCalls /\ issued' \in 0..MaxModelCalls
    BY <1>4, <1>a
  <2> QED
    BY <1>4, <1>5, <2>1 DEF Inv, TypeOK, Item, Truth
<1>8. Paced' /\ Judged'
  BY <1>4, <1>a DEF Inv, Paced, Judged
<1>9. Counts'
  <2>1. Cardinality(At(stream', Of("model_call"))) = Cardinality(At(stream, Of("model_call"))) + 1
    BY <1>1, <1>2, <1>3, <1>4, AtAppended
  <2> QED
    BY <1>3, <1>4, <1>6, <2>1 DEF Inv, Counts, Faulted
<1>10. Remembered'
  BY <1>1, <1>2, <1>3, <1>4, <1>6, DelegatedAppended DEF Inv, Remembered
<1> QED
  BY <1>7, <1>8, <1>9, <1>10 DEF Inv

(* The reserved attempt and the tool's answer, not yielded yet.             *)
LEMMA ReadStep == ASSUME AdkAssumption, Inv, ReadMetadata PROVE Inv'
<1>1. /\ runner = "tool" /\ runner' = "tool answered" /\ response = "none"
      /\ UNCHANGED <<speaker, used, issued, started, delegated, errored, read_succeeded, stream, result>>
  BY DEF ReadMetadata, translation, Inv, Paced
<1>2. \/ response' = "failed" /\ attempts' = attempts /\ facts' = facts
      \/ /\ attempts' = attempts + 1
         /\ IF attempts' <= FaultAttempts THEN response' = "fault" ELSE response' \in {"facts", "failed"}
         /\ facts' \in BOOLEAN
  BY DEF ReadMetadata, Inv, TypeOK
<1>3. /\ used \in Nat /\ issued \in Nat /\ attempts \in Nat
      /\ used = issued /\ MaxModelCalls \in Nat /\ FaultAttempts \in Nat
  BY NumbersType DEF Inv
<1>4. attempts' \in Nat /\ attempts' <= issued /\ issued <= MaxModelCalls
  <2>1. issued \in 0..MaxModelCalls
    BY DEF Inv, TypeOK
  <2>2. attempts < issued
    BY <1>1 DEF Inv, Paced
  <2> QED
    BY <1>2, <1>3, <2>1, <2>2
<1>5. response' \in {"fault", "facts", "failed"} /\ facts' \in BOOLEAN
  BY <1>2 DEF Inv, TypeOK
<1>6. TypeOK'
  <2>1. attempts' \in 0..MaxModelCalls
    BY <1>3, <1>4
  <2> QED
    BY <1>1, <1>5, <2>1 DEF Inv, TypeOK
<1>7. Paced'
  <2>1. response' = "fault" => 1 <= attempts' /\ attempts' <= FaultAttempts
    BY <1>2, <1>3
  <2> QED
    BY <1>1, <1>3, <1>4, <1>5, <2>1 DEF Inv, Paced
<1>8. Counts'
  <2>1. Cardinality(At(stream, Labelled)) = Faulted
    BY <1>1 DEF Inv, Counts
  <2>2. (IF response' = "fault" THEN Faulted' - 1 ELSE Faulted') = Faulted
    BY <1>2, <1>3 DEF Faulted
  <2> QED
    BY <1>1, <2>1, <2>2 DEF Inv, Counts
<1>9. Remembered' /\ Judged'
  BY <1>1 DEF Inv, Remembered, Judged, Delegated
<1> QED
  BY <1>6, <1>7, <1>8, <1>9 DEF Inv

(* An event absorbed while no answer waits: words, an end, an error, a call *)
(* or the transfer.                                                         *)
LEMMA HearStep ==
  ASSUME AdkAssumption, Inv, NEW author \in Agents, NEW records, Absorb(author, records),
         response = "none", runner # "closed",
         \/ records = <<>> /\ errored' = errored
         \/ /\ errored' = errored
            /\ \E e \in Item : /\ e.agent = author /\ records = <<e>>
                               /\ e \notin Of("model_call") \cup Labelled \cup Of("incident")
         \/ errored' = TRUE /\ \E e \in Of("incident") : e.agent = author /\ records = <<e>>,
         runner' \in {"exhausted", "transfer", "tool", "model"},
         runner' \in {"transfer", "tool"} => attempts < issued,
         speaker' \in Agents, read_succeeded' \in BOOLEAN,
         UNCHANGED <<used, issued, attempts, response, facts, result>>
  PROVE  Inv'
<1>1. stream \in Seq(Item)
  BY StreamType DEF Inv
<1>2. records = <<>> \/ \E e \in Item : e.agent = author /\ records = <<e>>
  BY SetsOfItems
<1>3. /\ stream' \in Seq(Item) /\ started' \subseteq Agents /\ delegated' \in BOOLEAN
      /\ ~delegated' => At(stream', ReviewReads) = {}
      /\ delegated' => Delegated(stream')
  BY <1>2, AbsorbedDelegation DEF Inv
<1>4. ASSUME NEW P, P \subseteq Item, \A x \in P : x.kind \notin {"agent_start", "delegation"},
             \A e \in Item : records = <<e>> => e \notin P
      PROVE  At(stream', P) = At(stream, P)
  BY <1>1, <1>2, <1>4, AbsorbedAt
<1>5. At(stream', Of("model_call")) = At(stream, Of("model_call"))
  <2>1. \A e \in Of("incident") : e \notin Of("model_call")
    BY DEF Of
  <2>2. \A e, f : <<e>> = <<f>> => e = f
    OBVIOUS
  <2>3. \A e \in Item : records = <<e>> => e \notin Of("model_call")
    BY <2>1, <2>2
  <2> QED
    BY <1>4, <2>3, SetsOfItems
<1>6. At(stream', Labelled) = At(stream, Labelled)
  <2>1. \A e \in Of("incident") : e \notin Labelled
    BY DEF Of, Labelled
  <2>2. \A e, f : <<e>> = <<f>> => e = f
    OBVIOUS
  <2>3. \A e \in Item : records = <<e>> => e \notin Labelled
    BY <2>1, <2>2
  <2> QED
    BY <1>4, <2>3, SetsOfItems
<1>7. errored' \/ At(stream', Of("incident")) = At(stream, Of("incident"))
  <2>1. \A e, f : <<e>> = <<f>> => e = f
    OBVIOUS
  <2>2. errored' \/ \A e \in Item : records = <<e>> => e \notin Of("incident")
    BY <2>1
  <2> QED
    BY <1>4, <2>2, SetsOfItems
<1>8. errored' \in BOOLEAN /\ (~errored' => ~errored)
  <2>1. errored \in BOOLEAN
    BY DEF Inv, TypeOK
  <2>2. errored' = errored \/ errored' = TRUE
    OBVIOUS
  <2>3. CASE errored' = errored
    BY <2>1, <2>3
  <2>4. CASE errored' = TRUE
    BY <2>4
  <2> QED
    BY <2>2, <2>3, <2>4
<1>a. {delegated', errored', read_succeeded'} \subseteq BOOLEAN
  BY <1>3, <1>8
<1>b. stream' \in Seq([agent : Agents, kind : Kinds, truth : {"live", "controlled_fault", "unknown"}])
  BY <1>3 DEF Item, Truth
<1>9. TypeOK'
  BY <1>3, <1>a, <1>b DEF Inv, TypeOK
<1>10. Paced'
  BY DEF Inv, Paced
<1>11. Counts'
  BY <1>5, <1>6 DEF Inv, Counts, Faulted
<1>12. Remembered'
  BY <1>3, <1>7, <1>8 DEF Inv, Remembered
<1>13. Judged'
  BY DEF Inv, Judged
<1> QED
  BY <1>9, <1>10, <1>11, <1>12, <1>13 DEF Inv

(* What the model answers with is heard.                                    *)
LEMMA AnswerStep == ASSUME AdkAssumption, Inv, ModelAnswers PROVE Inv'
<1>1. /\ runner = "answer" /\ response = "none" /\ attempts < issued
      /\ speaker \in Agents /\ read_succeeded \in BOOLEAN
      /\ UNCHANGED <<speaker, used, issued, attempts, response, facts, result>>
  BY DEF ModelAnswers, Inv, Paced, TypeOK
<1> DEFINE end == Ev(speaker, "agent_end", "live")
           incident == Ev(speaker, "incident", "live")
           asked == Ev(speaker, "tool_call", "live")
<1>2. end \in Item /\ incident \in Item /\ asked \in Item
  BY <1>1, EvType DEF Kinds, Truth
<1>3. /\ incident \in Of("incident")
      /\ end \notin Of("model_call") \cup Labelled \cup Of("incident")
      /\ asked \notin Of("model_call") \cup Labelled \cup Of("incident")
      /\ end.agent = speaker /\ incident.agent = speaker /\ asked.agent = speaker
  BY <1>2 DEF Of, Labelled, Ev
<1>4. CASE /\ Absorb(speaker, <<>>) /\ runner' = "exhausted"
           /\ UNCHANGED <<errored, read_succeeded>>
  BY <1>1, <1>4, HearStep
<1>5. CASE /\ Absorb(speaker, <<end>>) /\ runner' = "exhausted"
           /\ UNCHANGED <<errored, read_succeeded>>
  <2> HIDE DEF end
  <2> QED BY <1>1, <1>2, <1>3, <1>5, HearStep
<1>6. CASE AbsorbError(speaker) /\ runner' = "exhausted"
  <2>1. Absorb(speaker, <<incident>>) /\ errored' = TRUE /\ read_succeeded' \in BOOLEAN
    BY <1>1, <1>6 DEF AbsorbError
  <2> HIDE DEF incident
  <2> QED BY <1>1, <1>2, <1>3, <1>6, <2>1, HearStep
<1>7. CASE AbsorbCall(speaker) /\ runner' = IF speaker = "root" THEN "transfer" ELSE "tool"
  <2>1. Absorb(speaker, <<asked>>) /\ errored' = errored /\ read_succeeded' \in BOOLEAN
    BY <1>1, <1>7 DEF AbsorbCall
  <2> HIDE DEF asked
  <2> QED BY <1>1, <1>2, <1>3, <1>7, <2>1, HearStep
<1> QED
  BY <1>4, <1>5, <1>6, <1>7 DEF ModelAnswers

LEMMA TransferStep == ASSUME AdkAssumption, Inv, Transfer PROVE Inv'
<1>1. /\ runner = "transfer" /\ runner' = "model" /\ response = "none" /\ speaker' = "review"
      /\ UNCHANGED <<used, issued, attempts, response, facts, result>>
  BY DEF Transfer, Inv, Paced
<1> DEFINE e == Ev("root", "tool_result", "live")
<1>2. e \in Item
  BY EvType DEF Agents, Kinds, Truth
<1>3. e.agent = "root" /\ e \notin Of("model_call") \cup Labelled \cup Of("incident")
  BY <1>2 DEF Of, Labelled, Ev
<1>4. Absorb("root", <<e>>) /\ errored' = errored
  BY DEF Transfer, AbsorbResponse, truthOf
<1>5. read_succeeded' \in BOOLEAN
  BY DEF Transfer, AbsorbResponse
<1> HIDE DEF e
<1> QED
  BY <1>1, <1>2, <1>3, <1>4, <1>5, HearStep DEF Agents

(* The tool's answer is yielded: a fault by its label, once.                *)
LEMMA YieldStep == ASSUME AdkAssumption, Inv, ToolAnswers PROVE Inv'
<1> DEFINE e == Ev("review", "tool_result", truthOf(response))
<1>1. /\ runner = "tool answered" /\ runner' = "model" /\ response # "none" /\ response' = "none"
      /\ errored' = errored /\ Absorb("review", <<e>>)
      /\ UNCHANGED <<speaker, used, issued, attempts, facts, result>>
  BY DEF ToolAnswers, AbsorbResponse, Inv, Paced
<1>2. read_succeeded' \in BOOLEAN
  BY DEF ToolAnswers, AbsorbResponse
<1>3. stream \in Seq(Item)
  BY StreamType DEF Inv
<1>4. e \in Item /\ e.agent = "review"
  <2>1. truthOf(response) \in Truth
    BY DEF truthOf, Truth
  <2> QED
    BY <2>1, EvType DEF Agents, Kinds, Ev
<1>5. /\ e \notin Of("model_call") /\ e \notin Of("incident")
      /\ e \in Labelled <=> response = "fault"
  BY <1>4 DEF Of, Labelled, Ev, truthOf
<1> HIDE DEF e
<1>6. /\ stream' \in Seq(Item) /\ started' \subseteq Agents /\ delegated' \in BOOLEAN
      /\ ~delegated' => At(stream', ReviewReads) = {}
      /\ delegated' => Delegated(stream')
  BY <1>1, <1>4, AbsorbedDelegation DEF Inv, Agents
<1>7. ASSUME NEW P, P \subseteq Item, \A x \in P : x.kind \notin {"agent_start", "delegation"}
      PROVE  /\ e \notin P => At(stream', P) = At(stream, P)
             /\ Cardinality(At(stream', P)) = Cardinality(At(stream, P)) + (IF e \in P THEN 1 ELSE 0)
  BY <1>1, <1>3, <1>4, <1>7, AbsorbedAt DEF Agents
<1>8. /\ used \in Nat /\ issued \in Nat /\ attempts \in Nat
      /\ used = issued /\ MaxModelCalls \in Nat /\ FaultAttempts \in Nat
  BY NumbersType DEF Inv
<1>9. TypeOK'
  <2>1. {delegated', errored', read_succeeded'} \subseteq BOOLEAN
    BY <1>1, <1>2, <1>6 DEF Inv, TypeOK
  <2>2. stream' \in Seq([agent : Agents, kind : Kinds, truth : {"live", "controlled_fault", "unknown"}])
    BY <1>6 DEF Item, Truth
  <2> QED
    BY <1>1, <1>6, <2>1, <2>2 DEF Inv, TypeOK
<1>10. Paced' /\ Judged'
  BY <1>1 DEF Inv, Paced, Judged
<1>11. Counts'
  <2>1. Cardinality(At(stream', Of("model_call"))) = issued
    BY <1>5, <1>7, SetsOfItems DEF Inv, Counts
  <2>2. Cardinality(At(stream', Labelled))
          = Cardinality(At(stream, Labelled)) + (IF e \in Labelled THEN 1 ELSE 0)
    BY <1>7, SetsOfItems
  <2>3. Faulted \in Nat
    BY <1>8 DEF Faulted
  <2>4. Cardinality(At(stream', Labelled)) = Faulted
    BY <1>5, <2>2, <2>3 DEF Inv, Counts
  <2> QED
    BY <1>1, <2>1, <2>4 DEF Counts, Faulted
<1>12. Remembered'
  <2>1. At(stream', Of("incident")) = At(stream, Of("incident"))
    BY <1>5, <1>7, SetsOfItems
  <2> QED
    BY <1>1, <1>6, <2>1 DEF Inv, Remembered
<1> QED
  BY <1>9, <1>10, <1>11, <1>12 DEF Inv

LEMMA InvStep == ASSUME AdkAssumption, Inv, [Next]_vars PROVE Inv'
<1>1. CASE RefuseModel \/ Raises \/ TimesOut
  BY <1>1, CloseStep DEF RefuseModel, Raises, TimesOut, Results
<1>2. CASE Finish
  <2>1. verdict \in Results /\ (verdict = "succeeded" => delegated /\ ~errored)
    BY DEF verdict, Results
  <2> QED
    BY <1>2, <2>1, CloseStep DEF Finish
<1>3. CASE UNCHANGED vars
  BY <1>3 DEF vars, translation, Inv, TypeOK, Paced, Counts, Remembered, Judged, Faulted, Delegated
<1> QED
  BY <1>1, <1>2, <1>3, AskStep, AnswerStep, TransferStep, ReadStep, YieldStep DEF Next

----------------------------------------------------------------------------
(* The theorems.                                                            *)

(* The state of a run keeps its types; the bounds of its counters are the   *)
(* scenario's.                                                              *)
THEOREM SessionTypes == AdkAssumption => (Spec => []TypeOK)
<1> SUFFICES ASSUME AdkAssumption PROVE Spec => []TypeOK
  OBVIOUS
<1>1. Init => Inv
  BY InvInit
<1>2. Inv /\ [Next]_vars => Inv'
  BY InvStep
<1>3. Inv => TypeOK
  BY DEF Inv
<1> QED
  BY <1>1, <1>2, <1>3, PTL DEF Spec

(* The positions the properties speak of are those the invariant does.      *)
LEMMA RecordedIsAt ==
  ASSUME TypeOK
  PROVE  /\ \A kind : Recorded(kind) = At(stream, Of(kind))
         /\ {i \in Recorded("tool_result") : stream[i].truth = "controlled_fault"} = At(stream, Labelled)
         /\ {i \in Recorded("tool_result") : stream[i].agent = "review"} = At(stream, ReviewReads)
<1>1. stream \in Seq(Item)
  BY StreamType
<1>2. \A i \in DOMAIN stream : stream[i] \in Item
  BY <1>1, LenProperties, ElementOfSeq
<1> QED
  BY <1>2 DEF Recorded, At, Of, Labelled, ReviewReads

(* However a run ends, its budget bounded what ADK issued, and no call and  *)
(* no injected fault is missing from its evidence or passed off as another. *)
THEOREM RecordsAreComplete == AdkAssumption => (Spec => []RecordIsComplete)
<1> SUFFICES ASSUME AdkAssumption PROVE Spec => []RecordIsComplete
  OBVIOUS
<1>1. Init => Inv
  BY InvInit
<1>2. Inv /\ [Next]_vars => Inv'
  BY InvStep
<1>3. Inv => RecordIsComplete
  <2> SUFFICES ASSUME Inv PROVE RecordIsComplete
    OBVIOUS
  <2>1. issued <= MaxModelCalls
    <3>1. issued \in 0..MaxModelCalls
      BY DEF Inv, TypeOK
    <3> QED
      BY <3>1 DEF AdkAssumption
  <2>2. issued = Cardinality(Recorded("model_call"))
    BY RecordedIsAt DEF Inv, Counts
  <2>3. FaultIsLabelled
    BY RecordedIsAt DEF Inv, Counts, Faulted, FaultIsLabelled
  <2> QED
    BY <2>1, <2>2, <2>3 DEF RecordIsComplete
<1> QED
  BY <1>1, <1>2, <1>3, PTL DEF Spec

(* A run is called a success only when the delegation came before every     *)
(* read of the delegated agent and no reported error is on record.          *)
THEOREM SuccessesAreEvidenced == AdkAssumption => (Spec => []SuccessIsEvidenced)
<1> SUFFICES ASSUME AdkAssumption PROVE Spec => []SuccessIsEvidenced
  OBVIOUS
<1>1. Init => Inv
  BY InvInit
<1>2. Inv /\ [Next]_vars => Inv'
  BY InvStep
<1>3. Inv => SuccessIsEvidenced
  <2> SUFFICES ASSUME Inv, result = "succeeded"
               PROVE  /\ Recorded("incident") = {}
                      /\ \E i \in Recorded("delegation") : \A j \in Recorded("tool_result") :
                           stream[j].agent = "review" => i < j
    BY DEF SuccessIsEvidenced
  <2>1. At(stream, Of("incident")) = {} /\ Delegated(stream)
    BY DEF Inv, Judged, Remembered
  <2>2. \E i \in Recorded("delegation") :
          \A j \in {k \in Recorded("tool_result") : stream[k].agent = "review"} : i < j
    BY <2>1, RecordedIsAt DEF Inv, Delegated
  <2> QED
    BY <2>1, <2>2, RecordedIsAt DEF Inv
<1> QED
  BY <1>1, <1>2, <1>3, PTL DEF Spec
=============================================================================
