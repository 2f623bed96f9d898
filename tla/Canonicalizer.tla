--------------------------- MODULE Canonicalizer ---------------------------
(***************************************************************************)
(* packages/canonicalizer/src/canonicalize.ts: source events, in whatever  *)
(* order and however often they arrive, become one canonical stream.       *)
(*                                                                         *)
(* A source event is a record with at least                                *)
(*   key      the dedupeKey, a number for the order of the strings,        *)
(*   instant  what Date.parse makes of sourceTime,                         *)
(*   text     the rank of the sourceTime string among strings: one instant *)
(*            has several ISO-8601 spellings, so text need not follow      *)
(*            instant,                                                     *)
(*   valid    whether the schema accepts it and it names this case.        *)
(* Everything else is payload.  A stream is a sequence of accepted source  *)
(* events: the caseSequence of an event is its position, and its           *)
(* sessionSequence the number of its session's events before it.           *)
(***************************************************************************)
EXTENDS Naturals, Sequences, FiniteSets, SequencesExt

(* compareSourceEvents: the instant, then its spelling, then the key.       *)
Precedes(a, b) ==
  \/ a.instant < b.instant
  \/ a.instant = b.instant /\ a.text < b.text
  \/ a.instant = b.instant /\ a.text = b.text /\ a.key < b.key

(* The batch in canonical order; the sort is stable, so events that compare *)
(* equal stay in the order they arrived in.                                 *)
Ordered(batch) ==
  LET valid == {i \in DOMAIN batch : batch[i].valid}
      Before(i, j) == \/ Precedes(batch[i], batch[j])
                      \/ ~Precedes(batch[j], batch[i]) /\ i < j
      rank == [i \in valid |-> Cardinality({j \in valid : Before(j, i)})]
  IN [n \in 1..Cardinality(valid) |-> batch[CHOOSE i \in valid : rank[i] = n - 1]]

Keys(stream) == {stream[n].key : n \in DOMAIN stream}

(* The elements of a sequence at these positions, in their order.           *)
Picked(s, positions) ==
  [n \in 1..Cardinality(positions) |->
     s[CHOOSE i \in positions : Cardinality({j \in positions : j < i}) = n - 1]]

(* The first event of a key is kept; one that repeats the key is collapsed, *)
(* and reported when it says something else.                                *)
Collapsed(ordered) ==
  LET first == {n \in DOMAIN ordered : \A m \in 1..(n - 1) : ordered[m].key # ordered[n].key}
      other == {n \in DOMAIN ordered : \A m \in first : ordered[m] # ordered[n]}
  IN [accepted |-> Picked(ordered, first), conflicts |-> {ordered[n].key : n \in other}]

canonicalize(batch) == Collapsed(Ordered(batch))

(* The greatest sourceTime of a stream, as a string.                        *)
HighWater(stream) == FoldLeft(LAMBDA latest, e : IF e.text > latest THEN e.text ELSE latest,
                              0, stream)

(* Defect: late events are appended like any other.                         *)
canonicalizeAppendAnyTime(stream, batch) ==
  LET fresh == canonicalize(batch)
      new   == {n \in DOMAIN fresh.accepted : fresh.accepted[n].key \notin Keys(stream)}
  IN [stream    |-> stream \o Picked(fresh.accepted, new),
      refused   |-> {},
      conflicts |-> fresh.conflicts]

(* Defect: late events are put where their time says.                       *)
canonicalizeAppendInPlace(stream, batch) ==
  LET whole == canonicalize(stream \o batch)
  IN [stream |-> whole.accepted, refused |-> {}, conflicts |-> whole.conflicts]

(* canonicalizeAppend: what is known is skipped without looking at it, what *)
(* precedes the stream's high-water mark is refused, the rest continues the *)
(* stream.  The mark is that of the stream before the batch.                *)
Continued(stream, fresh) ==
  LET events == fresh.accepted
      new    == {n \in DOMAIN events : events[n].key \notin Keys(stream)}
      late   == {n \in new : stream # <<>> /\ events[n].text < HighWater(stream)}
  IN [stream    |-> stream \o Picked(events, new \ late),
      refused   |-> {events[n].key : n \in late},
      conflicts |-> fresh.conflicts]

canonicalizeAppend(stream, batch) == Continued(stream, canonicalize(batch))
=============================================================================
