-------------------------- MODULE CaseStreamProofs --------------------------
(***************************************************************************)
(* The canonical stream of a case and what is read from it, proved for     *)
(* every stream and every way it can arrive.  What the proofs say of a     *)
(* stream, a scene and a page, and the inductive invariants, are defined   *)
(* in CaseInvariants.                                                      *)
(***************************************************************************)
EXTENDS CaseInvariants, FiniteSetTheorems, SequenceTheorems, WellFoundedInduction, TLAPS

----------------------------------------------------------------------------
(* Counting up: a set of numbers with 0 and the next of each of its members
   holds them all. *)
LEMMA CountingUp ==
  ASSUME NEW S, 0 \in S, \A k \in Nat : k \in S => k + 1 \in S
  PROVE  \A k \in Nat : k \in S
<1> DEFINE Bad == {k \in Nat : k \notin S}
<1>1. IsWellFoundedOn(Less, Nat)
  BY NatLessThanWellFounded DEF OpToRel, Less
<1>2. ASSUME Bad # {} PROVE FALSE
  <2>1. PICK x \in Bad : \A y \in Bad : ~(<<y, x>> \in Less)
    BY <1>1, <1>2, WFMin
  <2>2. x \in Nat /\ x # 0 /\ x \notin S
    OBVIOUS
  <2>3. x - 1 \in Nat /\ x - 1 < x
    BY <2>2
  <2>4. x - 1 \notin S
    <3>1. (x - 1) + 1 = x
      BY <2>2
    <3> QED
      BY <2>2, <2>3, <3>1
  <2>5. <<x - 1, x>> \notin Less
    BY <2>1, <2>3, <2>4
  <2> QED
    BY <2>2, <2>3, <2>5 DEF Less
<1> QED
  BY <1>2

(* The least of a set of positions. *)
LEMMA LeastOf ==
  ASSUME NEW S, S \subseteq Nat, S # {}
  PROVE  Min(S) \in S /\ \A j \in S : Min(S) <= j
<1>1. IsWellFoundedOn(Less, Nat)
  BY NatLessThanWellFounded DEF OpToRel, Less
<1>2. PICK x \in S : \A y \in S : ~(<<y, x>> \in Less)
  BY <1>1, WFMin
<1>3. ASSUME NEW j \in S PROVE x <= j
  <2>1. ~(<<j, x>> \in Less) /\ j \in Nat /\ x \in Nat
    BY <1>2
  <2> QED
    BY <2>1 DEF Less
<1> QED
  BY <1>3 DEF Min

----------------------------------------------------------------------------
(* Streams. *)

LEMMA StreamParts ==
  ASSUME NEW s, IsStream(s) PROVE Len(s) \in Nat /\ DOMAIN s = 1..Len(s)
BY DEF IsStream

LEMMA StreamsJoin ==
  ASSUME NEW s, IsStream(s), NEW t, IsStream(t)
  PROVE  IsStream(s \o t) /\ Continues(s, s \o t)
<1> DEFINE S == {s[n] : n \in DOMAIN s} \cup {t[n] : n \in DOMAIN t}
           u == s \o t
<1>1. s \in Seq(S) /\ t \in Seq(S)
  BY DEF IsStream
<1> HIDE DEF S
<1>2. /\ u \in Seq(S) /\ Len(u) = Len(s) + Len(t)
      /\ Len(s) \in Nat /\ Len(t) \in Nat /\ Len(u) \in Nat
      /\ \A n \in 1..Len(s) : u[n] = s[n]
  BY <1>1
<1> HIDE DEF u
<1>3. u \in Seq({u[n] : n \in DOMAIN u})
  BY <1>2
<1>4. Continues(s, u)
  <2>1. Len(s) <= Len(u)
    BY <1>2
  <2> QED
    BY <1>2, <2>1 DEF Continues
<1>5. IsStream(u)
  BY <1>3 DEF IsStream
<1> QED
  BY <1>4, <1>5 DEF u

LEMMA PickedIsStream ==
  ASSUME NEW s, NEW P, IsFiniteSet(P) PROVE IsStream(Picked(s, P))
<1>1. Cardinality(P) \in Nat
  BY FS_CardinalityType
<1> DEFINE v(n) == s[CHOOSE i \in P : Cardinality({j \in P : j < i}) = n - 1]
           w == [n \in 1..Cardinality(P) |-> v(n)]
<1>2. Picked(s, P) = w
  BY DEF Picked
<1> HIDE DEF v
<1>3. DOMAIN w = 1..Cardinality(P) /\ w = [n \in 1..Cardinality(P) |-> w[n]]
  OBVIOUS
<1> HIDE DEF w
<1>4. w \in Seq({w[n] : n \in DOMAIN w})
  BY <1>1, <1>3
<1> QED
  BY <1>2, <1>4 DEF IsStream

LEMMA PositionsAreFinite ==
  ASSUME NEW k \in Nat, NEW P, P \subseteq 1..k PROVE IsFiniteSet(P)
<1>1. IsFiniteSet(1..k)
  BY FS_Interval
<1> QED
  BY <1>1, FS_Subset

LEMMA CanonicalIsStream ==
  ASSUME NEW batch, IsStream(batch) PROVE IsStream(canonicalize(batch).accepted)
<1> DEFINE valid == {i \in DOMAIN batch : batch[i].valid}
           ordered == Ordered(batch)
           first == {n \in DOMAIN ordered : \A m \in 1..(n - 1) : ordered[m].key # ordered[n].key}
<1>1. IsFiniteSet(valid)
  BY StreamParts, PositionsAreFinite
<1>2. Cardinality(valid) \in Nat /\ DOMAIN ordered = 1..Cardinality(valid)
  BY <1>1, FS_CardinalityType DEF Ordered
<1> HIDE DEF valid, ordered
<1>3. IsFiniteSet(first)
  BY <1>2, PositionsAreFinite
<1>4. canonicalize(batch).accepted = Picked(ordered, first)
  BY DEF canonicalize, Collapsed, ordered
<1> QED
  BY <1>3, <1>4, PickedIsStream

LEMMA AppendGrows ==
  ASSUME NEW s, IsStream(s), NEW batch, IsStream(batch)
  PROVE  /\ IsStream(canonicalizeAppend(s, batch).stream)
         /\ Continues(s, canonicalizeAppend(s, batch).stream)
<1> DEFINE events == canonicalize(batch).accepted
           new == {n \in DOMAIN events : events[n].key \notin Keys(s)}
           late == {n \in new : s # <<>> /\ events[n].text < HighWater(s)}
           P == new \ late
<1>1. IsStream(events)
  BY CanonicalIsStream
<1>2. canonicalizeAppend(s, batch).stream = s \o Picked(events, P)
  BY DEF canonicalizeAppend, Continued
<1>3. P \subseteq DOMAIN events
  OBVIOUS
<1> HIDE DEF events, P
<1>4. IsFiniteSet(P)
  BY <1>1, <1>3, StreamParts, PositionsAreFinite
<1> QED
  BY <1>2, <1>4, PickedIsStream, StreamsJoin

LEMMA BatchesAreStreams == \A batch \in Batches : IsStream(batch)
<1>1. ASSUME NEW e PROVE IsStream(<<e>>)
  BY DEF IsStream
<1>2. ASSUME NEW e, NEW f PROVE IsStream(<<e, f>>)
  BY DEF IsStream
<1>3. \A batch \in facts \X facts : batch = <<batch[1], batch[2]>>
  OBVIOUS
<1>4. \A batch \in facts \X facts : IsStream(batch)
  BY <1>2, <1>3
<1> QED
  BY <1>1, <1>4 DEF Batches

(* The evidence is a stream, and only grows. *)
LEMMA StreamFromTheStart == ASSUME CaseStreamAssumption, Init PROVE IsStream(stream)
<1>1. PICK case \in Cases : stream = canonicalize(case.recorded).accepted
  BY DEF Init
<1>2. IsStream(case.recorded)
  BY DEF CaseStreamAssumption, IsStream
<1> QED
  BY <1>1, <1>2, CanonicalIsStream

LEMMA StreamStep ==
  ASSUME IsStream(stream), [Next]_vars
  PROVE  IsStream(stream)' /\ Continues(stream, stream')
<1>1. ASSUME UNCHANGED vars PROVE IsStream(stream)' /\ Continues(stream, stream')
  <2>1. stream' = stream
    BY <1>1 DEF vars
  <2>2. Continues(stream, stream)
    BY StreamParts DEF Continues
  <2> QED
    BY <2>1, <2>2 DEF IsStream
<1>2. ASSUME NEW batch \in Batches, Deliver(batch)
      PROVE  IsStream(stream)' /\ Continues(stream, stream')
  <2>1. stream' = canonicalizeAppend(stream, batch).stream
    BY <1>2 DEF Deliver
  <2>2. IsStream(canonicalizeAppend(stream, batch).stream)
        /\ Continues(stream, canonicalizeAppend(stream, batch).stream)
    BY BatchesAreStreams, AppendGrows
  <2> QED
    BY <2>1, <2>2 DEF IsStream
<1> QED
  BY <1>1, <1>2 DEF Next

----------------------------------------------------------------------------
(* The projection is a fold: what it is of one event more. *)

LEMMA FoldExists == \A s : \A n \in Nat : \E f : IsFold(s, n, f)
<1> SUFFICES ASSUME NEW s PROVE \A n \in Nat : \E f : IsFold(s, n, f)
  OBVIOUS
<1> DEFINE S == {n \in Nat : \E f : IsFold(s, n, f)}
<1>1. 0 \in S
  <2> DEFINE f == [k \in 0..0 |-> Nothing]
  <2>1. IsFold(s, 0, f)
    BY DEF IsFold
  <2> QED
    BY <2>1
<1>2. ASSUME NEW n \in Nat, n \in S PROVE n + 1 \in S
  <2>1. PICK f : IsFold(s, n, f)
    BY <1>2
  <2> DEFINE g == [k \in 0..(n + 1) |-> IF k = n + 1 THEN Fold(f[n], s[n + 1], n + 1) ELSE f[k]]
             h == [k \in 0..(n + 1) |-> IF k = 0 THEN Nothing ELSE Fold(g[k - 1], s[k], k)]
  <2>2. \A k \in 0..n : f[k] = IF k = 0 THEN Nothing ELSE Fold(f[k - 1], s[k], k)
    BY <2>1 DEF IsFold
  <2>3. \A k \in 0..n : g[k] = f[k]
    OBVIOUS
  <2>4. g[n + 1] = Fold(f[n], s[n + 1], n + 1)
    OBVIOUS
  <2>5. DOMAIN g = 0..(n + 1) /\ g = [k \in 0..(n + 1) |-> g[k]]
    OBVIOUS
  <2> HIDE DEF g
  <2>6. ASSUME NEW k \in 0..(n + 1)
        PROVE  g[k] = IF k = 0 THEN Nothing ELSE Fold(g[k - 1], s[k], k)
    <3>1. CASE k = n + 1
      <4>1. k # 0 /\ k - 1 = n /\ n \in 0..n
        BY <3>1
      <4> QED
        BY <2>3, <2>4, <3>1, <4>1
    <3>2. CASE k # n + 1
      <4>1. k \in 0..n /\ (k # 0 => k - 1 \in 0..n)
        BY <3>2
      <4> QED
        BY <2>2, <2>3, <4>1
    <3> QED
      BY <3>1, <3>2
  <2>7. IsFold(s, n + 1, g)
    BY <2>5, <2>6 DEF IsFold
  <2> QED
    BY <2>7
<1> HIDE DEF S
<1>3. \A n \in Nat : n \in S
  BY <1>1, <1>2, CountingUp
<1> QED
  BY <1>3 DEF S

(* Streams that agree up to a position fold to the same states up to it. *)
LEMMA FoldsAgree ==
  ASSUME NEW s, NEW t, NEW n \in Nat, NEW m \in Nat, n <= m, \A k \in 1..n : s[k] = t[k],
         NEW f, NEW g, IsFold(s, n, f), IsFold(t, m, g)
  PROVE  \A k \in 0..n : f[k] = g[k]
<1> DEFINE S == {k \in Nat : k <= n => f[k] = g[k]}
<1>1. \A k \in 0..n : f[k] = IF k = 0 THEN Nothing ELSE Fold(f[k - 1], s[k], k)
  BY DEF IsFold
<1>2. \A k \in 0..n : g[k] = IF k = 0 THEN Nothing ELSE Fold(g[k - 1], t[k], k)
  BY DEF IsFold
<1>3. 0 \in S
  BY <1>1, <1>2
<1>4. ASSUME NEW k \in Nat, k \in S PROVE k + 1 \in S
  <2>1. ASSUME k + 1 <= n PROVE f[k + 1] = g[k + 1]
    <3>1. k + 1 \in 0..n /\ k + 1 \in 1..n /\ k + 1 # 0 /\ (k + 1) - 1 = k /\ k <= n
      BY <2>1
    <3>2. f[k] = g[k]
      BY <1>4, <3>1
    <3> QED
      BY <1>1, <1>2, <3>1, <3>2
  <2> QED
    BY <2>1
<1> HIDE DEF S
<1>5. \A k \in Nat : k \in S
  BY <1>3, <1>4, CountingUp
<1> QED
  BY <1>5 DEF S

LEMMA ProjectIsFold ==
  ASSUME NEW s, NEW n \in Nat PROVE \E f : IsFold(s, n, f) /\ project(s, n) = f[n]
<1> DEFINE G == CHOOSE g : g = [k \in 0..n |-> IF k = 0 THEN Nothing ELSE Fold(g[k - 1], s[k], k)]
<1>1. project(s, n) = G[n]
  BY DEF project
<1>2. \E f : IsFold(s, n, f)
  BY FoldExists
<1>3. G = [k \in 0..n |-> IF k = 0 THEN Nothing ELSE Fold(G[k - 1], s[k], k)]
  BY <1>2 DEF IsFold
<1> QED
  BY <1>1, <1>3 DEF IsFold

LEMMA ProjectSteps ==
  ASSUME NEW s
  PROVE  /\ project(s, 0) = Nothing
         /\ \A n \in Nat : project(s, n + 1) = Fold(project(s, n), s[n + 1], n + 1)
<1>1. project(s, 0) = Nothing
  BY ProjectIsFold DEF IsFold
<1>2. ASSUME NEW n \in Nat PROVE project(s, n + 1) = Fold(project(s, n), s[n + 1], n + 1)
  <2>1. PICK f : IsFold(s, n, f) /\ project(s, n) = f[n]
    BY ProjectIsFold
  <2>2. PICK g : IsFold(s, n + 1, g) /\ project(s, n + 1) = g[n + 1]
    BY ProjectIsFold
  <2>3. f[n] = g[n]
    BY <2>1, <2>2, FoldsAgree
  <2>4. n + 1 \in 0..(n + 1) /\ n + 1 # 0 /\ (n + 1) - 1 = n
    OBVIOUS
  <2>5. g[n + 1] = Fold(g[n], s[n + 1], n + 1)
    BY <2>2, <2>4 DEF IsFold
  <2> QED
    BY <2>1, <2>2, <2>3, <2>5
<1> QED
  BY <1>1, <1>2

(* A projection is of its prefix: more evidence does not change it. *)
LEMMA ProjectOfPrefix ==
  ASSUME NEW s, NEW t, NEW n \in Nat, \A k \in 1..n : s[k] = t[k]
  PROVE  project(s, n) = project(t, n)
<1>1. PICK f : IsFold(s, n, f) /\ project(s, n) = f[n]
  BY ProjectIsFold
<1>2. PICK g : IsFold(t, n, g) /\ project(t, n) = g[n]
  BY ProjectIsFold
<1>3. \A k \in 0..n : f[k] = g[k]
  BY <1>1, <1>2, FoldsAgree
<1> QED
  BY <1>1, <1>2, <1>3

----------------------------------------------------------------------------
(* What each part of the fold leaves alone. *)

LEMMA ChangesTwice ==
  ASSUME NEW s, NEW t, NEW u, NEW F, NEW G, Changes(s, t, F), Changes(t, u, G)
  PROVE  Changes(s, u, F \cup G)
BY DEF Changes

LEMMA PartsChange ==
  ASSUME NEW s, NEW e, NEW n
  PROVE  /\ Changes(s, Session(s, e), {"sessions", "caseState"})
         /\ Changes(s, Milestone(s, e), {"completed", "milestone"})
         /\ Changes(s, Agents(s, e), {"agents"})
         /\ Changes(s, Records(s, e, n), {"badges", "decisions", "usage", "memory"})
         /\ Changes(s, Screening(s, e, n), {"blocked", "violations"})
         /\ Changes(s, Incidents(s, e, n), {"incidents"})
         /\ Changes(s, Approvals(s, e, n), {"approvals"})
         /\ Changes(s, Interventions(s, e, n), {"interventions", "violations"})
<1>1. Changes(s, Session(s, e), {"sessions", "caseState"})
  <2> DEFINE seen == IF e.session = "none" \/ e.session \in DOMAIN s.sessions THEN s
                     ELSE [s EXCEPT !.sessions = Put(@, e.session, "runtime.started")]
             F == {"sessions", "caseState"}
  <2>1. Changes(s, seen, F)
    BY DEF Changes
  <2>2. ASSUME NEW case
        PROVE  Changes(seen, IF e.session = "none" THEN [seen EXCEPT !.caseState = case]
                             ELSE [seen EXCEPT !.caseState = case, !.sessions[e.session] = e.type], F)
    <3> HIDE DEF seen
    <3> QED
      BY DEF Changes
  <2>3. Changes(seen, seen, F)
    BY DEF Changes
  <2>4. Changes(seen, Session(s, e), F)
    <3>1. CASE e.type \in {"runtime.started", "runtime.resumed"}
      BY <2>2, <3>1 DEF Session
    <3>2. CASE e.type = "runtime.waiting"
      BY <2>2, <3>2 DEF Session
    <3>3. CASE e.type = "runtime.completed"
      BY <2>2, <3>3 DEF Session
    <3>4. CASE e.type = "runtime.failed"
      BY <2>2, <3>4 DEF Session
    <3>5. CASE e.type = "runtime.controlled"
      BY <2>2, <3>5 DEF Session
    <3>6. CASE e.type \notin {"runtime.started", "runtime.resumed", "runtime.waiting",
                              "runtime.completed", "runtime.failed", "runtime.controlled"}
      BY <2>3, <3>6 DEF Session
    <3> QED
      BY <3>1, <3>2, <3>3, <3>4, <3>5, <3>6
  <2> HIDE DEF seen
  <2> QED
    BY <2>1, <2>4 DEF Changes
<1>2. Changes(s, Milestone(s, e), {"completed", "milestone"})
  BY DEF Milestone, Changes
<1>3. Changes(s, Agents(s, e), {"agents"})
  BY DEF Agents, Changes
<1>4. Changes(s, Records(s, e, n), {"badges", "decisions", "usage", "memory"})
  BY DEF Records, Changes
<1>5. Changes(s, Screening(s, e, n), {"blocked", "violations"})
  BY DEF Screening, checkBlockedInputUse, Changes
<1>6. Changes(s, Incidents(s, e, n), {"incidents"})
  BY DEF Incidents, Changes
<1>7. Changes(s, Approvals(s, e, n), {"approvals"})
  BY DEF Approvals, Changes
<1>8. Changes(s, Interventions(s, e, n), {"interventions", "violations"})
  BY DEF Interventions, Changes
<1> QED
  BY <1>1, <1>2, <1>3, <1>4, <1>5, <1>6, <1>7, <1>8

LEMMA FieldNames ==
  Fields = {"caseState", "milestone", "completed", "usage", "sessions", "agents", "memory",
            "blocked", "badges", "decisions", "incidents", "interventions", "approvals",
            "violations"}
BY DEF Fields, Nothing

(* What an event does to the interventions and the violations: the fold
   does what Interventions does, and Screening may add a violation. *)
LEMMA FoldOfInterventions ==
  ASSUME NEW s, DOMAIN s = Fields, NEW e, NEW n
  PROVE  /\ DOMAIN Fold(s, e, n) = Fields
         /\ s.violations \subseteq Fold(s, e, n).violations
         /\ Fold(s, e, n).interventions = Interventions(s, e, n).interventions
         /\ e.type \in Outcomes /\ n \notin Fold(s, e, n).violations =>
              /\ e.ref \in DOMAIN s.interventions
              /\ <<s.interventions[e.ref].state, e.type>> \in INTERVENTION_TRANSITIONS
<1> DEFINE s1 == Session(s, e)
           s2 == Milestone(s1, e)
           s3 == Agents(s2, e)
           s4 == Records(s3, e, n)
           s5 == Screening(s4, e, n)
           s6 == Incidents(s5, e, n)
           s7 == Approvals(s6, e, n)
           t == Interventions(s7, e, n)
<1>1. Fold(s, e, n) = t
  BY DEF Fold
<1>2. /\ Changes(s, s1, {"sessions", "caseState"}) /\ Changes(s1, s2, {"completed", "milestone"})
      /\ Changes(s2, s3, {"agents"})
      /\ Changes(s3, s4, {"badges", "decisions", "usage", "memory"})
      /\ Changes(s4, s5, {"blocked", "violations"}) /\ Changes(s5, s6, {"incidents"})
      /\ Changes(s6, s7, {"approvals"}) /\ Changes(s7, t, {"interventions", "violations"})
  BY PartsChange
<1>3. \A u, v, F : Changes(u, v, F) /\ DOMAIN u = Fields =>
        /\ DOMAIN v = Fields
        /\ "interventions" \notin F => v.interventions = u.interventions
        /\ "violations" \notin F => v.violations = u.violations
  BY FieldNames DEF Changes
<1>4. /\ DOMAIN s4 = Fields /\ s4.interventions = s.interventions /\ s4.violations = s.violations
  <2> HIDE DEF s1, s2, s3, s4
  <2>1. DOMAIN s1 = Fields /\ s1.interventions = s.interventions /\ s1.violations = s.violations
    BY <1>2, <1>3
  <2>2. DOMAIN s2 = Fields /\ s2.interventions = s.interventions /\ s2.violations = s.violations
    BY <1>2, <1>3, <2>1
  <2>3. DOMAIN s3 = Fields /\ s3.interventions = s.interventions /\ s3.violations = s.violations
    BY <1>2, <1>3, <2>2
  <2> QED
    BY <1>2, <1>3, <2>3
<1> HIDE DEF s4
<1>5. s4.violations \subseteq s5.violations
  BY <1>4, FieldNames DEF Screening, checkBlockedInputUse
<1> HIDE DEF s5
<1>6. /\ DOMAIN s7 = Fields /\ s7.interventions = s.interventions
      /\ s.violations \subseteq s7.violations
  <2> HIDE DEF s6, s7
  <2>1. DOMAIN s5 = Fields /\ s5.interventions = s.interventions
    BY <1>2, <1>3, <1>4
  <2>2. DOMAIN s6 = Fields /\ s6.interventions = s.interventions /\ s6.violations = s5.violations
    BY <1>2, <1>3, <2>1
  <2>3. DOMAIN s7 = Fields /\ s7.interventions = s.interventions /\ s7.violations = s5.violations
    BY <1>2, <1>3, <2>2
  <2> QED
    BY <1>4, <1>5, <2>3
<1> HIDE DEF s7
<1>7. DOMAIN t = Fields
  <2> HIDE DEF t
  <2> QED
    BY <1>2, <1>3, <1>6
<1>8. s7.violations \subseteq t.violations
  BY <1>6, FieldNames DEF Interventions
<1>9. t.interventions = Interventions(s, e, n).interventions
  BY <1>6, FieldNames DEF Interventions
<1>10. ASSUME e.type \in Outcomes, n \notin t.violations
       PROVE  /\ e.ref \in DOMAIN s.interventions
              /\ <<s.interventions[e.ref].state, e.type>> \in INTERVENTION_TRANSITIONS
  <2>1. ~(e.type = "intervention.proposed" /\ e.ref # "none")
    BY <1>10 DEF Outcomes
  <2>2. e.ref \in DOMAIN s7.interventions
    <3>1. e.ref \notin DOMAIN s7.interventions => n \in t.violations
      BY <1>6, <1>10, <2>1, FieldNames DEF Interventions
    <3> QED
      BY <1>10, <3>1
  <2>3. <<s7.interventions[e.ref].state, e.type>> \notin INTERVENTION_TRANSITIONS
          => n \in t.violations
    BY <1>6, <1>10, <2>1, <2>2, FieldNames DEF Interventions
  <2> QED
    BY <1>6, <1>10, <2>2, <2>3
<1> HIDE DEF t
<1> QED
  BY <1>1, <1>6, <1>7, <1>8, <1>9, <1>10

LEMMA ProjectFields == ASSUME NEW s PROVE \A n \in Nat : DOMAIN project(s, n) = Fields
<1> DEFINE S == {n \in Nat : DOMAIN project(s, n) = Fields}
<1>1. 0 \in S
  BY ProjectSteps DEF Fields
<1>2. ASSUME NEW n \in Nat, n \in S PROVE n + 1 \in S
  <2> DEFINE p == project(s, n)
  <2>1. project(s, n + 1) = Fold(p, s[n + 1], n + 1) /\ DOMAIN p = Fields
    BY <1>2, ProjectSteps
  <2> HIDE DEF p
  <2>2. DOMAIN Fold(p, s[n + 1], n + 1) = Fields
    BY <2>1, FoldOfInterventions
  <2> QED
    BY <2>1, <2>2
<1> HIDE DEF S
<1>3. \A n \in Nat : n \in S
  BY <1>1, <1>2, CountingUp
<1> QED
  BY <1>3 DEF S

(* A violation stays one. *)
LEMMA ViolationsStay ==
  ASSUME NEW s, NEW n \in Nat
  PROVE  \A m \in Nat : n <= m => project(s, n).violations \subseteq project(s, m).violations
<1> DEFINE S == {m \in Nat : n <= m => project(s, n).violations \subseteq project(s, m).violations}
<1>1. 0 \in S
  OBVIOUS
<1>2. ASSUME NEW m \in Nat, m \in S PROVE m + 1 \in S
  <2>1. ASSUME n <= m + 1
        PROVE  project(s, n).violations \subseteq project(s, m + 1).violations
    <3>1. CASE n = m + 1
      BY <3>1
    <3>2. CASE n <= m
      <4>1. project(s, m + 1) = Fold(project(s, m), s[m + 1], m + 1)
        BY ProjectSteps
      <4>2. project(s, m).violations \subseteq project(s, m + 1).violations
        BY <4>1, ProjectFields, FoldOfInterventions
      <4> QED
        BY <1>2, <3>2, <4>2
    <3> QED
      BY <2>1, <3>1, <3>2
  <2> QED
    BY <2>1
<1> HIDE DEF S
<1>3. \A m \in Nat : m \in S
  BY <1>1, <1>2, CountingUp
<1> QED
  BY <1>3 DEF S

----------------------------------------------------------------------------
(* What the state of an intervention says of the events before. *)

LEMMA ChainLasts ==
  ASSUME NEW s, NEW n \in Nat, NEW r, NEW st, Chained(s, n, r, st),
         ~Says(s, n + 1, r, "intervention.proposed")
  PROVE  Chained(s, n + 1, r, st)
<1>1. \A a \in 1..n : Fresh(s, a, n, r) => Fresh(s, a, n + 1, r)
  BY DEF Fresh
<1>2. 1..n \subseteq 1..(n + 1)
  OBVIOUS
<1>3. ASSUME st = "intervention.authorized" PROVE Chained(s, n + 1, r, st)
  <2>1. PICK a \in 1..n : Says(s, a, r, "intervention.authorized") /\ Fresh(s, a, n, r)
    BY <1>3 DEF Chained
  <2> QED
    BY <1>1, <1>2, <1>3, <2>1 DEF Chained
<1>4. ASSUME st = "intervention.requested" PROVE Chained(s, n + 1, r, st)
  <2>1. PICK a \in 1..n, q \in 1..n :
          /\ a < q /\ Fresh(s, a, n, r)
          /\ Says(s, a, r, "intervention.authorized") /\ Says(s, q, r, "intervention.requested")
    BY <1>4 DEF Chained
  <2> QED
    BY <1>1, <1>2, <1>4, <2>1 DEF Chained
<1>5. ASSUME st = "intervention.acknowledged" PROVE Chained(s, n + 1, r, st)
  <2>1. PICK a \in 1..n, q \in 1..n, k \in 1..n :
          /\ a < q /\ q < k /\ Fresh(s, a, n, r)
          /\ Says(s, a, r, "intervention.authorized") /\ Says(s, q, r, "intervention.requested")
          /\ Says(s, k, r, "intervention.acknowledged")
    BY <1>5 DEF Chained
  <2> QED
    BY <1>1, <1>2, <1>5, <2>1 DEF Chained
<1>6. CASE st \notin {"intervention.authorized", "intervention.requested",
                      "intervention.acknowledged"}
  BY <1>6 DEF Chained
<1> QED
  BY <1>3, <1>4, <1>5, <1>6

(* One more link, when the transition is legal. *)
LEMMA ChainGrows ==
  ASSUME NEW s, NEW n \in Nat, NEW r, NEW st, Chained(s, n, r, st),
         s[n + 1].ref = r, s[n + 1].type \in Outcomes,
         <<st, s[n + 1].type>> \in INTERVENTION_TRANSITIONS
  PROVE  Chained(s, n + 1, r, s[n + 1].type)
<1> DEFINE type == s[n + 1].type
<1>1. ~Says(s, n + 1, r, "intervention.proposed")
  BY DEF Says, Outcomes
<1>2. \A a \in 1..n : Fresh(s, a, n, r) => Fresh(s, a, n + 1, r)
  BY <1>1 DEF Fresh
<1>3. Says(s, n + 1, r, type) /\ n + 1 \in 1..(n + 1) /\ 1..n \subseteq 1..(n + 1)
  BY DEF Says
<1>4. CASE type = "intervention.authorized"
  <2>1. Fresh(s, n + 1, n + 1, r)
    BY <1>1 DEF Fresh
  <2> QED
    BY <1>3, <1>4, <2>1 DEF Chained
<1>5. CASE type = "intervention.requested"
  <2>1. st = "intervention.authorized"
    BY <1>5 DEF INTERVENTION_TRANSITIONS
  <2>2. PICK a \in 1..n : Says(s, a, r, "intervention.authorized") /\ Fresh(s, a, n, r)
    BY <2>1 DEF Chained
  <2>3. a < n + 1
    OBVIOUS
  <2> QED
    BY <1>2, <1>3, <1>5, <2>2, <2>3 DEF Chained
<1>6. CASE type = "intervention.acknowledged"
  <2>1. st = "intervention.requested"
    BY <1>6 DEF INTERVENTION_TRANSITIONS
  <2>2. PICK a \in 1..n, q \in 1..n :
          /\ a < q /\ Fresh(s, a, n, r)
          /\ Says(s, a, r, "intervention.authorized") /\ Says(s, q, r, "intervention.requested")
    BY <2>1 DEF Chained
  <2>3. q < n + 1
    OBVIOUS
  <2> QED
    BY <1>2, <1>3, <1>6, <2>2, <2>3 DEF Chained
<1>7. CASE type \notin {"intervention.authorized", "intervention.requested",
                        "intervention.acknowledged"}
  BY <1>7 DEF Chained
<1> QED
  BY <1>4, <1>5, <1>6, <1>7

LEMMA TracedStep ==
  ASSUME NEW s, NEW n \in Nat, Traced(s, n) PROVE Traced(s, n + 1)
<1> DEFINE p == project(s, n)
           q == project(s, n + 1)
           e == s[n + 1]
<1> SUFFICES ASSUME q.violations = {}
             PROVE  Known(q.interventions)
                    /\ \A r \in DOMAIN q.interventions : Chained(s, n + 1, r, q.interventions[r].state)
  BY DEF Traced
<1>1. DOMAIN p = Fields /\ q = Fold(p, e, n + 1)
  BY ProjectFields, ProjectSteps
<1>2. /\ p.violations = {} /\ q.interventions = Interventions(p, e, n + 1).interventions
      /\ e.type \in Outcomes => /\ e.ref \in DOMAIN p.interventions
                                /\ <<p.interventions[e.ref].state, e.type>> \in INTERVENTION_TRANSITIONS
  <2> HIDE DEF p, q
  <2> QED
    BY <1>1, FoldOfInterventions
<1>3. Known(p.interventions)
      /\ \A r \in DOMAIN p.interventions : Chained(s, n, r, p.interventions[r].state)
  BY <1>2 DEF Traced
<1> HIDE DEF p, q
<1>4. "interventions" \in DOMAIN p
  BY <1>1, FieldNames
<1>5. CASE e.type = "intervention.proposed" /\ e.ref # "none"
  <2> DEFINE new == [state |-> e.type, incident |-> e.under]
  <2>1. q.interventions = Put(p.interventions, e.ref, new)
    <3>1. Interventions(p, e, n + 1) = [p EXCEPT !.interventions = Put(@, e.ref, new)]
      BY <1>5 DEF Interventions, Outcomes
    <3> HIDE DEF new
    <3> QED
      BY <1>2, <1>4, <3>1
  <2>2. DOMAIN q.interventions = DOMAIN p.interventions \cup {e.ref}
        /\ \A r \in DOMAIN q.interventions :
             q.interventions[r] = IF r = e.ref THEN new ELSE p.interventions[r]
    BY <2>1 DEF Put
  <2>3. Known(q.interventions)
    BY <1>3, <1>5, <2>2 DEF Known
  <2>4. ASSUME NEW r \in DOMAIN q.interventions
        PROVE  Chained(s, n + 1, r, q.interventions[r].state)
    <3>1. CASE r = e.ref
      BY <1>5, <2>2, <3>1 DEF Chained
    <3>2. CASE r # e.ref
      <4>1. r \in DOMAIN p.interventions /\ q.interventions[r] = p.interventions[r]
        BY <2>2, <3>2
      <4>2. ~Says(s, n + 1, r, "intervention.proposed")
        BY <3>2 DEF Says
      <4> QED
        BY <1>3, <4>1, <4>2, ChainLasts
    <3> QED
      BY <3>1, <3>2
  <2> QED
    BY <2>3, <2>4
<1>6. CASE e.type \in Outcomes
  <2>1. ~(e.type = "intervention.proposed" /\ e.ref # "none")
    BY <1>6 DEF Outcomes
  <2>2. e.ref \in DOMAIN p.interventions /\ "state" \in DOMAIN p.interventions[e.ref]
    BY <1>2, <1>3, <1>6 DEF Known
  <2>3. q.interventions = [p.interventions EXCEPT ![e.ref].state = e.type]
    BY <1>2, <1>4, <1>6, <2>1, <2>2 DEF Interventions
  <2>4. /\ DOMAIN q.interventions = DOMAIN p.interventions
        /\ \A r \in DOMAIN p.interventions : r # e.ref => q.interventions[r] = p.interventions[r]
        /\ q.interventions[e.ref] = [p.interventions[e.ref] EXCEPT !.state = e.type]
    BY <2>2, <2>3
  <2>5. q.interventions[e.ref].state = e.type
        /\ DOMAIN q.interventions[e.ref] = DOMAIN p.interventions[e.ref]
    BY <2>2, <2>4
  <2>6. Known(q.interventions)
    BY <1>3, <2>4, <2>5 DEF Known
  <2>7. ASSUME NEW r \in DOMAIN q.interventions
        PROVE  Chained(s, n + 1, r, q.interventions[r].state)
    <3>1. CASE r = e.ref
      BY <1>2, <1>3, <1>6, <2>2, <2>5, <3>1, ChainGrows
    <3>2. CASE r # e.ref
      <4>1. ~Says(s, n + 1, r, "intervention.proposed")
        BY <3>2 DEF Says
      <4> QED
        BY <1>3, <2>4, <3>2, <4>1, ChainLasts
    <3> QED
      BY <3>1, <3>2
  <2> QED
    BY <2>6, <2>7
<1>7. CASE e.type \notin Outcomes /\ ~(e.type = "intervention.proposed" /\ e.ref # "none")
  <2>1. q.interventions = p.interventions
    BY <1>2, <1>7 DEF Interventions
  <2>2. \A r \in DOMAIN p.interventions : ~Says(s, n + 1, r, "intervention.proposed")
    BY <1>3, <1>7 DEF Says, Known
  <2> QED
    BY <1>3, <2>1, <2>2, ChainLasts
<1> QED
  BY <1>5, <1>6, <1>7

LEMMA AlwaysTraced == ASSUME NEW s PROVE \A n \in Nat : Traced(s, n)
<1> DEFINE S == {n \in Nat : Traced(s, n)}
<1>1. 0 \in S
  <2>1. project(s, 0).interventions = Empty
    BY ProjectSteps DEF Nothing
  <2>2. DOMAIN Empty = {}
    BY DEF Empty
  <2> QED
    BY <2>1, <2>2 DEF Traced, Known
<1>2. \A n \in Nat : n \in S => n + 1 \in S
  BY TracedStep
<1> HIDE DEF S
<1>3. \A n \in Nat : n \in S
  BY <1>1, <1>2, CountingUp
<1> QED
  BY <1>3 DEF S

LEMMA ReceiptsOfAStream == ASSUME IsStream(stream) PROVE SuccessHasItsReceipts
<1> SUFFICES ASSUME State.violations = {},
                    NEW n \in DOMAIN stream, stream[n].type = "intervention.succeeded"
             PROVE  \E a \in 1..n, q \in 1..n, k \in 1..n :
                      /\ a < q /\ q < k /\ Since(a, n)
                      /\ Reports(a, stream[n].ref, "intervention.authorized")
                      /\ Reports(q, stream[n].ref, "intervention.requested")
                      /\ Reports(k, stream[n].ref, "intervention.acknowledged")
  BY DEF SuccessHasItsReceipts
<1> DEFINE r == stream[n].ref
           m == n - 1
           p == project(stream, m)
<1>1. n \in Nat /\ m \in Nat /\ n = m + 1 /\ Len(stream) \in Nat /\ n <= Len(stream)
  BY StreamParts
<1>2. project(stream, n).violations = {} /\ p.violations = {}
  <2>1. m <= Len(stream)
    BY <1>1
  <2> QED
    BY <1>1, <2>1, ViolationsStay DEF State
<1>3. r \in DOMAIN p.interventions
      /\ <<p.interventions[r].state, "intervention.succeeded">> \in INTERVENTION_TRANSITIONS
  <2>1. project(stream, n) = Fold(p, stream[n], n) /\ DOMAIN p = Fields
    BY <1>1, ProjectSteps, ProjectFields
  <2>2. "intervention.succeeded" \in Outcomes
    BY DEF Outcomes
  <2> HIDE DEF p, m
  <2> QED
    BY <1>2, <2>1, <2>2, FoldOfInterventions
<1>4. Chained(stream, m, r, p.interventions[r].state)
  BY <1>1, <1>2, <1>3, AlwaysTraced DEF Traced
<1>5. p.interventions[r].state = "intervention.acknowledged"
  BY <1>3 DEF INTERVENTION_TRANSITIONS
<1>6. PICK a \in 1..m, q \in 1..m, k \in 1..m :
        /\ a < q /\ q < k /\ Fresh(stream, a, m, r)
        /\ Says(stream, a, r, "intervention.authorized")
        /\ Says(stream, q, r, "intervention.requested")
        /\ Says(stream, k, r, "intervention.acknowledged")
  BY <1>4, <1>5 DEF Chained
<1>7. Since(a, n)
  <2>1. ASSUME NEW j \in a..n PROVE ~Reports(j, stream[n].ref, "intervention.proposed")
    <3>1. CASE j = n
      BY <3>1 DEF Reports
    <3>2. CASE j # n
      <4>1. j \in a..m
        BY <1>1, <3>2
      <4> QED
        BY <1>6, <4>1 DEF Fresh, Says, Reports
    <3> QED
      BY <3>1, <3>2
  <2> QED
    BY <2>1 DEF Since
<1>8. a \in 1..n /\ q \in 1..n /\ k \in 1..n
  BY <1>1
<1> QED
  BY <1>6, <1>7, <1>8 DEF Says, Reports

(* "A state cannot be skipped": where the projection reports no violation,
   an intervention that succeeded was authorized, requested and
   acknowledged before, in that order, since it was last proposed, in every
   stream of any length and however it arrived. *)
THEOREM NoStateIsSkipped == ASSUME CaseStreamAssumption PROVE Spec => []SuccessHasItsReceipts
<1>1. Init => IsStream(stream)
  BY StreamFromTheStart
<1>2. IsStream(stream) /\ [Next]_vars => IsStream(stream)'
  BY StreamStep
<1>3. IsStream(stream) => SuccessHasItsReceipts
  BY ReceiptsOfAStream
<1> QED
  BY <1>1, <1>2, <1>3, PTL DEF Spec

----------------------------------------------------------------------------
(* The compiled scene is a fold as well. *)

LEMMA ScenesExist == \A s : \A n \in Nat : \E f : IsScenes(s, n, f)
<1> SUFFICES ASSUME NEW s PROVE \A n \in Nat : \E f : IsScenes(s, n, f)
  OBVIOUS
<1> DEFINE S == {n \in Nat : \E f : IsScenes(s, n, f)}
<1>1. 0 \in S
  <2> DEFINE f == [k \in 0..0 |-> Scene!Blank]
  <2>1. IsScenes(s, 0, f)
    BY DEF IsScenes
  <2> QED
    BY <2>1
<1>2. ASSUME NEW n \in Nat, n \in S PROVE n + 1 \in S
  <2>1. PICK f : IsScenes(s, n, f)
    BY <1>2
  <2> DEFINE g == [k \in 0..(n + 1) |-> IF k = n + 1 THEN Scene!Compile(f[n], s[n + 1], n + 1)
                                        ELSE f[k]]
  <2>2. \A k \in 0..n : f[k] = IF k = 0 THEN Scene!Blank ELSE Scene!Compile(f[k - 1], s[k], k)
    BY <2>1 DEF IsScenes
  <2>3. \A k \in 0..n : g[k] = f[k]
    OBVIOUS
  <2>4. g[n + 1] = Scene!Compile(f[n], s[n + 1], n + 1)
    OBVIOUS
  <2>5. DOMAIN g = 0..(n + 1) /\ g = [k \in 0..(n + 1) |-> g[k]]
    OBVIOUS
  <2> HIDE DEF g
  <2>6. ASSUME NEW k \in 0..(n + 1)
        PROVE  g[k] = IF k = 0 THEN Scene!Blank ELSE Scene!Compile(g[k - 1], s[k], k)
    <3>1. CASE k = n + 1
      <4>1. k # 0 /\ k - 1 = n /\ n \in 0..n
        BY <3>1
      <4> QED
        BY <2>3, <2>4, <3>1, <4>1
    <3>2. CASE k # n + 1
      <4>1. k \in 0..n /\ (k # 0 => k - 1 \in 0..n)
        BY <3>2
      <4> QED
        BY <2>2, <2>3, <4>1
    <3> QED
      BY <3>1, <3>2
  <2>7. IsScenes(s, n + 1, g)
    BY <2>5, <2>6 DEF IsScenes
  <2> QED
    BY <2>7
<1> HIDE DEF S
<1>3. \A n \in Nat : n \in S
  BY <1>1, <1>2, CountingUp
<1> QED
  BY <1>3 DEF S

LEMMA ScenesStep ==
  ASSUME NEW s, IsStream(s)
  PROVE  /\ ScenesOf(s)[0] = Scene!Blank
         /\ \A k \in 1..Len(s) : ScenesOf(s)[k] = Scene!Compile(ScenesOf(s)[k - 1], s[k], k)
<1>1. Len(s) \in Nat
  BY StreamParts
<1>2. \E f : IsScenes(s, Len(s), f)
  BY <1>1, ScenesExist
<1> DEFINE G == ScenesOf(s)
<1>3. G = [k \in 0..Len(s) |-> IF k = 0 THEN Scene!Blank ELSE Scene!Compile(G[k - 1], s[k], k)]
  BY <1>2 DEF IsScenes, ScenesOf
<1> HIDE DEF G
<1>4. /\ G[0] = Scene!Blank
      /\ \A k \in 1..Len(s) : G[k] = Scene!Compile(G[k - 1], s[k], k)
  BY <1>1, <1>3
<1> QED
  BY <1>4 DEF G

LEMMA CompiledScene ==
  ASSUME NEW s
  PROVE  LET last == ScenesOf(s)[Len(s)]
             spawned == {c \in DOMAIN last.pending :
                           last.pending[c].tool = Scene!SPAWN_TOOL /\ ~last.pending[c].resolved}
         IN  Scene!compileZoetropeScene(s)
               = [last EXCEPT !.violations = @ \cup {last.pending[c].origin : c \in spawned}]
BY DEF Scene!compileZoetropeScene, ScenesOf

LEMMA LinesDraw == ASSUME NEW s, NEW e, NEW n PROVE Changes(s, Scene!Lines(s, e, n), Drawn)
<1> DEFINE D(t, u) == Changes(t, u, Drawn)
<1>1. \A t, u, v : D(t, u) /\ D(u, v) => D(t, v)
  BY DEF Changes
<1>2. \A t : D(t, t)
  BY DEF Changes
<1>3. \A t, file, item, call : D(t, Scene!Emit(t, file, item, call))
  BY DEF Changes, Drawn, Scene!Emit
<1>4. \A t : D(t, Scene!Text(t, e))
  BY <1>3 DEF Scene!Text
<1>5. \A t, call, tool, node : D(t, Scene!Request(t, e, call, tool, node, n))
  <2>1. \A t, x : D(t, [t EXCEPT !.pending = x])
    BY DEF Changes, Drawn
  <2>2. ASSUME NEW t, NEW call, NEW tool, NEW node
        PROVE  D(t, Scene!Request(t, e, call, tool, node, n))
    <3> DEFINE u == Scene!Emit(t, Scene!Node(t, e), "use", call)
    <3>1. D(t, u)
      BY <1>3
    <3>2. \E x : Scene!Request(t, e, call, tool, node, n) = [u EXCEPT !.pending = x]
      BY DEF Scene!Request
    <3> HIDE DEF u, D
    <3> QED
      BY <1>1, <2>1, <3>1, <3>2
  <2> QED
    BY <2>2
<1>6. \A t, call : D(t, Scene!Result(t, e, call))
  <2>1. \A t, x : D(t, [t EXCEPT !.pending[x].resolved = TRUE])
    BY DEF Changes, Drawn
  <2>2. ASSUME NEW t, NEW call PROVE D(t, Scene!Result(t, e, call))
    <3> DEFINE u == Scene!Emit(t, t.pending[call].node, "result", call)
               v == Scene!Emit(t, Scene!Node(t, e), "result", call)
    <3>1. D(t, u) /\ D(t, v) /\ D(u, [u EXCEPT !.pending[call].resolved = TRUE])
      BY <1>3, <2>1
    <3>2. Scene!Result(t, e, call) = IF call \in DOMAIN t.pending
                                     THEN [u EXCEPT !.pending[call].resolved = TRUE] ELSE v
      BY DEF Scene!Result
    <3> HIDE DEF u, v, D
    <3> QED
      BY <1>1, <3>1, <3>2
  <2> QED
    BY <2>2
<1>7. D(s, Scene!Spawned(s, e, n))
  <2>1. \A t, x, y : D(t, [t EXCEPT !.nodes = x]) /\ D(t, [t EXCEPT !.nodes = x, !.spawns = y])
    BY DEF Changes, Drawn
  <2> DEFINE u == Scene!Text(s, e)
             v == Scene!Request(s, e, <<"spawn", n>>, Scene!SPAWN_TOOL, "main", n)
  <2>2. D(s, u) /\ D(s, v)
    BY <1>4, <1>5
  <2>3. \/ \E x : Scene!Spawned(s, e, n) = [u EXCEPT !.nodes = x]
        \/ \E x, y : Scene!Spawned(s, e, n) = [v EXCEPT !.nodes = x, !.spawns = y]
    BY DEF Scene!Spawned
  <2> HIDE DEF u, v, D
  <2> QED
    BY <1>1, <2>1, <2>2, <2>3
<1>8. D(s, Scene!Started(s, e))
  <2> HIDE DEF D
  <2> QED
    BY <1>1, <1>3, <1>4 DEF Scene!Started
<1>9. D(s, Scene!Ended(s, e))
  <2> HIDE DEF D
  <2> QED
    BY <1>1, <1>4, <1>6 DEF Scene!Ended
<1>10. D(s, Scene!Decided(s, e, n))
  <2> DEFINE tool == Scene!PLATFORM_TOOL[e.type]
             u == Scene!Request(s, e, <<"plat", n>>, tool, Scene!Node(s, e), n)
             chip == Scene!Result(u, e, <<"plat", n>>)
             call == Scene!Named(e)
  <2>1. D(s, u) /\ D(u, chip)
    BY <1>5, <1>6
  <2>2. D(s, Scene!Result(s, e, call)) /\ D(chip, Scene!Result(chip, e, call))
    BY <1>6
  <2>3. \/ Scene!Decided(s, e, n) = Scene!Result(s, e, call)
        \/ Scene!Decided(s, e, n) = Scene!Result(chip, e, call)
        \/ Scene!Decided(s, e, n) = chip
    BY DEF Scene!Decided
  <2> HIDE DEF u, chip, call, D
  <2> QED
    BY <1>1, <2>1, <2>2, <2>3
<1>11. D(s, Scene!Request(s, e, Scene!CallOf(e, n), e.tool, Scene!Node(s, e), n))
  BY <1>5
<1>12. D(s, Scene!Result(s, e, Scene!CallOf(e, n)))
  BY <1>6
<1> HIDE DEF D
<1>13. D(s, Scene!Lines(s, e, n))
  BY <1>2, <1>4, <1>7, <1>8, <1>9, <1>10, <1>11, <1>12 DEF Scene!Lines
<1> QED
  BY <1>13 DEF D

LEMMA CompileJudges ==
  ASSUME NEW s, DOMAIN s = SceneFields, NEW e, NEW n
  PROVE  /\ DOMAIN Scene!Compile(s, e, n) = SceneFields
         /\ s.blocked \subseteq Scene!Compile(s, e, n).blocked
         /\ s.violations \subseteq Scene!Compile(s, e, n).violations
         /\ e.type = "armor.blocked" /\ e.input # "none" =>
              e.input \in Scene!Compile(s, e, n).blocked
         /\ e.type \in Scene!USES_INPUT_AS_CONTENT /\ e.input # "none" /\ e.input \in s.blocked =>
              n \in Scene!Compile(s, e, n).violations
<1> DEFINE l == Scene!Lines(s, e, n)
           b == IF e.type = "armor.blocked" THEN l.blocked \cup ({e.input} \ {"none"}) ELSE l.blocked
           d == IF e.type = "gateway.denied" THEN l.denied \cup ({e.capability} \ {"none"})
                ELSE l.denied
           v == IF Scene!Misuse(l, e) THEN l.violations \cup {n} ELSE l.violations
           done == [l EXCEPT !.blocked = b, !.denied = d, !.violations = v]
           t == Scene!Compile(s, e, n)
<1>1. DOMAIN l = SceneFields /\ l.blocked = s.blocked /\ l.violations = s.violations
  BY LinesDraw DEF Changes, Drawn, SceneFields
<1>2. Scene!Checked(l, e, n) = done
  BY DEF Scene!Checked
<1>3. \E x : t = [done EXCEPT !.entries = x]
  <2>1. \E x : t = [Scene!Checked(l, e, n) EXCEPT !.entries = x]
    BY DEF Scene!Compile
  <2> HIDE DEF done, t, l
  <2> QED
    BY <1>2, <2>1
<1> HIDE DEF l
<1>4. Scene!Misuse(l, e) <=> \/ e.type \in Scene!USES_INPUT_AS_CONTENT /\ e.input # "none"
                                   /\ e.input \in l.blocked
                             \/ e.type = "agent.spawned" /\ e.parent # "none"
                                   /\ e.capability # "none" /\ e.capability \in l.denied
  BY DEF Scene!Misuse
<1> HIDE DEF b, d, v, t
<1>5. DOMAIN t = SceneFields /\ t.blocked = b /\ t.violations = v
  BY <1>1, <1>3 DEF SceneFields
<1>6. /\ s.blocked \subseteq b
      /\ e.type = "armor.blocked" /\ e.input # "none" => e.input \in b
  BY <1>1 DEF b
<1>7. /\ s.violations \subseteq v
      /\ e.type \in Scene!USES_INPUT_AS_CONTENT /\ e.input # "none" /\ e.input \in s.blocked =>
           n \in v
  BY <1>1, <1>4 DEF v
<1> QED
  BY <1>5, <1>6, <1>7 DEF t

LEMMA AlwaysScreens ==
  ASSUME NEW s, IsStream(s) PROVE \A k \in Nat : k <= Len(s) => Screens(s, k)
<1> DEFINE S == {k \in Nat : k <= Len(s) => Screens(s, k)}
<1>1. 0 \in S
  <2>1. DOMAIN Scene!Blank = SceneFields
    BY DEF Scene!Blank, SceneFields
  <2> QED
    BY <2>1, ScenesStep DEF Screens
<1>2. ASSUME NEW k \in Nat, k \in S PROVE k + 1 \in S
  <2> SUFFICES ASSUME k + 1 <= Len(s) PROVE Screens(s, k + 1)
    OBVIOUS
  <2> DEFINE p == ScenesOf(s)[k]
             q == ScenesOf(s)[k + 1]
             e == s[k + 1]
             Blocks(n) == s[n].type = "armor.blocked" /\ s[n].input # "none"
  <2>1. Len(s) \in Nat /\ k <= Len(s) /\ k + 1 \in 1..Len(s) /\ (k + 1) - 1 = k
    BY StreamParts
  <2>2. q = Scene!Compile(p, e, k + 1)
    BY <2>1, ScenesStep
  <2>3. /\ DOMAIN p = SceneFields
        /\ \A n \in 1..k : Blocks(n) => s[n].input \in p.blocked
        /\ \A n \in 1..k, m \in 1..k :
             Blocks(n) /\ n < m /\ s[m].input = s[n].input
               /\ s[m].type \in Scene!USES_INPUT_AS_CONTENT => m \in p.violations
    BY <1>2, <2>1 DEF Screens
  <2> HIDE DEF p, q
  <2>4. /\ DOMAIN q = SceneFields /\ p.blocked \subseteq q.blocked
        /\ p.violations \subseteq q.violations
        /\ e.type = "armor.blocked" /\ e.input # "none" => e.input \in q.blocked
        /\ e.type \in Scene!USES_INPUT_AS_CONTENT /\ e.input # "none" /\ e.input \in p.blocked =>
             k + 1 \in q.violations
    BY <2>2, <2>3, CompileJudges
  <2>5. ASSUME NEW n \in 1..(k + 1), Blocks(n) PROVE s[n].input \in q.blocked
    <3>1. CASE n = k + 1
      BY <2>4, <2>5, <3>1
    <3>2. CASE n \in 1..k
      BY <2>3, <2>4, <2>5, <3>2
    <3> QED
      BY <3>1, <3>2
  <2>6. ASSUME NEW n \in 1..(k + 1), NEW m \in 1..(k + 1), Blocks(n), n < m,
               s[m].input = s[n].input, s[m].type \in Scene!USES_INPUT_AS_CONTENT
        PROVE  m \in q.violations
    <3>1. n \in 1..k
      BY <2>6
    <3>2. CASE m = k + 1
      BY <2>3, <2>4, <2>6, <3>1, <3>2
    <3>3. CASE m \in 1..k
      BY <2>3, <2>4, <2>6, <3>1, <3>3
    <3> QED
      BY <3>2, <3>3
  <2> QED
    BY <2>4, <2>5, <2>6 DEF Screens, q
<1> HIDE DEF S
<1>3. \A k \in Nat : k \in S
  BY <1>1, <1>2, CountingUp
<1> QED
  BY <1>3 DEF S

LEMMA UsesAreCaught == ASSUME IsStream(stream) PROVE BlockedUseIsCaught
<1> DEFINE last == ScenesOf(stream)[Len(stream)]
           spawned == {c \in DOMAIN last.pending :
                         last.pending[c].tool = Scene!SPAWN_TOOL /\ ~last.pending[c].resolved}
           scene == Scene!compileZoetropeScene(stream)
<1>1. Len(stream) \in Nat /\ DOMAIN stream = 1..Len(stream)
  BY StreamParts
<1>2. Screens(stream, Len(stream))
  BY <1>1, AlwaysScreens
<1>3. last.violations \subseteq scene.violations
  <2>1. scene = [last EXCEPT !.violations = @ \cup {last.pending[c].origin : c \in spawned}]
    BY CompiledScene
  <2>2. "violations" \in DOMAIN last
    BY <1>2 DEF Screens, SceneFields
  <2> HIDE DEF last, scene, spawned
  <2> QED
    BY <2>1, <2>2
<1>4. ASSUME NEW n \in DOMAIN stream, NEW m \in DOMAIN stream, n < m,
             stream[n].type = "armor.blocked", stream[n].input # "none",
             stream[m].input = stream[n].input,
             stream[m].type \in {"tool.requested", "memory.written", "memory.recalled"}
      PROVE  m \in State.violations \cup scene.violations
  <2>1. stream[m].type \in Scene!USES_INPUT_AS_CONTENT
    BY <1>4 DEF Scene!USES_INPUT_AS_CONTENT
  <2>2. m \in last.violations
    BY <1>1, <1>2, <1>4, <2>1 DEF Screens
  <2> HIDE DEF last, scene
  <2> QED
    BY <1>3, <2>2
<1> QED
  BY <1>4 DEF BlockedUseIsCaught

(* "No later tool or memory event may reference it as usable content": a
   use of an input Model Armor blocked before, as a tool's, a memory's or a
   recollection's, is a violation the page shows, whatever came between. *)
THEOREM BlockedUseIsShown == ASSUME CaseStreamAssumption PROVE Spec => []BlockedUseIsCaught
<1>1. Init => IsStream(stream)
  BY StreamFromTheStart
<1>2. IsStream(stream) /\ [Next]_vars => IsStream(stream)'
  BY StreamStep
<1>3. IsStream(stream) => BlockedUseIsCaught
  BY UsesAreCaught
<1> QED
  BY <1>1, <1>2, <1>3, PTL DEF Spec
----------------------------------------------------------------------------
(* The story: what was found first stays what is found first. *)

LEMMA StoryLeast ==
  ASSUME NEW S, S \subseteq Nat, S # {}
  PROVE  Story!Min(S) \in S /\ \A j \in S : Story!Min(S) <= j
<1>1. Story!Min(S) = Min(S)
  BY DEF Min, Story!Min
<1> QED
  BY <1>1, LeastOf

LEMMA FirstOfSome ==
  ASSUME NEW P, P \subseteq Nat \ {0}
  PROVE  /\ Story!First(P) \in Nat
         /\ Story!First(P) # 0 <=> P # {}
         /\ P # {} => Story!First(P) \in P /\ \A n \in P : Story!First(P) <= n
<1>1. P = {} => Story!First(P) = 0
  BY DEF Story!First
<1>2. P # {} => Story!First(P) \in P /\ \A n \in P : Story!First(P) <= n
  BY StoryLeast DEF Story!First
<1>3. CASE P = {}
  BY <1>1, <1>3
<1>4. CASE P # {}
  <2>1. Story!First(P) \in Nat /\ Story!First(P) # 0
    BY <1>2, <1>4
  <2> QED
    BY <1>2, <1>4, <2>1
<1> QED
  BY <1>3, <1>4

LEMMA FirstStays ==
  ASSUME NEW k \in Nat, NEW P, NEW Q, Q \subseteq Nat \ {0}, P = Q \cap 1..k,
         Story!First(P) # 0
  PROVE  Story!First(Q) = Story!First(P) /\ Story!First(P) \in P
<1>1. P \subseteq Nat \ {0}
  OBVIOUS
<1>2. Story!First(P) \in P /\ \A n \in P : Story!First(P) <= n
  BY <1>1, FirstOfSome
<1>3. Story!First(Q) \in Q /\ \A n \in Q : Story!First(Q) <= n
  BY <1>2, FirstOfSome
<1>4. Story!First(Q) <= Story!First(P)
  BY <1>2, <1>3
<1> DEFINE x == Story!First(P)
           y == Story!First(Q)
<1>5. x \in Nat /\ y \in Nat \ {0} /\ x <= k
  <2>1. x \in 1..k
    BY <1>2
  <2>2. y \in Nat \ {0}
    BY <1>3
  <2> HIDE DEF x, y
  <2> QED
    BY <2>1, <2>2
<1>6. Story!First(Q) \in P
  BY <1>3, <1>4, <1>5
<1>7. Story!First(P) <= Story!First(Q)
  BY <1>2, <1>6
<1> QED
  BY <1>2, <1>4, <1>5, <1>7

LEMMA TypesOf ==
  ASSUME NEW s, IsStream(s), NEW T
  PROVE  /\ Story!ofType(s, T) \subseteq 1..Len(s)
         /\ Story!ofType(s, T) \subseteq Nat \ {0}
         /\ \A n : n \in Story!ofType(s, T) <=> n \in 1..Len(s) /\ s[n].type \in T
BY StreamParts DEF Story!ofType

LEMMA TypesGrow ==
  ASSUME NEW s, IsStream(s), NEW t, IsStream(t), Continues(s, t), NEW T
  PROVE  Story!ofType(s, T) = Story!ofType(t, T) \cap 1..Len(s)
<1>1. Len(s) \in Nat /\ Len(t) \in Nat /\ Len(s) <= Len(t) /\ \A n \in 1..Len(s) : t[n] = s[n]
  BY StreamParts DEF Continues
<1>2. \A n \in 1..Len(s) : n \in 1..Len(t)
  BY <1>1
<1> QED
  BY <1>1, <1>2, TypesOf

LEMMA StepStays ==
  ASSUME NEW s, IsStream(s), NEW t, IsStream(t), Continues(s, t), NEW type, NEW id,
         Story!Step(s, type, id) # 0
  PROVE  /\ Story!Step(t, type, id) = Story!Step(s, type, id)
         /\ Story!Step(s, type, id) \in 1..Len(s)
<1> DEFINE P == {n \in Story!ofType(s, {type}) : id # "none" /\ s[n].ref = id}
           Q == {n \in Story!ofType(t, {type}) : id # "none" /\ t[n].ref = id}
<1>1. Len(s) \in Nat /\ Q \subseteq Nat \ {0} /\ P \subseteq 1..Len(s)
  BY StreamParts, TypesOf
<1>2. P = Q \cap 1..Len(s)
  <2>1. \A n \in 1..Len(s) : t[n] = s[n]
    BY DEF Continues
  <2> QED
    BY <2>1, TypesGrow, <1>1
<1>3. Story!Step(s, type, id) = Story!First(P) /\ Story!Step(t, type, id) = Story!First(Q)
  BY DEF Story!Step
<1> HIDE DEF P, Q
<1> QED
  BY <1>1, <1>2, <1>3, FirstStays

LEMMA ClaimStays ==
  ASSUME NEW A, NEW B, NEW c, NEW d, NEW a, NEW p,
         ChainsStay(A, B, c, d, a), Story!Claim(c, A, p) # Story!Unproven
  PROVE  /\ Story!Claim(d, B, p) # Story!Unproven
         /\ Story!Claim(d, B, p).evidence[a] <= Story!Claim(c, A, p).evidence[a]
<1> DEFINE P == {n \in A : Story!Whole(c[n])}
           Q == {n \in B : Story!Whole(d[n])}
<1>1. /\ P # {}
      /\ Story!Claim(c, A, p) = [primary |-> c[Story!Min(P)][p], evidence |-> c[Story!Min(P)]]
  BY DEF Story!Claim
<1>2. P \subseteq Q /\ P \subseteq A /\ Q \subseteq B /\ Q \subseteq Nat /\ P \subseteq Nat
  BY DEF ChainsStay
<1>3. Story!Claim(d, B, p) = [primary |-> d[Story!Min(Q)][p], evidence |-> d[Story!Min(Q)]]
  BY <1>1, <1>2 DEF Story!Claim
<1> HIDE DEF P, Q
<1>4. Story!Min(P) \in P
  BY <1>1, <1>2, StoryLeast
<1>5. Story!Min(Q) \in Q /\ \A j \in Q : Story!Min(Q) <= j
  BY <1>1, <1>2, StoryLeast
<1>6. Story!Min(Q) <= Story!Min(P)
  BY <1>2, <1>4, <1>5
<1>7. d[Story!Min(Q)][a] = Story!Min(Q) /\ c[Story!Min(P)][a] = Story!Min(P) /\ d[Story!Min(Q)] # <<>>
  BY <1>2, <1>4, <1>5 DEF ChainsStay
<1> QED
  BY <1>1, <1>3, <1>6, <1>7 DEF Story!Unproven

(* The chain of each kind of claim stays once it is whole. *)
LEMMA EnforcementStays ==
  ASSUME NEW s, IsStream(s), NEW t, IsStream(t), Continues(s, t), NEW n \in 1..Len(s),
         Story!Whole(Story!Enforcement(s, n))
  PROVE  Story!Enforcement(t, n) = Story!Enforcement(s, n)
<1> DEFINE P == {m \in Story!ofType(s, {"memory.rejected"}) : m > n /\ s[m].input = s[n].input}
           Q == {m \in Story!ofType(t, {"memory.rejected"}) : m > n /\ t[m].input = t[n].input}
           T == {"tool.requested", "memory.written"}
           Leaks(u, r) == \E m \in Story!ofType(u, T) : n < m /\ m < r
           x == Story!First(P)
           y == Story!First(Q)
<1>1. /\ Story!Enforcement(s, n) = IF Leaks(s, x) THEN <<n, 0>> ELSE <<n, x>>
      /\ Story!Enforcement(t, n) = IF Leaks(t, y) THEN <<n, 0>> ELSE <<n, y>>
  BY DEF Story!Enforcement
<1>2. x # 0 /\ ~Leaks(s, x)
  <2> HIDE DEF Leaks, x
  <2>1. Story!Whole(<<n, 0>>) => FALSE
    BY DEF Story!Whole
  <2>2. Story!Whole(<<n, x>>) => x # 0
    BY DEF Story!Whole
  <2> QED
    BY <1>1, <2>1, <2>2
<1>3. \A m \in 1..Len(s) : t[m] = s[m]
  BY DEF Continues
<1>4. Q \subseteq Nat \ {0} /\ P = Q \cap 1..Len(s)
  <2>1. Q \subseteq Nat \ {0}
    BY TypesOf
  <2>2. P = Q \cap 1..Len(s)
    BY <1>3, TypesGrow
  <2> QED
    BY <2>1, <2>2
<1>5. y = x /\ x \in 1..Len(s)
  <2>1. Len(s) \in Nat
    BY StreamParts
  <2> HIDE DEF P, Q
  <2> QED
    BY <1>2, <1>4, <2>1, FirstStays
<1>6. ~Leaks(t, x)
  <2>1. ASSUME NEW m \in Story!ofType(t, T), n < m, m < x PROVE FALSE
    <3>1. m \in Nat \ {0} /\ Len(s) \in Nat
      BY TypesOf, StreamParts
    <3>2. m \in 1..Len(s)
      BY <1>5, <2>1, <3>1
    <3>3. m \in Story!ofType(s, T)
      BY <2>1, <3>2, TypesGrow
    <3> QED
      BY <1>2, <2>1, <3>3
  <2> HIDE DEF x
  <2> QED
    BY <2>1
<1> HIDE DEF Leaks, x, y
<1> QED
  BY <1>1, <1>2, <1>5, <1>6

LEMMA RepeatedIsEnough ==
  ASSUME NEW u, NEW n PROVE Story!Repeated(u, n) = Enough(u, n, FailuresBefore(u, n))
BY DEF Story!Repeated, Enough, Needed, FailuresBefore

LEMMA RepeatedStays ==
  ASSUME NEW s, IsStream(s), NEW t, IsStream(t), Continues(s, t), NEW n \in 1..Len(s),
         Story!Repeated(s, n)
  PROVE  Story!Repeated(t, n)
<1> DEFINE P == FailuresBefore(s, n)
<1>1. \A m \in 1..Len(s) : t[m] = s[m]
  BY DEF Continues
<1>2. FailuresBefore(t, n) = P
  <2>1. Len(s) \in Nat
    BY StreamParts
  <2>2. \A m \in Nat \ {0} : m < n => m \in 1..Len(s)
    BY <2>1
  <2> QED
    BY <1>1, <2>2, TypesOf, TypesGrow DEF FailuresBefore
<1>3. Needed(t, n) = Needed(s, n) /\ \A m \in P : t[m] = s[m]
  BY <1>1, TypesOf DEF Needed, FailuresBefore
<1> HIDE DEF P
<1>4. PICK tool \in {s[m].tool : m \in P} \ {"none"} :
        Story!Cardinality({m \in P : s[m].tool = tool}) >= Needed(s, n)
  BY RepeatedIsEnough DEF Enough, P
<1>5. {m \in P : t[m].tool = tool} = {m \in P : s[m].tool = tool}
  BY <1>3
<1>6. tool \in {t[m].tool : m \in P} \ {"none"}
  BY <1>3, <1>4
<1>7. Enough(t, n, P)
  BY <1>3, <1>4, <1>5, <1>6 DEF Enough
<1> QED
  BY <1>2, <1>7, RepeatedIsEnough

LEMMA RecoveryStays ==
  ASSUME NEW s, IsStream(s), NEW t, IsStream(t), Continues(s, t), NEW n \in 1..Len(s),
         Story!Whole(Story!Recovery(s, n))
  PROVE  Story!Recovery(t, n) = Story!Recovery(s, n)
<1> DEFINE id == s[n].under
           P(u) == {m \in Story!ofType(u, {"intervention.proposed"}) : u[m].under = id}
           I(u) == Story!Step(u, "incident.opened", id)
           i(u) == IF I(u) # 0 /\ Story!Repeated(u, I(u)) THEN I(u) ELSE 0
           p(u) == Story!First(P(u))
           Then(u, type) == IF p(u) = 0 THEN 0 ELSE Story!Step(u, type, u[p(u)].ref)
           R(u) == Story!Step(u, "incident.resolved", id)
           Chain(u) == <<i(u), n, p(u), Then(u, "intervention.authorized"),
                         Then(u, "intervention.requested"),
                         Then(u, "intervention.acknowledged"), R(u)>>
<1>1. \A m \in 1..Len(s) : t[m] = s[m]
  BY DEF Continues
<1>2. Story!Recovery(s, n) = Chain(s) /\ Story!Recovery(t, n) = Chain(t)
  BY <1>1 DEF Story!Recovery
<1>3. /\ i(s) # 0 /\ p(s) # 0 /\ R(s) # 0
      /\ Then(s, "intervention.authorized") # 0 /\ Then(s, "intervention.requested") # 0
      /\ Then(s, "intervention.acknowledged") # 0
  <2> HIDE DEF i, p, R, Then
  <2> QED
    BY <1>2 DEF Story!Whole
<1>4. i(t) = i(s)
  <2>1. I(s) # 0 /\ Story!Repeated(s, I(s))
    BY <1>3
  <2>2. I(t) = I(s) /\ I(s) \in 1..Len(s)
    BY <2>1, StepStays
  <2> HIDE DEF I
  <2>3. Story!Repeated(t, I(s))
    BY <2>1, <2>2, RepeatedStays
  <2> QED
    BY <2>1, <2>2, <2>3
<1>5. p(t) = p(s) /\ p(s) \in 1..Len(s)
  <2>1. P(t) \subseteq Nat \ {0} /\ Len(s) \in Nat
    BY TypesOf, StreamParts
  <2>2. P(s) = P(t) \cap 1..Len(s)
    BY <1>1, TypesGrow
  <2>3. p(s) # 0
    BY <1>3
  <2> HIDE DEF P
  <2> QED
    BY <2>1, <2>2, <2>3, FirstStays
<1>6. ASSUME NEW type, Then(s, type) # 0 PROVE Then(t, type) = Then(s, type)
  <2>1. Then(s, type) = Story!Step(s, type, s[p(s)].ref)
    BY <1>6
  <2>2. Then(t, type) = Story!Step(t, type, s[p(s)].ref)
    <3> HIDE DEF p
    <3> QED
      BY <1>1, <1>3, <1>5
  <2> HIDE DEF p, Then
  <2> QED
    BY <1>6, <2>1, <2>2, StepStays
<1>7. R(t) = R(s)
  BY <1>3, StepStays
<1> HIDE DEF i, p, R, Then
<1> QED
  BY <1>2, <1>3, <1>4, <1>5, <1>6, <1>7

(* The Runtime's, when it knew what its request was aimed at. *)
LEMMA EffectStays ==
  ASSUME NEW s, IsStream(s), NEW t, IsStream(t), Continues(s, t), NEW n \in 1..Len(s),
         Story!Whole(Story!Effect(s, n)),
         Story!Step(s, "intervention.requested", s[n].ref) # 0
  PROVE  Story!Effect(t, n) = Story!Effect(s, n)
<1> DEFINE id == s[n].ref
           r(u) == Story!Step(u, "intervention.requested", id)
           a(u) == IF r(u) = 0 THEN "none" ELSE u[r(u)].agent
           P(u) == {m \in Story!ofType(u, {"tool.succeeded"}) :
                      m > n /\ a(u) \in {"none", u[m].agent}}
           R(u) == {m \in Story!ofType(u, {"incident.resolved"}) :
                      u[m].under = id /\ u[m].detail = "recovered"}
           S(u) == Story!Step(u, "intervention.succeeded", id)
           Chain(u) == <<n, S(u), Story!First(P(u)), Story!First(R(u))>>
<1>1. (\A m \in 1..Len(s) : t[m] = s[m]) /\ Len(s) \in Nat
  BY StreamParts DEF Continues
<1>2. Story!Effect(s, n) = Chain(s) /\ Story!Effect(t, n) = Chain(t)
  BY <1>1 DEF Story!Effect
<1>3. S(s) # 0 /\ Story!First(P(s)) # 0 /\ Story!First(R(s)) # 0
  <2> HIDE DEF S, P, R
  <2> QED
    BY <1>2 DEF Story!Whole
<1>4. a(t) = a(s)
  <2>1. r(t) = r(s) /\ r(s) \in 1..Len(s) /\ r(s) # 0
    BY StepStays
  <2> HIDE DEF r
  <2> QED
    BY <1>1, <2>1
<1>5. S(t) = S(s)
  BY <1>3, StepStays
<1>6. Story!First(P(t)) = Story!First(P(s))
  <2>1. P(t) \subseteq Nat \ {0} /\ P(s) = P(t) \cap 1..Len(s)
    <3> HIDE DEF a
    <3> QED
      BY <1>1, <1>4, TypesOf, TypesGrow
  <2> HIDE DEF P
  <2> QED
    BY <1>1, <1>3, <2>1, FirstStays
<1>7. Story!First(R(t)) = Story!First(R(s))
  <2>1. R(t) \subseteq Nat \ {0} /\ R(s) = R(t) \cap 1..Len(s)
    BY <1>1, TypesOf, TypesGrow
  <2> HIDE DEF R
  <2> QED
    BY <1>1, <1>3, <2>1, FirstStays
<1> HIDE DEF P, R, S
<1> QED
  BY <1>2, <1>5, <1>6, <1>7

LEMMA ActivationStays ==
  ASSUME NEW s, IsStream(s), NEW t, IsStream(t), Continues(s, t), NEW n \in 1..Len(s),
         Story!Whole(Story!Activation(s, n))
  PROVE  Story!Activation(t, n) = Story!Activation(s, n)
<1> DEFINE id == s[n].ref
           A(u) == {m \in Story!ofType(u, {"human_escalation.resolved"}) :
                      u[m].ref = id /\ u[m].detail = "approved"}
           Q(u) == {m \in Story!ofType(u, {"tool.requested"}) : u[m].under = id}
           q(u) == Story!First(Q(u))
           C(u, type) == {m \in Story!ofType(u, {type}) :
                            /\ q(u) # 0 /\ u[q(u)].call # "none"
                            /\ u[m].call = u[q(u)].call}
           Chain(u) == <<n, Story!First(A(u)), q(u), Story!First(C(u, "identity.allowed")),
                         Story!First(C(u, "tool.succeeded"))>>
<1>1. (\A m \in 1..Len(s) : t[m] = s[m]) /\ Len(s) \in Nat
  BY StreamParts DEF Continues
<1>2. Story!Activation(s, n) = Chain(s) /\ Story!Activation(t, n) = Chain(t)
  BY <1>1 DEF Story!Activation
<1>3. /\ Story!First(A(s)) # 0 /\ q(s) # 0
      /\ Story!First(C(s, "identity.allowed")) # 0 /\ Story!First(C(s, "tool.succeeded")) # 0
  <2> HIDE DEF A, q, C
  <2> QED
    BY <1>2 DEF Story!Whole
<1>4. q(t) = q(s) /\ q(s) \in 1..Len(s)
  <2>1. Q(t) \subseteq Nat \ {0} /\ Q(s) = Q(t) \cap 1..Len(s)
    BY <1>1, TypesOf, TypesGrow
  <2> HIDE DEF Q
  <2> QED
    BY <1>1, <1>3, <2>1, FirstStays
<1>5. Story!First(A(t)) = Story!First(A(s))
  <2>1. A(t) \subseteq Nat \ {0} /\ A(s) = A(t) \cap 1..Len(s)
    BY <1>1, TypesOf, TypesGrow
  <2> HIDE DEF A
  <2> QED
    BY <1>1, <1>3, <2>1, FirstStays
<1>6. ASSUME NEW type, Story!First(C(s, type)) # 0
      PROVE  Story!First(C(t, type)) = Story!First(C(s, type))
  <2>1. C(t, type) \subseteq Nat \ {0} /\ C(s, type) = C(t, type) \cap 1..Len(s)
    <3> HIDE DEF q
    <3>1. t[q(s)] = s[q(s)]
      BY <1>1, <1>4
    <3> QED
      BY <1>1, <1>4, <3>1, TypesOf, TypesGrow
  <2> HIDE DEF C
  <2> QED
    BY <1>1, <1>6, <2>1, FirstStays
<1> HIDE DEF A, q, C
<1> QED
  BY <1>2, <1>3, <1>4, <1>5, <1>6

(* So a claim that is shown stays shown, each kind in its own way. *)
LEMMA ScreeningStays ==
  ASSUME NEW s, IsStream(s), NEW t, IsStream(t), Continues(s, t),
         Story!proveScreening(s) # Story!Unproven
  PROVE  /\ Story!proveScreening(t) # Story!Unproven
         /\ Story!proveScreening(t).evidence[1] <= Story!proveScreening(s).evidence[1]
<1> DEFINE C(u) == {n \in Story!ofType(u, {"armor.blocked"}) : u[n].input # "none"}
           c(u) == [n \in C(u) |-> Story!Enforcement(u, n)]
<1>1. \A u : Story!proveScreening(u) = Story!Claim(c(u), C(u), 1)
  BY DEF Story!proveScreening
<1>2. /\ Len(s) \in Nat /\ C(t) \subseteq Nat \ {0} /\ C(s) = C(t) \cap 1..Len(s)
      /\ \A n \in C(s) : n \in C(t) /\ n \in 1..Len(s)
  BY StreamParts, TypesOf, TypesGrow DEF Continues
<1>3. \A u, n : Story!Enforcement(u, n)[1] = n /\ Story!Enforcement(u, n) # <<>>
  BY DEF Story!Enforcement
<1> HIDE DEF C
<1>4. \A n \in C(s) : Story!Whole(c(s)[n]) => c(t)[n] = c(s)[n]
  BY <1>2, EnforcementStays
<1>5. (\A n \in C(s) : c(s)[n][1] = n) /\ (\A n \in C(t) : c(t)[n][1] = n /\ c(t)[n] # <<>>)
  BY <1>3
<1>6. ChainsStay(C(s), C(t), c(s), c(t), 1)
  BY <1>2, <1>4, <1>5 DEF ChainsStay
<1> HIDE DEF c
<1> QED
  BY <1>1, <1>6, ClaimStays

LEMMA WardenStays ==
  ASSUME NEW s, IsStream(s), NEW t, IsStream(t), Continues(s, t),
         Story!proveWarden(s) # Story!Unproven
  PROVE  /\ Story!proveWarden(t) # Story!Unproven
         /\ Story!proveWarden(t).evidence[2] <= Story!proveWarden(s).evidence[2]
<1> DEFINE C(u) == {n \in Story!ofType(u, {"policy.evaluated"}) :
                      u[n].detail = "auto_act" /\ u[n].under # "none"}
           c(u) == [n \in C(u) |-> Story!Recovery(u, n)]
<1>1. \A u : Story!proveWarden(u) = Story!Claim(c(u), C(u), 2)
  BY DEF Story!proveWarden
<1>2. /\ Len(s) \in Nat /\ C(t) \subseteq Nat \ {0} /\ C(s) = C(t) \cap 1..Len(s)
      /\ \A n \in C(s) : n \in C(t) /\ n \in 1..Len(s)
  BY StreamParts, TypesOf, TypesGrow DEF Continues
<1>3. \A u, n : Story!Recovery(u, n)[2] = n /\ Story!Recovery(u, n) # <<>>
  <2>1. \A a, b, d, e, f, g, h :
          <<a, b, d, e, f, g, h>>[2] = b /\ <<a, b, d, e, f, g, h>> # <<>>
    OBVIOUS
  <2> QED
    BY <2>1 DEF Story!Recovery
<1> HIDE DEF C
<1>4. \A n \in C(s) : Story!Whole(c(s)[n]) => c(t)[n] = c(s)[n]
  BY <1>2, RecoveryStays
<1>5. (\A n \in C(s) : c(s)[n][2] = n) /\ (\A n \in C(t) : c(t)[n][2] = n /\ c(t)[n] # <<>>)
  BY <1>3
<1>6. ChainsStay(C(s), C(t), c(s), c(t), 2)
  BY <1>2, <1>4, <1>5 DEF ChainsStay
<1> HIDE DEF c
<1> QED
  BY <1>1, <1>6, ClaimStays

LEMMA ActivationClaimStays ==
  ASSUME NEW s, IsStream(s), NEW t, IsStream(t), Continues(s, t),
         Story!proveActivation(s) # Story!Unproven
  PROVE  /\ Story!proveActivation(t) # Story!Unproven
         /\ Story!proveActivation(t).evidence[1] <= Story!proveActivation(s).evidence[1]
<1> DEFINE C(u) == {n \in Story!ofType(u, {"human_escalation.opened"}) : u[n].ref # "none"}
           c(u) == [n \in C(u) |-> Story!Activation(u, n)]
<1>1. \A u : Story!proveActivation(u) = Story!Claim(c(u), C(u), 4)
  BY DEF Story!proveActivation
<1>2. /\ Len(s) \in Nat /\ C(t) \subseteq Nat \ {0} /\ C(s) = C(t) \cap 1..Len(s)
      /\ \A n \in C(s) : n \in C(t) /\ n \in 1..Len(s)
  BY StreamParts, TypesOf, TypesGrow DEF Continues
<1>3. \A u, n : Story!Activation(u, n)[1] = n /\ Story!Activation(u, n) # <<>>
  <2>1. \A a, b, d, e, f : <<a, b, d, e, f>>[1] = a /\ <<a, b, d, e, f>> # <<>>
    OBVIOUS
  <2> QED
    BY <2>1 DEF Story!Activation
<1> HIDE DEF C
<1>4. \A n \in C(s) : Story!Whole(c(s)[n]) => c(t)[n] = c(s)[n]
  BY <1>2, ActivationStays
<1>5. (\A n \in C(s) : c(s)[n][1] = n) /\ (\A n \in C(t) : c(t)[n][1] = n /\ c(t)[n] # <<>>)
  BY <1>3
<1>6. ChainsStay(C(s), C(t), c(s), c(t), 1)
  BY <1>2, <1>4, <1>5 DEF ChainsStay
<1> HIDE DEF c
<1> QED
  BY <1>1, <1>6, ClaimStays

(* Without a violation, what the Runtime's claim calls a success was
   requested, so the claim knew whom to look for. *)
LEMMA SuccessWasRequested ==
  ASSUME IsStream(stream), State.violations = {}, NEW n, Story!Whole(Story!Effect(stream, n))
  PROVE  Story!Step(stream, "intervention.requested", stream[n].ref) # 0
<1> DEFINE r == stream[n].ref
           m == Story!Step(stream, "intervention.succeeded", r)
           S == {k \in Story!ofType(stream, {"intervention.succeeded"}) :
                   r # "none" /\ stream[k].ref = r}
           Q == {k \in Story!ofType(stream, {"intervention.requested"}) :
                   r # "none" /\ stream[k].ref = r}
<1>1. m # 0
  <2>1. \A a, b, c, d : Story!Whole(<<a, b, c, d>>) => b # 0
    BY DEF Story!Whole
  <2> HIDE DEF m
  <2> QED
    BY <2>1 DEF Story!Effect, m, r
<1>2. m \in S
  <2>1. S \subseteq Nat \ {0} /\ m = Story!First(S)
    BY TypesOf DEF Story!Step
  <2> HIDE DEF S, m
  <2> QED
    BY <1>1, <2>1, FirstOfSome
<1>3. m \in DOMAIN stream /\ stream[m].type = "intervention.succeeded" /\ stream[m].ref = r
      /\ r # "none"
  <2> HIDE DEF m
  <2> QED
    BY <1>2, TypesOf, StreamParts
<1>4. \E q \in 1..m : stream[q].ref = r /\ stream[q].type = "intervention.requested"
  <2> HIDE DEF m
  <2> QED
    BY <1>3, ReceiptsOfAStream DEF SuccessHasItsReceipts, Reports
<1>5. Q # {}
  <2>1. Len(stream) \in Nat /\ m \in 1..Len(stream)
    BY <1>3, StreamParts
  <2> HIDE DEF m
  <2>2. \A q \in 1..m : q \in 1..Len(stream)
    BY <2>1
  <2> QED
    BY <1>3, <1>4, <2>2, TypesOf
<1>6. Story!First(Q) # 0
  <2>1. Q \subseteq Nat \ {0}
    BY TypesOf
  <2> HIDE DEF Q
  <2> QED
    BY <1>5, <2>1, FirstOfSome
<1> QED
  BY <1>6 DEF Story!Step

LEMMA RuntimeStays ==
  ASSUME IsStream(stream), State.violations = {}, NEW t, IsStream(t), Continues(stream, t),
         Story!proveRuntime(stream) # Story!Unproven
  PROVE  /\ Story!proveRuntime(t) # Story!Unproven
         /\ Story!proveRuntime(t).evidence[1] <= Story!proveRuntime(stream).evidence[1]
<1> DEFINE C(u) == {n \in Story!ofType(u, {"runtime.controlled"}) :
                      u[n].detail = "applied" /\ u[n].ref # "none"}
           c(u) == [n \in C(u) |-> Story!Effect(u, n)]
<1>1. \A u : Story!proveRuntime(u) = Story!Claim(c(u), C(u), 1)
  BY DEF Story!proveRuntime
<1>2. /\ Len(stream) \in Nat /\ C(t) \subseteq Nat \ {0} /\ C(stream) = C(t) \cap 1..Len(stream)
      /\ \A n \in C(stream) : n \in C(t) /\ n \in 1..Len(stream)
  BY StreamParts, TypesOf, TypesGrow DEF Continues
<1>3. \A u, n : Story!Effect(u, n)[1] = n /\ Story!Effect(u, n) # <<>>
  <2>1. \A a, b, d, e : <<a, b, d, e>>[1] = a /\ <<a, b, d, e>> # <<>>
    OBVIOUS
  <2> QED
    BY <2>1 DEF Story!Effect
<1> HIDE DEF C
<1>4. \A n \in C(stream) : Story!Whole(c(stream)[n]) => c(t)[n] = c(stream)[n]
  BY <1>2, SuccessWasRequested, EffectStays
<1>5. /\ \A n \in C(stream) : c(stream)[n][1] = n
      /\ \A n \in C(t) : c(t)[n][1] = n /\ c(t)[n] # <<>>
  BY <1>3
<1>6. ChainsStay(C(stream), C(t), c(stream), c(t), 1)
  BY <1>2, <1>4, <1>5 DEF ChainsStay
<1> HIDE DEF c
<1> QED
  BY <1>1, <1>6, ClaimStays

LEMMA StoryTold ==
  ASSUME NEW s
  PROVE  LET told == Story!enterpriseStory("loaded", s)
         IN  /\ DOMAIN told.cards = Story!SLOTS
             /\ \A slot \in Story!SLOTS :
                  told.cards[slot] = "evidenced" <=> told.proofs[slot] # Story!Unproven
             /\ told.proofs["security"] = Story!proveScreening(s)
             /\ told.proofs["warden"] = Story!proveWarden(s)
             /\ told.proofs["runtime"] = Story!proveRuntime(s)
             /\ told.proofs["activation"] = Story!proveActivation(s)
<1> DEFINE P == Story!PROVERS(s)
           told == Story!enterpriseStory("loaded", s)
<1>1. /\ P["security"] = Story!proveScreening(s) /\ P["warden"] = Story!proveWarden(s)
      /\ P["runtime"] = Story!proveRuntime(s) /\ P["activation"] = Story!proveActivation(s)
  BY DEF Story!PROVERS, Story!SLOTS
<1> HIDE DEF P
<1>2. /\ told.proofs = P
      /\ told.cards = [slot \in Story!SLOTS |->
                         IF P[slot] = Story!Unproven THEN "absent" ELSE "evidenced"]
  BY DEF Story!enterpriseStory, Story!Told, P
<1> HIDE DEF told
<1> QED
  BY <1>1, <1>2 DEF told

LEMMA ClaimsKept ==
  ASSUME IsStream(stream), NEW t, IsStream(t), Continues(stream, t)
  PROVE  Kept(Story!enterpriseStory("loaded", stream), Story!enterpriseStory("loaded", t),
              project(t, Len(t)).violations = {})
<1> DEFINE before == Story!enterpriseStory("loaded", stream)
           after == Story!enterpriseStory("loaded", t)
           lawful == project(t, Len(t)).violations = {}
           Good(slot) ==
             /\ after.cards[slot] = "evidenced"
             /\ after.proofs[slot].evidence[FoundFrom(slot)]
                  <= before.proofs[slot].evidence[FoundFrom(slot)]
<1>1. ASSUME lawful PROVE State.violations = {}
  <2>1. Len(stream) \in Nat /\ Len(t) \in Nat /\ Len(stream) <= Len(t)
        /\ \A k \in 1..Len(stream) : stream[k] = t[k]
    BY StreamParts DEF Continues
  <2>2. State = project(t, Len(stream))
    BY <2>1, ProjectOfPrefix DEF State
  <2> QED
    BY <1>1, <2>1, <2>2, ViolationsStay
<1>2. /\ DOMAIN before.cards = Story!SLOTS
      /\ \A slot \in Story!SLOTS :
           /\ before.cards[slot] = "evidenced" <=> before.proofs[slot] # Story!Unproven
           /\ after.cards[slot] = "evidenced" <=> after.proofs[slot] # Story!Unproven
      /\ before.proofs["security"] = Story!proveScreening(stream)
      /\ before.proofs["warden"] = Story!proveWarden(stream)
      /\ before.proofs["runtime"] = Story!proveRuntime(stream)
      /\ before.proofs["activation"] = Story!proveActivation(stream)
      /\ after.proofs["security"] = Story!proveScreening(t)
      /\ after.proofs["warden"] = Story!proveWarden(t)
      /\ after.proofs["runtime"] = Story!proveRuntime(t)
      /\ after.proofs["activation"] = Story!proveActivation(t)
  BY StoryTold
<1> HIDE DEF before, after, lawful
<1>3. ASSUME before.cards["security"] = "evidenced" PROVE Good("security")
  BY <1>2, <1>3, ScreeningStays DEF FoundFrom, Story!SLOTS
<1>4. ASSUME before.cards["warden"] = "evidenced" PROVE Good("warden")
  BY <1>2, <1>4, WardenStays DEF FoundFrom, Story!SLOTS
<1>5. ASSUME before.cards["activation"] = "evidenced" PROVE Good("activation")
  BY <1>2, <1>5, ActivationClaimStays DEF FoundFrom, Story!SLOTS
<1>6. ASSUME before.cards["runtime"] = "evidenced", lawful PROVE Good("runtime")
  BY <1>1, <1>2, <1>6, RuntimeStays DEF FoundFrom, Story!SLOTS
<1>7. ASSUME NEW slot \in DOMAIN before.cards,
             before.cards[slot] = "evidenced", slot = "runtime" => lawful
      PROVE  Good(slot)
  <2> HIDE DEF Good
  <2>1. slot \in {"security", "warden", "runtime", "activation"}
    BY <1>2 DEF Story!SLOTS
  <2> QED
    BY <1>3, <1>4, <1>5, <1>6, <1>7, <2>1
<1> QED
  BY <1>7 DEF Kept, before, after, lawful

(* A claim that is shown is never taken back, and is never found from a
   later event than before, however the evidence goes on arriving; the
   Runtime's as long as the projection reports no violation. *)
THEOREM ClaimsStayShown == ASSUME CaseStreamAssumption PROVE Spec => ClaimsPersist
<1>1. Init => IsStream(stream)
  BY StreamFromTheStart
<1>2. IsStream(stream) /\ [Next]_vars => IsStream(stream)'
  BY StreamStep
<1>3. IsStream(stream) /\ [Next]_vars =>
        [stream' # stream => Kept(Story!enterpriseStory("loaded", stream),
                                  Story!enterpriseStory("loaded", stream'),
                                  project(stream', Len(stream')).violations = {})]_vars
  <2> SUFFICES ASSUME IsStream(stream), [Next]_vars
               PROVE  Kept(Story!enterpriseStory("loaded", stream),
                           Story!enterpriseStory("loaded", stream'),
                           project(stream', Len(stream')).violations = {})
    OBVIOUS
  <2>1. IsStream(stream') /\ Continues(stream, stream')
    BY StreamStep DEF IsStream
  <2> QED
    BY <2>1, ClaimsKept
<1> QED
  BY <1>1, <1>2, <1>3, PTL DEF Spec, ClaimsPersist

----------------------------------------------------------------------------
(* What the projection knows that the cards do not look at. *)

(* Where there is no violation, an outcome came from the state before it. *)
LEMMA OutcomeIsLegal ==
  ASSUME NEW s, IsStream(s), project(s, Len(s)).violations = {}, NEW n \in 1..Len(s),
         s[n].type \in Outcomes
  PROVE  LET known == project(s, n - 1).interventions
         IN  /\ s[n].ref \in DOMAIN known
             /\ <<known[s[n].ref].state, s[n].type>> \in INTERVENTION_TRANSITIONS
             /\ Chained(s, n - 1, s[n].ref, known[s[n].ref].state)
<1> DEFINE m == n - 1
           p == project(s, m)
           e == s[n]
<1>1. m \in Nat /\ n = m + 1 /\ n \in Nat /\ Len(s) \in Nat /\ m <= Len(s) /\ n <= Len(s)
  BY StreamParts
<1>2. project(s, n).violations = {} /\ p.violations = {}
  BY <1>1, ViolationsStay
<1>3. project(s, n) = Fold(p, e, n) /\ DOMAIN p = Fields
  BY <1>1, ProjectSteps, ProjectFields
<1>4. Traced(s, m)
  BY <1>1, AlwaysTraced
<1>5. e.ref \in DOMAIN p.interventions
      /\ <<p.interventions[e.ref].state, e.type>> \in INTERVENTION_TRANSITIONS
  <2> HIDE DEF p, m
  <2> QED
    BY <1>2, <1>3, FoldOfInterventions
<1> QED
  BY <1>2, <1>4, <1>5 DEF Traced

(* An intervention the projection knows was proposed. *)
LEMMA KnownWasProposed ==
  ASSUME NEW s
  PROVE  \A n \in Nat : \A r \in DOMAIN project(s, n).interventions :
           \E k \in 1..n : Says(s, k, r, "intervention.proposed")
<1> DEFINE Fine(n) == \A r \in DOMAIN project(s, n).interventions :
                        \E k \in 1..n : Says(s, k, r, "intervention.proposed")
           S == {n \in Nat : Fine(n)}
<1>1. 0 \in S
  BY ProjectSteps DEF Nothing, Empty
<1>2. ASSUME NEW n \in Nat, n \in S PROVE n + 1 \in S
  <2> DEFINE p == project(s, n)
             t == project(s, n + 1)
             e == s[n + 1]
  <2>1. t = Fold(p, e, n + 1) /\ DOMAIN p = Fields
    BY ProjectSteps, ProjectFields
  <2>2. \A r \in DOMAIN p.interventions : \E k \in 1..n : Says(s, k, r, "intervention.proposed")
    BY <1>2
  <2> HIDE DEF p, t
  <2>3. t.interventions = Interventions(p, e, n + 1).interventions
    BY <2>1, FoldOfInterventions
  <2>4. ASSUME NEW r \in DOMAIN t.interventions, r \notin DOMAIN p.interventions
        PROVE  Says(s, n + 1, r, "intervention.proposed")
    <3>1. "interventions" \in DOMAIN p /\ "violations" \in DOMAIN p
      BY <2>1, FieldNames
    <3>2. CASE e.type = "intervention.proposed" /\ e.ref # "none"
      <4>1. e.type \notin Outcomes
        BY <3>2 DEF Outcomes
      <4>2. DOMAIN t.interventions = DOMAIN p.interventions \cup {e.ref}
        BY <2>3, <3>1, <3>2, <4>1 DEF Interventions, Put
      <4> QED
        BY <2>4, <3>2, <4>2 DEF Says
    <3>3. CASE ~(e.type = "intervention.proposed" /\ e.ref # "none")
      <4>1. DOMAIN t.interventions = DOMAIN p.interventions
        BY <2>3, <3>1, <3>3 DEF Interventions
      <4> QED
        BY <2>4, <4>1
    <3> QED
      BY <3>2, <3>3
  <2>5. ASSUME NEW r \in DOMAIN t.interventions
        PROVE  \E k \in 1..(n + 1) : Says(s, k, r, "intervention.proposed")
    <3>1. CASE r \in DOMAIN p.interventions
      <4>1. PICK k \in 1..n : Says(s, k, r, "intervention.proposed")
        BY <2>2, <3>1
      <4>2. k \in 1..(n + 1)
        OBVIOUS
      <4> QED
        BY <4>1, <4>2
    <3>2. CASE r \notin DOMAIN p.interventions
      <4>1. n + 1 \in 1..(n + 1)
        OBVIOUS
      <4> QED
        BY <2>4, <3>2, <4>1
    <3> QED
      BY <3>1, <3>2
  <2> QED
    BY <2>5 DEF t
<1> HIDE DEF S
<1>3. \A n \in Nat : n \in S
  BY <1>1, <1>2, CountingUp
<1> QED
  BY <1>3 DEF S

(* What an event does to the inputs Model Armor blocked. *)
LEMMA FoldOfScreening ==
  ASSUME NEW s, DOMAIN s = Fields, NEW e, NEW n
  PROVE  /\ s.blocked \subseteq Fold(s, e, n).blocked
         /\ e.type = "armor.blocked" => e.input \in Fold(s, e, n).blocked
         /\ e.type = "tool.requested" /\ e.input # "none" /\ e.input \in s.blocked =>
              n \in Fold(s, e, n).violations
<1> DEFINE s1 == Session(s, e)
           s2 == Milestone(s1, e)
           s3 == Agents(s2, e)
           s4 == Records(s3, e, n)
           s5 == Screening(s4, e, n)
           s6 == Incidents(s5, e, n)
           s7 == Approvals(s6, e, n)
           t == Interventions(s7, e, n)
<1>1. Fold(s, e, n) = t
  BY DEF Fold
<1>2. /\ Changes(s, s1, {"sessions", "caseState"}) /\ Changes(s1, s2, {"completed", "milestone"})
      /\ Changes(s2, s3, {"agents"})
      /\ Changes(s3, s4, {"badges", "decisions", "usage", "memory"})
      /\ Changes(s4, s5, {"blocked", "violations"}) /\ Changes(s5, s6, {"incidents"})
      /\ Changes(s6, s7, {"approvals"}) /\ Changes(s7, t, {"interventions", "violations"})
  BY PartsChange
<1>3. \A u, v, F : Changes(u, v, F) /\ DOMAIN u = Fields =>
        /\ DOMAIN v = Fields
        /\ "blocked" \notin F => v.blocked = u.blocked
        /\ "violations" \notin F => v.violations = u.violations
  BY FieldNames DEF Changes
<1> HIDE DEF s1, s2, s3, s4
<1>4. DOMAIN s4 = Fields /\ s4.blocked = s.blocked
  <2>1. DOMAIN s1 = Fields /\ s1.blocked = s.blocked
    BY <1>2, <1>3
  <2>2. DOMAIN s2 = Fields /\ s2.blocked = s.blocked
    BY <1>2, <1>3, <2>1
  <2>3. DOMAIN s3 = Fields /\ s3.blocked = s.blocked
    BY <1>2, <1>3, <2>2
  <2> QED
    BY <1>2, <1>3, <2>3
<1>5. /\ s4.blocked \subseteq s5.blocked
      /\ e.type = "armor.blocked" => e.input \in s5.blocked
      /\ e.type = "tool.requested" /\ e.input # "none" /\ e.input \in s4.blocked =>
           n \in s5.violations
  BY <1>4, FieldNames DEF Screening, checkBlockedInputUse
<1> HIDE DEF s5, s6, s7
<1>6. DOMAIN s7 = Fields /\ s7.blocked = s5.blocked /\ s7.violations = s5.violations
  <2>1. DOMAIN s5 = Fields
    BY <1>2, <1>3, <1>4
  <2>2. DOMAIN s6 = Fields /\ s6.blocked = s5.blocked /\ s6.violations = s5.violations
    BY <1>2, <1>3, <2>1
  <2> QED
    BY <1>2, <1>3, <2>2
<1>7. s7.violations \subseteq t.violations
  BY <1>6, FieldNames DEF Interventions
<1>8. t.blocked = s7.blocked
  <2> HIDE DEF t
  <2> QED
    BY <1>2, <1>3, <1>6
<1> HIDE DEF t
<1> QED
  BY <1>1, <1>4, <1>5, <1>6, <1>7, <1>8

LEMMA BlockedAreKnown ==
  ASSUME NEW s
  PROVE  \A n \in Nat : \A k \in 1..n :
           s[k].type = "armor.blocked" => s[k].input \in project(s, n).blocked
<1> DEFINE Fine(n) == \A k \in 1..n :
                        s[k].type = "armor.blocked" => s[k].input \in project(s, n).blocked
           S == {n \in Nat : Fine(n)}
<1>1. 0 \in S
  OBVIOUS
<1>2. ASSUME NEW n \in Nat, n \in S PROVE n + 1 \in S
  <2> DEFINE p == project(s, n)
             t == project(s, n + 1)
  <2>1. t = Fold(p, s[n + 1], n + 1) /\ DOMAIN p = Fields
    BY ProjectSteps, ProjectFields
  <2>2. \A k \in 1..n : s[k].type = "armor.blocked" => s[k].input \in p.blocked
    BY <1>2
  <2> HIDE DEF p, t
  <2>3. p.blocked \subseteq t.blocked
        /\ (s[n + 1].type = "armor.blocked" => s[n + 1].input \in t.blocked)
    BY <2>1, FoldOfScreening
  <2>4. ASSUME NEW k \in 1..(n + 1), s[k].type = "armor.blocked" PROVE s[k].input \in t.blocked
    <3>1. k \in 1..n \/ k = n + 1
      OBVIOUS
    <3> QED
      BY <2>2, <2>3, <2>4, <3>1
  <2> QED
    BY <2>4 DEF t
<1> HIDE DEF S
<1>3. \A n \in Nat : n \in S
  BY <1>1, <1>2, CountingUp
<1> QED
  BY <1>3 DEF S

(* A claim that is shown cites a whole chain of one of the candidates. *)
Positions(A) == A \subseteq Nat
LEMMA ClaimIsWhole ==
  ASSUME NEW A, Positions(A), NEW c, NEW p, Story!Claim(c, A, p) # Story!Unproven
  PROVE  \E n \in A : Story!Whole(c[n]) /\ Story!Claim(c, A, p).evidence = c[n]
<1> DEFINE P == {n \in A : Story!Whole(c[n])}
<1>1. /\ P # {} /\ P \subseteq Nat /\ \A n \in P : n \in A /\ Story!Whole(c[n])
      /\ Story!Claim(c, A, p) = [primary |-> c[Story!Min(P)][p], evidence |-> c[Story!Min(P)]]
  BY DEF Story!Claim, Positions
<1> HIDE DEF P
<1>2. Story!Min(P) \in P
  BY <1>1, StoryLeast
<1>3. Story!Claim(c, A, p).evidence = c[Story!Min(P)]
  BY <1>1
<1> QED
  BY <1>1, <1>2, <1>3

LEMMA StepIsFirst ==
  ASSUME NEW s, IsStream(s), NEW type, NEW id, Story!Step(s, type, id) # 0
  PROVE  LET x == Story!Step(s, type, id)
         IN  /\ x \in 1..Len(s) /\ s[x].type = type /\ s[x].ref = id /\ id # "none"
             /\ \A k \in 1..Len(s) : s[k].type = type /\ s[k].ref = id => x <= k
<1> DEFINE P == {k \in Story!ofType(s, {type}) : id # "none" /\ s[k].ref = id}
           x == Story!Step(s, type, id)
<1>1. x = Story!First(P) /\ P \subseteq Nat \ {0}
  BY TypesOf DEF Story!Step
<1>2. \A k : k \in P <=> k \in 1..Len(s) /\ s[k].type = type /\ id # "none" /\ s[k].ref = id
  BY TypesOf
<1> HIDE DEF P, x
<1>3. x \in P /\ \A k \in P : x <= k
  <2>1. Story!First(P) # 0
    BY <1>1 DEF x
  <2> QED
    BY <1>1, <2>1, FirstOfSome
<1>4. x \in 1..Len(s) /\ s[x].type = type /\ s[x].ref = id /\ id # "none"
  BY <1>2, <1>3
<1>5. ASSUME NEW k \in 1..Len(s), s[k].type = type, s[k].ref = id PROVE x <= k
  BY <1>2, <1>3, <1>4, <1>5
<1> QED
  BY <1>4, <1>5 DEF x

LEMMA WardenIsBacked ==
  ASSUME IsStream(stream), State.violations = {}, Story!proveWarden(stream) # Story!Unproven,
         ProposedOnce(stream[Story!proveWarden(stream).evidence[3]].ref)
  PROVE  LET warden == Story!proveWarden(stream).evidence
         IN  warden[3] < warden[4] /\ warden[4] < warden[5] /\ warden[5] < warden[6]
<1> DEFINE C == {n \in Story!ofType(stream, {"policy.evaluated"}) :
                   stream[n].detail = "auto_act" /\ stream[n].under # "none"}
           c == [n \in C |-> Story!Recovery(stream, n)]
           warden == Story!proveWarden(stream).evidence
<1>1. PICK n \in C : Story!Whole(c[n]) /\ warden = c[n]
  <2>1. Positions(C) /\ Story!proveWarden(stream) = Story!Claim(c, C, 2)
    BY TypesOf DEF Story!proveWarden, Positions
  <2> HIDE DEF C, c
  <2>2. Story!Claim(c, C, 2) # Story!Unproven
    BY <2>1
  <2>3. \E i \in C : Story!Whole(c[i]) /\ Story!Claim(c, C, 2).evidence = c[i]
    BY <2>1, <2>2, ClaimIsWhole
  <2> QED
    BY <2>1, <2>3
<1> DEFINE P == {m \in Story!ofType(stream, {"intervention.proposed"}) :
                   stream[m].under = stream[n].under}
           p == Story!First(P)
           v == stream[p].ref
           Then(type) == IF p = 0 THEN 0 ELSE Story!Step(stream, type, v)
           a == Then("intervention.authorized")
           q == Then("intervention.requested")
           k == Then("intervention.acknowledged")
<1>2. /\ warden[3] = p /\ warden[4] = a /\ warden[5] = q /\ warden[6] = k
      /\ p # 0 /\ a # 0 /\ q # 0 /\ k # 0
  <2>1. \E i, r : c[n] = <<i, n, p, a, q, k, r>>
    BY DEF Story!Recovery
  <2> HIDE DEF c, p, a, q, k
  <2>2. PICK i, r : warden = <<i, n, p, a, q, k, r>> /\ Story!Whole(<<i, n, p, a, q, k, r>>)
    BY <1>1, <2>1
  <2> QED
    BY <2>2 DEF Story!Whole
<1>3. /\ a = Story!Step(stream, "intervention.authorized", v)
      /\ q = Story!Step(stream, "intervention.requested", v)
      /\ k = Story!Step(stream, "intervention.acknowledged", v)
  BY <1>2
<1>4. p \in 1..Len(stream) /\ stream[p].type = "intervention.proposed"
  <2>1. P \subseteq Nat \ {0}
    BY TypesOf
  <2>2. p \in P
    <3> HIDE DEF P
    <3> QED
      BY <1>2, <2>1, FirstOfSome
  <2> HIDE DEF p
  <2> QED
    BY <2>2, TypesOf
<1> HIDE DEF p, a, q, k, v, Then
<1>5. /\ Len(stream) \in Nat /\ DOMAIN stream = 1..Len(stream)
      /\ a \in 1..Len(stream) /\ q \in 1..Len(stream) /\ k \in 1..Len(stream)
  BY <1>2, <1>3, StepIsFirst, StreamParts
<1>6. /\ stream[a].type = "intervention.authorized" /\ stream[a].ref = v
      /\ stream[q].type = "intervention.requested" /\ stream[q].ref = v
      /\ stream[k].type = "intervention.acknowledged" /\ stream[k].ref = v
      /\ \A m \in 1..Len(stream) : Says(stream, m, v, "intervention.authorized") => a <= m
      /\ \A m \in 1..Len(stream) : Says(stream, m, v, "intervention.requested") => q <= m
  BY <1>2, <1>3, StepIsFirst DEF Says
<1>7. /\ "intervention.authorized" \in Outcomes /\ "intervention.requested" \in Outcomes
      /\ "intervention.acknowledged" \in Outcomes
  BY DEF Outcomes
<1>8. project(stream, Len(stream)).violations = {}
  BY DEF State
<1>9. p < a
  <2>1. v \in DOMAIN project(stream, a - 1).interventions
    BY <1>5, <1>6, <1>7, <1>8, OutcomeIsLegal
  <2>2. a - 1 \in Nat
    BY <1>5
  <2>3. PICK m \in 1..(a - 1) : Says(stream, m, v, "intervention.proposed")
    BY <2>1, <2>2, KnownWasProposed
  <2>4. m \in DOMAIN stream /\ p \in DOMAIN stream /\ m < a
    BY <1>4, <1>5, <2>3
  <2>5. ProposedOnce(v)
    BY <1>2 DEF v
  <2>6. m = p
    BY <1>4, <2>3, <2>4, <2>5 DEF ProposedOnce, Reports, Says, v
  <2> QED
    BY <2>4, <2>6
<1>10. a < q
  <2> DEFINE st == project(stream, q - 1).interventions[v].state
  <2>1. <<st, "intervention.requested">> \in INTERVENTION_TRANSITIONS
        /\ Chained(stream, q - 1, v, st)
    BY <1>5, <1>6, <1>7, <1>8, OutcomeIsLegal
  <2> HIDE DEF st
  <2>2. st = "intervention.authorized"
    BY <2>1 DEF INTERVENTION_TRANSITIONS
  <2>3. PICK m \in 1..(q - 1) : Says(stream, m, v, "intervention.authorized")
    BY <2>1, <2>2 DEF Chained
  <2>4. m \in 1..Len(stream) /\ m < q
    BY <1>5, <2>3
  <2> QED
    BY <1>5, <1>6, <2>3, <2>4
<1>11. q < k
  <2> DEFINE st == project(stream, k - 1).interventions[v].state
  <2>1. <<st, "intervention.acknowledged">> \in INTERVENTION_TRANSITIONS
        /\ Chained(stream, k - 1, v, st)
    BY <1>5, <1>6, <1>7, <1>8, OutcomeIsLegal
  <2> HIDE DEF st
  <2>2. st = "intervention.requested"
    BY <2>1 DEF INTERVENTION_TRANSITIONS
  <2>3. PICK m \in 1..(k - 1) : Says(stream, m, v, "intervention.requested")
    BY <2>1, <2>2 DEF Chained
  <2>4. m \in 1..Len(stream) /\ m < k
    BY <1>5, <2>3
  <2> QED
    BY <1>5, <1>6, <2>3, <2>4
<1> QED
  BY <1>2, <1>9, <1>10, <1>11

LEMMA RuntimeIsBacked ==
  ASSUME IsStream(stream), State.violations = {}, Story!proveRuntime(stream) # Story!Unproven
  PROVE  LET runtime == Story!proveRuntime(stream).evidence
         IN  \E q \in 1..runtime[2], k \in 1..runtime[2] :
               /\ q < k
               /\ Reports(q, stream[runtime[1]].ref, "intervention.requested")
               /\ Reports(k, stream[runtime[1]].ref, "intervention.acknowledged")
               /\ stream[q].agent \in {"none", stream[runtime[3]].agent}
<1> DEFINE C == {n \in Story!ofType(stream, {"runtime.controlled"}) :
                   stream[n].detail = "applied" /\ stream[n].ref # "none"}
           c == [n \in C |-> Story!Effect(stream, n)]
           runtime == Story!proveRuntime(stream).evidence
<1>1. PICK n \in C : Story!Whole(c[n]) /\ runtime = c[n]
  <2>1. Positions(C) /\ Story!proveRuntime(stream) = Story!Claim(c, C, 1)
    BY TypesOf DEF Story!proveRuntime, Positions
  <2> HIDE DEF C, c
  <2>2. Story!Claim(c, C, 1) # Story!Unproven
    BY <2>1
  <2>3. \E i \in C : Story!Whole(c[i]) /\ Story!Claim(c, C, 1).evidence = c[i]
    BY <2>1, <2>2, ClaimIsWhole
  <2> QED
    BY <2>1, <2>3
<1> DEFINE r == stream[n].ref
           q == Story!Step(stream, "intervention.requested", r)
           target == IF q = 0 THEN "none" ELSE stream[q].agent
           P == {m \in Story!ofType(stream, {"tool.succeeded"}) :
                   m > n /\ target \in {"none", stream[m].agent}}
           x == Story!Step(stream, "intervention.succeeded", r)
           y == Story!First(P)
<1>2. runtime[1] = n /\ runtime[2] = x /\ runtime[3] = y /\ x # 0 /\ y # 0
  <2>1. \E z : c[n] = <<n, x, y, z>>
    BY DEF Story!Effect
  <2> HIDE DEF c, x, y
  <2>2. PICK z : runtime = <<n, x, y, z>> /\ Story!Whole(<<n, x, y, z>>)
    BY <1>1, <2>1
  <2> QED
    BY <2>2 DEF Story!Whole
<1>3. q # 0
  <2>1. Story!Whole(Story!Effect(stream, n))
    BY <1>1
  <2> QED
    BY <2>1, SuccessWasRequested
<1>4. stream[q].agent \in {"none", stream[y].agent}
  <2>1. P \subseteq Nat \ {0}
    BY TypesOf
  <2>2. y \in P
    <3> HIDE DEF P
    <3> QED
      BY <1>2, <2>1, FirstOfSome
  <2> HIDE DEF q, y
  <2> QED
    BY <1>3, <2>2
<1> HIDE DEF P, y
<1>5. /\ x \in 1..Len(stream) /\ stream[x].type = "intervention.succeeded" /\ stream[x].ref = r
      /\ q \in 1..Len(stream) /\ Reports(q, r, "intervention.requested")
      /\ \A m \in 1..Len(stream) : Reports(m, r, "intervention.requested") => q <= m
      /\ Len(stream) \in Nat /\ DOMAIN stream = 1..Len(stream)
  BY <1>2, <1>3, StepIsFirst, StreamParts DEF Reports
<1> HIDE DEF q, x, r
<1>6. PICK m \in 1..x : \E k \in 1..x :
        m < k /\ Reports(m, r, "intervention.requested") /\ Reports(k, r, "intervention.acknowledged")
  BY <1>5, ReceiptsOfAStream DEF SuccessHasItsReceipts
<1>7. PICK k \in 1..x : m < k /\ Reports(k, r, "intervention.acknowledged")
  BY <1>6
<1>8. q \in 1..x /\ q < k
  <2>1. m \in 1..Len(stream) /\ m \in Nat /\ x \in Nat /\ k \in Nat
    BY <1>5
  <2>2. q <= m
    BY <1>5, <1>6, <2>1
  <2> QED
    BY <1>5, <1>7, <2>1, <2>2
<1> QED
  BY <1>2, <1>4, <1>5, <1>7, <1>8 DEF r

LEMMA ScreeningIsBacked ==
  ASSUME IsStream(stream), State.violations = {}, Story!proveScreening(stream) # Story!Unproven
  PROVE  LET screened == Story!proveScreening(stream).evidence
         IN  \A n \in screened[1]..Len(stream) :
               stream[n].type = "tool.requested" => stream[n].input # stream[screened[1]].input
<1> DEFINE C == {n \in Story!ofType(stream, {"armor.blocked"}) : stream[n].input # "none"}
           c == [n \in C |-> Story!Enforcement(stream, n)]
           screened == Story!proveScreening(stream).evidence
<1>1. PICK b \in C : Story!Whole(c[b]) /\ screened = c[b]
  <2>1. Positions(C) /\ Story!proveScreening(stream) = Story!Claim(c, C, 1)
    BY TypesOf DEF Story!proveScreening, Positions
  <2> HIDE DEF C, c
  <2>2. Story!Claim(c, C, 1) # Story!Unproven
    BY <2>1
  <2>3. \E i \in C : Story!Whole(c[i]) /\ Story!Claim(c, C, 1).evidence = c[i]
    BY <2>1, <2>2, ClaimIsWhole
  <2> QED
    BY <2>1, <2>3
<1>2. screened[1] = b
  BY <1>1 DEF Story!Enforcement
<1>3. /\ b \in 1..Len(stream) /\ stream[b].type = "armor.blocked" /\ stream[b].input # "none"
      /\ Len(stream) \in Nat
  BY <1>1, TypesOf, StreamParts
<1>4. ASSUME NEW n \in b..Len(stream), stream[n].type = "tool.requested",
             stream[n].input = stream[b].input
      PROVE  FALSE
  <2> DEFINE m == n - 1
             p == project(stream, m)
             t == project(stream, n)
  <2>1. n # b /\ n \in Nat /\ m \in Nat /\ n = m + 1 /\ b \in 1..m /\ n <= Len(stream)
    BY <1>3, <1>4
  <2>2. t = Fold(p, stream[n], n) /\ DOMAIN p = Fields
    BY <2>1, ProjectSteps, ProjectFields
  <2>3. stream[b].input \in p.blocked
    BY <1>3, <2>1, BlockedAreKnown
  <2>4. t.violations = {}
    BY <1>3, <2>1, ViolationsStay DEF State
  <2> HIDE DEF p, t, m
  <2> QED
    BY <1>3, <1>4, <2>2, <2>3, <2>4, FoldOfScreening
<1> QED
  BY <1>2, <1>4

LEMMA ClaimsOfAStream == ASSUME IsStream(stream) PROVE ClaimsAreProven
<1> DEFINE told == Story!enterpriseStory("loaded", stream)
<1>1. /\ \A slot \in Story!SLOTS :
           told.cards[slot] = "evidenced" <=> told.proofs[slot] # Story!Unproven
      /\ told.proofs["security"] = Story!proveScreening(stream)
      /\ told.proofs["warden"] = Story!proveWarden(stream)
      /\ told.proofs["runtime"] = Story!proveRuntime(stream)
      /\ "security" \in Story!SLOTS /\ "warden" \in Story!SLOTS /\ "runtime" \in Story!SLOTS
  BY StoryTold DEF Story!SLOTS
<1> SUFFICES ASSUME State.violations = {} PROVE Backed(told)
  BY DEF ClaimsAreProven
<1> HIDE DEF told
<1> QED
  BY <1>1, WardenIsBacked, RuntimeIsBacked, ScreeningIsBacked DEF Backed

(* What the cards claim is what the projector would bear out: where it
   reports no violation, the recovery's steps happened in order, the agent
   that worked again is the one that was aimed at, and a screened input was
   never asked for again. *)
THEOREM ClaimsAreBacked == ASSUME CaseStreamAssumption PROVE Spec => []ClaimsAreProven
<1>1. Init => IsStream(stream)
  BY StreamFromTheStart
<1>2. IsStream(stream) /\ [Next]_vars => IsStream(stream)'
  BY StreamStep
<1>3. IsStream(stream) => ClaimsAreProven
  BY ClaimsOfAStream
<1> QED
  BY <1>1, <1>2, <1>3, PTL DEF Spec

----------------------------------------------------------------------------
(* What an event does to each part of the state depends on that part only. *)

LEMMA PartsStandAlone ==
  ASSUME NEW u, NEW v, DOMAIN u = Fields, DOMAIN v = Fields, NEW e, NEW n
  PROVE  /\ u.milestone = v.milestone /\ u.completed = v.completed =>
              /\ Milestone(u, e).milestone = Milestone(v, e).milestone
              /\ Milestone(u, e).completed = Milestone(v, e).completed
         /\ u.agents = v.agents => Agents(u, e).agents = Agents(v, e).agents
         /\ u.badges = v.badges => Records(u, e, n).badges = Records(v, e, n).badges
         /\ u.decisions = v.decisions => Records(u, e, n).decisions = Records(v, e, n).decisions
         /\ u.usage = v.usage => Records(u, e, n).usage = Records(v, e, n).usage
         /\ u.incidents = v.incidents => Incidents(u, e, n).incidents = Incidents(v, e, n).incidents
         /\ u.approvals = v.approvals => Approvals(u, e, n).approvals = Approvals(v, e, n).approvals
<1>1. ASSUME u.milestone = v.milestone, u.completed = v.completed
      PROVE  /\ Milestone(u, e).milestone = Milestone(v, e).milestone
             /\ Milestone(u, e).completed = Milestone(v, e).completed
  BY <1>1, FieldNames DEF Milestone
<1>2. u.agents = v.agents => Agents(u, e).agents = Agents(v, e).agents
  BY FieldNames DEF Agents
<1>3. u.badges = v.badges => Records(u, e, n).badges = Records(v, e, n).badges
  BY FieldNames DEF Records
<1>4. u.decisions = v.decisions => Records(u, e, n).decisions = Records(v, e, n).decisions
  BY FieldNames DEF Records
<1>5. u.usage = v.usage => Records(u, e, n).usage = Records(v, e, n).usage
  BY FieldNames DEF Records
<1>6. u.incidents = v.incidents => Incidents(u, e, n).incidents = Incidents(v, e, n).incidents
  BY FieldNames DEF Incidents
<1>7. u.approvals = v.approvals => Approvals(u, e, n).approvals = Approvals(v, e, n).approvals
  BY FieldNames DEF Approvals
<1> QED
  BY <1>1, <1>2, <1>3, <1>4, <1>5, <1>6, <1>7

LEMMA FoldByParts ==
  ASSUME NEW s, DOMAIN s = Fields, NEW e, NEW n
  PROVE  /\ DOMAIN Fold(s, e, n) = Fields
         /\ Fold(s, e, n).caseState = Session(s, e).caseState
         /\ Fold(s, e, n).milestone = Milestone(s, e).milestone
         /\ Fold(s, e, n).completed = Milestone(s, e).completed
         /\ Fold(s, e, n).agents = Agents(s, e).agents
         /\ Fold(s, e, n).badges = Records(s, e, n).badges
         /\ Fold(s, e, n).decisions = Records(s, e, n).decisions
         /\ Fold(s, e, n).usage = Records(s, e, n).usage
         /\ Fold(s, e, n).incidents = Incidents(s, e, n).incidents
         /\ Fold(s, e, n).approvals = Approvals(s, e, n).approvals
<1> DEFINE s1 == Session(s, e)
           s2 == Milestone(s1, e)
           s3 == Agents(s2, e)
           s4 == Records(s3, e, n)
           s5 == Screening(s4, e, n)
           s6 == Incidents(s5, e, n)
           s7 == Approvals(s6, e, n)
           t == Interventions(s7, e, n)
<1>1. Fold(s, e, n) = t
  BY DEF Fold
<1>2. /\ Changes(s, s1, {"sessions", "caseState"}) /\ Changes(s1, s2, {"completed", "milestone"})
      /\ Changes(s2, s3, {"agents"})
      /\ Changes(s3, s4, {"badges", "decisions", "usage", "memory"})
      /\ Changes(s4, s5, {"blocked", "violations"}) /\ Changes(s5, s6, {"incidents"})
      /\ Changes(s6, s7, {"approvals"}) /\ Changes(s7, t, {"interventions", "violations"})
  BY PartsChange
<1>3. \A u, v, F : Changes(u, v, F) /\ DOMAIN u = Fields =>
        DOMAIN v = Fields /\ \A f \in Fields : f \notin F => v[f] = u[f]
  BY DEF Changes
<1>4. /\ s2.milestone = Milestone(s1, e).milestone /\ s2.completed = Milestone(s1, e).completed
      /\ s3.agents = Agents(s2, e).agents
      /\ s4.badges = Records(s3, e, n).badges /\ s4.decisions = Records(s3, e, n).decisions
      /\ s4.usage = Records(s3, e, n).usage
      /\ s6.incidents = Incidents(s5, e, n).incidents
      /\ s7.approvals = Approvals(s6, e, n).approvals
      /\ s1.caseState = Session(s, e).caseState
  OBVIOUS
<1> HIDE DEF s1, s2, s3, s4, s5, s6, s7, t
<1>5. /\ DOMAIN s1 = Fields
      /\ s1.milestone = s.milestone /\ s1.completed = s.completed /\ s1.agents = s.agents
      /\ s1.badges = s.badges /\ s1.decisions = s.decisions /\ s1.usage = s.usage
      /\ s1.incidents = s.incidents /\ s1.approvals = s.approvals
  BY <1>2, <1>3, FieldNames
<1>6. /\ DOMAIN s2 = Fields /\ s2.caseState = s1.caseState
      /\ s2.agents = s.agents
      /\ s2.badges = s.badges /\ s2.decisions = s.decisions /\ s2.usage = s.usage
      /\ s2.incidents = s.incidents /\ s2.approvals = s.approvals
  BY <1>2, <1>3, <1>5, FieldNames
<1>7. /\ DOMAIN s3 = Fields /\ s3.caseState = s1.caseState
      /\ s3.milestone = s2.milestone /\ s3.completed = s2.completed
      /\ s3.badges = s.badges /\ s3.decisions = s.decisions /\ s3.usage = s.usage
      /\ s3.incidents = s.incidents /\ s3.approvals = s.approvals
  BY <1>2, <1>3, <1>6, FieldNames
<1>8. /\ DOMAIN s4 = Fields /\ s4.caseState = s1.caseState
      /\ s4.milestone = s2.milestone /\ s4.completed = s2.completed /\ s4.agents = s3.agents
      /\ s4.incidents = s.incidents /\ s4.approvals = s.approvals
  BY <1>2, <1>3, <1>7, FieldNames
<1>9. /\ DOMAIN s5 = Fields /\ s5.caseState = s1.caseState
      /\ s5.milestone = s2.milestone /\ s5.completed = s2.completed /\ s5.agents = s3.agents
      /\ s5.badges = s4.badges /\ s5.decisions = s4.decisions /\ s5.usage = s4.usage
      /\ s5.incidents = s.incidents /\ s5.approvals = s.approvals
  BY <1>2, <1>3, <1>8, FieldNames
<1>10. /\ DOMAIN s6 = Fields /\ s6.caseState = s1.caseState
       /\ s6.milestone = s2.milestone /\ s6.completed = s2.completed /\ s6.agents = s3.agents
       /\ s6.badges = s4.badges /\ s6.decisions = s4.decisions /\ s6.usage = s4.usage
       /\ s6.approvals = s.approvals
  BY <1>2, <1>3, <1>9, FieldNames
<1>11. /\ DOMAIN s7 = Fields /\ s7.caseState = s1.caseState
       /\ s7.milestone = s2.milestone /\ s7.completed = s2.completed /\ s7.agents = s3.agents
       /\ s7.badges = s4.badges /\ s7.decisions = s4.decisions /\ s7.usage = s4.usage
       /\ s7.incidents = s6.incidents
  BY <1>2, <1>3, <1>10, FieldNames
<1>12. /\ DOMAIN t = Fields /\ t.caseState = s1.caseState
       /\ t.milestone = s2.milestone /\ t.completed = s2.completed /\ t.agents = s3.agents
       /\ t.badges = s4.badges /\ t.decisions = s4.decisions /\ t.usage = s4.usage
       /\ t.incidents = s6.incidents /\ t.approvals = s7.approvals
  BY <1>2, <1>3, <1>11, FieldNames
<1>13. /\ s2.milestone = Milestone(s, e).milestone /\ s2.completed = Milestone(s, e).completed
  BY <1>4, <1>5, PartsStandAlone
<1>14. s3.agents = Agents(s, e).agents
  BY <1>4, <1>6, PartsStandAlone
<1>15. /\ s4.badges = Records(s, e, n).badges /\ s4.decisions = Records(s, e, n).decisions
       /\ s4.usage = Records(s, e, n).usage
  BY <1>4, <1>7, PartsStandAlone
<1>16. s6.incidents = Incidents(s, e, n).incidents
  BY <1>4, <1>9, PartsStandAlone
<1>17. s7.approvals = Approvals(s, e, n).approvals
  BY <1>4, <1>10, PartsStandAlone
<1> QED
  BY <1>1, <1>4, <1>12, <1>13, <1>14, <1>15, <1>16, <1>17

----------------------------------------------------------------------------
(* The audit export. *)

LEMMA PrefixOfStream ==
  ASSUME NEW s, IsStream(s), NEW n \in Nat, n <= Len(s)
  PROVE  /\ Len(SubSeq(s, 1, n)) = n
         /\ SubSeq(s, 1, n) = [k \in 1..n |-> s[k]]
         /\ \A k \in 1..n : SubSeq(s, 1, n)[k] = s[k]
<1> DEFINE S == {s[k] : k \in DOMAIN s}
           u == SubSeq(s, 1, n)
<1>1. s \in Seq(S) /\ Len(s) \in Nat
  BY DEF IsStream
<1> HIDE DEF S
<1>2. u \in Seq(S) /\ Len(u) = n /\ \A k \in 1..n : u[k] = s[k]
  BY <1>1
<1> HIDE DEF u
<1>3. u = [k \in 1..n |-> u[k]]
  BY <1>2
<1> QED
  BY <1>2, <1>3 DEF u

(* The badges of a projection are of events it has seen. *)
LEMMA BadgesAreSeen ==
  ASSUME NEW s PROVE \A n \in Nat : project(s, n).badges \subseteq 1..n
<1> DEFINE S == {n \in Nat : project(s, n).badges \subseteq 1..n}
<1>1. 0 \in S
  BY ProjectSteps DEF Nothing
<1>2. ASSUME NEW n \in Nat, n \in S PROVE n + 1 \in S
  <2> DEFINE p == project(s, n)
             t == project(s, n + 1)
             e == s[n + 1]
  <2>1. t = Fold(p, e, n + 1) /\ DOMAIN p = Fields
    BY ProjectSteps, ProjectFields
  <2>2. p.badges \subseteq 1..n
    BY <1>2
  <2> HIDE DEF p, t
  <2>3. t.badges = Records(p, e, n + 1).badges
    BY <2>1, FoldByParts
  <2>4. Records(p, e, n + 1).badges \subseteq p.badges \cup {n + 1}
    BY <2>1, FieldNames DEF Records
  <2>5. t.badges \subseteq 1..(n + 1)
    BY <2>2, <2>3, <2>4
  <2> QED
    BY <2>5 DEF t
<1> HIDE DEF S
<1>3. \A n \in Nat : n \in S
  BY <1>1, <1>2, CountingUp
<1> QED
  BY <1>3 DEF S

LEMMA ExportsReplay == ASSUME NEW s, IsStream(s) PROVE Replays(s)
<1> SUFFICES ASSUME NEW n \in DOMAIN s
             PROVE  verifyAuditExport(buildAuditExport(s, n))
                      = IF n = Len(s) THEN {} ELSE {"stateHash"}
  BY DEF Replays
<1> DEFINE doc == buildAuditExport(s, n)
           prefix == SubSeq(s, 1, n)
<1>1. n \in Nat /\ n <= Len(s) /\ Len(s) \in Nat
  BY StreamParts
<1>2. Len(prefix) = n /\ \A k \in 1..n : prefix[k] = s[k]
  BY <1>1, PrefixOfStream
<1>3. /\ doc.body.canonicalEvents = prefix /\ doc.body = doc.integrity.exportDigest
      /\ doc.integrity.streamRevision = prefix /\ doc.integrity.eventCount = Len(prefix)
      /\ doc.integrity.stateHash = hashState(s, n)
  BY DEF buildAuditExport
<1>4. project(prefix, n) = project(s, n)
  BY <1>1, <1>2, ProjectOfPrefix
<1> HIDE DEF doc, prefix
<1>5. hashState(prefix, n) = [state |-> project(s, n), cursor |-> n, atEdge |-> TRUE]
  BY <1>2, <1>4 DEF hashState, atEdge
<1>6. hashState(s, n) = [state |-> project(s, n), cursor |-> n, atEdge |-> n = Len(s)]
  BY DEF hashState, atEdge
<1>7. hashState(prefix, n) = hashState(s, n) <=> n = Len(s)
  <2>1. CASE n = Len(s)
    <3>1. (n = Len(s)) = TRUE
      BY <2>1
    <3> QED
      BY <1>5, <1>6, <2>1, <3>1
  <2>2. CASE n # Len(s)
    <3>1. hashState(prefix, n).atEdge = TRUE /\ hashState(s, n).atEdge = (n = Len(s))
      BY <1>5, <1>6
    <3> QED
      BY <2>2, <3>1
  <2> QED
    BY <2>1, <2>2
<1>8. verifyAuditExport(doc) = IF hashState(prefix, n) = hashState(s, n) THEN {} ELSE {"stateHash"}
  BY <1>2, <1>3 DEF verifyAuditExport
<1> QED
  BY <1>7, <1>8 DEF doc

LEMMA ExportsLast ==
  ASSUME NEW s, IsStream(s), NEW t, IsStream(t), Continues(s, t)
  PROVE  Told(buildAuditExport(s, Len(s))) = Told(buildAuditExport(t, Len(s)))
<1> DEFINE n == Len(s)
           Exhibited == {"identity", "gateway", "armor", "registry", "memory"}
           Body(u) == [eventCursor |-> n, atEdge |-> atEdge(u, n), observed |-> project(u, n),
                       platformDecisions |-> [x \in Exhibited |-> badgesOf(project(u, n), u, x)],
                       terminal |-> project(u, n).caseState \in {"completed", "failed", "cancelled"},
                       canonicalEvents |-> SubSeq(u, 1, n)]
<1>1. n \in Nat /\ Len(t) \in Nat /\ n <= Len(t) /\ \A k \in 1..n : t[k] = s[k]
  BY StreamParts DEF Continues
<1>2. SubSeq(t, 1, n) = SubSeq(s, 1, n)
  <2>1. SubSeq(s, 1, n) = [k \in 1..n |-> s[k]] /\ SubSeq(t, 1, n) = [k \in 1..n |-> t[k]]
    BY <1>1, PrefixOfStream
  <2>2. [k \in 1..n |-> s[k]] = [k \in 1..n |-> t[k]]
    BY <1>1
  <2> QED
    BY <2>1, <2>2
<1>3. project(t, n) = project(s, n)
  BY <1>1, ProjectOfPrefix
<1>4. \A x : badgesOf(project(s, n), t, x) = badgesOf(project(s, n), s, x)
  <2>1. project(s, n).badges \subseteq 1..n
    BY <1>1, BadgesAreSeen
  <2> QED
    BY <1>1, <2>1 DEF badgesOf
<1>5. \A u : Told(buildAuditExport(u, n)) = [Body(u) EXCEPT !.atEdge = FALSE]
  BY DEF Told, buildAuditExport
<1>6. [x \in Exhibited |-> badgesOf(project(s, n), s, x)]
        = [x \in Exhibited |-> badgesOf(project(t, n), t, x)]
  BY <1>3, <1>4
<1>7. /\ DOMAIN Body(s) = DOMAIN Body(t)
      /\ \A f \in DOMAIN Body(s) : f # "atEdge" => Body(s)[f] = Body(t)[f]
  <2> DEFINE decisions(u) == [x \in Exhibited |-> badgesOf(project(u, n), u, x)]
             terminal(u) == project(u, n).caseState \in {"completed", "failed", "cancelled"}
             prefix(u) == SubSeq(u, 1, n)
  <2>1. /\ decisions(s) = decisions(t) /\ (terminal(s) = terminal(t)) /\ prefix(s) = prefix(t)
    BY <1>2, <1>3, <1>6
  <2> HIDE DEF decisions, terminal, prefix
  <2>2. \A u : Body(u) = [eventCursor |-> n, atEdge |-> atEdge(u, n), observed |-> project(u, n),
                         platformDecisions |-> decisions(u), terminal |-> terminal(u),
                         canonicalEvents |-> prefix(u)]
    BY DEF decisions, terminal, prefix
  <2> HIDE DEF Body
  <2>3. \A u : DOMAIN Body(u) = {"eventCursor", "atEdge", "observed", "platformDecisions",
                                "terminal", "canonicalEvents"}
    BY <2>2
  <2>4. \A u : /\ Body(u).eventCursor = n /\ Body(u).observed = project(u, n)
              /\ Body(u).platformDecisions = decisions(u) /\ Body(u).terminal = terminal(u)
              /\ Body(u).canonicalEvents = prefix(u)
    BY <2>2
  <2> QED
    BY <1>3, <2>1, <2>3, <2>4
<1>8. [Body(s) EXCEPT !.atEdge = FALSE] = [Body(t) EXCEPT !.atEdge = FALSE]
  <2> HIDE DEF Body
  <2> QED
    BY <1>7
<1> HIDE DEF Body
<1> QED
  BY <1>5, <1>8

(* "Append-only evidence": every document exported of a case goes on saying
   what it said when it is made again of more evidence, the one of the
   whole case verifies, and one of an earlier cursor fails in nothing but
   that it is a part. *)
THEOREM ExportsAreAppendOnly == ASSUME CaseStreamAssumption PROVE Spec => ExportsStand
<1>1. Init => IsStream(stream)
  BY StreamFromTheStart
<1>2. IsStream(stream) /\ [Next]_vars => IsStream(stream)'
  BY StreamStep
<1>3. IsStream(stream) /\ [Next]_vars =>
        [stream' # stream =>
           /\ Replays(stream')
           /\ Told(buildAuditExport(stream, Len(stream)))
                = Told(buildAuditExport(stream', Len(stream)))]_vars
  <2> SUFFICES ASSUME IsStream(stream), [Next]_vars
               PROVE  /\ Replays(stream')
                      /\ Told(buildAuditExport(stream, Len(stream)))
                           = Told(buildAuditExport(stream', Len(stream)))
    OBVIOUS
  <2>1. IsStream(stream') /\ Continues(stream, stream')
    BY StreamStep DEF IsStream
  <2> QED
    BY <2>1, ExportsReplay, ExportsLast
<1> QED
  BY <1>1, <1>2, <1>3, PTL DEF Spec, ExportsStand

----------------------------------------------------------------------------
(* What is outstanding: the state of an approval, an incident and the case
   is what the last event about it says. *)

LEMMA LastLasts ==
  ASSUME NEW s, NEW n \in Nat, NEW id, NEW types, NEW k \in 1..n, IsLast(s, n, k, id, types),
         s[n + 1].ref # id \/ s[n + 1].type \notin types
  PROVE  IsLast(s, n + 1, k, id, types) /\ k \in 1..(n + 1)
<1>1. \A m \in (k + 1)..(n + 1) : m \in (k + 1)..n \/ m = n + 1
  OBVIOUS
<1> QED
  BY <1>1 DEF IsLast

LEMMA LastIsNew ==
  ASSUME NEW s, NEW n \in Nat, NEW types, s[n + 1].type \in types
  PROVE  IsLast(s, n + 1, n + 1, s[n + 1].ref, types) /\ n + 1 \in 1..(n + 1)
BY DEF IsLast

LEMMA ApprovalsStep ==
  ASSUME NEW s, NEW n \in Nat, NEW p, DOMAIN p = Fields, ApprovalsFollow(s, n, p.approvals)
  PROVE  ApprovalsFollow(s, n + 1, Approvals(p, s[n + 1], n + 1).approvals)
<1> DEFINE e == s[n + 1]
           known == p.approvals
           after == Approvals(p, e, n + 1).approvals
           Opens == e.type = "human_escalation.opened" /\ e.ref # "none"
           Resolves == e.type = "human_escalation.resolved" /\ e.ref \in DOMAIN known
<1>1. "approvals" \in DOMAIN p
  BY FieldNames
<1>2. /\ Opens => /\ DOMAIN after = DOMAIN known \cup {e.ref}
                  /\ \A id \in DOMAIN known : id # e.ref => after[id] = known[id]
                  /\ "state" \in DOMAIN after[e.ref] /\ after[e.ref].state = "pending"
      /\ Resolves => after = [known EXCEPT ![e.ref].state = decisionOf(e)]
      /\ ~Opens /\ ~Resolves => after = known
  <2>1. ASSUME Opens
        PROVE  /\ DOMAIN after = DOMAIN known \cup {e.ref}
               /\ \A id \in DOMAIN known : id # e.ref => after[id] = known[id]
               /\ "state" \in DOMAIN after[e.ref] /\ after[e.ref].state = "pending"
    <3> DEFINE v == [state |-> "pending", bound |-> IF e.amount = 0 THEN n + 1 ELSE e.amount]
    <3>1. after = Put(known, e.ref, v)
      BY <1>1, <2>1 DEF Approvals
    <3>2. "state" \in DOMAIN v /\ v.state = "pending"
      OBVIOUS
    <3> HIDE DEF v, after
    <3> QED
      BY <3>1, <3>2 DEF Put
  <2>2. ASSUME Resolves PROVE after = [known EXCEPT ![e.ref].state = decisionOf(e)]
    BY <1>1, <2>2 DEF Approvals
  <2>3. ASSUME ~Opens, ~Resolves PROVE after = known
    BY <1>1, <2>3 DEF Approvals
  <2> QED
    BY <2>1, <2>2, <2>3
<1>3. Resolves => /\ DOMAIN after = DOMAIN known
                  /\ \A id \in DOMAIN known : id # e.ref => after[id] = known[id]
                  /\ "state" \in DOMAIN after[e.ref] /\ after[e.ref].state = decisionOf(e)
  <2> SUFFICES ASSUME Resolves
               PROVE  /\ DOMAIN after = DOMAIN known
                      /\ \A id \in DOMAIN known : id # e.ref => after[id] = known[id]
                      /\ "state" \in DOMAIN after[e.ref] /\ after[e.ref].state = decisionOf(e)
    OBVIOUS
  <2>1. e.ref \in DOMAIN known /\ "state" \in DOMAIN known[e.ref]
    BY DEF ApprovalsFollow
  <2>2. after = [known EXCEPT ![e.ref] = [known[e.ref] EXCEPT !.state = decisionOf(e)]]
    BY <1>2
  <2> HIDE DEF after, known
  <2>3. after[e.ref] = [known[e.ref] EXCEPT !.state = decisionOf(e)]
    BY <2>1, <2>2
  <2> QED
    BY <2>1, <2>2, <2>3
<1> HIDE DEF after
<1>4. DOMAIN known \subseteq DOMAIN after
  BY <1>2, <1>3
<1>5. ASSUME NEW k \in 1..(n + 1), s[k].type = "human_escalation.opened", s[k].ref # "none"
      PROVE  s[k].ref \in DOMAIN after
  <2>1. CASE k = n + 1
    BY <1>2, <1>5, <2>1
  <2>2. CASE k # n + 1
    <3>1. k \in 1..n
      BY <2>2
    <3> QED
      BY <1>4, <1>5, <3>1 DEF ApprovalsFollow
  <2> QED
    BY <2>1, <2>2
<1>6. ASSUME NEW id \in DOMAIN after
      PROVE  /\ id # "none" /\ "state" \in DOMAIN after[id]
             /\ \E k \in 1..(n + 1) :
                  IsLast(s, n + 1, k, id, ApprovalTypes) /\ after[id].state = StateOf(s[k])
  <2>1. CASE (Opens \/ Resolves) /\ id = e.ref
    <3>1. id # "none" /\ "state" \in DOMAIN after[id] /\ after[id].state = StateOf(e)
      BY <1>2, <1>3, <2>1 DEF StateOf, ApprovalsFollow
    <3>2. e.type \in ApprovalTypes
      BY <2>1 DEF ApprovalTypes
    <3> QED
      BY <2>1, <3>1, <3>2, LastIsNew
  <2>2. CASE ~((Opens \/ Resolves) /\ id = e.ref)
    <3>1. id \in DOMAIN known /\ after[id] = known[id]
      BY <1>2, <1>3, <2>2
    <3>2. e.ref # id \/ e.type \notin ApprovalTypes
      <4>1. id # "none"
        BY <3>1 DEF ApprovalsFollow
      <4> QED
        BY <2>2, <3>1, <4>1 DEF ApprovalTypes
    <3>3. PICK k \in 1..n : IsLast(s, n, k, id, ApprovalTypes) /\ known[id].state = StateOf(s[k])
      BY <3>1 DEF ApprovalsFollow
    <3>4. IsLast(s, n + 1, k, id, ApprovalTypes) /\ k \in 1..(n + 1)
      BY <3>2, <3>3, LastLasts
    <3>5. id # "none" /\ "state" \in DOMAIN known[id]
      BY <3>1 DEF ApprovalsFollow
    <3> QED
      BY <3>1, <3>3, <3>4, <3>5
  <2> QED
    BY <2>1, <2>2
<1> QED
  BY <1>5, <1>6 DEF ApprovalsFollow, after

LEMMA IncidentsStep ==
  ASSUME NEW s, NEW n \in Nat, NEW p, DOMAIN p = Fields, IncidentsFollow(s, n, p.incidents)
  PROVE  IncidentsFollow(s, n + 1, Incidents(p, s[n + 1], n + 1).incidents)
<1> DEFINE e == s[n + 1]
           known == p.incidents
           after == Incidents(p, e, n + 1).incidents
           Opens == e.type = "incident.opened" /\ e.ref # "none"
           Goes == e.type \in {"incident.updated", "incident.resolved"} /\ e.ref \in DOMAIN known
<1>1. "incidents" \in DOMAIN p
  BY FieldNames
<1>2. ASSUME Opens
      PROVE  /\ DOMAIN after = DOMAIN known \cup {e.ref}
             /\ \A id \in DOMAIN known : id # e.ref => after[id] = known[id]
             /\ {"state", "evidence"} \subseteq DOMAIN after[e.ref] /\ after[e.ref].state = e.type
  <2> DEFINE v == [state |-> e.type, evidence |-> {n + 1},
                   class |-> IF e.detail = "none" THEN "context_drift" ELSE e.detail]
  <2>1. after = Put(known, e.ref, v)
    BY <1>1, <1>2 DEF Incidents
  <2>2. {"state", "evidence"} \subseteq DOMAIN v /\ v.state = e.type
    OBVIOUS
  <2> HIDE DEF v, after
  <2> QED
    BY <2>1, <2>2 DEF Put
<1>3. ASSUME Goes
      PROVE  /\ DOMAIN after = DOMAIN known
             /\ \A id \in DOMAIN known : id # e.ref => after[id] = known[id]
             /\ {"state", "evidence"} \subseteq DOMAIN after[e.ref] /\ after[e.ref].state = e.type
  <2>1. e.ref \in DOMAIN known /\ {"state", "evidence"} \subseteq DOMAIN known[e.ref]
    BY <1>3 DEF IncidentsFollow
  <2>2. after = [known EXCEPT ![e.ref] =
                   [[known[e.ref] EXCEPT !.state = e.type] EXCEPT !.evidence = @ \cup {n + 1}]]
    BY <1>1, <1>3, <2>1 DEF Incidents
  <2> HIDE DEF after, known
  <2>3. after[e.ref] = [[known[e.ref] EXCEPT !.state = e.type] EXCEPT !.evidence = @ \cup {n + 1}]
    BY <2>1, <2>2
  <2> QED
    BY <2>1, <2>2, <2>3
<1>4. ASSUME ~Opens, ~Goes PROVE after = known
  BY <1>1, <1>4 DEF Incidents
<1> HIDE DEF after
<1>5. DOMAIN known \subseteq DOMAIN after
  BY <1>2, <1>3, <1>4
<1>6. ASSUME NEW k \in 1..(n + 1), s[k].type = "incident.opened", s[k].ref # "none"
      PROVE  s[k].ref \in DOMAIN after
  <2>1. CASE k = n + 1
    BY <1>2, <1>6, <2>1
  <2>2. CASE k # n + 1
    <3>1. k \in 1..n
      BY <2>2
    <3> QED
      BY <1>5, <1>6, <3>1 DEF IncidentsFollow
  <2> QED
    BY <2>1, <2>2
<1>7. ASSUME NEW id \in DOMAIN after
      PROVE  /\ id # "none" /\ {"state", "evidence"} \subseteq DOMAIN after[id]
             /\ \E k \in 1..(n + 1) :
                  IsLast(s, n + 1, k, id, IncidentTypes) /\ after[id].state = s[k].type
  <2>1. CASE (Opens \/ Goes) /\ id = e.ref
    <3>1. id # "none"
      BY <2>1 DEF IncidentsFollow
    <3>2. {"state", "evidence"} \subseteq DOMAIN after[id] /\ after[id].state = e.type
      BY <1>2, <1>3, <2>1
    <3>3. e.type \in IncidentTypes
      BY <2>1 DEF IncidentTypes
    <3> QED
      BY <2>1, <3>1, <3>2, <3>3, LastIsNew
  <2>2. CASE ~((Opens \/ Goes) /\ id = e.ref)
    <3>1. id \in DOMAIN known /\ after[id] = known[id]
      BY <1>2, <1>3, <1>4, <2>2
    <3>2. id # "none" /\ {"state", "evidence"} \subseteq DOMAIN known[id]
      BY <3>1 DEF IncidentsFollow
    <3>3. e.ref # id \/ e.type \notin IncidentTypes
      BY <2>2, <3>1, <3>2 DEF IncidentTypes
    <3>4. PICK k \in 1..n : IsLast(s, n, k, id, IncidentTypes) /\ known[id].state = s[k].type
      BY <3>1 DEF IncidentsFollow
    <3>5. IsLast(s, n + 1, k, id, IncidentTypes) /\ k \in 1..(n + 1)
      BY <3>3, <3>4, LastLasts
    <3> QED
      BY <3>1, <3>2, <3>4, <3>5
  <2> QED
    BY <2>1, <2>2
<1> QED
  BY <1>6, <1>7 DEF IncidentsFollow, after

LEMMA AwaitsStep ==
  ASSUME NEW s, NEW n \in Nat
  PROVE  Awaits(s, n + 1) <=> AsksOperator(s[n + 1]) \/ (Awaits(s, n) /\ ~Speaks(s[n + 1]))
<1>1. ASSUME AsksOperator(s[n + 1]) PROVE Awaits(s, n + 1)
  <2>1. n + 1 \in 1..(n + 1) /\ ((n + 1) + 1)..(n + 1) = {}
    OBVIOUS
  <2> QED
    BY <1>1, <2>1 DEF Awaits
<1>2. ASSUME Awaits(s, n), ~Speaks(s[n + 1]) PROVE Awaits(s, n + 1)
  <2>1. PICK k \in 1..n : AsksOperator(s[k]) /\ \A m \in (k + 1)..n : ~Speaks(s[m])
    BY <1>2 DEF Awaits
  <2>2. k \in 1..(n + 1) /\ \A m \in (k + 1)..(n + 1) : m \in (k + 1)..n \/ m = n + 1
    OBVIOUS
  <2>3. \A m \in (k + 1)..(n + 1) : ~Speaks(s[m])
    BY <1>2, <2>1, <2>2
  <2> QED
    BY <2>1, <2>2, <2>3 DEF Awaits
<1>3. ASSUME Awaits(s, n + 1), ~AsksOperator(s[n + 1]) PROVE Awaits(s, n) /\ ~Speaks(s[n + 1])
  <2>1. PICK k \in 1..(n + 1) : AsksOperator(s[k]) /\ \A m \in (k + 1)..(n + 1) : ~Speaks(s[m])
    BY <1>3 DEF Awaits
  <2>2. k # n + 1
    BY <1>3, <2>1
  <2>3. k \in 1..n /\ n + 1 \in (k + 1)..(n + 1) /\ \A m \in (k + 1)..n : m \in (k + 1)..(n + 1)
    BY <2>2
  <2>4. \A m \in (k + 1)..n : ~Speaks(s[m])
    BY <2>1, <2>3
  <2> QED
    BY <2>1, <2>3, <2>4 DEF Awaits
<1> QED
  BY <1>1, <1>2, <1>3

LEMMA CaseStep ==
  ASSUME NEW s, NEW n \in Nat, NEW p, DOMAIN p = Fields, CaseFollows(s, n, p.caseState)
  PROVE  CaseFollows(s, n + 1, Session(p, s[n + 1]).caseState)
<1> DEFINE e == s[n + 1]
           case == p.caseState
           after == Session(p, e).caseState
           seen == IF e.session = "none" \/ e.session \in DOMAIN p.sessions THEN p
                   ELSE [p EXCEPT !.sessions = Put(@, e.session, "runtime.started")]
           Enter(u, c) == IF e.session = "none" THEN [u EXCEPT !.caseState = c]
                          ELSE [u EXCEPT !.caseState = c, !.sessions[e.session] = e.type]
<1>1. "caseState" \in DOMAIN p /\ "sessions" \in DOMAIN p
  BY FieldNames
<1>2. seen.caseState = case /\ "caseState" \in DOMAIN seen /\ "sessions" \in DOMAIN seen
  BY <1>1
<1>3. Session(p, e) =
        CASE e.type \in {"runtime.started", "runtime.resumed"} -> Enter(seen, "active")
          [] e.type = "runtime.waiting" ->
               Enter(seen, IF e.detail = "operator_approval" THEN "approval_required" ELSE "waiting")
          [] e.type = "runtime.completed" ->
               Enter(seen, IF e.detail = "terminal" THEN "completed" ELSE seen.caseState)
          [] e.type = "runtime.failed" -> Enter(seen, "failed")
          [] e.type = "runtime.controlled" -> Enter(seen, seen.caseState)
          [] OTHER -> seen
  BY DEF Session
<1> HIDE DEF seen
<1>4. \A c : Enter(seen, c).caseState = c
  BY <1>2
<1> HIDE DEF Enter
<1>5. /\ e.type \in {"runtime.started", "runtime.resumed"} => after = "active"
      /\ AsksOperator(e) => after = "approval_required"
      /\ e.type = "runtime.waiting" /\ ~AsksOperator(e) => after = "waiting"
      /\ e.type = "runtime.completed" /\ e.detail = "terminal" => after = "completed"
      /\ e.type = "runtime.failed" => after = "failed"
      /\ ~Speaks(e) => after = case
  <2>1. e.type \in {"runtime.started", "runtime.resumed"} => after = "active"
    BY <1>3, <1>4
  <2>2. AsksOperator(e) => after = "approval_required"
    BY <1>3, <1>4 DEF AsksOperator
  <2>3. e.type = "runtime.waiting" /\ ~AsksOperator(e) => after = "waiting"
    BY <1>3, <1>4 DEF AsksOperator
  <2>4. e.type = "runtime.completed" /\ e.detail = "terminal" => after = "completed"
    BY <1>3, <1>4
  <2>5. e.type = "runtime.failed" => after = "failed"
    BY <1>3, <1>4
  <2>6. ~Speaks(e) => after = case
    BY <1>2, <1>3, <1>4 DEF Speaks
  <2> QED
    BY <2>1, <2>2, <2>3, <2>4, <2>5, <2>6
<1> HIDE DEF after
<1>6. Awaits(s, n + 1) <=> AsksOperator(e) \/ (Awaits(s, n) /\ ~Speaks(e))
  BY AwaitsStep
<1>7. AsksOperator(e) => Speaks(e)
  BY DEF AsksOperator, Speaks
<1>8. CASE AsksOperator(e)
  BY <1>5, <1>6, <1>8 DEF CaseFollows, CaseStates, after
<1>9. CASE ~Speaks(e)
  BY <1>5, <1>6, <1>7, <1>9 DEF CaseFollows, after
<1>10. CASE Speaks(e) /\ ~AsksOperator(e)
  <2>1. after \in CaseStates \ {"approval_required"}
    BY <1>5, <1>10 DEF Speaks, CaseStates
  <2> QED
    BY <1>6, <1>10, <2>1 DEF CaseFollows, after
<1> QED
  BY <1>8, <1>9, <1>10

LEMMA AlwaysFollowed == ASSUME NEW s PROVE \A n \in Nat : Followed(s, n)
<1> DEFINE S == {n \in Nat : Followed(s, n)}
<1>1. 0 \in S
  <2>1. project(s, 0) = Nothing /\ 1..0 = {}
    BY ProjectSteps
  <2>2. /\ Nothing.approvals = Empty /\ Nothing.incidents = Empty /\ Nothing.caseState = "active"
        /\ DOMAIN Empty = {}
    BY DEF Nothing, Empty
  <2>3. Followed(s, 0)
    BY <2>1, <2>2 DEF Followed, ApprovalsFollow, IncidentsFollow, CaseFollows, CaseStates, Awaits
  <2> QED
    BY <2>3
<1>2. ASSUME NEW n \in Nat, n \in S PROVE n + 1 \in S
  <2> DEFINE p == project(s, n)
             t == project(s, n + 1)
             e == s[n + 1]
  <2>1. t = Fold(p, e, n + 1) /\ DOMAIN p = Fields
    BY ProjectSteps, ProjectFields
  <2>2. /\ ApprovalsFollow(s, n, p.approvals) /\ IncidentsFollow(s, n, p.incidents)
        /\ CaseFollows(s, n, p.caseState)
    BY <1>2 DEF Followed
  <2> HIDE DEF p, t
  <2>3. /\ t.approvals = Approvals(p, e, n + 1).approvals
        /\ t.incidents = Incidents(p, e, n + 1).incidents
        /\ t.caseState = Session(p, e).caseState
    BY <2>1, FoldByParts
  <2>4. /\ ApprovalsFollow(s, n + 1, t.approvals) /\ IncidentsFollow(s, n + 1, t.incidents)
        /\ CaseFollows(s, n + 1, t.caseState)
    BY <2>1, <2>2, <2>3, ApprovalsStep, IncidentsStep, CaseStep
  <2> QED
    BY <2>4 DEF Followed, t
<1> HIDE DEF S
<1>3. \A n \in Nat : n \in S
  BY <1>1, <1>2, CountingUp
<1> QED
  BY <1>3 DEF S

LEMMA PendingIsUndecided ==
  ASSUME IsStream(stream), ApprovalsFollow(stream, Len(stream), State.approvals)
  PROVE  Views!pending(State) # {} <=> Undecided
<1> DEFINE n == Len(stream)
           known == State.approvals
<1>1. n \in Nat /\ DOMAIN stream = 1..n
  BY StreamParts
<1> HIDE DEF n
<1>2. Views!pending(State) = {id \in DOMAIN known : known[id].state = "pending"}
  BY DEF Views!pending
<1>3. \A e : StateOf(e) = "pending" <=> e.type = "human_escalation.opened"
  BY DEF StateOf, decisionOf
<1> HIDE DEF known
<1>4. ASSUME NEW id \in DOMAIN known, known[id].state = "pending" PROVE Undecided
  <2>1. PICK k \in 1..n : IsLast(stream, n, k, id, ApprovalTypes)
                          /\ known[id].state = StateOf(stream[k])
    BY DEF ApprovalsFollow, known, n
  <2>2. id # "none"
    BY DEF ApprovalsFollow, known, n
  <2>3. stream[k].type = "human_escalation.opened" /\ stream[k].ref = id
    BY <1>3, <1>4, <2>1 DEF IsLast
  <2>4. Stands(k, {"human_escalation.resolved"})
    BY <2>1, <2>3 DEF IsLast, Stands, ApprovalTypes, n
  <2> QED
    BY <1>1, <2>2, <2>3, <2>4 DEF Undecided
<1>5. ASSUME Undecided PROVE \E id \in DOMAIN known : known[id].state = "pending"
  <2>1. PICK m \in 1..n : /\ stream[m].type = "human_escalation.opened" /\ stream[m].ref # "none"
                          /\ Stands(m, {"human_escalation.resolved"})
    BY <1>1, <1>5 DEF Undecided
  <2> DEFINE id == stream[m].ref
  <2>2. id \in DOMAIN known
    BY <2>1 DEF ApprovalsFollow, known, n
  <2>3. PICK k \in 1..n : IsLast(stream, n, k, id, ApprovalTypes)
                          /\ known[id].state = StateOf(stream[k])
    BY <2>2 DEF ApprovalsFollow, known, n
  <2>4. m <= k
    <3>1. m > k => m \in (k + 1)..n
      BY <1>1
    <3> QED
      BY <1>1, <2>1, <2>3, <3>1 DEF IsLast, ApprovalTypes
  <2>5. stream[k].type = "human_escalation.opened"
    <3>1. CASE k = m
      BY <2>1, <3>1
    <3>2. CASE k # m
      <4>1. k \in (m + 1)..n
        BY <1>1, <2>4, <3>2
      <4>2. stream[k].type # "human_escalation.resolved"
        BY <2>1, <2>3, <4>1 DEF Stands, IsLast, n
      <4> QED
        BY <2>3, <4>2 DEF IsLast, ApprovalTypes
    <3> QED
      BY <3>1, <3>2
  <2> QED
    BY <1>3, <2>2, <2>3, <2>5
<1> QED
  BY <1>2, <1>4, <1>5

LEMMA OpenIsUnreviewed ==
  ASSUME IsStream(stream), IncidentsFollow(stream, Len(stream), State.incidents)
  PROVE  Views!open(State) # {} <=> Unreviewed
<1> DEFINE n == Len(stream)
           known == State.incidents
<1>1. n \in Nat /\ DOMAIN stream = 1..n
  BY StreamParts
<1> HIDE DEF n
<1>2. Views!open(State) = {id \in DOMAIN known : known[id].state = "incident.opened"}
  BY DEF Views!open
<1> HIDE DEF known
<1>3. ASSUME NEW id \in DOMAIN known, known[id].state = "incident.opened" PROVE Unreviewed
  <2>1. PICK k \in 1..n : IsLast(stream, n, k, id, IncidentTypes)
                          /\ known[id].state = stream[k].type
    BY DEF IncidentsFollow, known, n
  <2>2. id # "none"
    BY DEF IncidentsFollow, known, n
  <2>3. stream[k].type = "incident.opened" /\ stream[k].ref = id
    BY <1>3, <2>1 DEF IsLast
  <2>4. Stands(k, {"incident.updated", "incident.resolved"})
    BY <2>1, <2>3 DEF IsLast, Stands, IncidentTypes, n
  <2> QED
    BY <1>1, <2>2, <2>3, <2>4 DEF Unreviewed
<1>4. ASSUME Unreviewed PROVE \E id \in DOMAIN known : known[id].state = "incident.opened"
  <2>1. PICK m \in 1..n : /\ stream[m].type = "incident.opened" /\ stream[m].ref # "none"
                          /\ Stands(m, {"incident.updated", "incident.resolved"})
    BY <1>1, <1>4 DEF Unreviewed
  <2> DEFINE id == stream[m].ref
  <2>2. id \in DOMAIN known
    BY <2>1 DEF IncidentsFollow, known, n
  <2>3. PICK k \in 1..n : IsLast(stream, n, k, id, IncidentTypes)
                          /\ known[id].state = stream[k].type
    BY <2>2 DEF IncidentsFollow, known, n
  <2>4. m <= k
    <3>1. m > k => m \in (k + 1)..n
      BY <1>1
    <3> QED
      BY <1>1, <2>1, <2>3, <3>1 DEF IsLast, IncidentTypes
  <2>5. stream[k].type = "incident.opened"
    <3>1. CASE k = m
      BY <2>1, <3>1
    <3>2. CASE k # m
      <4>1. k \in (m + 1)..n
        BY <1>1, <2>4, <3>2
      <4>2. stream[k].type \notin {"incident.updated", "incident.resolved"}
        BY <2>1, <2>3, <4>1 DEF Stands, IsLast, n
      <4> QED
        BY <2>3, <4>2 DEF IsLast, IncidentTypes
    <3> QED
      BY <3>1, <3>2
  <2> QED
    BY <2>2, <2>3, <2>5
<1> QED
  BY <1>2, <1>3, <1>4

LEMMA UsableWasApproved ==
  ASSUME IsStream(stream), ApprovalsFollow(stream, Len(stream), State.approvals),
         NEW id \in DOMAIN State.approvals,
         Views!approvalRows(State, Len(stream))[id] = "usable"
  PROVE  \E n \in DOMAIN stream :
           /\ stream[n].type = "human_escalation.resolved" /\ stream[n].ref = id
           /\ stream[n].detail = "approved"
           /\ Stands(n, {"human_escalation.opened", "human_escalation.resolved"})
<1> DEFINE n == Len(stream)
           known == State.approvals
<1>1. n \in Nat /\ DOMAIN stream = 1..n
  BY StreamParts
<1>2. PICK k \in 1..n : IsLast(stream, n, k, id, ApprovalTypes)
                        /\ known[id].state = StateOf(stream[k])
  BY DEF ApprovalsFollow
<1>3. Views!approvalStatus(known[id], <<id>>, <<id>>, n) = "usable"
  BY DEF Views!approvalRows
<1> HIDE DEF known
<1>4. StateOf(stream[k]) \in {"pending", "approved", "rejected"}
  BY DEF StateOf, decisionOf
<1>5. known[id].state = "approved"
  <2>1. ASSUME known[id].state # "approved" PROVE FALSE
    <3>1. Views!approvalStatus(known[id], <<id>>, <<id>>, n) = known[id].state
      BY <2>1 DEF Views!approvalStatus
    <3> QED
      BY <1>2, <1>3, <1>4, <3>1
  <2> QED
    BY <2>1
<1>6. stream[k].type = "human_escalation.resolved" /\ stream[k].detail = "approved"
  BY <1>2, <1>5 DEF StateOf, decisionOf, IsLast, ApprovalTypes
<1>7. stream[k].ref = id /\ Stands(k, ApprovalTypes)
  BY <1>2 DEF IsLast, Stands
<1> QED
  BY <1>1, <1>6, <1>7 DEF ApprovalTypes

LEMMA AskedOfAStream == ASSUME IsStream(stream) PROVE OperatorIsAsked
<1> DEFINE n == Len(stream)
           case == State.caseState
<1>1. n \in Nat /\ DOMAIN stream = 1..n
  BY StreamParts
<1>2. /\ ApprovalsFollow(stream, n, State.approvals) /\ IncidentsFollow(stream, n, State.incidents)
      /\ CaseFollows(stream, n, case)
  BY <1>1, AlwaysFollowed DEF Followed, State
<1>3. Views!pending(State) # {} <=> Undecided
  BY <1>2, PendingIsUndecided
<1>4. Views!open(State) # {} <=> Unreviewed
  BY <1>2, OpenIsUnreviewed
<1>5. WaitsForOperator <=> Awaits(stream, n)
  BY <1>1 DEF WaitsForOperator, Awaits, AsksOperator, Speaks
<1>6. case \in CaseStates /\ (case = "approval_required" <=> WaitsForOperator)
  BY <1>2, <1>5 DEF CaseFollows
<1>7. Views!nextAction(State) = "operator decides" <=>
        Undecided \/ (WaitsForOperator /\ ~Unreviewed)
  <2>1. CASE Views!pending(State) # {}
    BY <1>3, <2>1 DEF Views!nextAction
  <2>2. CASE Views!pending(State) = {} /\ Views!open(State) # {}
    BY <1>3, <1>4, <2>2 DEF Views!nextAction
  <2>3. CASE Views!pending(State) = {} /\ Views!open(State) = {}
    <3>1. Views!nextAction(State) = CASE case = "approval_required" -> "operator decides"
                                      [] case = "waiting" -> "runtime resumes"
                                      [] OTHER -> case
      BY <2>3 DEF Views!nextAction
    <3> HIDE DEF case
    <3>2. Views!nextAction(State) = "operator decides" <=> case = "approval_required"
      BY <1>6, <3>1 DEF CaseStates
    <3> QED
      BY <1>3, <1>4, <1>6, <2>3, <3>2
  <2> QED
    BY <2>1, <2>2, <2>3
<1>8. "approval_required" \in Views!caseAttention(State).flags <=> Undecided
  <2>1. "approval_required" \in Views!caseAttention(State).flags
          <=> Views!pending(State) # {}
    BY DEF Views!caseAttention
  <2> QED
    BY <1>3, <2>1
<1>9. \A id \in DOMAIN State.approvals :
        Views!approvalRows(State, Len(stream))[id] = "usable" =>
          \E m \in DOMAIN stream :
            /\ stream[m].type = "human_escalation.resolved" /\ stream[m].ref = id
            /\ stream[m].detail = "approved"
            /\ Stands(m, {"human_escalation.opened", "human_escalation.resolved"})
  BY <1>2, UsableWasApproved
<1> QED
  BY <1>7, <1>8, <1>9 DEF OperatorIsAsked, Outstanding

(* The pages ask an operator exactly while the record has a decision
   outstanding, and call an approval usable only if it was the last
   decision on what was last asked, in whatever order the events came. *)
THEOREM OperatorIsAskedWhenDue == ASSUME CaseStreamAssumption PROVE Spec => []OperatorIsAsked
<1>1. Init => IsStream(stream)
  BY StreamFromTheStart
<1>2. IsStream(stream) /\ [Next]_vars => IsStream(stream)'
  BY StreamStep
<1>3. IsStream(stream) => OperatorIsAsked
  BY AskedOfAStream
<1> QED
  BY <1>1, <1>2, <1>3, PTL DEF Spec

----------------------------------------------------------------------------
(* Sets in order.  The order is a set of pairs. *)

LEMMA RankGrows ==
  ASSUME NEW S, IsFiniteSet(S), NEW R, OrderOn(R, S), NEW x \in S, NEW y \in S, <<x, y>> \in R
  PROVE  Rank(S, R)[x] < Rank(S, R)[y]
<1> DEFINE P == {z \in S : <<z, x>> \in R}
           Q == {z \in S : <<z, y>> \in R}
<1>1. P \subseteq Q /\ x \in Q /\ x \notin P
  BY DEF OrderOn
<1>2. IsFiniteSet(Q) /\ IsFiniteSet(P)
  BY FS_Subset
<1>3. Cardinality(P) \in Nat /\ Cardinality(Q) \in Nat
  BY <1>2, FS_CardinalityType
<1>4. Cardinality(P) <= Cardinality(Q) /\ (Cardinality(P) = Cardinality(Q) => P = Q)
  BY <1>1, <1>2, FS_Subset
<1>5. Cardinality(P) < Cardinality(Q)
  BY <1>1, <1>3, <1>4
<1> QED
  BY <1>5 DEF Rank

LEMMA RankType ==
  ASSUME NEW S, IsFiniteSet(S), NEW R, OrderOn(R, S), NEW x \in S
  PROVE  Rank(S, R)[x] \in 0..(Cardinality(S) - 1)
<1> DEFINE P == {z \in S : <<z, x>> \in R}
<1>1. P \subseteq S /\ x \notin P
  BY DEF OrderOn
<1>2. IsFiniteSet(P)
  BY <1>1, FS_Subset
<1>3. Cardinality(P) \in Nat /\ Cardinality(S) \in Nat
  BY <1>2, FS_CardinalityType
<1>4. Cardinality(P) <= Cardinality(S) /\ (Cardinality(P) = Cardinality(S) => P = S)
  BY <1>1, FS_Subset
<1>5. Rank(S, R)[x] = Cardinality(P)
  BY DEF Rank
<1> HIDE DEF P
<1> QED
  BY <1>1, <1>3, <1>4, <1>5

LEMMA RankOnto ==
  ASSUME NEW S, IsFiniteSet(S), NEW R, OrderOn(R, S)
  PROVE  \A n \in 1..Cardinality(S) : \E x \in S : Rank(S, R)[x] = n - 1
<1> DEFINE k == Cardinality(S)
           f == [x \in S |-> Rank(S, R)[x] + 1]
<1>1. k \in Nat
  BY FS_CardinalityType
<1>2. \A x \in S : f[x] \in 1..k
  BY <1>1, RankType
<1>3. \A x \in S : \A y \in S : f[x] = f[y] => x = y
  <2> SUFFICES ASSUME NEW x \in S, NEW y \in S, f[x] = f[y], x # y PROVE FALSE
    OBVIOUS
  <2>1. Rank(S, R)[x] \in Int /\ Rank(S, R)[y] \in Int
    BY RankType, <1>1
  <2>2. <<x, y>> \in R \/ <<y, x>> \in R
    BY DEF OrderOn
  <2>3. Rank(S, R)[x] < Rank(S, R)[y] \/ Rank(S, R)[y] < Rank(S, R)[x]
    BY <2>2, RankGrows
  <2> QED
    BY <2>1, <2>3
<1>4. f \in Injection(S, 1..k)
  <2> HIDE DEF k
  <2>1. f \in [S -> 1..k]
    BY <1>2
  <2> HIDE DEF f
  <2> QED
    BY <2>1, <1>3 DEF Injection, IsInjective
<1>5. IsFiniteSet(1..k) /\ Cardinality(1..k) = k
  BY <1>1, FS_Interval
<1>6. f \in Surjection(S, 1..k)
  <2> HIDE DEF f
  <2> QED
    BY <1>4, <1>5, FS_Injection
<1>7. \A n \in 1..k : \E x \in S : f[x] = n
  <2> HIDE DEF f
  <2> QED
    BY <1>6 DEF Surjection
<1> QED
  <2> SUFFICES ASSUME NEW n \in 1..k PROVE \E x \in S : Rank(S, R)[x] = n - 1
    OBVIOUS
  <2>1. PICK x \in S : f[x] = n
    BY <1>7
  <2>2. Rank(S, R)[x] \in Int /\ Rank(S, R)[x] + 1 = n
    BY <2>1, RankType, <1>1
  <2>3. Rank(S, R)[x] = n - 1
    BY <2>2, <1>1
  <2> QED
    BY <2>3

(* What an ordered set looks like as a sequence: each element once, in
   order. *)
LEMMA RankedLists ==
  ASSUME NEW S, IsFiniteSet(S), NEW R, OrderOn(R, S)
  PROVE  LET q == Ranked(S, R)
         IN  /\ Cardinality(S) \in Nat
             /\ q \in [1..Cardinality(S) -> S] /\ q \in Seq(S)
             /\ Len(q) = Cardinality(S) /\ DOMAIN q = 1..Cardinality(S)
             /\ \A n \in DOMAIN q : Rank(S, R)[q[n]] = n - 1
             /\ \A x \in S : \E n \in DOMAIN q : q[n] = x
             /\ \A i \in DOMAIN q : \A j \in DOMAIN q : q[i] = q[j] => i = j
             /\ \A i \in DOMAIN q : \A j \in DOMAIN q : i < j <=> <<q[i], q[j]>> \in R
<1> DEFINE q == Ranked(S, R)
           k == Cardinality(S)
<1>1. k \in Nat
  BY FS_CardinalityType
<1>2. ASSUME NEW n \in 1..k
      PROVE  q[n] \in S /\ Rank(S, R)[q[n]] = n - 1
  <2>1. q[n] = CHOOSE x \in S : Rank(S, R)[x] = n - 1
    BY DEF Ranked
  <2>2. \E x \in S : Rank(S, R)[x] = n - 1
    BY RankOnto
  <2> HIDE DEF q
  <2> QED
    BY <2>1, <2>2
<1>3. DOMAIN q = 1..k
  BY DEF Ranked
<1>4. q \in [1..k -> S]
  <2>1. q = [n \in 1..k |-> q[n]]
    BY DEF Ranked
  <2> HIDE DEF q, k
  <2> QED
    BY <1>2, <2>1
<1>5. q \in Seq(S) /\ Len(q) = k
  <2> HIDE DEF q, k
  <2> QED
    BY <1>1, <1>4
<1> HIDE DEF q, k
<1>6. ASSUME NEW x \in S
      PROVE  \E n \in 1..k : q[n] = x
  <2>1. Rank(S, R)[x] \in 0..(k - 1)
    BY RankType DEF k
  <2>2. PICK n \in 1..k : n - 1 = Rank(S, R)[x]
    <3>1. Rank(S, R)[x] + 1 \in 1..k /\ (Rank(S, R)[x] + 1) - 1 = Rank(S, R)[x]
      BY <2>1, <1>1
    <3> QED
      BY <3>1
  <2>3. q[n] \in S /\ Rank(S, R)[q[n]] = Rank(S, R)[x]
    BY <1>2, <2>2
  <2>4. Rank(S, R)[x] \in Int
    BY <2>1
  <2>5. q[n] = x
    <3> SUFFICES ASSUME q[n] # x PROVE FALSE
      OBVIOUS
    <3>1. <<q[n], x>> \in R \/ <<x, q[n]>> \in R
      BY <2>3 DEF OrderOn
    <3>2. Rank(S, R)[q[n]] < Rank(S, R)[x] \/ Rank(S, R)[x] < Rank(S, R)[q[n]]
      BY <2>3, <3>1, RankGrows
    <3> QED
      BY <2>3, <2>4, <3>2
  <2> QED
    BY <2>5
<1>7. ASSUME NEW i \in 1..k, NEW j \in 1..k, q[i] = q[j]
      PROVE  i = j
  <2>1. i - 1 = j - 1
    BY <1>2, <1>7
  <2> QED
    BY <2>1
<1>8. ASSUME NEW i \in 1..k, NEW j \in 1..k
      PROVE  i < j <=> <<q[i], q[j]>> \in R
  <2>1. /\ q[i] \in S /\ q[j] \in S
        /\ Rank(S, R)[q[i]] = i - 1 /\ Rank(S, R)[q[j]] = j - 1
    BY <1>2
  <2>2. <<q[i], q[j]>> \in R => i - 1 < j - 1
    BY <2>1, RankGrows
  <2>3. <<q[j], q[i]>> \in R => j - 1 < i - 1
    BY <2>1, RankGrows
  <2>4. i # j => <<q[i], q[j]>> \in R \/ <<q[j], q[i]>> \in R
    BY <1>7, <2>1 DEF OrderOn
  <2> QED
    BY <2>2, <2>3, <2>4
<1> QED
  BY <1>1, <1>2, <1>3, <1>4, <1>5, <1>6, <1>7, <1>8 DEF q, k

(* The greatest of a finite set of numbers is the last one in order. *)
LEMMA GreatestOf ==
  ASSUME NEW S, IsFiniteSet(S), S \subseteq Nat, S # {}
  PROVE  Max(S) \in S /\ \A j \in S : Max(S) >= j
<1> DEFINE R == {p \in Nat \X Nat : p[1] < p[2]}
           q == Ranked(S, R)
           k == Cardinality(S)
<1>1. OrderOn(R, S)
  BY DEF OrderOn
<1> HIDE DEF R
<1>2. /\ k \in Nat /\ k # 0 /\ DOMAIN q = 1..k /\ q \in [1..k -> S]
      /\ \A x \in S : \E n \in DOMAIN q : q[n] = x
      /\ \A m \in DOMAIN q : \A n \in DOMAIN q : m < n <=> <<q[m], q[n]>> \in R
  <2>1. k \in Nat /\ k # 0
    BY FS_CardinalityType, FS_EmptySet
  <2>2. DOMAIN q = 1..k /\ q \in [1..k -> S]
    BY <1>1, RankedLists
  <2>3. \A x \in S : \E n \in DOMAIN q : q[n] = x
    BY <1>1, RankedLists
  <2>4. \A m \in DOMAIN q : \A n \in DOMAIN q : m < n <=> <<q[m], q[n]>> \in R
    BY <1>1, RankedLists
  <2> QED
    BY <2>1, <2>2, <2>3, <2>4
<1> HIDE DEF q, k
<1>3. k \in 1..k
  BY <1>2
<1>4. ASSUME NEW j \in S PROVE q[k] >= j
  <2>1. PICK n \in 1..k : q[n] = j
    BY <1>2
  <2>2. n = k \/ n < k
    BY <1>2
  <2>3. n = k \/ <<q[n], q[k]>> \in R
    BY <1>2, <1>3, <2>2
  <2>4. q[n] \in Nat /\ q[k] \in Nat
    BY <1>2, <1>3
  <2> QED
    BY <2>1, <2>3, <2>4 DEF R
<1>5. q[k] \in S
  BY <1>2, <1>3
<1> QED
  BY <1>4, <1>5 DEF Max

----------------------------------------------------------------------------
(* The detector: what it finds, found another way. *)

LEMMA FirstsCover ==
  ASSUME NEW T, Positions(T), NEW sig
  PROVE  \A n \in T : \E m \in Firsts(T, sig) : sig[m] = sig[n]
<1> DEFINE F == Firsts(T, sig)
<1>1. ASSUME NEW n \in T PROVE \E m \in F : sig[m] = sig[n]
  <2> DEFINE S == {k \in T : sig[k] = sig[n]}
  <2>1. S \subseteq Nat /\ S # {}
    BY DEF Positions
  <2> HIDE DEF S
  <2>2. Min(S) \in S /\ \A j \in S : Min(S) <= j
    BY <2>1, LeastOf
  <2> QED
    BY <2>2 DEF S, Firsts
<1> QED
  BY <1>1

(* A window that begins with a failure and holds enough is one that ends
   with a failure and does. *)
LEMMA WindowsMeet ==
  ASSUME NEW s, IsStream(s), NEW tool
  PROVE  Crowded(FailuresOf(s, tool)) <=>
           \E n \in FailuresOf(s, tool) : Cardinality(FailuresAt(s, n)) >= Threshold
<1> DEFINE E == FailuresOf(s, tool)
           C(n) == {m \in E : n <= m /\ m < n + WindowEvents}
<1>1. /\ WindowEvents \in Nat /\ WindowEvents > 0 /\ Threshold \in Nat
      /\ Len(s) \in Nat /\ DOMAIN s = 1..Len(s)
  BY DetectorAssumption, StreamParts
<1>2. E \subseteq 1..Len(s) /\ E \subseteq Nat
  BY <1>1 DEF FailuresOf
<1>3. \A n \in E : FailuresAt(s, n) = {m \in E : m <= n /\ m + WindowEvents > n}
  <2> SUFFICES ASSUME NEW n \in E
               PROVE  FailuresAt(s, n) = {m \in E : m <= n /\ m + WindowEvents > n}
    OBVIOUS
  <2>1. n \in 1..Len(s) /\ s[n].tool = tool
    BY <1>1 DEF FailuresOf
  <2>2. \A m : m \in 1..n <=> m \in 1..Len(s) /\ m <= n
    BY <1>1, <2>1
  <2> QED
    BY <1>1, <2>1, <2>2 DEF FailuresAt, Window, FailuresOf
<1> HIDE DEF E
<1>4. \A P : P \subseteq E => IsFiniteSet(P) /\ P \subseteq Nat /\ Cardinality(P) \in Nat
  BY <1>1, <1>2, PositionsAreFinite, FS_CardinalityType
<1>5. ASSUME NEW n \in E, Cardinality(C(n)) >= Threshold
      PROVE  \E m \in E : Cardinality(FailuresAt(s, m)) >= Threshold
  <2> DEFINE P == C(n)
  <2>1. P \subseteq E /\ n \in P
    BY <1>1, <1>2
  <2>2. IsFiniteSet(P) /\ P \subseteq Nat
    BY <1>4, <2>1
  <2> HIDE DEF P
  <2> DEFINE m == Max(P)
  <2>3. m \in P /\ \A j \in P : m >= j
    BY <2>1, <2>2, GreatestOf
  <2> HIDE DEF m
  <2>4. m \in E /\ m \in Nat /\ m < n + WindowEvents /\ n \in Nat
    BY <1>2, <2>1, <2>3 DEF P
  <2>5. P \subseteq FailuresAt(s, m)
    <3> SUFFICES ASSUME NEW j \in P PROVE j <= m /\ j + WindowEvents > m /\ j \in E
      BY <1>3, <2>4
    <3>1. j \in E /\ n <= j /\ j \in Nat /\ m >= j
      BY <1>2, <2>3 DEF P
    <3> QED
      BY <1>1, <2>4, <3>1
  <2>6. IsFiniteSet(FailuresAt(s, m)) /\ Cardinality(FailuresAt(s, m)) \in Nat
    <3>1. FailuresAt(s, m) \subseteq E
      BY <1>3, <2>4
    <3> QED
      BY <1>4, <3>1
  <2>7. Cardinality(P) <= Cardinality(FailuresAt(s, m))
    BY <2>5, <2>6, FS_Subset
  <2>8. Cardinality(P) \in Nat /\ Cardinality(P) >= Threshold
    BY <1>4, <1>5, <2>1 DEF P
  <2>9. Cardinality(FailuresAt(s, m)) >= Threshold
    BY <1>1, <2>6, <2>7, <2>8
  <2> QED
    BY <2>4, <2>9
<1>6. ASSUME NEW n \in E, Cardinality(FailuresAt(s, n)) >= Threshold
      PROVE  \E m \in E : Cardinality(C(m)) >= Threshold
  <2> DEFINE P == FailuresAt(s, n)
  <2>1. P = {m \in E : m <= n /\ m + WindowEvents > n} /\ n \in Nat
    BY <1>2, <1>3
  <2> HIDE DEF P
  <2>0. n <= n /\ n + WindowEvents > n
    BY <1>1, <2>1
  <2>2. P \subseteq E /\ n \in P /\ P \subseteq Nat
    <3>1. P \subseteq E
      BY <2>1
    <3>2. n \in P
      BY <2>0, <2>1
    <3> QED
      BY <1>2, <3>1, <3>2
  <2> DEFINE m == Min(P)
  <2>3. m \in P /\ \A j \in P : m <= j
    BY <2>2, LeastOf
  <2> HIDE DEF m
  <2>4. m \in E /\ m \in Nat /\ m + WindowEvents > n
    BY <2>1, <2>2, <2>3
  <2>5. P \subseteq C(m)
    <3> SUFFICES ASSUME NEW j \in P PROVE j \in E /\ m <= j /\ j < m + WindowEvents
      OBVIOUS
    <3>1. j \in E /\ j \in Nat /\ j <= n /\ m <= j
      BY <2>1, <2>2, <2>3
    <3> QED
      BY <1>1, <2>1, <2>4, <3>1
  <2>6. IsFiniteSet(C(m)) /\ Cardinality(C(m)) \in Nat
    <3>1. C(m) \subseteq E
      OBVIOUS
    <3> HIDE DEF C
    <3> QED
      BY <1>4, <3>1
  <2>7. Cardinality(P) <= Cardinality(C(m))
    BY <2>5, <2>6, FS_Subset
  <2>8. Cardinality(P) \in Nat /\ Cardinality(P) >= Threshold
    BY <1>4, <1>6, <2>2 DEF P
  <2>9. Cardinality(C(m)) >= Threshold
    <3> HIDE DEF C
    <3> QED
      BY <1>1, <2>6, <2>7, <2>8
  <2> QED
    BY <2>4, <2>9
<1>7. Crowded(E) <=> \E n \in E : Cardinality(C(n)) >= Threshold
  BY DEF Crowded
<1> HIDE DEF C
<1>8. Crowded(E) <=> \E n \in E : Cardinality(FailuresAt(s, n)) >= Threshold
  BY <1>5, <1>6, <1>7
<1> QED
  BY <1>8 DEF E

LEMMA FailuresAreExact ==
  ASSUME NEW s, IsStream(s)
  PROVE  {f.signature : f \in detectRepeatedToolFailure(s)}
           = {tool \in {s[n].tool : n \in DOMAIN s} : Crowded(FailuresOf(s, tool))}
<1> DEFINE T == {n \in DOMAIN s : s[n].type = "tool.failed"
                                    /\ Cardinality(FailuresAt(s, n)) >= Threshold}
           sig == [n \in DOMAIN s |-> s[n].tool]
           F == Firsts(T, sig)
<1>1. DOMAIN s = 1..Len(s) /\ Len(s) \in Nat
  BY StreamParts
<1>2. T \subseteq Nat
  BY <1>1
<1>3. detectRepeatedToolFailure(s)
        = {Finding("repeated_tool_failure", s[n].tool, n, FailuresAt(s, n)) : n \in F}
  BY DEF detectRepeatedToolFailure, FirstOf, FailuresAt, Firsts
<1>4. {f.signature : f \in detectRepeatedToolFailure(s)} = {s[n].tool : n \in F}
  <2> HIDE DEF F
  <2>1. \A n : Finding("repeated_tool_failure", s[n].tool, n, FailuresAt(s, n)).signature = s[n].tool
    BY DEF Finding
  <2> QED
    BY <1>3, <2>1
<1>5. {s[n].tool : n \in F} = {s[n].tool : n \in T}
  <2>1. \A n \in T : \E m \in F : sig[m] = sig[n]
    <3> HIDE DEF T, sig
    <3>1. Positions(T)
      BY <1>2 DEF Positions
    <3> QED
      BY <3>1, FirstsCover
  <2>2. T \subseteq DOMAIN s /\ F \subseteq T
    BY DEF Firsts
  <2>3. \A n \in DOMAIN s : sig[n] = s[n].tool
    OBVIOUS
  <2> HIDE DEF T, sig, F
  <2> QED
    BY <2>1, <2>2, <2>3
<1>6. ASSUME NEW tool
      PROVE  (\E n \in T : s[n].tool = tool) <=>
               tool \in {s[n].tool : n \in DOMAIN s} /\ Crowded(FailuresOf(s, tool))
  <2>1. (\E n \in T : s[n].tool = tool) <=>
          \E n \in FailuresOf(s, tool) : Cardinality(FailuresAt(s, n)) >= Threshold
    BY DEF FailuresOf
  <2>2. (\E n \in T : s[n].tool = tool) => tool \in {s[n].tool : n \in DOMAIN s}
    OBVIOUS
  <2> HIDE DEF T
  <2> QED
    BY <2>1, <2>2, WindowsMeet
<1> HIDE DEF T, F
<1> QED
  BY <1>4, <1>5, <1>6

(* A loop that is reported made no progress between any two of its asks. *)
LEMMA LoopsAreExact ==
  ASSUME NEW s, IsStream(s), NEW f \in detectNoProgressLoop(s),
         NEW n \in f.evidence, NEW k \in f.evidence, NEW m \in n..k
  PROVE  s[m].type \notin PROGRESS_EVENTS
<1> DEFINE Signature(i) == <<s[i].tool, s[i].agent>>
           Repeats(i) == {j \in Window(i) : s[j].type = "tool.requested"
                                               /\ Signature(j) = Signature(i)}
<1>1. \E i \in DOMAIN s :
        /\ f = Finding("no_progress_loop", Signature(i), i, Repeats(i))
        /\ ~\E j \in Window(i) : s[j].type \in PROGRESS_EVENTS /\ j > Min(Repeats(i))
  BY DEF detectNoProgressLoop, FirstOf
<1>2. PICK i \in DOMAIN s :
        /\ f = Finding("no_progress_loop", Signature(i), i, Repeats(i))
        /\ ~\E j \in Window(i) : s[j].type \in PROGRESS_EVENTS /\ j > Min(Repeats(i))
  BY <1>1
<1>3. f.evidence = Repeats(i)
  BY <1>2 DEF Finding
<1>4. i \in Nat /\ WindowEvents \in Nat
  BY StreamParts, DetectorAssumption
<1> DEFINE R == Repeats(i)
<1>5. R \subseteq Window(i) /\ Window(i) \subseteq 1..i /\ R \subseteq Nat /\ R # {}
  BY <1>3, <1>4 DEF Window
<1>6. \A j \in R : s[j].type = "tool.requested"
  OBVIOUS
<1>7. n \in R /\ k \in R
  BY <1>3
<1>8. ~\E j \in Window(i) : s[j].type \in PROGRESS_EVENTS /\ j > Min(R)
  BY <1>2
<1> HIDE DEF R
<1>9. Min(R) \in R /\ \A j \in R : Min(R) <= j
  BY <1>5, LeastOf
<1>10. n \in Nat /\ k \in Nat /\ m \in Nat /\ n <= m /\ m <= k /\ k <= i /\ n + WindowEvents > i
       /\ 1 <= n
  BY <1>4, <1>5, <1>7 DEF Window
<1>11. m \in Window(i)
  BY <1>4, <1>10 DEF Window
<1>12. CASE m = Min(R)
  BY <1>6, <1>9, <1>12 DEF PROGRESS_EVENTS
<1>13. CASE m > Min(R)
  BY <1>8, <1>11, <1>13
<1>14. Min(R) \in Nat /\ Min(R) <= n
  BY <1>5, <1>7, <1>9
<1> QED
  BY <1>10, <1>12, <1>13, <1>14

----------------------------------------------------------------------------
(* Recursion over finite sets. *)

(* What holds of a set whenever it holds of those it properly contains,
   holds of every finite set. *)
LEMMA BySubsets ==
  ASSUME NEW S, IsFiniteSet(S), NEW Q,
         \A s \in SUBSET S : (\A t \in SUBSET s : t # s => t \in Q) => s \in Q
  PROVE  \A s \in SUBSET S : s \in Q
<1> DEFINE Bad == {s \in SUBSET S : s \notin Q}
           Sizes == {Cardinality(s) : s \in Bad}
<1> SUFFICES ASSUME Bad # {} PROVE FALSE
  OBVIOUS
<1>1. \A s \in SUBSET S : IsFiniteSet(s) /\ Cardinality(s) \in Nat
  BY FS_Subset, FS_CardinalityType
<1>2. Sizes \subseteq Nat /\ Sizes # {}
  BY <1>1
<1> DEFINE n == Min(Sizes)
<1>3. n \in Sizes /\ \A m \in Sizes : n <= m
  <2> HIDE DEF Sizes
  <2> QED
    BY <1>2, LeastOf
<1> HIDE DEF n
<1>4. PICK s \in Bad : n = Cardinality(s)
  BY <1>3
<1>5. PICK t \in SUBSET s : t # s /\ t \notin Q
  OBVIOUS
<1>6. t \in Bad /\ Cardinality(t) \in Sizes
  BY <1>5
<1>7. Cardinality(t) <= Cardinality(s) /\ (Cardinality(t) = Cardinality(s) => t = s)
  BY <1>1, FS_Subset
<1>8. Cardinality(t) < Cardinality(s)
  BY <1>1, <1>5, <1>6, <1>7
<1>9. Cardinality(s) <= Cardinality(t)
  BY <1>3, <1>4, <1>6
<1> QED
  BY <1>1, <1>6, <1>8, <1>9

LEMMA FoldsExist ==
  ASSUME NEW S, IsFiniteSet(S), NEW W, NEW base \in W,
         NEW pick, \A s \in SUBSET S : s # {} => pick[s] \in s,
         NEW step \in [S \X W -> W]
  PROVE  \E g \in [SUBSET S -> W] : Folds(g, S, base, pick, step)
<1> DEFINE Level(n) == {s \in SUBSET S : Cardinality(s) <= n}
           Next1(g, s) == IF s = {} THEN base ELSE step[<<pick[s], g[s \ {pick[s]}]>>]
           Fine(n) == \E g \in [Level(n) -> W] : \A s \in Level(n) : g[s] = Next1(g, s)
           N == {n \in Nat : Fine(n)}
<1>1. \A s \in SUBSET S : Cardinality(s) \in Nat /\ Cardinality(s) <= Cardinality(S) /\ IsFiniteSet(s)
  BY FS_Subset, FS_CardinalityType
<1>2. Cardinality(S) \in Nat /\ Level(Cardinality(S)) = SUBSET S
  BY <1>1
<1>3. \A s \in SUBSET S : s # {} => /\ s \ {pick[s]} \in SUBSET S /\ pick[s] \in S
                                    /\ Cardinality(s \ {pick[s]}) = Cardinality(s) - 1
  <2> SUFFICES ASSUME NEW s \in SUBSET S, s # {}
               PROVE  Cardinality(s \ {pick[s]}) = Cardinality(s) - 1
    OBVIOUS
  <2> QED
    BY <1>1, FS_RemoveElement
<1>4. 0 \in N
  <2>1. \A s \in Level(0) : s = {}
    <3> SUFFICES ASSUME NEW s \in Level(0) PROVE s = {}
      OBVIOUS
    <3>1. Cardinality(s) = 0
      BY <1>1
    <3> QED
      BY <1>1, <3>1, FS_EmptySet
  <2> DEFINE g == [s \in Level(0) |-> base]
  <2>2. g \in [Level(0) -> W] /\ \A s \in Level(0) : g[s] = Next1(g, s)
    BY <2>1
  <2> QED
    BY <2>2
<1>5. ASSUME NEW n \in Nat, n \in N PROVE n + 1 \in N
  <2>1. PICK g \in [Level(n) -> W] : \A s \in Level(n) : g[s] = Next1(g, s)
    BY <1>5
  <2> DEFINE h == [s \in Level(n + 1) |-> Next1(g, s)]
  <2>2. \A s \in Level(n + 1) : s # {} => s \ {pick[s]} \in Level(n) /\ pick[s] \in S
    BY <1>1, <1>3
  <2>3. \A s \in Level(n) : s \in Level(n + 1)
    BY <1>1
  <2> HIDE DEF Level
  <2>4. \A s \in Level(n) : h[s] = g[s]
    BY <2>1, <2>3
  <2>5. h \in [Level(n + 1) -> W]
    <3>1. \A s \in Level(n + 1) : Next1(g, s) \in W
      BY <2>2
    <3> HIDE DEF Next1
    <3> QED
      BY <3>1
  <2>6. \A s \in Level(n + 1) : h[s] = Next1(h, s)
    BY <2>2, <2>4
  <2> HIDE DEF h, Next1
  <2>7. Fine(n + 1)
    BY <2>5, <2>6
  <2>8. n + 1 \in Nat
    OBVIOUS
  <2> HIDE DEF Fine
  <2> QED
    BY <2>7, <2>8
<1> HIDE DEF N
<1>6. Cardinality(S) \in N
  BY <1>2, <1>4, <1>5, CountingUp
<1>7. PICK g \in [SUBSET S -> W] : \A s \in SUBSET S : g[s] = Next1(g, s)
  BY <1>2, <1>6 DEF N
<1>8. g = [s \in SUBSET S |-> Next1(g, s)]
  <2> HIDE DEF Next1
  <2> QED
    BY <1>7
<1> QED
  BY <1>8 DEF Folds

LEMMA SumIsSums == ASSUME NEW f PROVE SumFunction(f) = Sums(f, DOMAIN f)[DOMAIN f]
BY DEF SumFunction, SumFunctionOnSet, FoldFunctionOnSet, MapThenFoldSet, Sums, Adds, First

(* It defines a function. *)
LEMMA SumsExist ==
  ASSUME NEW S, IsFiniteSet(S), NEW f, \A x \in S : f[x] \in Nat
  PROVE  \E g : Adds(g, f, SUBSET S)
<1> DEFINE pick == [s \in SUBSET S |-> First(s)]
           step == [p \in S \X Nat |-> f[p[1]] + p[2]]
<1>1. \A s \in SUBSET S : s # {} => pick[s] \in s
  BY DEF First
<1>2. step \in [S \X Nat -> Nat]
  OBVIOUS
<1>3. \A x \in S : \A v \in Nat : step[<<x, v>>] = f[x] + v
  OBVIOUS
<1>4. \A s \in SUBSET S : pick[s] = First(s)
  OBVIOUS
<1> HIDE DEF pick, step
<1>5. PICK g \in [SUBSET S -> Nat] : Folds(g, S, 0, pick, step)
  <2>1. 0 \in Nat
    OBVIOUS
  <2> QED
    BY <1>1, <1>2, <2>1, FoldsExist
<1>6. ASSUME NEW s \in SUBSET S
      PROVE  (IF s = {} THEN 0 ELSE step[<<pick[s], g[s \ {pick[s]}]>>])
               = IF s = {} THEN 0 ELSE f[First(s)] + g[s \ {First(s)}]
  <2>1. CASE s = {}
    BY <2>1
  <2>2. CASE s # {}
    <3>1. First(s) \in S /\ pick[s] = First(s) /\ g[s \ {First(s)}] \in Nat
      BY <1>1, <1>4, <2>2
    <3> QED
      BY <1>3, <2>2, <3>1
  <2> QED
    BY <2>1, <2>2
<1>7. Adds(g, f, SUBSET S)
  BY <1>5, <1>6 DEF Folds, Adds
<1> QED
  BY <1>7

LEMMA SumsParts ==
  ASSUME NEW S, IsFiniteSet(S), NEW f, \A x \in S : f[x] \in Nat
  PROVE  /\ Sums(f, S)[{}] = 0
         /\ \A s \in SUBSET S : s # {} => Sums(f, S)[s] = f[First(s)] + Sums(f, S)[s \ {First(s)}]
<1> DEFINE g == Sums(f, S)
<1>1. Adds(g, f, SUBSET S)
  BY SumsExist DEF Sums
<1> HIDE DEF g
<1>2. \A s \in SUBSET S : g[s] = IF s = {} THEN 0 ELSE f[First(s)] + g[s \ {First(s)}]
  BY <1>1 DEF Adds
<1>3. {} \in SUBSET S
  OBVIOUS
<1> QED
  BY <1>2, <1>3 DEF g

(* The terms of a sum of naturals may be taken in any order. *)
LEMMA SumTakesAny ==
  ASSUME NEW S, IsFiniteSet(S), NEW f, \A x \in S : f[x] \in Nat
  PROVE  \A s \in SUBSET S : /\ Sums(f, S)[s] \in Nat
                             /\ \A z \in s : Sums(f, S)[s] = f[z] + Sums(f, S)[s \ {z}]
<1> DEFINE g == Sums(f, S)
           Q == {s \in SUBSET S : g[s] \in Nat /\ \A z \in s : g[s] = f[z] + g[s \ {z}]}
<1>1. /\ g[{}] = 0
      /\ \A s \in SUBSET S : s # {} => g[s] = f[First(s)] + g[s \ {First(s)}]
  BY SumsParts
<1> HIDE DEF g
<1>2. ASSUME NEW s \in SUBSET S, \A t \in SUBSET s : t # s => t \in Q
      PROVE  s \in Q
  <2>1. CASE s = {}
    BY <1>1, <2>1
  <2>2. CASE s # {}
    <3> DEFINE x == First(s)
    <3>1. x \in s
      BY <2>2 DEF First
    <3>2. g[s] = f[x] + g[s \ {x}]
      BY <1>1, <2>2
    <3> HIDE DEF x
    <3>3. s \ {x} \in Q
      BY <1>2, <3>1
    <3>4. g[s \ {x}] \in Nat /\ f[x] \in Nat
      BY <3>1, <3>3
    <3>5. ASSUME NEW z \in s, z # x PROVE g[s] = f[z] + g[s \ {z}]
      <4> DEFINE r == s \ {x, z}
      <4>1. /\ (s \ {x}) \ {z} = r /\ (s \ {z}) \ {x} = r
            /\ z \in s \ {x} /\ x \in s \ {z}
        BY <3>1, <3>5
      <4>2. s \ {z} \in Q /\ r \in Q
        BY <1>2, <3>1
      <4> HIDE DEF r
      <4>3. g[s \ {x}] = f[z] + g[r]
        BY <3>3, <4>1
      <4>4. g[s \ {z}] = f[x] + g[r]
        BY <4>1, <4>2
      <4>5. g[r] \in Nat /\ f[z] \in Nat /\ f[x] \in Nat
        BY <3>4, <4>2
      <4> QED
        BY <3>2, <4>3, <4>4, <4>5
    <3>6. \A z \in s : g[s] = f[z] + g[s \ {z}]
      BY <3>2, <3>5
    <3>7. g[s] \in Nat
      BY <3>2, <3>4
    <3> QED
      BY <3>6, <3>7
  <2> QED
    BY <2>1, <2>2
<1> HIDE DEF Q
<1>3. \A s \in SUBSET S : s \in Q
  BY <1>2, BySubsets
<1> QED
  BY <1>3 DEF Q, g

(* What a sum over some of the terms is does not depend on the others. *)
LEMMA SumsAgree ==
  ASSUME NEW S, IsFiniteSet(S), NEW T, T \in SUBSET S, NEW f, NEW h,
         \A x \in S : f[x] \in Nat, \A x \in T : f[x] = h[x]
  PROVE  Sums(f, S)[T] = Sums(h, T)[T]
<1> DEFINE F == Sums(f, S)
           H == Sums(h, T)
           Q == {s \in SUBSET T : F[s] = H[s]}
<1>0. IsFiniteSet(T)
  BY FS_Subset
<1>00. \A x \in T : h[x] \in Nat
  OBVIOUS
<1>1. /\ F[{}] = 0 /\ H[{}] = 0
      /\ \A s \in SUBSET S : s # {} => F[s] = f[First(s)] + F[s \ {First(s)}]
      /\ \A s \in SUBSET T : s # {} => H[s] = h[First(s)] + H[s \ {First(s)}]
  BY <1>0, <1>00, SumsParts
<1> HIDE DEF F, H
<1>2. ASSUME NEW s \in SUBSET T, \A t \in SUBSET s : t # s => t \in Q
      PROVE  s \in Q
  <2>1. CASE s = {}
    BY <1>1, <2>1
  <2>2. CASE s # {}
    <3> DEFINE x == First(s)
    <3>1. x \in s /\ x \in T
      BY <2>2 DEF First
    <3>2. F[s] = f[x] + F[s \ {x}] /\ H[s] = h[x] + H[s \ {x}]
      BY <1>1, <2>2
    <3> HIDE DEF x
    <3>3. s \ {x} \in Q
      BY <1>2, <3>1
    <3>4. F[s \ {x}] = H[s \ {x}] /\ f[x] = h[x]
      BY <3>1, <3>3
    <3> QED
      BY <3>2, <3>4
  <2> QED
    BY <2>1, <2>2
<1> HIDE DEF Q
<1>3. T \in Q
  BY <1>0, <1>2, BySubsets
<1> QED
  BY <1>3 DEF Q, F, H

----------------------------------------------------------------------------
(* Usage. *)

(* One event more adds what it records. *)
LEMMA TokensAdd ==
  ASSUME NEW s, IsStream(s), Metered(s), NEW n \in Nat, n + 1 <= Len(s)
  PROVE  /\ Tokens(s, n) \in Nat /\ Tokens(s, n + 1) \in Nat
         /\ s[n + 1].type = "usage.recorded" =>
              Tokens(s, n + 1) = Tokens(s, n) + s[n + 1].amount
         /\ s[n + 1].type # "usage.recorded" => Tokens(s, n + 1) = Tokens(s, n)
<1> DEFINE A == Usage(s, n)
           B == Usage(s, n + 1)
           f == [m \in A |-> s[m].amount]
           h == [m \in B |-> s[m].amount]
<1>0. Len(s) \in Nat /\ DOMAIN s = 1..Len(s)
  BY StreamParts
<1>1. A \subseteq 1..n /\ B \subseteq 1..(n + 1) /\ n + 1 \in Nat
  BY DEF Usage
<1>2. IsFiniteSet(A) /\ IsFiniteSet(B)
  BY <1>1, PositionsAreFinite
<1>3. \A m \in B : s[m].amount \in Nat
  <2> SUFFICES ASSUME NEW m \in B PROVE s[m].amount \in Nat
    OBVIOUS
  <2>1. m \in 1..(n + 1) /\ s[m].type = "usage.recorded"
    BY DEF Usage
  <2>2. m \in DOMAIN s
    BY <1>0, <2>1
  <2> QED
    BY <2>1, <2>2 DEF Metered
<1>4. A \subseteq B /\ n + 1 \notin A
  BY DEF Usage
<1>5. B = IF s[n + 1].type = "usage.recorded" THEN A \cup {n + 1} ELSE A
  <2>1. \A m : m \in 1..(n + 1) <=> m \in 1..n \/ m = n + 1
    OBVIOUS
  <2> QED
    BY <2>1 DEF Usage
<1>6. Tokens(s, n) = Sums(f, A)[A] /\ Tokens(s, n + 1) = Sums(h, B)[B]
  <2>1. DOMAIN f = A /\ DOMAIN h = B
    OBVIOUS
  <2>2. Tokens(s, n) = SumFunction(f) /\ Tokens(s, n + 1) = SumFunction(h)
    BY DEF Tokens
  <2> HIDE DEF A, B, f, h
  <2> QED
    BY <2>1, <2>2, SumIsSums
<1>7. (\A m \in A : f[m] \in Nat) /\ (\A m \in B : h[m] \in Nat) /\ \A m \in A : h[m] = f[m]
  BY <1>3, <1>4
<1>8. h[n + 1] = s[n + 1].amount \/ n + 1 \notin B
  OBVIOUS
<1> HIDE DEF A, B, f, h
<1>9. Sums(f, A)[A] \in Nat /\ Sums(h, B)[B] \in Nat
  BY <1>2, <1>7, SumTakesAny
<1>10. Sums(h, B)[A] = Sums(f, A)[A]
  BY <1>2, <1>4, <1>7, SumsAgree
<1>11. CASE s[n + 1].type = "usage.recorded"
  <2>1. B = A \cup {n + 1} /\ B \ {n + 1} = A /\ n + 1 \in B
    BY <1>4, <1>5, <1>11
  <2>2. Sums(h, B)[B] = h[n + 1] + Sums(h, B)[B \ {n + 1}]
    <3>1. \A x \in B : h[x] \in Nat
      BY <1>7
    <3>2. \A z \in B : Sums(h, B)[B] = h[z] + Sums(h, B)[B \ {z}]
      BY <1>2, <3>1, SumTakesAny
    <3> QED
      BY <2>1, <3>2
  <2>3. h[n + 1] \in Nat /\ h[n + 1] = s[n + 1].amount
    BY <1>7, <1>8, <2>1
  <2>4. Tokens(s, n + 1) = h[n + 1] + Tokens(s, n)
    BY <1>6, <1>10, <2>1, <2>2
  <2>5. Tokens(s, n) \in Nat
    BY <1>6, <1>9
  <2>6. Tokens(s, n + 1) = Tokens(s, n) + s[n + 1].amount
    BY <2>3, <2>4, <2>5
  <2> QED
    BY <1>6, <1>9, <1>11, <2>6
<1>12. CASE s[n + 1].type # "usage.recorded"
  <2>1. B = A
    BY <1>5, <1>12
  <2> QED
    BY <1>6, <1>9, <1>10, <1>12, <2>1
<1> QED
  BY <1>11, <1>12

LEMMA TokensOfNone == ASSUME NEW s PROVE Tokens(s, 0) = 0
<1> DEFINE f == [m \in Usage(s, 0) |-> s[m].amount]
<1>1. Usage(s, 0) = {}
  BY DEF Usage
<1>2. DOMAIN f = {}
  BY <1>1
<1>3. Tokens(s, 0) = SumFunction(f)
  BY DEF Tokens
<1> HIDE DEF f
<1>4. Tokens(s, 0) = Sums(f, {})[{}]
  BY <1>2, <1>3, SumIsSums
<1>5. IsFiniteSet({}) /\ \A x \in {} : f[x] \in Nat
  BY FS_EmptySet
<1> QED
  BY <1>4, <1>5, SumsParts

(* The total never falls. *)
LEMMA TokensGrow ==
  ASSUME NEW s, IsStream(s), Metered(s)
  PROVE  \A n \in 0..Len(s) : Tokens(s, n) \in Nat /\ \A m \in 0..n : Tokens(s, m) <= Tokens(s, n)
<1> DEFINE Fine(n) == n <= Len(s) =>
                        Tokens(s, n) \in Nat /\ \A m \in 0..n : Tokens(s, m) <= Tokens(s, n)
           S == {n \in Nat : Fine(n)}
<1>0. Len(s) \in Nat
  BY StreamParts
<1>1. 0 \in S
  <2>1. Tokens(s, 0) = 0 /\ \A m \in 0..0 : m = 0
    BY TokensOfNone
  <2> QED
    BY <2>1
<1>2. ASSUME NEW n \in Nat, n \in S PROVE n + 1 \in S
  <2> SUFFICES ASSUME n + 1 <= Len(s)
               PROVE  Tokens(s, n + 1) \in Nat /\ \A m \in 0..(n + 1) : Tokens(s, m) <= Tokens(s, n + 1)
    OBVIOUS
  <2>1. Tokens(s, n) \in Nat /\ \A m \in 0..n : Tokens(s, m) <= Tokens(s, n)
    <3>1. n <= Len(s)
      BY <1>0
    <3> QED
      BY <1>2, <3>1
  <2>2. /\ Tokens(s, n + 1) \in Nat
        /\ s[n + 1].type = "usage.recorded" => Tokens(s, n + 1) = Tokens(s, n) + s[n + 1].amount
        /\ s[n + 1].type # "usage.recorded" => Tokens(s, n + 1) = Tokens(s, n)
    BY TokensAdd
  <2>3. s[n + 1].type = "usage.recorded" => s[n + 1].amount \in Nat
    <3>1. n + 1 \in DOMAIN s
      BY <1>0, StreamParts
    <3> QED
      BY <3>1 DEF Metered
  <2>4. Tokens(s, n) <= Tokens(s, n + 1)
    BY <2>1, <2>2, <2>3
  <2>5. ASSUME NEW m \in 0..(n + 1) PROVE Tokens(s, m) <= Tokens(s, n + 1)
    <3>1. m \in 0..n \/ m = n + 1
      OBVIOUS
    <3>2. CASE m = n + 1
      BY <2>2, <3>2
    <3>3. CASE m \in 0..n
      <4>1. Tokens(s, m) \in Nat /\ Tokens(s, m) <= Tokens(s, n)
        <5>1. m \in Nat /\ m <= Len(s) /\ m <= n
          BY <1>0, <3>3
        <5>2. m = 0 \/ (m - 1 \in Nat /\ (m - 1) + 1 = m)
          BY <5>1
        <5>3. Tokens(s, m) \in Nat
          <6>1. CASE m = 0
            BY <6>1, TokensOfNone
          <6>2. CASE m # 0
            <7>1. Tokens(s, (m - 1) + 1) \in Nat
              BY <5>1, <5>2, <6>2, TokensAdd
            <7> QED
              BY <5>2, <6>2, <7>1
          <6> QED
            BY <6>1, <6>2
        <5> QED
          BY <2>1, <3>3, <5>3
      <4> QED
        BY <2>1, <2>2, <2>4, <4>1
    <3> QED
      BY <3>1, <3>2, <3>3
  <2> QED
    BY <2>2, <2>5
<1> HIDE DEF S
<1>3. \A n \in Nat : n \in S
  BY <1>1, <1>2, CountingUp
<1> QED
  BY <1>0, <1>3 DEF S

(* The total rises above a ceiling at an event that records usage. *)
LEMMA BreachIsExact ==
  ASSUME NEW s, IsStream(s), Metered(s)
  PROVE  (\E n \in Usage(s, Len(s)) : Tokens(s, n) > MaxOutputTokens)
           <=> Tokens(s, Len(s)) > MaxOutputTokens
<1>0. /\ Len(s) \in Nat /\ MaxOutputTokens \in Nat /\ DOMAIN s = 1..Len(s)
      /\ Usage(s, Len(s)) \subseteq 1..Len(s)
  BY StreamParts, DetectorAssumption DEF Usage
<1>1. \A n \in 0..Len(s) : Tokens(s, n) \in Nat /\ \A m \in 0..n : Tokens(s, m) <= Tokens(s, n)
  BY TokensGrow
<1>2. ASSUME NEW n \in Usage(s, Len(s)), Tokens(s, n) > MaxOutputTokens
      PROVE  Tokens(s, Len(s)) > MaxOutputTokens
  <2>1. n \in 0..Len(s) /\ Len(s) \in 0..Len(s)
    BY <1>0
  <2>2. Tokens(s, n) \in Nat /\ Tokens(s, Len(s)) \in Nat /\ Tokens(s, n) <= Tokens(s, Len(s))
    BY <1>1, <2>1
  <2> QED
    BY <1>0, <1>2, <2>2
<1>3. ASSUME Tokens(s, Len(s)) > MaxOutputTokens
      PROVE  \E n \in Usage(s, Len(s)) : Tokens(s, n) > MaxOutputTokens
  <2> DEFINE Over == {n \in 0..Len(s) : Tokens(s, n) > MaxOutputTokens}
             b == Min(Over)
  <2>1. Over \subseteq Nat /\ Over # {}
    BY <1>0, <1>3
  <2> HIDE DEF Over
  <2>2. b \in Over /\ \A j \in Over : b <= j
    BY <2>1, LeastOf
  <2> HIDE DEF b
  <2>3. b \in 0..Len(s) /\ Tokens(s, b) > MaxOutputTokens
    BY <2>2 DEF Over
  <2>4. b # 0
    BY <1>0, <2>3, TokensOfNone
  <2>5. b - 1 \in Nat /\ (b - 1) + 1 = b /\ b <= Len(s) /\ b \in 1..Len(s) /\ b \in Nat
    BY <1>0, <2>3, <2>4
  <2>6. b - 1 \in 0..Len(s) /\ b - 1 \notin Over
    BY <1>0, <2>2, <2>5
  <2>7. Tokens(s, b) # Tokens(s, b - 1)
    BY <2>3, <2>6 DEF Over
  <2>8. s[b].type = "usage.recorded"
    <3>1. s[(b - 1) + 1].type # "usage.recorded" => Tokens(s, (b - 1) + 1) = Tokens(s, b - 1)
      BY <2>5, TokensAdd
    <3> QED
      BY <2>5, <2>7, <3>1
  <2>9. b \in Usage(s, Len(s))
    BY <2>5, <2>8 DEF Usage
  <2> QED
    BY <2>3, <2>9
<1> QED
  BY <1>2, <1>3

----------------------------------------------------------------------------
(* Every event of the stream is one that was recorded or arrived. *)

LEMMA PickedIsRanked ==
  ASSUME NEW s, NEW P, Positions(P)
  PROVE  OrderOn(Less, P)
         /\ Picked(s, P) = [n \in 1..Cardinality(P) |-> s[Ranked(P, Less)[n]]]
<1>1. OrderOn(Less, P)
  BY DEF OrderOn, Positions, Less
<1>2. ASSUME NEW i \in P PROVE Rank(P, Less)[i] = Cardinality({j \in P : j < i})
  <2>1. {j \in P : <<j, i>> \in Less} = {j \in P : j < i}
    BY DEF Positions, Less
  <2>2. Rank(P, Less)[i] = Cardinality({j \in P : <<j, i>> \in Less})
    BY DEF Rank
  <2> QED
    BY <2>1, <2>2
<1>3. ASSUME NEW n \in 1..Cardinality(P)
      PROVE  s[CHOOSE i \in P : Cardinality({j \in P : j < i}) = n - 1] = s[Ranked(P, Less)[n]]
  <2>1. Ranked(P, Less)[n] = CHOOSE i \in P : Rank(P, Less)[i] = n - 1
    BY DEF Ranked
  <2>2. (CHOOSE i \in P : Rank(P, Less)[i] = n - 1)
          = CHOOSE i \in P : Cardinality({j \in P : j < i}) = n - 1
    BY <1>2
  <2> QED
    BY <2>1, <2>2
<1> QED
  BY <1>1, <1>3 DEF Picked

LEMMA OrderedIsRanked ==
  ASSUME NEW b, NEW V, V = {i \in DOMAIN b : b[i].valid}
  PROVE  Ordered(b) = Through(b, Ranked(V, Sorts(b, V)), Cardinality(V))
<1> DEFINE R == Sorts(b, V)
           rank == [i \in V |-> Cardinality({j \in V : Before(b, j, i)})]
<1>1. ASSUME NEW i \in V PROVE Rank(V, R)[i] = rank[i]
  <2>1. {j \in V : <<j, i>> \in R} = {j \in V : Before(b, j, i)}
    BY DEF Sorts
  <2>2. Rank(V, R)[i] = Cardinality({j \in V : <<j, i>> \in R})
    BY DEF Rank
  <2> QED
    BY <2>1, <2>2
<1>2. Ordered(b) = [n \in 1..Cardinality(V) |-> b[CHOOSE i \in V : rank[i] = n - 1]]
  BY DEF Ordered, Before
<1> HIDE DEF rank, R
<1>3. ASSUME NEW n \in 1..Cardinality(V)
      PROVE  b[CHOOSE i \in V : rank[i] = n - 1] = b[Ranked(V, R)[n]]
  <2>1. Ranked(V, R)[n] = CHOOSE i \in V : Rank(V, R)[i] = n - 1
    BY DEF Ranked
  <2>2. (CHOOSE i \in V : Rank(V, R)[i] = n - 1) = CHOOSE i \in V : rank[i] = n - 1
    BY <1>1
  <2> QED
    BY <2>1, <2>2
<1> QED
  BY <1>2, <1>3 DEF R, Through

LEMMA SortsIsOrder ==
  ASSUME NEW b, IsStream(b), AllCountable(b), NEW V, V = {i \in DOMAIN b : b[i].valid}
  PROVE  IsFiniteSet(V) /\ V \subseteq Nat /\ OrderOn(Sorts(b, V), V)
<1> DEFINE R == Sorts(b, V)
<1>1. IsFiniteSet(V) /\ V \subseteq Nat
  BY StreamParts, PositionsAreFinite
<1>2. \A i \in V : b[i].key \in Nat /\ b[i].instant \in Nat /\ b[i].text \in Nat
  BY DEF AllCountable, Countable
<1>3. \A i \in V : \A j \in V : <<i, j>> \in R <=> Before(b, i, j)
  BY DEF Sorts
<1> HIDE DEF R
<1>4. \A i \in V : <<i, i>> \notin R
  BY <1>1, <1>2, <1>3 DEF Before, Precedes
<1>5. ASSUME NEW i \in V, NEW j \in V, i # j
      PROVE  Before(b, i, j) \/ Before(b, j, i)
  <2>1. i \in Nat /\ j \in Nat
    BY <1>1
  <2>2. i < j \/ j < i
    BY <1>5, <2>1
  <2>3. Precedes(b[i], b[j]) => Before(b, i, j)
    BY DEF Before
  <2>4. Precedes(b[j], b[i]) => Before(b, j, i)
    BY DEF Before
  <2>5. ~Precedes(b[i], b[j]) /\ ~Precedes(b[j], b[i]) => Before(b, i, j) \/ Before(b, j, i)
    BY <2>2 DEF Before
  <2> QED
    BY <2>3, <2>4, <2>5
<1>6. ASSUME NEW i \in V, NEW j \in V, NEW k \in V, Before(b, i, j), Before(b, j, k)
      PROVE  Before(b, i, k)
  <2>1. i \in Nat /\ j \in Nat /\ k \in Nat
    BY <1>1
  <2>2. /\ b[i].key \in Nat /\ b[i].instant \in Nat /\ b[i].text \in Nat
        /\ b[j].key \in Nat /\ b[j].instant \in Nat /\ b[j].text \in Nat
        /\ b[k].key \in Nat /\ b[k].instant \in Nat /\ b[k].text \in Nat
    BY <1>2
  <2> QED
    BY <1>6, <2>1, <2>2 DEF Before, Precedes
<1>7. OrderOn(R, V)
  <2>1. \A i \in V : \A j \in V : i = j \/ <<i, j>> \in R \/ <<j, i>> \in R
    BY <1>3, <1>5
  <2>2. \A i \in V : \A j \in V : \A k \in V :
          <<i, j>> \in R /\ <<j, k>> \in R => <<i, k>> \in R
    BY <1>3, <1>6
  <2> QED
    BY <1>4, <2>1, <2>2 DEF OrderOn
<1> QED
  BY <1>1, <1>7 DEF R

LEMMA PickedComesFrom ==
  ASSUME NEW s, NEW P, IsFiniteSet(P), Positions(P)
  PROVE  \A n \in DOMAIN Picked(s, P) : \E i \in P : Picked(s, P)[n] = s[i]
<1> DEFINE q == Ranked(P, Less)
<1>1. OrderOn(Less, P) /\ Picked(s, P) = [n \in 1..Cardinality(P) |-> s[q[n]]]
  BY PickedIsRanked
<1>2. q \in [1..Cardinality(P) -> P]
  BY <1>1, RankedLists
<1> HIDE DEF q
<1> QED
  BY <1>1, <1>2

LEMMA OrderedComesFrom ==
  ASSUME NEW b, IsStream(b), AllCountable(b)
  PROVE  \A n \in DOMAIN Ordered(b) : \E i \in DOMAIN b : Ordered(b)[n] = b[i]
<1> DEFINE V == {i \in DOMAIN b : b[i].valid}
           q == Ranked(V, Sorts(b, V))
<1>1. IsFiniteSet(V) /\ OrderOn(Sorts(b, V), V)
  BY SortsIsOrder
<1>2. Ordered(b) = Through(b, q, Cardinality(V))
  BY OrderedIsRanked
<1>3. V \subseteq DOMAIN b
  OBVIOUS
<1> HIDE DEF V
<1>4. q \in [1..Cardinality(V) -> V]
  BY <1>1, RankedLists
<1> HIDE DEF q
<1> QED
  BY <1>2, <1>3, <1>4 DEF Through

(* What is accepted is among what was delivered. *)
LEMMA AcceptedAreDelivered ==
  ASSUME NEW b, IsStream(b), AllCountable(b)
  PROVE  \A n \in DOMAIN canonicalize(b).accepted :
           \E i \in DOMAIN b : canonicalize(b).accepted[n] = b[i]
<1> DEFINE o == Ordered(b)
           first == {n \in DOMAIN o : \A m \in 1..(n - 1) : o[m].key # o[n].key}
           V == {i \in DOMAIN b : b[i].valid}
<1>1. canonicalize(b).accepted = Picked(o, first)
  BY DEF canonicalize, Collapsed
<1>2. \A n \in DOMAIN o : \E i \in DOMAIN b : o[n] = b[i]
  BY OrderedComesFrom
<1>3. IsFiniteSet(V) /\ DOMAIN o = 1..Cardinality(V)
  BY StreamParts, PositionsAreFinite DEF Ordered
<1>4. Cardinality(V) \in Nat
  BY <1>3, FS_CardinalityType
<1>5. first \subseteq DOMAIN o
  OBVIOUS
<1> HIDE DEF o, first, V
<1>6. IsFiniteSet(first) /\ Positions(first)
  BY <1>3, <1>4, <1>5, PositionsAreFinite DEF Positions
<1>7. \A n \in DOMAIN Picked(o, first) : \E i \in first : Picked(o, first)[n] = o[i]
  BY <1>6, PickedComesFrom
<1> QED
  BY <1>1, <1>2, <1>5, <1>7

LEMMA CanonicalComesFrom ==
  ASSUME NEW b, IsStream(b), AllCountable(b)
  PROVE  AllCountable(canonicalize(b).accepted)
BY AcceptedAreDelivered DEF AllCountable

LEMMA AppendComesFrom ==
  ASSUME NEW s, IsStream(s), AllCountable(s), NEW b, IsStream(b), AllCountable(b)
  PROVE  AllCountable(canonicalizeAppend(s, b).stream)
<1> DEFINE events == canonicalize(b).accepted
           new == {n \in DOMAIN events : events[n].key \notin Keys(s)}
           late == {n \in new : s # <<>> /\ events[n].text < HighWater(s)}
           P == new \ late
           t == Picked(events, P)
<1>1. IsStream(events) /\ AllCountable(events)
  BY CanonicalIsStream, CanonicalComesFrom
<1>2. canonicalizeAppend(s, b).stream = s \o t
  BY DEF canonicalizeAppend, Continued
<1>3. P \subseteq DOMAIN events
  OBVIOUS
<1> HIDE DEF events, P
<1>4. IsFiniteSet(P) /\ Positions(P)
  BY <1>1, <1>3, StreamParts, PositionsAreFinite DEF Positions
<1>5. \A n \in DOMAIN t : \E i \in P : t[n] = events[i]
  BY <1>4, PickedComesFrom
<1>6. IsStream(t)
  BY <1>4, PickedIsStream
<1> HIDE DEF t
<1>7. AllCountable(t)
  BY <1>1, <1>3, <1>5 DEF AllCountable
<1>8. AllCountable(s \o t)
  <2> DEFINE S == {s[n] : n \in DOMAIN s} \cup {t[n] : n \in DOMAIN t}
  <2>1. s \in Seq(S) /\ t \in Seq(S) /\ \A e \in S : Countable(e)
    BY <1>6, <1>7 DEF IsStream, AllCountable
  <2> HIDE DEF S
  <2>2. s \o t \in Seq(S)
    BY <2>1
  <2>3. \A n \in DOMAIN (s \o t) : (s \o t)[n] \in S
    BY <2>2
  <2> QED
    BY <2>1, <2>3 DEF AllCountable
<1> QED
  BY <1>2, <1>8

LEMMA CountedFromTheStart == ASSUME CaseStreamAssumption, EventsAssumption, Init PROVE Counted
<1>1. PICK case \in Cases : stream = canonicalize(case.recorded).accepted /\ facts = case.arriving
  BY DEF Init
<1>2. IsStream(case.recorded)
  BY DEF CaseStreamAssumption, IsStream
<1>3. AllCountable(case.recorded) /\ \A e \in case.arriving : Countable(e)
  BY DEF EventsAssumption, AllCountable
<1> QED
  BY <1>1, <1>2, <1>3, CanonicalComesFrom DEF Counted

LEMMA CountedStep ==
  ASSUME IsStream(stream), Counted, [Next]_vars PROVE Counted'
<1>1. ASSUME UNCHANGED vars PROVE Counted'
  BY <1>1 DEF vars, Counted, AllCountable
<1>2. ASSUME NEW batch \in Batches, Deliver(batch) PROVE Counted'
  <2>1. stream' = canonicalizeAppend(stream, batch).stream /\ facts' = facts
    BY <1>2 DEF Deliver
  <2>2. IsStream(batch)
    BY BatchesAreStreams
  <2>3. AllCountable(batch)
    <3>1. ASSUME NEW e \in facts PROVE AllCountable(<<e>>)
      BY DEF Counted, AllCountable
    <3>2. ASSUME NEW p \in facts \X facts PROVE AllCountable(p)
      BY DEF Counted, AllCountable
    <3> QED
      BY <3>1, <3>2 DEF Batches
  <2>4. AllCountable(canonicalizeAppend(stream, batch).stream)
    BY <2>2, <2>3, AppendComesFrom DEF Counted
  <2> QED
    BY <2>1, <2>4 DEF Counted
<1> QED
  BY <1>1, <1>2 DEF Next

----------------------------------------------------------------------------
(* The projection's total is the detector's. *)

LEMMA FoldOfUsage ==
  ASSUME NEW s, DOMAIN s = Fields, NEW e, NEW n
  PROVE  Fold(s, e, n).usage = IF e.type = "usage.recorded" THEN s.usage + e.amount ELSE s.usage
<1> DEFINE t == Records(s, e, n)
<1>1. Fold(s, e, n).usage = t.usage
  BY FoldByParts
<1>2. CASE e.type = "usage.recorded"
  <2>1. e.type \notin BadgeTypes /\ e.type # "policy.evaluated"
    BY <1>2 DEF BadgeTypes
  <2>2. t = [s EXCEPT !.usage = @ + e.amount]
    BY <1>2, <2>1 DEF Records
  <2> HIDE DEF t
  <2> QED
    BY <1>1, <1>2, <2>2, FieldNames
<1>3. CASE e.type # "usage.recorded"
  <2>1. t.usage = s.usage
    BY <1>3, FieldNames DEF Records, BadgeTypes
  <2> QED
    BY <1>1, <1>3, <2>1
<1> QED
  BY <1>2, <1>3

LEMMA UsageIsTokens ==
  ASSUME NEW s, IsStream(s), Metered(s)
  PROVE  project(s, Len(s)).usage = Tokens(s, Len(s))
<1> DEFINE Fine(n) == n <= Len(s) => project(s, n).usage = Tokens(s, n)
           S == {n \in Nat : Fine(n)}
<1>0. Len(s) \in Nat /\ Len(s) <= Len(s)
  BY StreamParts
<1>1. 0 \in S
  BY TokensOfNone, ProjectSteps DEF Nothing
<1>2. ASSUME NEW n \in Nat, n \in S PROVE n + 1 \in S
  <2> SUFFICES ASSUME n + 1 <= Len(s) PROVE project(s, n + 1).usage = Tokens(s, n + 1)
    OBVIOUS
  <2>1. n <= Len(s)
    BY <1>0
  <2>2. project(s, n).usage = Tokens(s, n)
    BY <1>2, <2>1
  <2> DEFINE p == project(s, n)
  <2>3. project(s, n + 1) = Fold(p, s[n + 1], n + 1) /\ DOMAIN p = Fields
    BY ProjectSteps, ProjectFields
  <2> HIDE DEF p
  <2>4. project(s, n + 1).usage = IF s[n + 1].type = "usage.recorded"
                                  THEN p.usage + s[n + 1].amount ELSE p.usage
    BY <2>3, FoldOfUsage
  <2>5. /\ s[n + 1].type = "usage.recorded" => Tokens(s, n + 1) = Tokens(s, n) + s[n + 1].amount
        /\ s[n + 1].type # "usage.recorded" => Tokens(s, n + 1) = Tokens(s, n)
    BY TokensAdd
  <2> QED
    BY <2>2, <2>4, <2>5 DEF p
<1> HIDE DEF S
<1>3. \A n \in Nat : n \in S
  BY <1>1, <1>2, CountingUp
<1> QED
  BY <1>0, <1>3 DEF S

----------------------------------------------------------------------------
(* What the detector finds. *)

LEMMA ClassesDiffer ==
  ASSUME NEW s
  PROVE  /\ \A f \in detectRepeatedToolFailure(s) : f.class = "repeated_tool_failure"
         /\ \A f \in detectNoProgressLoop(s) : f.class = "no_progress_loop"
         /\ \A f \in detectUsageThreshold(s) : f.class = "usage_threshold_breach"
         /\ \A f \in detectContextDrift(s) : f.class = "context_drift"
<1>0. \A c, g, n, v : Finding(c, g, n, v).class = c
  BY DEF Finding
<1>1. \A f \in detectRepeatedToolFailure(s) : \E g, n, v : f = Finding("repeated_tool_failure", g, n, v)
  BY DEF detectRepeatedToolFailure, FirstOf
<1>2. \A f \in detectNoProgressLoop(s) : \E g, n, v : f = Finding("no_progress_loop", g, n, v)
  BY DEF detectNoProgressLoop, FirstOf
<1>3. \A f \in detectUsageThreshold(s) : \E g, n, v : f = Finding("usage_threshold_breach", g, n, v)
  BY DEF detectUsageThreshold, FirstOf
<1>4. \A f \in detectContextDrift(s) : \E g, n, v : f = Finding("context_drift", g, n, v)
  BY DEF detectContextDrift
<1> QED
  BY <1>0, <1>1, <1>2, <1>3, <1>4

LEMMA BreachIsFound ==
  ASSUME NEW s, IsStream(s), Metered(s)
  PROVE  detectUsageThreshold(s) # {} <=> project(s, Len(s)).usage > MaxOutputTokens
<1> DEFINE T == {n \in Usage(s, Len(s)) : Tokens(s, n) > MaxOutputTokens}
           sig == [n \in T |-> "output_tokens"]
           F == Firsts(T, sig)
<1>1. T \subseteq Nat
  BY StreamParts DEF Usage
<1>2. detectUsageThreshold(s)
        = {Finding("usage_threshold_breach", "output_tokens", n, Usage(s, n)) : n \in F}
  BY DEF detectUsageThreshold, FirstOf, Firsts
<1>3. T # {} <=> project(s, Len(s)).usage > MaxOutputTokens
  BY BreachIsExact, UsageIsTokens
<1> HIDE DEF T, sig
<1>4. F # {} <=> T # {}
  <2>1. F \subseteq T
    BY DEF Firsts
  <2>2. Positions(T)
    BY <1>1 DEF Positions
  <2>3. \A n \in T : \E m \in F : sig[m] = sig[n]
    BY <2>2, FirstsCover
  <2> QED
    BY <2>1, <2>3
<1> HIDE DEF F
<1> QED
  BY <1>2, <1>3, <1>4

LEMMA FindingsOfAStream == ASSUME IsStream(stream), Counted PROVE FindingsAreExact
<1> DEFINE found == detectIncidents(stream)
           A == detectRepeatedToolFailure(stream)
           B == detectNoProgressLoop(stream)
           C == detectUsageThreshold(stream)
           D == detectContextDrift(stream)
           Of(class) == {g \in found : g.class = class}
<1>0. Metered(stream)
  BY DEF Counted, AllCountable, Countable, Metered
<1>1. found = A \cup B \cup C \cup D
  BY DEF detectIncidents
<1>2. /\ \A f \in A : f.class = "repeated_tool_failure"
      /\ \A f \in B : f.class = "no_progress_loop"
      /\ \A f \in C : f.class = "usage_threshold_breach"
      /\ \A f \in D : f.class = "context_drift"
  BY ClassesDiffer
<1>3. {f.signature : f \in A}
        = {tool \in {stream[n].tool : n \in DOMAIN stream} : Crowded(FailuresOf(stream, tool))}
  BY FailuresAreExact
<1>4. \A f \in B : \A n, k \in f.evidence : \A m \in n..k : stream[m].type \notin PROGRESS_EVENTS
  BY LoopsAreExact
<1>5. C # {} <=> State.usage > MaxOutputTokens
  BY <1>0, BreachIsFound DEF State
<1> HIDE DEF A, B, C, D, found
<1>6. Of("repeated_tool_failure") = A
  BY <1>1, <1>2
<1>7. Of("no_progress_loop") = B
  BY <1>1, <1>2
<1>8. Of("usage_threshold_breach") = C
  BY <1>1, <1>2
<1>9. /\ {f.signature : f \in Of("repeated_tool_failure")}
           = {tool \in {stream[n].tool : n \in DOMAIN stream} :
                Crowded({n \in DOMAIN stream : stream[n].type = "tool.failed"
                                                 /\ stream[n].tool = tool})}
      /\ \A f \in found : f.class = "no_progress_loop" =>
           \A n, k \in f.evidence : \A m \in n..k : stream[m].type \notin PROGRESS_EVENTS
      /\ {f.signature : f \in Of("usage_threshold_breach")} # {} <=> State.usage > MaxOutputTokens
  <2>1. {f.signature : f \in Of("repeated_tool_failure")}
           = {tool \in {stream[n].tool : n \in DOMAIN stream} :
                Crowded({n \in DOMAIN stream : stream[n].type = "tool.failed"
                                                 /\ stream[n].tool = tool})}
    BY <1>3, <1>6 DEF FailuresOf
  <2>2. \A f \in found : f.class = "no_progress_loop" => f \in B
    BY <1>7
  <2>3. {f.signature : f \in Of("usage_threshold_breach")} # {} <=> C # {}
    BY <1>8
  <2> QED
    BY <1>4, <1>5, <2>1, <2>2, <2>3
<1> QED
  BY <1>9 DEF FindingsAreExact, found

(* A tool's failures are an incident exactly when enough of them are close
   together, a loop is one without progress, and usage is a breach exactly
   when the projection's total exceeds the ceiling, however the evidence
   arrived. *)
THEOREM FindingsAreExactHolds ==
  ASSUME CaseStreamAssumption, EventsAssumption PROVE Spec => []FindingsAreExact
<1>1. Init => IsStream(stream) /\ Counted
  BY StreamFromTheStart, CountedFromTheStart
<1>2. IsStream(stream) /\ Counted /\ [Next]_vars => IsStream(stream)' /\ Counted'
  BY StreamStep, CountedStep
<1>3. IsStream(stream) /\ Counted => FindingsAreExact
  BY FindingsOfAStream
<1> QED
  BY <1>1, <1>2, <1>3, PTL DEF Spec

----------------------------------------------------------------------------
(* However the evidence was split: the stream is the delivered events, each
   once, in the order of their times. *)

(* The greatest spelling of a time in a stream is not below any. *)
Highs(g, s, S) ==
  g = [t \in SUBSET S |-> IF t = {} THEN 0
                          ELSE IF s[Max(t)].text > g[t \ {Max(t)}]
                               THEN s[Max(t)].text ELSE g[t \ {Max(t)}]]
LEMMA HighWaterIsFold ==
  ASSUME NEW s PROVE HighWater(s) = (CHOOSE g : Highs(g, s, DOMAIN s))[DOMAIN s]
BY DEF HighWater, FoldLeft, MapThenFoldSet, Highs

LEMMA HighWaterIsHigh ==
  ASSUME NEW s, IsStream(s), AllCountable(s)
  PROVE  HighWater(s) \in Nat /\ \A n \in DOMAIN s : s[n].text <= HighWater(s)
<1> DEFINE S == DOMAIN s
           pick == [t \in SUBSET S |-> Max(t)]
           step == [p \in S \X Nat |-> IF s[p[1]].text > p[2] THEN s[p[1]].text ELSE p[2]]
           g == CHOOSE g : Highs(g, s, S)
           Q == {t \in SUBSET S : g[t] \in Nat /\ \A n \in t : s[n].text <= g[t]}
<1>0. IsFiniteSet(S) /\ S \subseteq Nat
  BY StreamParts, PositionsAreFinite
<1>1. \A n \in S : s[n].text \in Nat
  BY DEF AllCountable, Countable
<1>2. \A t \in SUBSET S : t # {} => Max(t) \in t
  <2> SUFFICES ASSUME NEW t \in SUBSET S, t # {} PROVE Max(t) \in t
    OBVIOUS
  <2>1. IsFiniteSet(t) /\ t \subseteq Nat
    BY <1>0, FS_Subset
  <2> QED
    BY <2>1, GreatestOf
<1> HIDE DEF S
<1>3. \E f : Highs(f, s, S)
  <2>1. \A t \in SUBSET S : t # {} => pick[t] \in t
    BY <1>2
  <2>2. step \in [S \X Nat -> Nat]
    BY <1>1
  <2>3. \A p \in S : \A v \in Nat : step[<<p, v>>] = IF s[p].text > v THEN s[p].text ELSE v
    OBVIOUS
  <2>5. \A t \in SUBSET S : pick[t] = Max(t)
    OBVIOUS
  <2> HIDE DEF pick, step
  <2>4. PICK f \in [SUBSET S -> Nat] : Folds(f, S, 0, pick, step)
    <3>1. 0 \in Nat
      OBVIOUS
    <3> QED
      BY <1>0, <2>1, <2>2, <3>1, FoldsExist
  <2>6. ASSUME NEW t \in SUBSET S
        PROVE  (IF t = {} THEN 0 ELSE step[<<pick[t], f[t \ {pick[t]}]>>])
                 = IF t = {} THEN 0 ELSE IF s[Max(t)].text > f[t \ {Max(t)}]
                                         THEN s[Max(t)].text ELSE f[t \ {Max(t)}]
    <3>1. CASE t = {}
      BY <3>1
    <3>2. CASE t # {}
      <4>1. Max(t) \in S /\ pick[t] = Max(t) /\ f[t \ {Max(t)}] \in Nat
        BY <1>2, <2>5, <3>2
      <4> QED
        BY <2>3, <3>2, <4>1
    <3> QED
      BY <3>1, <3>2
  <2>7. Highs(f, s, S)
    BY <2>4, <2>6 DEF Folds, Highs
  <2> QED
    BY <2>7
<1>4. Highs(g, s, S)
  BY <1>3
<1> HIDE DEF g
<1>5. \A t \in SUBSET S : g[t] = IF t = {} THEN 0
                                 ELSE IF s[Max(t)].text > g[t \ {Max(t)}]
                                      THEN s[Max(t)].text ELSE g[t \ {Max(t)}]
  BY <1>4 DEF Highs
<1>6. ASSUME NEW t \in SUBSET S, \A r \in SUBSET t : r # t => r \in Q PROVE t \in Q
  <2>1. CASE t = {}
    BY <1>5, <2>1
  <2>2. CASE t # {}
    <3> DEFINE m == Max(t)
               h == g[t \ {m}]
    <3>1. m \in t /\ m \in S
      BY <1>2, <2>2
    <3>2. t \ {m} \in Q
      BY <1>6, <3>1
    <3>3. g[t] = IF s[m].text > h THEN s[m].text ELSE h
      BY <1>5, <2>2
    <3>4. s[m].text \in Nat /\ h \in Nat /\ \A n \in t \ {m} : s[n].text <= h
      BY <1>1, <3>1, <3>2
    <3>5. \A n \in t : s[n].text \in Nat
      BY <1>1
    <3> HIDE DEF m, h
    <3>6. g[t] \in Nat /\ s[m].text <= g[t] /\ h <= g[t]
      BY <3>3, <3>4
    <3>7. \A n \in t : s[n].text <= g[t]
      BY <3>4, <3>5, <3>6
    <3> QED
      BY <3>6, <3>7
  <2> QED
    BY <2>1, <2>2
<1> HIDE DEF Q
<1>7. S \in Q
  BY <1>0, <1>6, BySubsets
<1>8. HighWater(s) = g[S]
  BY HighWaterIsFold DEF g, S
<1> QED
  BY <1>7, <1>8 DEF Q, S

(* The events of a set, one after the other. *)
Listed(E) == FoldSet(LAMBDA e, all : Append(all, e), <<>>, E)
Appends(g, E) ==
  g = [t \in SUBSET E |-> IF t = {} THEN <<>> ELSE Append(g[t \ {First(t)}], First(t))]
LEMMA ListedIsFold == ASSUME NEW E PROVE Listed(E) = (CHOOSE g : Appends(g, E))[E]
BY DEF Listed, FoldSet, MapThenFoldSet, Appends, First

LEMMA ListedHasAll ==
  ASSUME NEW E, IsFiniteSet(E)
  PROVE  Listed(E) \in Seq(E) /\ \A e \in E : \E n \in DOMAIN Listed(E) : Listed(E)[n] = e
<1> DEFINE pick == [t \in SUBSET E |-> First(t)]
           step == [p \in E \X Seq(E) |-> Append(p[2], p[1])]
           g == CHOOSE g : Appends(g, E)
           Q == {t \in SUBSET E : g[t] \in Seq(E) /\ \A e \in t : \E n \in DOMAIN g[t] : g[t][n] = e}
<1>2. \A t \in SUBSET E : t # {} => First(t) \in t
  BY DEF First
<1>3. \E f : Appends(f, E)
  <2>1. \A t \in SUBSET E : t # {} => pick[t] \in t
    BY <1>2
  <2>2. step \in [E \X Seq(E) -> Seq(E)]
    OBVIOUS
  <2>3. \A e \in E : \A v \in Seq(E) : step[<<e, v>>] = Append(v, e)
    OBVIOUS
  <2>5. \A t \in SUBSET E : pick[t] = First(t)
    OBVIOUS
  <2> HIDE DEF pick, step
  <2>4. PICK f \in [SUBSET E -> Seq(E)] : Folds(f, E, <<>>, pick, step)
    <3>1. <<>> \in Seq(E)
      OBVIOUS
    <3> QED
      BY <2>1, <2>2, <3>1, FoldsExist
  <2>6. ASSUME NEW t \in SUBSET E
        PROVE  (IF t = {} THEN <<>> ELSE step[<<pick[t], f[t \ {pick[t]}]>>])
                 = IF t = {} THEN <<>> ELSE Append(f[t \ {First(t)}], First(t))
    <3>1. CASE t = {}
      BY <3>1
    <3>2. CASE t # {}
      <4>1. First(t) \in E /\ pick[t] = First(t) /\ f[t \ {First(t)}] \in Seq(E)
        BY <1>2, <2>5, <3>2
      <4> QED
        BY <2>3, <3>2, <4>1
    <3> QED
      BY <3>1, <3>2
  <2>7. Appends(f, E)
    BY <2>4, <2>6 DEF Folds, Appends
  <2> QED
    BY <2>7
<1>4. Appends(g, E)
  BY <1>3
<1> HIDE DEF g
<1>5. \A t \in SUBSET E : g[t] = IF t = {} THEN <<>> ELSE Append(g[t \ {First(t)}], First(t))
  BY <1>4 DEF Appends
<1>6. ASSUME NEW t \in SUBSET E, \A r \in SUBSET t : r # t => r \in Q PROVE t \in Q
  <2>1. CASE t = {}
    <3>1. g[t] = <<>>
      BY <1>5, <2>1
    <3>2. <<>> \in Seq(E)
      OBVIOUS
    <3> QED
      BY <2>1, <3>1, <3>2
  <2>2. CASE t # {}
    <3> DEFINE x == First(t)
               h == g[t \ {x}]
               l == g[t]
    <3>1. x \in t /\ x \in E
      BY <1>2, <2>2
    <3>2. t \ {x} \in Q
      BY <1>6, <3>1
    <3>3. l = Append(h, x)
      BY <1>5, <2>2
    <3>4. h \in Seq(E) /\ \A e \in t \ {x} : \E n \in DOMAIN h : h[n] = e
      BY <3>2
    <3> HIDE DEF x, h, l
    <3>5. /\ l \in Seq(E) /\ Len(l) = Len(h) + 1 /\ l[Len(h) + 1] = x /\ Len(h) \in Nat
          /\ DOMAIN l = 1..(Len(h) + 1) /\ DOMAIN h = 1..Len(h)
          /\ \A n \in 1..Len(h) : l[n] = h[n]
      BY <3>1, <3>3, <3>4
    <3>6. ASSUME NEW e \in t PROVE \E n \in DOMAIN l : l[n] = e
      <4>1. CASE e = x
        <5>1. Len(h) + 1 \in DOMAIN l
          BY <3>5
        <5> QED
          BY <3>5, <4>1, <5>1
      <4>2. CASE e # x
        <5>1. PICK n \in DOMAIN h : h[n] = e
          BY <3>4, <4>2
        <5>2. n \in DOMAIN l /\ l[n] = e
          BY <3>5, <5>1
        <5> QED
          BY <5>2
      <4> QED
        BY <4>1, <4>2
    <3> QED
      BY <3>5, <3>6 DEF l
  <2> QED
    BY <2>1, <2>2
<1> HIDE DEF Q
<1>7. E \in Q
  BY <1>6, BySubsets
<1>8. Listed(E) = g[E]
  BY ListedIsFold DEF g
<1> QED
  BY <1>7, <1>8 DEF Q

LEMMA UsableOrder ==
  ASSUME NEW E, Usable(E)
  PROVE  /\ OrderOn(Later(E), E)
         /\ \A a \in E : \A c \in E : Precedes(a, c) <=> a.text < c.text
<1>1. \A a \in E : a.key \in Nat /\ a.instant \in Nat /\ a.text \in Nat
  BY DEF Usable
<1>2. \A a \in E : \A c \in E : a # c => /\ a.key # c.key /\ a.text # c.text
                                         /\ a.instant < c.instant <=> a.text < c.text
  BY DEF Usable, Comparable
<1>3. OrderOn(Later(E), E)
  <2>1. \A a \in E : \A c \in E : <<a, c>> \in Later(E) <=> a.text < c.text
    BY DEF Later
  <2>2. \A a \in E : <<a, a>> \notin Later(E)
    BY <1>1, <2>1
  <2>3. \A a \in E : \A c \in E : a = c \/ <<a, c>> \in Later(E) \/ <<c, a>> \in Later(E)
    <3> SUFFICES ASSUME NEW a \in E, NEW c \in E, a # c
                 PROVE  a.text < c.text \/ c.text < a.text
      BY <2>1
    <3> QED
      BY <1>1, <1>2
  <2>4. \A a \in E : \A c \in E : \A d \in E :
          <<a, c>> \in Later(E) /\ <<c, d>> \in Later(E) => <<a, d>> \in Later(E)
    <3> SUFFICES ASSUME NEW a \in E, NEW c \in E, NEW d \in E, a.text < c.text, c.text < d.text
                 PROVE  a.text < d.text
      BY <2>1
    <3> QED
      BY <1>1
  <2> QED
    BY <2>2, <2>3, <2>4 DEF OrderOn
<1>4. ASSUME NEW a \in E, NEW c \in E PROVE Precedes(a, c) <=> a.text < c.text
  <2>1. /\ a.key \in Nat /\ a.instant \in Nat /\ a.text \in Nat
        /\ c.key \in Nat /\ c.instant \in Nat /\ c.text \in Nat
    BY <1>1
  <2>2. CASE a = c
    BY <2>1, <2>2 DEF Precedes
  <2>3. CASE a # c
    <3>1. /\ a.text # c.text
          /\ a.instant < c.instant <=> a.text < c.text
          /\ c.instant < a.instant <=> c.text < a.text
      BY <1>2, <2>3
    <3> QED
      BY <2>1, <3>1 DEF Precedes
  <2> QED
    BY <2>2, <2>3
<1> QED
  BY <1>3, <1>4

(* There is one list of a set in order. *)
Rises(q) == \A i, j \in DOMAIN q : i < j => q[i].text < q[j].text
LEMMA ListIsInOrder ==
  ASSUME NEW E, Usable(E), NEW k \in Nat, NEW q \in [1..k -> E],
         \A e \in E : \E n \in 1..k : q[n] = e, Rises(q)
  PROVE  q = InOrder(E)
<1> DEFINE R == Later(E)
<1>1. OrderOn(R, E)
  BY UsableOrder
<1>2. \A e \in E : e.text \in Nat
  BY DEF Usable
<1>3. \A i, j \in 1..k : i < j => q[i].text < q[j].text
  BY DEF Rises
<1>4. \A i \in 1..k : \A j \in 1..k : <<q[i], q[j]>> \in R <=> i < j
  <2> SUFFICES ASSUME NEW i \in 1..k, NEW j \in 1..k
               PROVE  q[i].text < q[j].text <=> i < j
    BY DEF Later
  <2>1. q[i].text \in Nat /\ q[j].text \in Nat /\ i \in Nat /\ j \in Nat
    BY <1>2
  <2>2. i < j => q[i].text < q[j].text
    BY <1>3
  <2>3. j < i => q[j].text < q[i].text
    BY <1>3
  <2>4. i = j => q[i].text = q[j].text
    OBVIOUS
  <2> QED
    BY <2>1, <2>2, <2>3, <2>4
<1>5. \A i \in 1..k : \A j \in 1..k : q[i] = q[j] => i = j
  <2> SUFFICES ASSUME NEW i \in 1..k, NEW j \in 1..k, q[i] = q[j] PROVE i = j
    OBVIOUS
  <2>1. ~(i < j) /\ ~(j < i)
    BY <1>1, <1>4 DEF OrderOn
  <2> QED
    BY <2>1
<1> HIDE DEF R
<1>6. q \in Bijection(1..k, E)
  BY <1>5 DEF Bijection, Injection, Surjection, IsInjective
<1>7. IsFiniteSet(1..k) /\ Cardinality(1..k) = k
  BY FS_Interval
<1>8. IsFiniteSet(E) /\ Cardinality(E) = k
  <2>1. ExistsBijection(1..k, E)
    BY <1>6 DEF ExistsBijection
  <2> QED
    BY <1>7, <2>1, FS_Bijection
<1>9. ASSUME NEW n \in 1..k PROVE Rank(E, R)[q[n]] = n - 1
  <2> DEFINE P == {e \in E : <<e, q[n]>> \in R}
             f == [m \in 1..(n - 1) |-> q[m]]
  <2>1. \A m \in 1..(n - 1) : m \in 1..k /\ m < n
    OBVIOUS
  <2>2. f \in [1..(n - 1) -> P]
    BY <1>4, <2>1
  <2>3. \A e \in P : \E m \in 1..(n - 1) : f[m] = e
    <3> SUFFICES ASSUME NEW e \in P PROVE \E m \in 1..(n - 1) : q[m] = e
      OBVIOUS
    <3>1. PICK m \in 1..k : q[m] = e
      OBVIOUS
    <3>2. m < n
      BY <1>4, <3>1
    <3>3. m \in 1..(n - 1)
      BY <3>2
    <3> QED
      BY <3>1, <3>3
  <2>4. \A i \in 1..(n - 1) : \A j \in 1..(n - 1) : f[i] = f[j] => i = j
    BY <1>5, <2>1
  <2>5. Rank(E, R)[q[n]] = Cardinality(P)
    BY DEF Rank
  <2> HIDE DEF P, f
  <2>6. f \in Bijection(1..(n - 1), P)
    BY <2>2, <2>3, <2>4 DEF Bijection, Injection, Surjection, IsInjective
  <2>7. IsFiniteSet(1..(n - 1)) /\ Cardinality(1..(n - 1)) = n - 1
    <3>1. n - 1 \in Nat
      OBVIOUS
    <3> QED
      BY <3>1, FS_Interval
  <2>8. ExistsBijection(1..(n - 1), P)
    BY <2>6 DEF ExistsBijection
  <2> QED
    BY <2>5, <2>7, <2>8, FS_Bijection
<1> DEFINE l == Ranked(E, R)
<1>10. /\ DOMAIN l = 1..k /\ l \in [1..k -> E]
       /\ \A n \in 1..k : Rank(E, R)[l[n]] = n - 1
  <2>1. DOMAIN l = 1..Cardinality(E) /\ l \in [1..Cardinality(E) -> E]
    BY <1>1, <1>8, RankedLists
  <2>2. \A n \in DOMAIN l : Rank(E, R)[l[n]] = n - 1
    BY <1>1, <1>8, RankedLists
  <2> HIDE DEF l
  <2> QED
    BY <1>8, <2>1, <2>2
<1> HIDE DEF l
<1>11. ASSUME NEW n \in 1..k PROVE l[n] = q[n]
  <2>1. PICK m \in 1..k : q[m] = l[n]
    BY <1>10
  <2>2. m - 1 = n - 1
    BY <1>9, <1>10, <2>1
  <2>3. m = n
    BY <2>2
  <2> QED
    BY <2>1, <2>3
<1>12. l = q
  BY <1>10, <1>11
<1> QED
  BY <1>12 DEF l, R, InOrder

LEMMA InOrderLists ==
  ASSUME NEW E, IsFiniteSet(E), Usable(E)
  PROVE  /\ Cardinality(E) \in Nat /\ InOrder(E) \in [1..Cardinality(E) -> E]
         /\ Len(InOrder(E)) = Cardinality(E)
         /\ \A e \in E : \E n \in 1..Cardinality(E) : InOrder(E)[n] = e
         /\ Rises(InOrder(E))
<1> DEFINE q == Ranked(E, Later(E))
<1>1. OrderOn(Later(E), E)
  BY UsableOrder
<1>2. /\ Cardinality(E) \in Nat /\ q \in [1..Cardinality(E) -> E] /\ Len(q) = Cardinality(E)
      /\ \A x \in E : \E n \in DOMAIN q : q[n] = x
  BY <1>1, RankedLists
<1>3. \A i \in DOMAIN q : \A j \in DOMAIN q : i < j <=> <<q[i], q[j]>> \in Later(E)
  BY <1>1, RankedLists
<1> HIDE DEF q
<1>4. Rises(q)
  BY <1>3 DEF Rises, Later
<1> QED
  BY <1>2, <1>4 DEF q, InOrder

LEMMA DeliversFinitely ==
  ASSUME NEW b, IsStream(b) PROVE IsFiniteSet(Delivers(b))
<1> DEFINE T == {b[i] : i \in DOMAIN b}
           f == [i \in DOMAIN b |-> b[i]]
<1>1. IsFiniteSet(DOMAIN b)
  BY StreamParts, PositionsAreFinite
<1>2. f \in Surjection(DOMAIN b, T)
  BY DEF Surjection
<1>3. IsFiniteSet(T)
  <2> HIDE DEF T, f
  <2> QED
    BY <1>1, <1>2, FS_Surjection
<1>4. Delivers(b) \subseteq T
  BY DEF Delivers
<1> HIDE DEF T
<1> QED
  BY <1>3, <1>4, FS_Subset

(* canonicalize puts the events of a batch in order and drops the repeats. *)
LEMMA CanonicalInOrder ==
  ASSUME NEW b, IsStream(b), AllCountable(b), NEW E, E = Delivers(b), Usable(E)
  PROVE  canonicalize(b).accepted = InOrder(E)
<1> DEFINE V == {i \in DOMAIN b : b[i].valid}
           R == Sorts(b, V)
           q == Ranked(V, R)
           K == Cardinality(V)
           o == Ordered(b)
           first == {n \in DOMAIN o : \A m \in 1..(n - 1) : o[m].key # o[n].key}
           C == Cardinality(first)
           p == Ranked(first, Less)
           a == canonicalize(b).accepted
<1>1. IsFiniteSet(V) /\ OrderOn(R, V)
  BY SortsIsOrder
<1>2. o = [n \in 1..K |-> b[q[n]]]
  <2>1. V = {i \in DOMAIN b : b[i].valid}
    OBVIOUS
  <2> HIDE DEF V
  <2>2. o = Through(b, Ranked(V, Sorts(b, V)), Cardinality(V))
    BY <2>1, OrderedIsRanked
  <2> QED
    BY <2>2 DEF Through
<1>3. \A i \in V : b[i] \in E
  BY DEF Delivers
<1>4. \A e \in E : \E i \in V : b[i] = e
  BY DEF Delivers
<1>5. \A i \in V : \A j \in V : <<i, j>> \in R => Before(b, i, j)
  BY DEF Sorts
<1>6. a = Picked(o, first)
  BY DEF canonicalize, Collapsed
<1>7. /\ \A c \in E : \A d \in E : Precedes(c, d) <=> c.text < d.text
      /\ \A c \in E : \A d \in E : c # d => c.key # d.key /\ c.text # d.text
      /\ \A c \in E : c.text \in Nat
  BY UsableOrder DEF Usable, Comparable
<1> HIDE DEF V, R
<1>8. /\ K \in Nat /\ q \in [1..K -> V] /\ DOMAIN q = 1..K
      /\ \A i \in V : \E n \in DOMAIN q : q[n] = i
  BY <1>1, RankedLists
<1>9. \A i \in DOMAIN q : \A j \in DOMAIN q : i < j <=> <<q[i], q[j]>> \in R
  BY <1>1, RankedLists
<1> HIDE DEF q, K, o
<1>10. DOMAIN o = 1..K /\ \A n \in 1..K : o[n] = b[q[n]] /\ o[n] \in E /\ q[n] \in V
  BY <1>2, <1>3, <1>8
<1>11. ASSUME NEW e \in E PROVE \E n \in 1..K : o[n] = e
  <2>1. PICK i \in V : b[i] = e
    BY <1>4
  <2>2. PICK n \in 1..K : q[n] = i
    BY <1>8
  <2> QED
    BY <1>10, <2>1, <2>2
<1>12. ASSUME NEW i \in 1..K, NEW j \in 1..K, i < j, o[i] # o[j]
       PROVE  o[i].text < o[j].text
  <2>1. Before(b, q[i], q[j])
    BY <1>5, <1>8, <1>9, <1>10, <1>12
  <2>2. Precedes(o[i], o[j]) \/ ~Precedes(o[j], o[i])
    BY <1>10, <2>1 DEF Before
  <2>3. o[i].text < o[j].text \/ ~(o[j].text < o[i].text)
    BY <1>7, <1>10, <2>2
  <2>4. o[i].text # o[j].text /\ o[i].text \in Nat /\ o[j].text \in Nat
    BY <1>7, <1>10, <1>12
  <2> QED
    BY <2>3, <2>4
<1>13. first \subseteq 1..K /\ \A n \in first : \A m \in 1..(n - 1) : o[m] # o[n]
  BY <1>10
<1>14. ASSUME NEW e \in E PROVE \E n \in first : o[n] = e
  <2> DEFINE T == {n \in 1..K : o[n] = e}
  <2>1. T \subseteq Nat /\ T # {}
    BY <1>11
  <2> HIDE DEF T
  <2>2. Min(T) \in T /\ \A j \in T : Min(T) <= j
    BY <2>1, LeastOf
  <2>3. PICK n \in 1..K : o[n] = e /\ \A j \in T : n <= j
    BY <2>2 DEF T
  <2>4. ASSUME NEW m \in 1..(n - 1) PROVE o[m].key # o[n].key
    <3>1. m \in 1..K /\ ~(n <= m)
      BY <1>8
    <3>2. o[m] # e
      BY <2>3, <3>1 DEF T
    <3> QED
      BY <1>7, <1>10, <2>3, <3>1, <3>2
  <2>5. n \in first
    BY <1>10, <2>4
  <2> HIDE DEF first
  <2> QED
    BY <2>3, <2>5
<1> HIDE DEF first
<1>15. IsFiniteSet(first) /\ Positions(first)
  <2>1. IsFiniteSet(first)
    BY <1>8, <1>13, PositionsAreFinite
  <2>2. first \subseteq Nat
    BY <1>13
  <2> QED
    BY <2>1, <2>2 DEF Positions
<1>16. OrderOn(Less, first) /\ a = [n \in 1..C |-> o[p[n]]]
  BY <1>6, <1>15, PickedIsRanked
<1>17. /\ C \in Nat /\ p \in [1..C -> first] /\ DOMAIN p = 1..C
       /\ \A m \in first : \E n \in DOMAIN p : p[n] = m
  BY <1>15, <1>16, RankedLists
<1>18. \A i \in DOMAIN p : \A j \in DOMAIN p : i < j <=> <<p[i], p[j]>> \in Less
  BY <1>15, <1>16, RankedLists
<1> HIDE DEF a, p, C
<1>19. \A n \in 1..C : a[n] = o[p[n]] /\ p[n] \in first /\ p[n] \in 1..K /\ a[n] \in E
  BY <1>10, <1>13, <1>16, <1>17
<1>20. a \in [1..C -> E]
  <2>1. a = [n \in 1..C |-> a[n]]
    BY <1>16
  <2> QED
    BY <1>19, <2>1
<1>21. \A e \in E : \E n \in 1..C : a[n] = e
  <2> SUFFICES ASSUME NEW e \in E PROVE \E n \in 1..C : a[n] = e
    OBVIOUS
  <2>1. PICK m \in first : o[m] = e
    BY <1>14
  <2>2. PICK n \in 1..C : p[n] = m
    BY <1>17
  <2> QED
    BY <1>19, <2>1, <2>2
<1>22. Rises(a)
  <2> SUFFICES ASSUME NEW i \in 1..C, NEW j \in 1..C, i < j PROVE a[i].text < a[j].text
    BY <1>20 DEF Rises
  <2>1. p[i] < p[j] /\ p[i] \in 1..K /\ p[j] \in 1..K /\ p[j] \in first
    BY <1>17, <1>18, <1>19 DEF Less
  <2>2. p[i] \in 1..(p[j] - 1)
    BY <1>8, <2>1
  <2>3. o[p[i]] # o[p[j]]
    BY <1>13, <2>1, <2>2
  <2>4. o[p[i]].text < o[p[j]].text
    BY <1>12, <2>1, <2>3
  <2> QED
    BY <1>19, <2>4
<1>23. a = InOrder(E)
  BY <1>17, <1>20, <1>21, <1>22, ListIsInOrder
<1> QED
  BY <1>23 DEF a

(* Without a refusal, appending a batch to events in order leaves all of
   them in order. *)
LEMMA AppendInOrder ==
  ASSUME NEW D, IsFiniteSet(D), NEW s, IsStream(s), AllCountable(s), s = InOrder(D),
         NEW b, IsStream(b), AllCountable(b), NEW E, E = Delivers(b), NEW A, A = D \cup E,
         Usable(A), canonicalizeAppend(s, b).refused = {}
  PROVE  canonicalizeAppend(s, b).stream = InOrder(A)
<1> DEFINE events == canonicalize(b).accepted
           new == {n \in DOMAIN events : events[n].key \notin Keys(s)}
           late == {n \in new : s # <<>> /\ events[n].text < HighWater(s)}
           t == Picked(events, new)
           C == Cardinality(new)
           p == Ranked(new, Less)
           k == Cardinality(D)
           l == Cardinality(E)
           u == s \o t
<1>1. Usable(D) /\ Usable(E)
  BY DEF Usable, Comparable
<1>2. IsFiniteSet(E)
  BY DeliversFinitely
<1>3. events = InOrder(E)
  BY <1>1, CanonicalInOrder
<1>4. /\ k \in Nat /\ s \in [1..k -> D] /\ Len(s) = k /\ Rises(s)
      /\ \A e \in D : \E n \in 1..k : s[n] = e
  BY <1>1, InOrderLists
<1>5. /\ l \in Nat /\ events \in [1..l -> E] /\ Rises(events)
      /\ \A e \in E : \E n \in 1..l : events[n] = e
  BY <1>1, <1>2, <1>3, InOrderLists
<1>6. late = {} /\ canonicalizeAppend(s, b).stream = u
  <2>1. canonicalizeAppend(s, b).refused = {events[n].key : n \in late}
    BY DEF canonicalizeAppend, Continued
  <2>2. canonicalizeAppend(s, b).stream = s \o Picked(events, new \ late)
    BY DEF canonicalizeAppend, Continued
  <2>3. late = {}
    <3> HIDE DEF late
    <3> QED
      BY <2>1
  <2>4. new \ late = new
    BY <2>3
  <2> QED
    BY <2>2, <2>3, <2>4
<1>7. \A n \in new : s = <<>> \/ ~(events[n].text < HighWater(s))
  BY <1>6
<1>8. HighWater(s) \in Nat /\ \A n \in DOMAIN s : s[n].text <= HighWater(s)
  BY HighWaterIsHigh
<1>9. /\ \A c \in A : \A d \in A : c # d => c.key # d.key /\ c.text # d.text
      /\ \A c \in A : c.text \in Nat
  BY DEF Usable, Comparable
<1> HIDE DEF events, k, l
<1>10. DOMAIN s = 1..k /\ DOMAIN events = 1..l
  BY <1>4, <1>5
<1>11. \A n \in 1..l : n \in new <=> events[n] \notin D
  <2> SUFFICES ASSUME NEW n \in 1..l
               PROVE  events[n].key \notin Keys(s) <=> events[n] \notin D
    BY <1>10
  <2>1. events[n] \in A
    BY <1>5
  <2>2. ASSUME events[n].key \in Keys(s) PROVE events[n] \in D
    <3>1. PICK m \in 1..k : s[m].key = events[n].key
      BY <1>10, <2>2 DEF Keys
    <3>2. s[m] \in D
      BY <1>4
    <3> QED
      BY <1>9, <2>1, <3>1, <3>2
  <2>3. ASSUME events[n] \in D PROVE events[n].key \in Keys(s)
    <3>1. PICK m \in 1..k : s[m] = events[n]
      BY <1>4, <2>3
    <3> QED
      BY <1>10, <3>1 DEF Keys
  <2> QED
    BY <2>2, <2>3
<1>12. new \subseteq 1..l
  BY <1>10
<1> HIDE DEF new
<1>13. IsFiniteSet(new) /\ Positions(new)
  <2>1. IsFiniteSet(new)
    BY <1>5, <1>12, PositionsAreFinite
  <2>2. new \subseteq Nat
    BY <1>12
  <2> QED
    BY <2>1, <2>2 DEF Positions
<1>14. OrderOn(Less, new) /\ t = [n \in 1..C |-> events[p[n]]]
  BY <1>13, PickedIsRanked
<1>15. /\ C \in Nat /\ p \in [1..C -> new] /\ DOMAIN p = 1..C
       /\ \A m \in new : \E n \in DOMAIN p : p[n] = m
  BY <1>13, <1>14, RankedLists
<1>16. \A i \in DOMAIN p : \A j \in DOMAIN p : i < j <=> <<p[i], p[j]>> \in Less
  BY <1>13, <1>14, RankedLists
<1> HIDE DEF t, p, C
<1>17. \A n \in 1..C : t[n] = events[p[n]] /\ p[n] \in new /\ p[n] \in 1..l /\ t[n] \in E
  BY <1>5, <1>12, <1>14, <1>15
<1>18. /\ u \in [1..(k + C) -> A] /\ k + C \in Nat
       /\ \A n \in 1..k : u[n] = s[n]
       /\ \A n \in 1..C : u[k + n] = t[n]
  <2>1. s \in Seq(A) /\ Len(s) = k
    <3>1. s \in Seq(D)
      BY <1>4
    <3> QED
      BY <1>4, <3>1
  <2>2. t \in Seq(A) /\ Len(t) = C
    <3>1. t = [n \in 1..C |-> t[n]]
      BY <1>14
    <3>2. t \in [1..C -> A]
      BY <1>17, <3>1
    <3> QED
      BY <1>15, <3>2
  <2>3. u \in Seq(A) /\ Len(u) = k + C
    BY <2>1, <2>2
  <2>4. \A n \in 1..k : u[n] = s[n]
    BY <1>15, <2>1, <2>2
  <2>5. \A n \in 1..C : u[k + n] = t[n]
    BY <1>4, <2>1, <2>2
  <2> HIDE DEF u
  <2>6. u \in [1..(k + C) -> A]
    BY <2>3
  <2> QED
    BY <1>4, <1>15, <2>4, <2>5, <2>6
<1> HIDE DEF u
<1>19. \A n \in 1..(k + C) : n \in 1..k \/ (n - k \in 1..C /\ k + (n - k) = n)
  BY <1>4, <1>15
<1>20. ASSUME NEW e \in A PROVE \E n \in 1..(k + C) : u[n] = e
  <2>1. CASE e \in D
    <3>1. PICK n \in 1..k : s[n] = e
      BY <1>4, <2>1
    <3>2. n \in 1..(k + C) /\ u[n] = e
      BY <1>4, <1>15, <1>18, <3>1
    <3> QED
      BY <3>2
  <2>2. CASE e \notin D
    <3>1. PICK m \in 1..l : events[m] = e
      BY <1>5, <2>2
    <3>2. m \in new
      BY <1>11, <2>2, <3>1
    <3>3. PICK n \in 1..C : p[n] = m
      BY <1>15, <3>2
    <3>4. k + n \in 1..(k + C) /\ u[k + n] = e
      BY <1>4, <1>15, <1>17, <1>18, <3>1, <3>3
    <3> QED
      BY <3>4
  <2> QED
    BY <2>1, <2>2
<1>21. ASSUME NEW i \in 1..C, NEW j \in 1..C, i < j PROVE t[i].text < t[j].text
  <2>1. p[i] < p[j] /\ p[i] \in 1..l /\ p[j] \in 1..l
    BY <1>15, <1>16, <1>17, <1>21 DEF Less
  <2>2. events[p[i]].text < events[p[j]].text
    BY <1>5, <1>10, <2>1 DEF Rises
  <2> QED
    BY <1>17, <2>2
<1>22. ASSUME NEW i \in 1..k, NEW j \in 1..C PROVE s[i].text < t[j].text
  <2>1. s # <<>>
    <3>1. Len(s) = k /\ k \in Nat /\ k # 0
      BY <1>4
    <3> QED
      BY <3>1
  <2>2. ~(t[j].text < HighWater(s))
    BY <1>7, <1>17, <2>1
  <2>3. s[i].text <= HighWater(s)
    BY <1>8, <1>10
  <2>4. s[i] \in D /\ t[j] \in A /\ t[j] \notin D
    BY <1>4, <1>11, <1>17
  <2>5. s[i].text \in Nat /\ t[j].text \in Nat /\ s[i].text # t[j].text
    BY <1>9, <2>4
  <2> QED
    BY <1>8, <2>2, <2>3, <2>5
<1>23. Rises(u)
  <2> SUFFICES ASSUME NEW i \in 1..(k + C), NEW j \in 1..(k + C), i < j
               PROVE  u[i].text < u[j].text
    BY <1>18 DEF Rises
  <2>1. CASE i \in 1..k /\ j \in 1..k
    BY <1>4, <1>10, <1>18, <2>1 DEF Rises
  <2>2. CASE i \in 1..k /\ j \notin 1..k
    BY <1>18, <1>19, <1>22, <2>2
  <2>3. CASE i \notin 1..k /\ j \notin 1..k
    <3>1. i - k \in 1..C /\ j - k \in 1..C /\ k + (i - k) = i /\ k + (j - k) = j
      BY <1>19, <2>3
    <3>2. i - k < j - k
      BY <1>4
    <3>3. t[i - k].text < t[j - k].text
      BY <1>21, <3>1, <3>2
    <3>4. u[k + (i - k)] = t[i - k] /\ u[k + (j - k)] = t[j - k]
      BY <1>18, <3>1
    <3> QED
      BY <3>1, <3>3, <3>4
  <2>4. CASE i \notin 1..k /\ j \in 1..k
    BY <1>4, <2>4
  <2> QED
    BY <2>1, <2>2, <2>3, <2>4
<1>24. u = InOrder(A)
  BY <1>18, <1>20, <1>23, ListIsInOrder
<1> QED
  BY <1>6, <1>24

LEMMA CountableIsUsable ==
  ASSUME NEW E, Comparable(E), \A e \in E : Countable(e) PROVE Usable(E)
BY DEF Usable, Countable

LEMMA WholeFromTheStart ==
  ASSUME CaseStreamAssumption, EventsAssumption, Init PROVE Whole
<1>1. PICK case \in Cases :
        /\ stream = canonicalize(case.recorded).accepted
        /\ delivered = Delivers(case.recorded)
  BY DEF Init, Delivers
<1> DEFINE b == case.recorded
<1>2. IsStream(b) /\ AllCountable(b)
  BY DEF CaseStreamAssumption, EventsAssumption, IsStream, AllCountable
<1> HIDE DEF b
<1>3. IsFiniteSet(delivered)
  BY <1>1, <1>2, DeliversFinitely DEF b
<1>4. \A e \in delivered : e.valid /\ Countable(e)
  BY <1>1, <1>2 DEF Delivers, AllCountable, b
<1>5. Comparable(delivered) => stream = InOrder(delivered)
  <2> SUFFICES ASSUME Comparable(delivered) PROVE stream = InOrder(delivered)
    OBVIOUS
  <2>1. Usable(delivered)
    BY <1>4, CountableIsUsable
  <2>2. delivered = Delivers(b) /\ stream = canonicalize(b).accepted
    BY <1>1 DEF b
  <2> QED
    BY <1>2, <2>1, <2>2, CanonicalInOrder
<1> QED
  BY <1>3, <1>4, <1>5 DEF Whole

LEMMA WholeStep ==
  ASSUME IsStream(stream), Counted, Whole, [Next]_vars PROVE Whole'
<1>1. ASSUME UNCHANGED vars PROVE Whole'
  BY <1>1 DEF vars, Whole, Comparable
<1>2. ASSUME NEW batch \in Batches, Deliver(batch) PROVE Whole'
  <2> DEFINE E == Delivers(batch)
  <2>1. /\ stream' = canonicalizeAppend(stream, batch).stream
        /\ refused' = refused \cup canonicalizeAppend(stream, batch).refused
        /\ delivered' = delivered \cup E
    BY <1>2 DEF Deliver, Delivers
  <2>2. IsStream(batch)
    BY BatchesAreStreams
  <2>3. AllCountable(batch) /\ AllCountable(stream)
    <3>1. ASSUME NEW e \in facts PROVE AllCountable(<<e>>)
      BY DEF Counted, AllCountable
    <3>2. ASSUME NEW p \in facts \X facts PROVE AllCountable(p)
      BY DEF Counted, AllCountable
    <3>3. AllCountable(batch)
      BY <3>1, <3>2 DEF Batches
    <3> QED
      BY <3>3 DEF Counted
  <2>4. IsFiniteSet(E) /\ \A e \in E : e.valid /\ Countable(e)
    BY <2>2, <2>3, DeliversFinitely DEF Delivers, AllCountable
  <2>5. IsFiniteSet(delivered')
    BY <2>1, <2>4, FS_Union DEF Whole
  <2>6. \A e \in delivered' : e.valid /\ Countable(e)
    BY <2>1, <2>4 DEF Whole
  <2>7. ASSUME Comparable(delivered'), refused' = {}
        PROVE  stream' = InOrder(delivered')
    <3>1. refused = {} /\ canonicalizeAppend(stream, batch).refused = {}
      BY <2>1, <2>7
    <3>2. Comparable(delivered)
      BY <2>1, <2>7 DEF Comparable
    <3>3. stream = InOrder(delivered) /\ IsFiniteSet(delivered)
      BY <3>1, <3>2 DEF Whole
    <3> DEFINE A == delivered \cup E
    <3>4. Usable(A)
      BY <2>1, <2>6, <2>7, CountableIsUsable
    <3>5. A = delivered \cup E /\ E = Delivers(batch)
      OBVIOUS
    <3> HIDE DEF A, E
    <3>6. canonicalizeAppend(stream, batch).stream = InOrder(A)
      BY <2>2, <2>3, <3>1, <3>3, <3>4, <3>5, AppendInOrder
    <3> QED
      BY <2>1, <3>5, <3>6
  <2>8. Comparable(delivered)' <=> Comparable(delivered')
    BY DEF Comparable
  <2> HIDE DEF E
  <2> QED
    BY <2>5, <2>6, <2>7, <2>8 DEF Whole, Comparable
<1> QED
  BY <1>1, <1>2 DEF Next

LEMMA WholeIsSplit == ASSUME Whole PROVE SplitIsWhole
<1> SUFFICES ASSUME Comparable(delivered), refused = {}
             PROVE  stream = canonicalize(Listed(delivered)).accepted
  BY DEF SplitIsWhole, Listed
<1> DEFINE b == Listed(delivered)
<1>1. IsFiniteSet(delivered) /\ \A e \in delivered : e.valid /\ Countable(e)
  BY DEF Whole
<1>2. stream = InOrder(delivered) /\ Usable(delivered)
  BY <1>1, CountableIsUsable DEF Whole
<1>3. b \in Seq(delivered) /\ \A e \in delivered : \E n \in DOMAIN b : b[n] = e
  BY <1>1, ListedHasAll
<1> HIDE DEF b
<1>4. \A n \in DOMAIN b : b[n] \in delivered
  BY <1>3
<1>5. IsStream(b)
  BY <1>3 DEF IsStream
<1>6. AllCountable(b)
  BY <1>1, <1>4 DEF AllCountable
<1>7. delivered = Delivers(b)
  <2>1. \A e \in delivered : e \in Delivers(b)
    BY <1>1, <1>3 DEF Delivers
  <2>2. \A e \in Delivers(b) : e \in delivered
    BY <1>4 DEF Delivers
  <2> QED
    BY <2>1, <2>2
<1>8. canonicalize(b).accepted = InOrder(delivered)
  BY <1>2, <1>5, <1>6, <1>7, CanonicalInOrder
<1> QED
  BY <1>2, <1>8 DEF b

(* However a case's evidence was split into batches, reordered and
   redelivered: as long as nothing was refused as late, the stream is what
   canonicalize makes of all of it at once. *)
THEOREM SplitIsWholeHolds ==
  ASSUME CaseStreamAssumption, EventsAssumption PROVE Spec => []SplitIsWhole
<1>1. Init => IsStream(stream) /\ Counted /\ Whole
  BY StreamFromTheStart, CountedFromTheStart, WholeFromTheStart
<1>2. IsStream(stream) /\ Counted /\ Whole /\ [Next]_vars => IsStream(stream)' /\ Counted' /\ Whole'
  BY StreamStep, CountedStep, WholeStep
<1>3. Whole => SplitIsWhole
  BY WholeIsSplit
<1> QED
  BY <1>1, <1>2, <1>3, PTL DEF Spec

----------------------------------------------------------------------------
(* Pointers. *)

LEMMA AlwaysReached == ASSUME NEW s PROVE \A n \in Nat : Reached(s, n)
<1> DEFINE S == {n \in Nat : Reached(s, n)}
<1>1. 0 \in S
  <2>1. project(s, 0) = Nothing
    BY ProjectSteps
  <2>2. /\ DOMAIN Nothing.agents = {} /\ DOMAIN Nothing.incidents = {}
        /\ Nothing.completed = {} /\ Nothing.milestone = "none"
    BY DEF Nothing, Empty
  <2>3. Reached(s, 0)
    BY <2>1, <2>2 DEF Reached, CASE_MILESTONES
  <2> QED
    BY <2>3
<1>2. ASSUME NEW n \in Nat, n \in S PROVE n + 1 \in S
  <2> DEFINE p == project(s, n)
             t == project(s, n + 1)
             e == s[n + 1]
             Opens(id, k) == s[k].type = "incident.opened" /\ s[k].ref = id
             Enters(m, k) == s[k].type = "case.milestone_changed" /\ s[k].detail = m
  <2>1. t = Fold(p, e, n + 1) /\ DOMAIN p = Fields
    BY ProjectSteps, ProjectFields
  <2>2. /\ \A id \in DOMAIN p.incidents : \E k \in 1..n : Opens(id, k)
        /\ \A m \in CASE_MILESTONES : m = p.milestone \/ m \in p.completed =>
             \E k \in 1..n : Enters(m, k)
        /\ "none" \notin DOMAIN p.agents
    BY <1>2 DEF Reached
  <2> HIDE DEF p, t
  <2>3. /\ t.incidents = Incidents(p, e, n + 1).incidents
        /\ t.milestone = Milestone(p, e).milestone /\ t.completed = Milestone(p, e).completed
        /\ t.agents = Agents(p, e).agents
    BY <2>1, FoldByParts
  <2>4. \A k \in 1..n : k \in 1..(n + 1)
    OBVIOUS
  <2>5. n + 1 \in 1..(n + 1)
    OBVIOUS
  <2>6. ASSUME NEW id \in DOMAIN t.incidents PROVE \E k \in 1..(n + 1) : Opens(id, k)
    <3>1. id \in DOMAIN p.incidents \/ Opens(id, n + 1)
      BY <2>1, <2>3, <2>6, FieldNames DEF Incidents, Put
    <3> HIDE DEF Opens
    <3> QED
      BY <2>2, <2>4, <2>5, <3>1
  <2>7. ASSUME NEW m \in CASE_MILESTONES, m = t.milestone \/ m \in t.completed
        PROVE  \E k \in 1..(n + 1) : Enters(m, k)
    <3>1. m = p.milestone \/ m \in p.completed \/ Enters(m, n + 1)
      BY <2>1, <2>3, <2>7, FieldNames DEF Milestone
    <3> HIDE DEF Enters
    <3> QED
      BY <2>2, <2>4, <2>5, <2>7, <3>1
  <2>8. "none" \notin DOMAIN t.agents
    BY <2>1, <2>2, <2>3, FieldNames DEF Agents, Put
  <2>9. Reached(s, n + 1)
    BY <2>6, <2>7, <2>8 DEF Reached, t
  <2> QED
    BY <2>9
<1> HIDE DEF S
<1>3. \A n \in Nat : n \in S
  BY <1>1, <1>2, CountingUp
<1> QED
  BY <1>3 DEF S

(* The tour stops at positions, and the step shown for a cursor is the last
   one at or before it. *)
LEMMA ClaimIsPlaced ==
  ASSUME NEW A, Positions(A), NEW c, NEW p, \A n \in A : c[n][p] \in Nat
  PROVE  Story!Claim(c, A, p).primary \in Nat
<1> DEFINE P == {n \in A : Story!Whole(c[n])}
           claim == Story!Claim(c, A, p)
<1>1. CASE P = {}
  <2>1. claim = Story!Unproven
    BY <1>1 DEF Story!Claim
  <2> QED
    BY <2>1 DEF Story!Unproven
<1>2. CASE P # {}
  <2>1. claim = [primary |-> c[Story!Min(P)][p], evidence |-> c[Story!Min(P)]]
    BY <1>2 DEF Story!Claim
  <2>2. P \subseteq Nat /\ \A n \in P : n \in A
    BY DEF Positions
  <2> HIDE DEF P
  <2>3. Story!Min(P) \in P
    BY <1>2, <2>2, StoryLeast
  <2>4. c[Story!Min(P)][p] \in Nat
    BY <2>2, <2>3
  <2>5. claim.primary = c[Story!Min(P)][p]
    <3> HIDE DEF claim
    <3> QED
      BY <2>1
  <2> QED
    BY <2>4, <2>5
<1> QED
  BY <1>1, <1>2

LEMMA PathIsPlaced ==
  ASSUME NEW s, IsStream(s)
  PROVE  \E a, b, c, d, e, f \in Nat :
           Story!enterpriseStory("loaded", s).path = <<a, b, c, d, e, f>>
<1> DEFINE proofs == Story!PROVERS(s)
<1>1. \A T : Story!First(Story!ofType(s, T)) \in Nat
  BY TypesOf, FirstOfSome
<1>2. Story!proveScreening(s).primary \in Nat
  <2> DEFINE A == {n \in Story!ofType(s, {"armor.blocked"}) : s[n].input # "none"}
             c == [n \in A |-> Story!Enforcement(s, n)]
  <2>1. A \subseteq Nat
    BY TypesOf
  <2>2. \A n \in A : c[n][1] = n
    BY DEF Story!Enforcement
  <2>3. Story!proveScreening(s) = Story!Claim(c, A, 1)
    BY DEF Story!proveScreening
  <2> HIDE DEF A, c
  <2>4. \A n \in A : c[n][1] \in Nat
    BY <2>1, <2>2
  <2> QED
    BY <2>1, <2>3, <2>4, ClaimIsPlaced DEF Positions
<1>3. Story!proveRuntime(s).primary \in Nat
  <2> DEFINE A == {n \in Story!ofType(s, {"runtime.controlled"}) :
                     s[n].detail = "applied" /\ s[n].ref # "none"}
             c == [n \in A |-> Story!Effect(s, n)]
  <2>1. A \subseteq Nat
    BY TypesOf
  <2>2. \A n \in A : c[n][1] = n
    BY DEF Story!Effect
  <2>3. Story!proveRuntime(s) = Story!Claim(c, A, 1)
    BY DEF Story!proveRuntime
  <2> HIDE DEF A, c
  <2>4. \A n \in A : c[n][1] \in Nat
    BY <2>1, <2>2
  <2> QED
    BY <2>1, <2>3, <2>4, ClaimIsPlaced DEF Positions
<1>4. Story!proveActivation(s).primary \in Nat
  <2> DEFINE A == {n \in Story!ofType(s, {"human_escalation.opened"}) : s[n].ref # "none"}
             c == [n \in A |-> Story!Activation(s, n)]
  <2>1. A \subseteq Nat
    BY TypesOf
  <2>2. \A n \in A : \E P : P \subseteq Story!ofType(s, {"identity.allowed"}) /\ c[n][4] = Story!First(P)
    BY DEF Story!Activation
  <2>3. Story!proveActivation(s) = Story!Claim(c, A, 4)
    BY DEF Story!proveActivation
  <2> HIDE DEF A, c
  <2>4. \A n \in A : c[n][4] \in Nat
    <3> SUFFICES ASSUME NEW n \in A PROVE c[n][4] \in Nat
      OBVIOUS
    <3>1. PICK P : P \subseteq Story!ofType(s, {"identity.allowed"}) /\ c[n][4] = Story!First(P)
      BY <2>2
    <3>2. P \subseteq Nat \ {0}
      BY <3>1, TypesOf
    <3> QED
      BY <3>1, <3>2, FirstOfSome
  <2> QED
    BY <2>1, <2>3, <2>4, ClaimIsPlaced DEF Positions
<1>5. /\ proofs["security"] = Story!proveScreening(s) /\ proofs["runtime"] = Story!proveRuntime(s)
      /\ proofs["activation"] = Story!proveActivation(s)
  BY DEF Story!PROVERS, Story!SLOTS
<1>6. Story!enterpriseStory("loaded", s).path = Story!proofPathFor(s, proofs)
  BY DEF Story!enterpriseStory, Story!Told
<1> HIDE DEF proofs
<1>7. Story!proofPathFor(s, proofs)
        = <<Story!First(Story!ofType(s, {"agent.spawned"})),
            Story!First(Story!ofType(s, {"memory.recalled", "memory.written"})),
            proofs["security"].primary, proofs["runtime"].primary,
            Story!First(Story!ofType(s, {"human_escalation.opened"})),
            proofs["activation"].primary>>
  BY DEF Story!proofPathFor
<1> QED
  BY <1>1, <1>2, <1>3, <1>4, <1>5, <1>6, <1>7

LEMMA StoryGreatest ==
  ASSUME NEW S, IsFiniteSet(S), S \subseteq Nat, S # {}
  PROVE  Story!Max(S) \in S /\ \A j \in S : Story!Max(S) >= j
<1>1. Story!Max(S) = Max(S)
  BY DEF Max, Story!Max
<1> QED
  BY <1>1, GreatestOf

LEMMA TourIsInside ==
  ASSUME NEW s, IsStream(s), NEW cursor \in Nat
  PROVE  LET path == Story!enterpriseStory("loaded", s).path
         IN  Inside(path, cursor, Story!activeStep(path, cursor))
<1> DEFINE path == Story!enterpriseStory("loaded", s).path
           tour == Story!tourFor(path)
           past == {n \in tour : n <= cursor}
<1>1. PICK a, b, c, d, e, f \in Nat : path = <<a, b, c, d, e, f>>
  BY PathIsPlaced
<1>2. tour \subseteq {a, b, c, d, e, f}
  <2> HIDE DEF path
  <2> QED
    BY <1>1 DEF Story!tourFor
<1>3. tour \subseteq Nat
  BY <1>1, <1>2
<1>4. IsFiniteSet(tour)
  <2>1. IsFiniteSet({a}) /\ IsFiniteSet({b}) /\ IsFiniteSet({c})
        /\ IsFiniteSet({d}) /\ IsFiniteSet({e}) /\ IsFiniteSet({f})
    BY FS_Singleton
  <2>2. IsFiniteSet({a} \cup {b}) /\ IsFiniteSet({c} \cup {d}) /\ IsFiniteSet({e} \cup {f})
    BY <2>1, FS_Union
  <2>3. IsFiniteSet(({a} \cup {b}) \cup ({c} \cup {d}))
    BY <2>2, FS_Union
  <2>4. IsFiniteSet((({a} \cup {b}) \cup ({c} \cup {d})) \cup ({e} \cup {f}))
    BY <2>2, <2>3, FS_Union
  <2>5. tour \subseteq (({a} \cup {b}) \cup ({c} \cup {d})) \cup ({e} \cup {f})
    BY <1>2
  <2> QED
    BY <2>4, <2>5, FS_Subset
<1>5. Story!activeStep(path, cursor)
        = IF past # {} THEN Story!Max(past) ELSE Story!First(tour)
  BY DEF Story!activeStep
<1> HIDE DEF path, tour
<1>6. ASSUME NEW n \in tour, n <= cursor
      PROVE  /\ n <= Story!Max(past) /\ Story!Max(past) <= cursor
             /\ Story!Max(past) \in tour /\ past # {}
  <2>1. past # {} /\ IsFiniteSet(past) /\ past \subseteq Nat /\ n \in past
    BY <1>3, <1>4, <1>6, FS_Subset
  <2> DEFINE m == Story!Max(past)
  <2>2. m \in past /\ \A j \in past : m >= j
    <3> HIDE DEF past
    <3> QED
      BY <2>1, StoryGreatest
  <2> HIDE DEF m
  <2>3. m >= n /\ m \in tour /\ m <= cursor
    BY <2>1, <2>2
  <2>4. n <= m
    BY <1>3, <2>3
  <2> QED
    BY <2>1, <2>3, <2>4 DEF m
<1> DEFINE active == Story!activeStep(path, cursor)
<1>7. ASSUME NEW n \in tour PROVE active \in tour /\ (n <= cursor => n <= active /\ active <= cursor)
  <2>1. CASE past # {}
    <3>1. PICK k : k \in past
      BY <2>1
    <3>2. k \in tour /\ k <= cursor
      BY <3>1
    <3>3. active = Story!Max(past)
      BY <1>5, <2>1
    <3> HIDE DEF active, past
    <3>4. Story!Max(past) \in tour
      BY <1>6, <3>2
    <3>5. n <= cursor => n <= Story!Max(past) /\ Story!Max(past) <= cursor
      BY <1>6, <1>7
    <3> QED
      BY <3>3, <3>4, <3>5
  <2>2. CASE past = {}
    <3>1. active = Story!First(tour)
      BY <1>5, <2>2
    <3>2. ~(n <= cursor)
      BY <1>7, <2>2
    <3>3. Story!First(tour) = Story!Min(tour)
      BY <1>7 DEF Story!First
    <3>4. Story!Min(tour) \in tour
      BY <1>3, <1>7, StoryLeast
    <3> HIDE DEF active
    <3> QED
      BY <3>1, <3>2, <3>3, <3>4
  <2> QED
    BY <2>1, <2>2
<1> HIDE DEF past, active
<1>8. \A n \in tour : /\ n <= cursor => n <= active /\ active <= cursor
                      /\ active \in tour
  BY <1>7
<1>9. Inside(path, cursor, active)
  BY <1>8 DEF Inside, tour
<1> QED
  BY <1>9 DEF path, active

LEMMA DeepestLevel == ASSUME NEW state, NEW f, NEW g PROVE Deep(state, f, 17) = Deep(state, g, 17)
BY DEF Deep

LEMMA DepthsExist == ASSUME NEW state PROVE \E f : IsDepths(state, f)
<1> DEFINE Settled(f, k) == /\ f = [guard \in 0..17 |-> f[guard]]
                            /\ \A guard \in 0..17 :
                                 guard + k >= 17 => f[guard] = Deep(state, f, guard)
           S == {k \in Nat : \E f : Settled(f, k)}
<1>1. 0 \in S
  <2> DEFINE f == [guard \in 0..17 |-> Deep(state, <<>>, 17)]
  <2>1. \A guard \in 0..17 : f[guard] = Deep(state, <<>>, 17)
    OBVIOUS
  <2>2. f = [guard \in 0..17 |-> f[guard]]
    OBVIOUS
  <2> HIDE DEF f
  <2>3. \A guard \in 0..17 : guard + 0 >= 17 => guard = 17
    OBVIOUS
  <2>4. f[17] = Deep(state, f, 17)
    BY <2>1, DeepestLevel
  <2>5. Settled(f, 0)
    BY <2>2, <2>3, <2>4
  <2> QED
    BY <2>5
<1>2. ASSUME NEW k \in Nat, k \in S PROVE k + 1 \in S
  <2>1. PICK f : Settled(f, k)
    BY <1>2
  <2> DEFINE h == [guard \in 0..17 |-> Deep(state, f, guard)]
  <2>2. \A guard \in 0..17 : h[guard] = Deep(state, f, guard)
    OBVIOUS
  <2>3. h = [guard \in 0..17 |-> h[guard]]
    OBVIOUS
  <2> HIDE DEF h
  <2>4. ASSUME NEW guard \in 0..17, guard + (k + 1) >= 17
        PROVE  h[guard] = Deep(state, h, guard)
    <3>1. CASE guard = 17
      BY <2>2, <3>1, DeepestLevel
    <3>2. CASE guard # 17
      <4>1. guard + 1 \in 0..17 /\ (guard + 1) + k >= 17
        BY <2>4, <3>2
      <4>2. h[guard + 1] = f[guard + 1]
        BY <2>1, <2>2, <4>1
      <4>3. Deep(state, f, guard) = Deep(state, h, guard)
        BY <4>2 DEF Deep
      <4> QED
        BY <2>2, <4>3
    <3> QED
      BY <3>1, <3>2
  <2>5. Settled(h, k + 1)
    BY <2>3, <2>4
  <2> QED
    BY <2>5
<1> HIDE DEF S
<1>3. \A k \in Nat : k \in S
  BY <1>1, <1>2, CountingUp
<1>4. PICK f : Settled(f, 17)
  BY <1>3 DEF S
<1>5. \A guard \in 0..17 : f[guard] = Deep(state, f, guard)
  BY <1>4
<1>6. f = [guard \in 0..17 |-> Deep(state, f, guard)]
  BY <1>4, <1>5
<1> QED
  BY <1>6 DEF IsDepths

LEMMA DepthsStep ==
  ASSUME NEW state
  PROVE  \A guard \in 0..17 : DepthsOf(state)[guard] = Deep(state, DepthsOf(state), guard)
<1>1. \E f : IsDepths(state, f)
  BY DepthsExist
<1>2. DepthsOf(state) = CHOOSE f : IsDepths(state, f)
  BY DEF IsDepths, DepthsOf, Deep
<1>3. IsDepths(state, DepthsOf(state))
  BY <1>1, <1>2
<1> HIDE DEF DepthsOf
<1> QED
  BY <1>3 DEF IsDepths

(* A chain that ends is as long from one level as from the next. *)
LEMMA DepthsAreLevel ==
  ASSUME NEW state, NEW x \in DOMAIN state.agents
  PROVE  /\ DepthsOf(state)[0][x] \in Nat /\ DepthsOf(state)[1][x] \in Nat
         /\ DepthsOf(state)[1][x] < 16 => DepthsOf(state)[0][x] = DepthsOf(state)[1][x]
<1> DEFINE known == DOMAIN state.agents
           D == DepthsOf(state)
           Leads(a) == state.agents[a].parent
           Level(g) == \A a \in known : /\ D[g][a] \in Nat /\ D[g + 1][a] \in Nat
                                        /\ D[g + 1][a] < 16 - g => D[g][a] = D[g + 1][a]
           S == {k \in Nat : k <= 16 => Level(16 - k)}
<1>1. \A g \in 0..17 : D[g] = Deep(state, D, g)
  BY DepthsStep
<1> HIDE DEF D
<1>2. \A g \in 0..16 : \A a \in known :
        D[g][a] = IF Leads(a) = "none" THEN 0
                  ELSE IF Leads(a) \in known THEN 1 + D[g + 1][Leads(a)] ELSE 1
  <2> SUFFICES ASSUME NEW g \in 0..16, NEW a \in known
               PROVE  D[g][a] = IF Leads(a) = "none" THEN 0
                                ELSE IF Leads(a) \in known THEN 1 + D[g + 1][Leads(a)] ELSE 1
    OBVIOUS
  <2>1. D[g] = Deep(state, D, g) /\ ~(g > 16)
    BY <1>1
  <2> QED
    BY <2>1 DEF Deep
<1>3. \A a \in known : D[17][a] = 0
  <2>1. D[17] = Deep(state, D, 17) /\ 17 > 16
    BY <1>1
  <2> QED
    BY <2>1 DEF Deep
<1>4. 0 \in S
  <2>1. ASSUME NEW a \in known
        PROVE  D[16][a] \in Nat /\ D[17][a] \in Nat /\ ~(D[17][a] < 0)
    <3>1. Leads(a) \in known => D[17][Leads(a)] = 0
      BY <1>3
    <3> HIDE DEF known
    <3>2. D[16][a] = IF Leads(a) = "none" THEN 0
                     ELSE IF Leads(a) \in known THEN 1 + D[17][Leads(a)] ELSE 1
      BY <1>2
    <3>3. D[16][a] = 0 \/ D[16][a] = 1
      BY <3>1, <3>2
    <3>4. D[17][a] = 0
      BY <1>3
    <3> QED
      BY <3>3, <3>4
  <2>2. Level(16)
    BY <2>1
  <2> QED
    BY <2>2
<1>5. ASSUME NEW k \in Nat, k \in S PROVE k + 1 \in S
  <2> SUFFICES ASSUME k + 1 <= 16 PROVE Level(16 - (k + 1))
    OBVIOUS
  <2> DEFINE g == 16 - (k + 1)
  <2>1. g \in 0..15 /\ g + 1 = 16 - k /\ g + 1 \in 0..16
    OBVIOUS
  <2>2. Level(g + 1)
    BY <1>5, <2>1
  <2> HIDE DEF g
  <2>3. ASSUME NEW a \in known
        PROVE  /\ D[g][a] \in Nat /\ D[g + 1][a] \in Nat
               /\ D[g + 1][a] < 16 - g => D[g][a] = D[g + 1][a]
    <3> DEFINE p == Leads(a)
    <3>1. D[g][a] = IF p = "none" THEN 0 ELSE IF p \in known THEN 1 + D[g + 1][p] ELSE 1
      BY <1>2, <2>1
    <3>2. D[g + 1][a] = IF p = "none" THEN 0 ELSE IF p \in known THEN 1 + D[g + 2][p] ELSE 1
      <4>1. (g + 1) + 1 = g + 2
        BY <2>1
      <4> QED
        BY <1>2, <2>1, <4>1
    <3>3. p \in known => /\ D[g + 1][p] \in Nat /\ D[g + 2][p] \in Nat
                         /\ D[g + 2][p] < 16 - (g + 1) => D[g + 1][p] = D[g + 2][p]
      <4>1. (g + 1) + 1 = g + 2
        BY <2>1
      <4> QED
        BY <2>2, <4>1
    <3> HIDE DEF p, known
    <3>4. CASE p = "none"
      BY <3>1, <3>2, <3>4
    <3>5. CASE p # "none" /\ p \notin known
      BY <3>1, <3>2, <3>5
    <3>6. CASE p # "none" /\ p \in known
      <4>1. D[g][a] = 1 + D[g + 1][p] /\ D[g + 1][a] = 1 + D[g + 2][p]
        BY <3>1, <3>2, <3>6
      <4> QED
        BY <2>1, <3>3, <3>6, <4>1
    <3> QED
      BY <3>4, <3>5, <3>6
  <2> QED
    BY <2>3 DEF g
<1> HIDE DEF S
<1>6. 16 \in S
  BY <1>4, <1>5, CountingUp
<1>7. Level(0)
  BY <1>6 DEF S
<1>8. /\ D[0][x] \in Nat /\ D[1][x] \in Nat
      /\ D[1][x] < 16 => D[0][x] = D[1][x]
  <2>1. 0 + 1 = 1 /\ 16 - 0 = 16
    OBVIOUS
  <2> QED
    BY <1>7, <2>1
<1> QED
  BY <1>8 DEF D

LEMMA TreeIsNested ==
  ASSUME NEW state, NEW s, "none" \notin DOMAIN state.agents
  PROVE  Nested(state, Views!agentTree(state, s))
<1> DEFINE tree == Views!agentTree(state, s)
           D == DepthsOf(state)
<1>1. DOMAIN tree = DOMAIN state.agents /\ \A a \in DOMAIN state.agents : tree[a].depth = D[0][a]
  BY DEF Views!agentTree, DepthsOf
<1>2. D[0] = Deep(state, D, 0)
  BY DepthsStep
<1>3. \A x \in DOMAIN state.agents : /\ D[0][x] \in Nat /\ D[1][x] \in Nat
                                     /\ D[1][x] < 16 => D[0][x] = D[1][x]
  BY DepthsAreLevel
<1> HIDE DEF tree, D
<1>4. ASSUME NEW a \in DOMAIN tree, state.agents[a].parent \in DOMAIN tree, tree[a].depth <= 16
      PROVE  tree[a].depth = tree[state.agents[a].parent].depth + 1
  <2> DEFINE p == state.agents[a].parent
  <2>1. p \in DOMAIN state.agents /\ p # "none" /\ a \in DOMAIN state.agents
    BY <1>1, <1>4
  <2>2. D[0][a] = 1 + D[1][p]
    <3>1. Deep(state, D, 0)[a] = 1 + D[0 + 1][p]
      BY <2>1 DEF Deep
    <3>2. 0 + 1 = 1
      OBVIOUS
    <3> QED
      BY <1>2, <3>1, <3>2
  <2>3. tree[a].depth = D[0][a] /\ tree[p].depth = D[0][p]
    BY <1>1, <2>1
  <2>4. D[0][p] \in Nat /\ D[1][p] \in Nat /\ (D[1][p] < 16 => D[0][p] = D[1][p])
    BY <1>3, <2>1
  <2> HIDE DEF p
  <2>5. tree[p].depth = D[1][p]
    BY <1>4, <2>2, <2>3, <2>4
  <2> QED
    BY <2>2, <2>3, <2>4, <2>5 DEF p
<1> QED
  BY <1>4 DEF Nested, tree

LEMMA ViewsEnds ==
  ASSUME NEW S, S \subseteq Nat, S # {}
  PROVE  /\ Views!First(S) \in S
         /\ IsFiniteSet(S) => Views!Latest(S) \in S
<1>1. Views!First(S) = Min(S)
  BY DEF Min, Views!Min, Views!First
<1>2. Views!Latest(S) = Max(S)
  BY DEF Max, Views!Max, Views!Latest
<1> QED
  BY <1>1, <1>2, LeastOf, GreatestOf

LEMMA ViewsTypes ==
  ASSUME NEW s, IsStream(s), NEW T
  PROVE  /\ Views!ofType(s, T) \subseteq 1..Len(s)
         /\ Views!ofType(s, T) \subseteq Nat \ {0}
         /\ IsFiniteSet(Views!ofType(s, T))
         /\ \A n : n \in Views!ofType(s, T) <=> n \in 1..Len(s) /\ s[n].type \in T
<1>1. Views!ofType(s, T) \subseteq 1..Len(s) /\ DOMAIN s = 1..Len(s) /\ Len(s) \in Nat
  BY StreamParts DEF Views!ofType
<1>2. IsFiniteSet(1..Len(s))
  BY <1>1, FS_Interval
<1>3. IsFiniteSet(Views!ofType(s, T))
  BY <1>1, <1>2, FS_Subset
<1> QED
  BY <1>1, <1>3 DEF Views!ofType

(* A panel leads to the opening of its incident, a milestone reached to the
   event that reached it. *)
LEMMA PanelsAreHomed == ASSUME IsStream(stream) PROVE Homed(State, Views!incidentViews(State, stream))
<1> DEFINE state == State
           s == stream
           panels == Views!incidentViews(state, s)
           Openings(id) == {n \in Views!ofType(s, {"incident.opened"}) :
                              s[n].detail = state.incidents[id].class}
<1>1. Len(s) \in Nat /\ DOMAIN s = 1..Len(s) /\ Reached(s, Len(s)) /\ state = project(s, Len(s))
  BY StreamParts, AlwaysReached DEF State
<1>2. \A id \in DOMAIN state.incidents :
        \E k \in 1..Len(s) : s[k].type = "incident.opened" /\ s[k].ref = id
  BY <1>1 DEF Reached
<1>3. DOMAIN panels = DOMAIN state.incidents
      /\ \A id \in DOMAIN state.incidents : panels[id].opened = Views!First(Openings(id))
  BY DEF Views!incidentViews
<1>4. \A n : n \in Views!ofType(s, {"incident.opened"})
               <=> n \in 1..Len(s) /\ s[n].type = "incident.opened"
  BY ViewsTypes
<1> HIDE DEF state, panels
<1>5. ASSUME NEW id \in DOMAIN panels,
             \A n \in DOMAIN s : s[n].type = "incident.opened" =>
               (s[n].detail = state.incidents[id].class <=> s[n].ref = id)
      PROVE  panels[id].opened # 0 /\ s[panels[id].opened].ref = id
  <2> DEFINE O == Openings(id)
             n == panels[id].opened
  <2>1. PICK k \in 1..Len(s) : s[k].type = "incident.opened" /\ s[k].ref = id
    BY <1>2, <1>3, <1>5
  <2>2. k \in O
    BY <1>1, <1>4, <1>5, <2>1
  <2>3. O \subseteq Nat /\ \A m \in O : m \in 1..Len(s) /\ m # 0 /\ s[m].type = "incident.opened"
                                        /\ s[m].detail = state.incidents[id].class
    BY <1>1, <1>4
  <2>4. n = Views!First(O)
    BY <1>3, <1>5
  <2> HIDE DEF O, n
  <2>5. n \in O
    BY <2>2, <2>3, <2>4, ViewsEnds
  <2>6. n # 0 /\ s[n].ref = id
    BY <1>1, <1>5, <2>3, <2>5
  <2> QED
    BY <2>6 DEF n
<1> QED
  BY <1>5 DEF Homed, panels, state

LEMMA RailIsRailed == ASSUME IsStream(stream) PROVE Railed(Views!caseRail(State, stream))
<1> DEFINE state == State
           s == stream
           rail == Views!caseRail(state, s)
           Entries(m) == {n \in Views!ofType(s, {"case.milestone_changed"}) : s[n].detail = m}
<1>1. Len(s) \in Nat /\ DOMAIN s = 1..Len(s) /\ Reached(s, Len(s)) /\ state = project(s, Len(s))
  BY StreamParts, AlwaysReached DEF State
<1>2. \A m \in CASE_MILESTONES : m = state.milestone \/ m \in state.completed =>
        \E k \in 1..Len(s) : s[k].type = "case.milestone_changed" /\ s[k].detail = m
  BY <1>1 DEF Reached
<1>3. CASE_MILESTONES = Views!CASE_MILESTONES
  BY DEF CASE_MILESTONES, Views!CASE_MILESTONES
<1>4. DOMAIN rail = CASE_MILESTONES
      /\ \A m \in CASE_MILESTONES : rail[m].at = Views!First(Entries(m))
  BY <1>3 DEF Views!caseRail
<1>5. \A m \in CASE_MILESTONES :
        m # state.milestone /\ m \notin state.completed => rail[m].state = "pending"
  BY <1>3 DEF Views!caseRail
<1>6. \A n : n \in Views!ofType(s, {"case.milestone_changed"})
               <=> n \in 1..Len(s) /\ s[n].type = "case.milestone_changed"
  BY ViewsTypes
<1> HIDE DEF state, rail
<1>7. ASSUME NEW m \in DOMAIN rail, rail[m].state # "pending" PROVE rail[m].at # 0
  <2> DEFINE E == Entries(m)
  <2>1. PICK k \in 1..Len(s) : s[k].type = "case.milestone_changed" /\ s[k].detail = m
    BY <1>2, <1>4, <1>5, <1>7
  <2>2. k \in E
    BY <1>6, <2>1
  <2>3. E \subseteq Nat /\ 0 \notin E
    BY <1>1, <1>6
  <2>4. rail[m].at = Views!First(E)
    BY <1>4, <1>7
  <2> HIDE DEF E
  <2> QED
    BY <2>2, <2>3, <2>4, ViewsEnds
<1> QED
  BY <1>7 DEF Railed, rail, state

LEMMA AppendedIsStream ==
  ASSUME NEW s, IsStream(s), NEW x
  PROVE  LET t == Append(s, x)
         IN  /\ IsStream(t) /\ Len(t) = Len(s) + 1 /\ t[Len(s) + 1] = x
             /\ \A n \in 1..Len(s) : t[n] = s[n]
<1> DEFINE S == {s[n] : n \in DOMAIN s} \cup {x}
           t == Append(s, x)
<1>1. s \in Seq(S) /\ Len(s) \in Nat
  BY StreamParts DEF IsStream
<1> HIDE DEF S
<1>2. x \in S
  BY DEF S
<1>3. t \in Seq(S) /\ Len(t) = Len(s) + 1 /\ t[Len(s) + 1] = x
      /\ \A n \in 1..Len(s) : t[n] = s[n]
  BY <1>1, <1>2
<1> HIDE DEF t
<1>4. IsStream(t)
  BY <1>3 DEF IsStream
<1> QED
  BY <1>3, <1>4 DEF t

(* An event of the scene: what its lines draw, and an entry that counts
   them. *)
LEMMA CompileDraws ==
  ASSUME NEW s, DOMAIN s = SceneFields, NEW e, NEW n
  PROVE  LET t == Scene!Compile(s, e, n)
             l == Scene!Lines(s, e, n)
         IN  /\ DOMAIN t = SceneFields
             /\ t.slots = l.slots /\ t.nodes = l.nodes /\ t.spawns = l.spawns /\ t.pending = l.pending
             /\ t.entries = Append(s.entries, EntryOf(s, l))
<1> DEFINE l == Scene!Lines(s, e, n)
           t == Scene!Compile(s, e, n)
           done == Scene!Checked(l, e, n)
           new == [start |-> Len(s.slots), count |-> Len(done.slots) - Len(s.slots)]
<1>1. DOMAIN l = SceneFields /\ l.entries = s.entries
  BY LinesDraw DEF Changes, Drawn, SceneFields
<1>2. \E b, d, v : done = [l EXCEPT !.blocked = b, !.denied = d, !.violations = v]
  BY DEF Scene!Checked
<1>3. t = [done EXCEPT !.entries = Append(@, new)]
  BY DEF Scene!Compile
<1> HIDE DEF l, done, t, new
<1>4. /\ DOMAIN done = SceneFields /\ done.slots = l.slots /\ done.nodes = l.nodes
      /\ done.spawns = l.spawns /\ done.pending = l.pending /\ done.entries = l.entries
  BY <1>1, <1>2 DEF SceneFields
<1>5. /\ DOMAIN t = SceneFields /\ t.slots = done.slots /\ t.nodes = done.nodes
      /\ t.spawns = done.spawns /\ t.pending = done.pending /\ t.entries = Append(done.entries, new)
  BY <1>3, <1>4 DEF SceneFields
<1>6. new = EntryOf(s, l)
  BY <1>4 DEF new, EntryOf
<1> QED
  BY <1>1, <1>4, <1>5, <1>6 DEF l, t

LEMMA AlwaysEntered == ASSUME NEW s, IsStream(s) PROVE \A k \in Nat : k <= Len(s) => Entered(s, k)
<1> DEFINE S == {k \in Nat : k <= Len(s) => Entered(s, k)}
<1>1. 0 \in S
  <2>1. DOMAIN Scene!Blank = SceneFields /\ Scene!Blank.entries = <<>>
    BY DEF Scene!Blank, SceneFields
  <2>2. IsStream(<<>>) /\ Len(<<>>) = 0
    BY DEF IsStream
  <2> QED
    BY <2>1, <2>2, ScenesStep DEF Entered
<1>2. ASSUME NEW k \in Nat, k \in S PROVE k + 1 \in S
  <2> SUFFICES ASSUME k + 1 <= Len(s) PROVE Entered(s, k + 1)
    OBVIOUS
  <2> DEFINE p == ScenesOf(s)[k]
             q == ScenesOf(s)[k + 1]
             e == s[k + 1]
             l == Scene!Lines(p, e, k + 1)
             new == EntryOf(p, l)
  <2>1. Len(s) \in Nat /\ k <= Len(s) /\ k + 1 \in 1..Len(s) /\ (k + 1) - 1 = k
    BY StreamParts
  <2>2. q = Scene!Compile(p, e, k + 1)
    BY <2>1, ScenesStep
  <2>3. DOMAIN p = SceneFields /\ IsStream(p.entries) /\ Len(p.entries) = k
    BY <1>2, <2>1 DEF Entered
  <2> DEFINE c == Scene!Compile(p, e, k + 1)
  <2> HIDE DEF p, q
  <2>4. DOMAIN c = SceneFields /\ c.entries = Append(p.entries, new)
    BY <2>3, CompileDraws
  <2> HIDE DEF c, new
  <2>5. DOMAIN q = SceneFields /\ q.entries = Append(p.entries, new)
    BY <2>2, <2>4 DEF c
  <2>6. IsStream(Append(p.entries, new)) /\ Len(Append(p.entries, new)) = k + 1
    BY <2>3, AppendedIsStream
  <2> QED
    BY <2>5, <2>6 DEF Entered, q
<1> HIDE DEF S
<1>3. \A k \in Nat : k \in S
  BY <1>1, <1>2, CountingUp
<1> QED
  BY <1>3 DEF S

(* Where a phase of the walkthrough stops there is an event. *)
LEMMA PhasesAreEvents ==
  ASSUME NEW s, IsStream(s), NEW entries, NEW n \in Views!demoPhases(s, entries)
  PROVE  n \in 1..Len(s) /\ entries[n].count > 0
<1> DEFINE Lands(x) == x = 0 \/ x \in 1..Len(s)
<1>1. \A S : Views!First(S) = IF S = {} THEN 0 ELSE Views!Min(S)
  BY DEF Views!First
<1>2. \A S : Views!Latest(S) = IF S = {} THEN 0 ELSE Views!Max(S)
  BY DEF Views!Latest
<1>3. ASSUME NEW S, NEW T, S \subseteq Views!ofType(s, T)
      PROVE  Lands(Views!First(S)) /\ Lands(Views!Latest(S))
  <2>1. S \subseteq 1..Len(s) /\ S \subseteq Nat /\ IsFiniteSet(S)
    BY <1>3, ViewsTypes, FS_Subset
  <2>2. CASE S = {}
    BY <1>1, <1>2, <2>2
  <2>3. CASE S # {}
    BY <2>1, <2>3, ViewsEnds
  <2> QED
    BY <2>2, <2>3
<1>4. \A T : Lands(Views!First(Views!ofType(s, T))) /\ Lands(Views!Latest(Views!ofType(s, T)))
  BY <1>3
<1> DEFINE resumed == Views!First({m \in Views!ofType(s, {"runtime.resumed"}) :
                                     s[m].detail = "simulated day"})
           incident == Views!First({m \in Views!ofType(s, {"incident.opened"}) :
                                     s[m].under # "advisory"})
<1>5. Lands(resumed) /\ Lands(incident)
  BY <1>3
<1> DEFINE first(T) == Views!First(Views!ofType(s, T))
           last(T) == Views!Latest(Views!ofType(s, T))
           Or(x, y) == IF x # 0 THEN x ELSE y
           anchors == {first({type}) : type \in {"case.created", "memory.written", "runtime.waiting",
                                            "armor.blocked", "gateway.routed", "tool.failed",
                                            "policy.evaluated", "intervention.proposed",
                                            "human_escalation.opened"}}
                 \cup {resumed,
                       Or(incident, first({"incident.opened"})),
                       Or(first({"identity.denied"}), first({"identity.allowed"})),
                       Or(last({"runtime.completed"}), last({"runtime.failed"}))}
<1>6. n \in anchors \ {0} /\ entries[n].count > 0
  BY DEF Views!demoPhases
<1>7. \A x, y : Lands(x) /\ Lands(y) => Lands(Or(x, y))
  OBVIOUS
<1>8. \A T : Lands(first(T)) /\ Lands(last(T))
  BY <1>4
<1> HIDE DEF resumed, incident, first, last, Lands, Or
<1>9. Lands(n)
  BY <1>5, <1>6, <1>7, <1>8
<1>10. n # 0
  BY <1>6
<1> QED
  BY <1>6, <1>9, <1>10 DEF Lands

LEMMA PhasesAreWalked ==
  ASSUME IsStream(stream) PROVE Walked(Scene!compileZoetropeScene(stream).entries)
<1> DEFINE last == ScenesOf(stream)[Len(stream)]
           entries == Scene!compileZoetropeScene(stream).entries
<1>1. Len(stream) \in Nat /\ Entered(stream, Len(stream))
  BY StreamParts, AlwaysEntered
<1>2. DOMAIN last = SceneFields /\ IsStream(last.entries) /\ Len(last.entries) = Len(stream)
  BY <1>1 DEF Entered
<1>3. \E v : Scene!compileZoetropeScene(stream) = [last EXCEPT !.violations = v]
  <2> HIDE DEF last
  <2>1. \E v : [last EXCEPT !.violations = @ \cup
                 {last.pending[c].origin : c \in {d \in DOMAIN last.pending :
                    last.pending[d].tool = Scene!SPAWN_TOOL /\ ~last.pending[d].resolved}}]
               = [last EXCEPT !.violations = v]
    OBVIOUS
  <2> QED
    BY <2>1, CompiledScene DEF last
<1> HIDE DEF last
<1>4. entries = last.entries
  BY <1>2, <1>3 DEF SceneFields
<1>5. DOMAIN entries = 1..Len(stream)
  BY <1>2, <1>4, StreamParts
<1> HIDE DEF entries
<1>6. ASSUME NEW n \in Views!demoPhases(stream, entries)
      PROVE  Scene!manifestEntryForCaseSequence(entries, n) = n
  <2> DEFINE Reach == {m \in Scene!Visible(entries) : m <= n}
  <2>1. n \in 1..Len(stream) /\ entries[n].count > 0
    BY <1>6, PhasesAreEvents
  <2>2. n \in Reach /\ \A m \in Reach : m \in 1..Len(stream) /\ m <= n
    BY <1>1, <1>5, <2>1 DEF Scene!Visible
  <2>3. Scene!manifestEntryForCaseSequence(entries, n) = Scene!Latest(Reach)
    BY <2>2 DEF Scene!manifestEntryForCaseSequence
  <2> HIDE DEF Reach
  <2>4. Scene!Latest(Reach) = CHOOSE k \in Reach : \A m \in Reach : m <= k
    BY <2>2 DEF Scene!Latest
  <2>5. ASSUME NEW k \in Reach, \A m \in Reach : m <= k PROVE k = n
    BY <1>1, <2>1, <2>2, <2>5
  <2> QED
    BY <2>2, <2>3, <2>4, <2>5
<1> QED
  BY <1>6 DEF Walked, entries

LEMMA PointersOfAStream == ASSUME IsStream(stream) PROVE PointersLandHome
<1>1. \A cursor \in DOMAIN stream :
        LET path == Story!enterpriseStory("loaded", stream).path
        IN  Inside(path, cursor, Story!activeStep(path, cursor))
  BY StreamParts, TourIsInside
<1>2. Nested(State, Views!agentTree(State, stream))
  <2>1. Reached(stream, Len(stream)) /\ State = project(stream, Len(stream))
    BY StreamParts, AlwaysReached DEF State
  <2>2. "none" \notin DOMAIN State.agents
    BY <2>1 DEF Reached
  <2> QED
    BY <2>2, TreeIsNested
<1>3. Homed(State, Views!incidentViews(State, stream))
  BY PanelsAreHomed
<1>4. Railed(Views!caseRail(State, stream))
  BY RailIsRailed
<1>5. Walked(Scene!compileZoetropeScene(stream).entries)
  BY PhasesAreWalked
<1> QED
  BY <1>1, <1>2, <1>3, <1>4, <1>5 DEF PointersLandHome, Landed

(* Every pointer of the pages leads to what it names: a step of the tour, a
   parent in the tree of agents, the panel of an incident, a milestone on
   the rail and a phase of the walkthrough, for every recording and however
   its events arrived. *)
THEOREM PointersLandHomeHolds == ASSUME CaseStreamAssumption PROVE Spec => []PointersLandHome
<1>1. Init => IsStream(stream)
  BY StreamFromTheStart
<1>2. IsStream(stream) /\ [Next]_vars => IsStream(stream)'
  BY StreamStep
<1>3. IsStream(stream) => PointersLandHome
  BY PointersOfAStream
<1> QED
  BY <1>1, <1>2, <1>3, PTL DEF Spec

----------------------------------------------------------------------------
(* The files of a scene. *)

LEMMA DrawsNothing == ASSUME NEW s, NEW F, Keeps(s, F) PROVE Draws(s, s, F)
<1>1. IsStream(s.slots)
  BY DEF Keeps
<1>2. Len(s.slots) \in Nat
  BY <1>1, StreamParts
<1> QED
  BY <1>2 DEF Draws, Lengthens, Continues

LEMMA DrawsTwice ==
  ASSUME NEW s, NEW t, NEW u, NEW F, Keeps(s, F), Draws(s, t, F), Draws(t, u, F)
  PROVE  Draws(s, u, F)
<1> DEFINE a == s.slots
           b == t.slots
           c == u.slots
<1>1. IsStream(a) /\ IsStream(b) /\ IsStream(c)
  BY DEF Keeps, Draws, Lengthens
<1>2. /\ Continues(a, b) /\ Continues(b, c)
      /\ \A n \in DOMAIN b : n \notin DOMAIN a => b[n].file \in F /\ b[n].item # "meta"
      /\ \A n \in DOMAIN c : n \notin DOMAIN b => c[n].file \in F /\ c[n].item # "meta"
  BY DEF Draws, Lengthens
<1>3. Keeps(u, F) /\ u.nodes = s.nodes
  BY DEF Draws, Lengthens
<1> HIDE DEF a, b, c
<1>4. /\ Len(a) \in Nat /\ Len(b) \in Nat /\ Len(c) \in Nat
      /\ DOMAIN a = 1..Len(a) /\ DOMAIN b = 1..Len(b) /\ DOMAIN c = 1..Len(c)
  BY <1>1, StreamParts
<1>5. Continues(a, c)
  BY <1>2, <1>4 DEF Continues
<1>6. ASSUME NEW n \in DOMAIN c, n \notin DOMAIN a PROVE c[n].file \in F /\ c[n].item # "meta"
  <2>1. CASE n \in DOMAIN b
    <3>1. c[n] = b[n]
      BY <1>2, <1>4, <2>1 DEF Continues
    <3> QED
      BY <1>2, <1>6, <2>1, <3>1
  <2>2. CASE n \notin DOMAIN b
    BY <1>2, <1>6, <2>2
  <2> QED
    BY <2>1, <2>2
<1> QED
  BY <1>3, <1>5, <1>6 DEF Draws, Lengthens, a, c

LEMMA EmitAppends ==
  ASSUME NEW s, DOMAIN s = SceneFields, IsStream(s.slots), NEW file, NEW item, NEW call
  PROVE  LET t == Scene!Emit(s, file, item, call)
         IN  /\ DOMAIN t = SceneFields /\ t.nodes = s.nodes /\ t.pending = s.pending
             /\ IsStream(t.slots) /\ Len(t.slots) = Len(s.slots) + 1 /\ Continues(s.slots, t.slots)
             /\ t.slots[Len(s.slots) + 1].file = file /\ t.slots[Len(s.slots) + 1].item = item
<1> DEFINE t == Scene!Emit(s, file, item, call)
           x == [file |-> file, item |-> item, call |-> call]
           a == s.slots
<1>1. DOMAIN t = SceneFields /\ t.nodes = s.nodes /\ t.pending = s.pending /\ t.slots = Append(a, x)
  BY DEF Scene!Emit, SceneFields
<1>2. x.file = file /\ x.item = item
  OBVIOUS
<1> HIDE DEF x
<1>3. IsStream(a) /\ Len(a) \in Nat
  BY StreamParts
<1> HIDE DEF a, t
<1> DEFINE b == Append(a, x)
<1>4. IsStream(b) /\ Len(b) = Len(a) + 1 /\ b[Len(a) + 1] = x /\ \A n \in 1..Len(a) : b[n] = a[n]
  BY <1>3, AppendedIsStream
<1> HIDE DEF b
<1>5. Len(a) <= Len(b)
  BY <1>3, <1>4
<1>6. Continues(a, b)
  BY <1>4, <1>5 DEF Continues
<1> QED
  BY <1>1, <1>2, <1>4, <1>6 DEF a, b, t

LEMMA EmitDraws ==
  ASSUME NEW s, NEW F, Keeps(s, F), NEW file \in F, NEW item, item # "meta", NEW call
  PROVE  Draws(s, Scene!Emit(s, file, item, call), F)
<1> DEFINE t == Scene!Emit(s, file, item, call)
           k == Len(s.slots)
<1>1. DOMAIN s = SceneFields /\ IsStream(s.slots)
  BY DEF Keeps
<1>2. /\ DOMAIN t = SceneFields /\ t.nodes = s.nodes /\ t.pending = s.pending
      /\ IsStream(t.slots) /\ Len(t.slots) = k + 1 /\ Continues(s.slots, t.slots)
      /\ t.slots[k + 1].file = file /\ t.slots[k + 1].item = item
  BY <1>1, EmitAppends
<1>3. k \in Nat /\ DOMAIN s.slots = 1..k /\ DOMAIN t.slots = 1..(k + 1)
  BY <1>1, <1>2, StreamParts
<1> HIDE DEF t, k
<1>4. Keeps(t, F)
  BY <1>2 DEF Keeps
<1>5. ASSUME NEW n \in DOMAIN t.slots, n \notin DOMAIN s.slots
      PROVE  t.slots[n].file \in F /\ t.slots[n].item # "meta"
  <2>1. n = k + 1
    BY <1>3, <1>5
  <2> QED
    BY <1>2, <2>1
<1> QED
  BY <1>2, <1>4, <1>5 DEF Draws, Lengthens, t

LEMMA RequestDraws ==
  ASSUME NEW s, NEW F, Keeps(s, F), NEW e, Scene!Node(s, e) \in F, NEW call, NEW tool,
         NEW node \in F, NEW n
  PROVE  Draws(s, Scene!Request(s, e, call, tool, node, n), F)
<1> DEFINE u == Scene!Emit(s, Scene!Node(s, e), "use", call)
           asked == [tool |-> tool, node |-> node, origin |-> n, resolved |-> FALSE]
           waits == [y \in DOMAIN u.pending \cup {call} |-> IF y = call THEN asked ELSE u.pending[y]]
           t == Scene!Request(s, e, call, tool, node, n)
<1>1. Draws(s, u, F)
  BY EmitDraws
<1>2. t = [u EXCEPT !.pending = waits]
  BY DEF Scene!Request, Scene!Put
<1>3. DOMAIN asked = {"tool", "node", "origin", "resolved"} /\ asked.node = node
  OBVIOUS
<1> HIDE DEF u, asked, t
<1>4. Keeps(u, F) /\ DOMAIN u = SceneFields
  BY <1>1 DEF Draws, Lengthens, Keeps
<1>5. DOMAIN waits = DOMAIN u.pending \cup {call}
      /\ \A y \in DOMAIN waits : waits[y] = asked \/ (y \in DOMAIN u.pending /\ waits[y] = u.pending[y])
  OBVIOUS
<1> HIDE DEF waits
<1>6. DOMAIN t = SceneFields /\ t.slots = u.slots /\ t.nodes = u.nodes /\ t.pending = waits
  BY <1>2, <1>4 DEF SceneFields
<1>7. Keeps(t, F)
  BY <1>3, <1>4, <1>5, <1>6 DEF Keeps
<1> QED
  BY <1>1, <1>6, <1>7 DEF Draws, Lengthens, t

LEMMA ResultDraws ==
  ASSUME NEW s, NEW F, Keeps(s, F), NEW e, Scene!Node(s, e) \in F, NEW call
  PROVE  Draws(s, Scene!Result(s, e, call), F)
<1>1. CASE call \notin DOMAIN s.pending
  <2>1. Scene!Result(s, e, call) = Scene!Emit(s, Scene!Node(s, e), "result", call)
    BY <1>1 DEF Scene!Result
  <2> QED
    BY <2>1, EmitDraws
<1>2. CASE call \in DOMAIN s.pending
  <2> DEFINE node == s.pending[call].node
             u == Scene!Emit(s, node, "result", call)
             t == Scene!Result(s, e, call)
             asked == u.pending[call]
             waits == [u.pending EXCEPT ![call].resolved = TRUE]
  <2>1. node \in F
    BY <1>2 DEF Keeps
  <2> HIDE DEF node
  <2>2. Draws(s, u, F)
    BY <2>1, EmitDraws
  <2>3. t = [u EXCEPT !.pending = waits]
    BY <1>2 DEF Scene!Result, node
  <2> HIDE DEF u, t
  <2>4. Keeps(u, F) /\ DOMAIN u = SceneFields
    BY <2>2 DEF Draws, Lengthens, Keeps
  <2>5. DOMAIN waits = DOMAIN u.pending
        /\ \A y \in DOMAIN waits : DOMAIN waits[y] = DOMAIN u.pending[y]
                                   /\ (y # call => waits[y] = u.pending[y])
    OBVIOUS
  <2>6. call \in DOMAIN u.pending => waits[call].node = u.pending[call].node
    BY <2>4 DEF Keeps
  <2> HIDE DEF waits
  <2>7. DOMAIN t = SceneFields /\ t.slots = u.slots /\ t.nodes = u.nodes /\ t.pending = waits
    BY <2>3, <2>4 DEF SceneFields
  <2>8. Keeps(t, F)
    BY <2>4, <2>5, <2>6, <2>7 DEF Keeps
  <2> QED
    BY <2>2, <2>7, <2>8 DEF Draws, Lengthens, t
<1> QED
  BY <1>1, <1>2

LEMMA SpawnedAdds ==
  ASSUME NEW s, NEW F, Keeps(s, F), "main" \in F, NEW e, Scene!Node(s, e) \in F, NEW n,
         e.type = "agent.spawned"
  PROVE  Lengthens(s, Scene!Spawned(s, e, n), F) /\ Renames(s, Scene!Spawned(s, e, n), e)
<1> DEFINE t == Scene!Spawned(s, e, n)
<1>1. CASE e.parent = "none"
  <2> DEFINE u == Scene!Text(s, e)
  <2>1. Draws(s, u, F)
    BY EmitDraws DEF Scene!Text
  <2> HIDE DEF u
  <2>2. t = [u EXCEPT !.nodes = Scene!Put(u.nodes, e.agent, "main")]
    BY <1>1 DEF Scene!Spawned, u
  <2> HIDE DEF t
  <2>3. DOMAIN u = SceneFields /\ u.nodes = s.nodes /\ Keeps(u, F) /\ Lengthens(s, u, F)
    BY <2>1 DEF Draws, Lengthens, Keeps
  <2>4. DOMAIN t = SceneFields /\ t.slots = u.slots /\ t.pending = u.pending
        /\ t.nodes = Scene!Put(s.nodes, e.agent, "main")
    BY <2>2, <2>3 DEF SceneFields
  <2>5. Keeps(t, F)
    BY <2>3, <2>4 DEF Keeps
  <2>6. Lengthens(s, t, F)
    BY <2>3, <2>4, <2>5 DEF Lengthens
  <2>7. Renames(s, t, e)
    BY <1>1, <2>4 DEF Renames
  <2> QED
    BY <2>6, <2>7 DEF t
<1>2. CASE e.parent # "none"
  <2> DEFINE u == Scene!Request(s, e, <<"spawn", n>>, Scene!SPAWN_TOOL, "main", n)
             spawns == Scene!Put(u.spawns, e.agent, <<"spawn", n>>)
  <2>1. Draws(s, u, F)
    BY RequestDraws
  <2> HIDE DEF u
  <2>2. t = [u EXCEPT !.nodes = Scene!Put(u.nodes, e.agent, e.agent), !.spawns = spawns]
    BY <1>2 DEF Scene!Spawned, u
  <2> HIDE DEF t, spawns
  <2>3. DOMAIN u = SceneFields /\ u.nodes = s.nodes /\ Keeps(u, F) /\ Lengthens(s, u, F)
    BY <2>1 DEF Draws, Lengthens, Keeps
  <2>4. DOMAIN t = SceneFields /\ t.slots = u.slots /\ t.pending = u.pending
        /\ t.nodes = Scene!Put(s.nodes, e.agent, e.agent)
    BY <2>2, <2>3 DEF SceneFields
  <2>5. Keeps(t, F)
    BY <2>3, <2>4 DEF Keeps
  <2>6. Lengthens(s, t, F)
    BY <2>3, <2>4, <2>5 DEF Lengthens
  <2>7. Renames(s, t, e)
    BY <1>2, <2>4 DEF Renames
  <2> QED
    BY <2>6, <2>7 DEF t
<1> QED
  BY <1>1, <1>2

(* A later scene knows the node of an event as the earlier one did. *)
LEMMA NodeStays ==
  ASSUME NEW s, NEW t, NEW e, t.nodes = s.nodes PROVE Scene!Node(t, e) = Scene!Node(s, e)
BY DEF Scene!Node

LEMMA DecidedDraws ==
  ASSUME NEW s, NEW F, Keeps(s, F), NEW e, Scene!Node(s, e) \in F, NEW n
  PROVE  Draws(s, Scene!Decided(s, e, n), F)
<1> DEFINE tool == Scene!PLATFORM_TOOL[e.type]
           call == <<"plat", n>>
           u == Scene!Request(s, e, call, tool, Scene!Node(s, e), n)
           chip == Scene!Result(u, e, call)
           named == Scene!Named(e)
<1>1. Draws(s, u, F)
  BY RequestDraws
<1> HIDE DEF u, tool, call
<1>2. Keeps(u, F) /\ Scene!Node(u, e) \in F
  BY <1>1, NodeStays DEF Draws, Lengthens
<1>3. Draws(u, chip, F)
  BY <1>2, ResultDraws
<1>4. Draws(s, chip, F)
  BY <1>1, <1>3, DrawsTwice
<1> HIDE DEF chip
<1>5. Keeps(chip, F) /\ Scene!Node(chip, e) \in F
  BY <1>4, NodeStays DEF Draws, Lengthens
<1> HIDE DEF named
<1>6. Draws(chip, Scene!Result(chip, e, named), F)
  BY <1>5, ResultDraws
<1>7. Draws(s, Scene!Result(chip, e, named), F)
  BY <1>4, <1>6, DrawsTwice
<1>8. Draws(s, Scene!Result(s, e, named), F)
  BY ResultDraws
<1>9. \/ Scene!Decided(s, e, n) = Scene!Result(s, e, named)
      \/ Scene!Decided(s, e, n) = Scene!Result(chip, e, named)
      \/ Scene!Decided(s, e, n) = chip
  BY DEF Scene!Decided, named, chip, u, tool, call
<1> QED
  BY <1>4, <1>7, <1>8, <1>9

LEMMA EndedDraws ==
  ASSUME NEW s, NEW F, Keeps(s, F), NEW e, Scene!Node(s, e) \in F
  PROVE  Draws(s, Scene!Ended(s, e), F)
<1> DEFINE u == Scene!Text(s, e)
           call == s.spawns[e.agent]
<1>1. Draws(s, u, F)
  BY EmitDraws DEF Scene!Text
<1> HIDE DEF u, call
<1>2. Keeps(u, F) /\ Scene!Node(u, e) \in F
  BY <1>1, NodeStays DEF Draws, Lengthens
<1>3. Draws(u, Scene!Result(u, e, call), F)
  BY <1>2, ResultDraws
<1>4. Draws(s, Scene!Result(u, e, call), F)
  BY <1>1, <1>3, DrawsTwice
<1>5. Scene!Ended(s, e) = u \/ Scene!Ended(s, e) = Scene!Result(u, e, call)
  BY DEF Scene!Ended, u, call
<1> QED
  BY <1>1, <1>4, <1>5

(* An event whose file is among F, other than the one that announces an
   agent, adds lines of files among F. *)
LEMMA LinesAdd ==
  ASSUME NEW s, NEW F, Keeps(s, F), "main" \in F, NEW e, Scene!Node(s, e) \in F, NEW n,
         e.type # "agent.started" \/ Scene!Node(s, e) = "main"
  PROVE  Lengthens(s, Scene!Lines(s, e, n), F) /\ Renames(s, Scene!Lines(s, e, n), e)
<1> DEFINE l == Scene!Lines(s, e, n)
           call == Scene!CallOf(e, n)
           asked == Scene!Request(s, e, call, e.tool, Scene!Node(s, e), n)
           answered == Scene!Result(s, e, call)
<1>1. \/ l = s \/ l = Scene!Ended(s, e) \/ l = asked \/ l = answered
      \/ l = Scene!Decided(s, e, n) \/ l = Scene!Text(s, e)
      \/ e.type = "agent.spawned" /\ l = Scene!Spawned(s, e, n)
      \/ e.type = "agent.started" /\ l = Scene!Started(s, e)
  BY DEF Scene!Lines
<1>2. Draws(s, Scene!Text(s, e), F)
  BY EmitDraws DEF Scene!Text
<1>3. Draws(s, asked, F) /\ Draws(s, answered, F)
  BY RequestDraws, ResultDraws
<1>4. Draws(s, s, F) /\ Draws(s, Scene!Ended(s, e), F) /\ Draws(s, Scene!Decided(s, e, n), F)
  BY DrawsNothing, EndedDraws, DecidedDraws
<1>5. e.type = "agent.started" => Scene!Started(s, e) = Scene!Text(s, e)
  BY DEF Scene!Started
<1>6. \A t : Draws(s, t, F) => Lengthens(s, t, F) /\ Renames(s, t, e)
  BY DEF Draws, Renames
<1>7. e.type = "agent.spawned" =>
        Lengthens(s, Scene!Spawned(s, e, n), F) /\ Renames(s, Scene!Spawned(s, e, n), e)
  BY SpawnedAdds
<1> HIDE DEF l, asked, answered
<1>8. Lengthens(s, l, F) /\ Renames(s, l, e)
  BY <1>1, <1>2, <1>3, <1>4, <1>5, <1>6, <1>7
<1> QED
  BY <1>8 DEF l

(* The start of an agent that has a transcript announces it there. *)
LEMMA LinesAnnounce ==
  ASSUME NEW s, NEW F, Keeps(s, F), NEW e, NEW n,
         e.type = "agent.started", Scene!Node(s, e) # "main"
  PROVE  LET l == Scene!Lines(s, e, n)
             k == Len(s.slots)
         IN  /\ Keeps(l, F) /\ l.nodes = s.nodes /\ Continues(s.slots, l.slots)
             /\ Len(l.slots) = k + 2
             /\ l.slots[k + 1].file = Scene!Node(s, e) /\ l.slots[k + 1].item = "meta"
             /\ l.slots[k + 2].file = Scene!Node(s, e) /\ l.slots[k + 2].item = "text"
<1> DEFINE a == Scene!Node(s, e)
           k == Len(s.slots)
           u == Scene!Emit(s, a, "meta", <<>>)
           v == Scene!Emit(u, a, "text", <<>>)
           l == Scene!Lines(s, e, n)
<1>1. l = v
  <2>1. e.type \notin DOMAIN Scene!PLATFORM_TOOL
    BY DEF Scene!PLATFORM_TOOL
  <2>2. l = Scene!Started(s, e)
    BY <2>1 DEF Scene!Lines
  <2> QED
    BY <2>2 DEF Scene!Started
<1> HIDE DEF a
<1>2. DOMAIN s = SceneFields /\ IsStream(s.slots)
  BY DEF Keeps
<1>3. /\ DOMAIN u = SceneFields /\ u.nodes = s.nodes /\ u.pending = s.pending
      /\ IsStream(u.slots) /\ Len(u.slots) = k + 1 /\ Continues(s.slots, u.slots)
      /\ u.slots[k + 1].file = a /\ u.slots[k + 1].item = "meta"
  BY <1>2, EmitAppends
<1> HIDE DEF u
<1>4. /\ DOMAIN v = SceneFields /\ v.nodes = u.nodes /\ v.pending = u.pending
      /\ IsStream(v.slots) /\ Len(v.slots) = Len(u.slots) + 1 /\ Continues(u.slots, v.slots)
      /\ v.slots[Len(u.slots) + 1].file = a /\ v.slots[Len(u.slots) + 1].item = "text"
  BY <1>3, EmitAppends
<1>5. k \in Nat
  BY <1>2, StreamParts
<1> HIDE DEF v, k, l
<1>6. /\ Len(v.slots) = k + 2 /\ v.slots[k + 1] = u.slots[k + 1]
      /\ v.slots[k + 2].file = a /\ v.slots[k + 2].item = "text"
  <2>1. (k + 1) + 1 = k + 2 /\ k + 1 \in 1..(k + 1)
    BY <1>5
  <2> QED
    BY <1>3, <1>4, <2>1 DEF Continues
<1>7. Continues(s.slots, v.slots)
  <2>1. Len(s.slots) = k
    BY DEF k
  <2> HIDE DEF k
  <2>2. \A m \in 1..k : v.slots[m] = s.slots[m]
    <3> SUFFICES ASSUME NEW m \in 1..k PROVE v.slots[m] = s.slots[m]
      OBVIOUS
    <3>1. m \in 1..(k + 1)
      BY <1>5
    <3> QED
      BY <1>3, <1>4, <2>1, <3>1 DEF Continues
  <2>3. k <= k + 2
    BY <1>5
  <2> QED
    BY <1>6, <2>1, <2>2, <2>3 DEF Continues
<1>8. Keeps(v, F)
  BY <1>3, <1>4 DEF Keeps
<1>9. v.nodes = s.nodes
  BY <1>3, <1>4
<1> QED
  BY <1>1, <1>3, <1>6, <1>7, <1>8, <1>9 DEF a, k, l

LEMMA AnnouncedAre ==
  ASSUME NEW c, NEW f
  PROVE  f \in Scene!Announced(c) <=>
           \E n \in DOMAIN c.slots : c.slots[n].item = "meta" /\ c.slots[n].file = f
BY DEF Scene!Announced

LEMMA FilesAlike ==
  ASSUME NEW l, NEW q, DOMAIN q = SceneFields, q.slots = l.slots, q.pending = l.pending, WellFiled(l)
  PROVE  WellFiled(q) /\ Scene!Announced(q) = Scene!Announced(l)
<1>1. Scene!Announced(q) = Scene!Announced(l)
  BY DEF Scene!Announced
<1>2. Open(q) = Open(l)
  BY <1>1 DEF Open
<1>3. Keeps(q, Open(q))
  BY <1>2 DEF Keeps, WellFiled
<1> QED
  BY <1>1, <1>2, <1>3 DEF WellFiled

LEMMA AddingFiles ==
  ASSUME NEW c, WellFiled(c), NEW t, Lengthens(c, t, Open(c))
  PROVE  WellFiled(t) /\ Scene!Announced(t) = Scene!Announced(c)
<1> DEFINE a == c.slots
           b == t.slots
           F == Open(c)
<1>1. /\ Keeps(t, F) /\ Continues(a, b) /\ IsStream(a) /\ IsStream(b)
      /\ \A n \in DOMAIN b : n \notin DOMAIN a => b[n].file \in F /\ b[n].item # "meta"
  BY DEF Lengthens, Keeps, WellFiled
<1>2. /\ \A n \in DOMAIN a : a[n].file \in F
      /\ \A n \in DOMAIN a : a[n].item = "meta" => a[n].file # "main"
      /\ \A n, m \in DOMAIN a :
           a[n].item = "meta" /\ a[m].item = "meta" /\ a[n].file = a[m].file => n = m
  BY DEF WellFiled
<1>3. /\ \A f : f \in Scene!Announced(c) <=> \E n \in DOMAIN a : a[n].item = "meta" /\ a[n].file = f
      /\ \A f : f \in Scene!Announced(t) <=> \E n \in DOMAIN b : b[n].item = "meta" /\ b[n].file = f
  BY AnnouncedAre
<1> HIDE DEF a, b, F
<1>4. \A n \in DOMAIN a : n \in DOMAIN b /\ b[n] = a[n]
  BY <1>1, StreamParts DEF Continues
<1>5. \A f : f \in Scene!Announced(t) <=> f \in Scene!Announced(c)
  BY <1>1, <1>3, <1>4
<1>6. Scene!Announced(t) = Scene!Announced(c)
  BY <1>5
<1>7. Open(t) = F
  BY <1>6 DEF Open, F
<1>8. \A n \in DOMAIN b : b[n].file \in F
  BY <1>1, <1>2, <1>4
<1>9. \A n \in DOMAIN b : b[n].item = "meta" => n \in DOMAIN a
  BY <1>1
<1>10. /\ \A n \in DOMAIN b : b[n].item = "meta" => b[n].file # "main"
       /\ \A n, m \in DOMAIN b :
            b[n].item = "meta" /\ b[m].item = "meta" /\ b[n].file = b[m].file => n = m
  BY <1>2, <1>4, <1>9
<1> QED
  BY <1>1, <1>6, <1>7, <1>8, <1>10 DEF WellFiled, b

LEMMA AnnouncingFiles ==
  ASSUME NEW c, WellFiled(c), NEW x, x # "main", x \notin Scene!Announced(c), NEW t,
         Keeps(t, Open(c)), Continues(c.slots, t.slots), Len(t.slots) = Len(c.slots) + 2,
         t.slots[Len(c.slots) + 1].file = x, t.slots[Len(c.slots) + 1].item = "meta",
         t.slots[Len(c.slots) + 2].file = x, t.slots[Len(c.slots) + 2].item = "text"
  PROVE  WellFiled(t) /\ Scene!Announced(t) = Scene!Announced(c) \cup {x}
<1> DEFINE a == c.slots
           b == t.slots
           F == Open(c)
           k == Len(a)
<1>1. /\ Keeps(t, F) /\ Continues(a, b) /\ IsStream(a) /\ IsStream(b) /\ Len(b) = k + 2
      /\ b[k + 1].file = x /\ b[k + 1].item = "meta" /\ b[k + 2].file = x /\ b[k + 2].item = "text"
  BY DEF Keeps, WellFiled
<1>2. /\ \A n \in DOMAIN a : a[n].file \in F
      /\ \A n \in DOMAIN a : a[n].item = "meta" => a[n].file # "main"
      /\ \A n, m \in DOMAIN a :
           a[n].item = "meta" /\ a[m].item = "meta" /\ a[n].file = a[m].file => n = m
  BY DEF WellFiled
<1>3. /\ \A f : f \in Scene!Announced(c) <=> \E n \in DOMAIN a : a[n].item = "meta" /\ a[n].file = f
      /\ \A f : f \in Scene!Announced(t) <=> \E n \in DOMAIN b : b[n].item = "meta" /\ b[n].file = f
  BY AnnouncedAre
<1> HIDE DEF a, b, F
<1>4. k \in Nat /\ DOMAIN a = 1..k /\ DOMAIN b = 1..(k + 2) /\ \A n \in 1..k : b[n] = a[n]
  BY <1>1, StreamParts DEF Continues
<1> HIDE DEF k
<1>5. \A n \in DOMAIN b : n \in DOMAIN a \/ n = k + 1 \/ n = k + 2
  BY <1>4
<1>6. \A n \in DOMAIN a : n \in DOMAIN b /\ b[n] = a[n]
  BY <1>4
<1>7. k + 1 \in DOMAIN b /\ k + 2 \in DOMAIN b
  BY <1>4
<1>8. \A n \in DOMAIN b : b[n].item = "meta" => n \in DOMAIN a \/ n = k + 1
  BY <1>1, <1>5
<1>9. \A f : f \in Scene!Announced(t) <=> f \in Scene!Announced(c) \/ f = x
  BY <1>1, <1>3, <1>6, <1>7, <1>8
<1>10. Scene!Announced(t) = Scene!Announced(c) \cup {x}
  BY <1>9
<1>11. Open(t) = F \cup {x}
  BY <1>10 DEF Open, F
<1>12. Keeps(t, Open(t))
  BY <1>1, <1>11 DEF Keeps
<1>13. \A n \in DOMAIN b : b[n].file \in Open(t)
  BY <1>1, <1>2, <1>5, <1>6, <1>11
<1>14. \A n \in DOMAIN a : a[n].item = "meta" => a[n].file # x
  BY <1>3
<1>15. /\ \A n \in DOMAIN b : b[n].item = "meta" => b[n].file # "main"
       /\ \A n, m \in DOMAIN b :
            b[n].item = "meta" /\ b[m].item = "meta" /\ b[n].file = b[m].file => n = m
  <2>1. \A n \in DOMAIN b : b[n].item = "meta" => b[n].file # "main"
    BY <1>1, <1>2, <1>6, <1>8
  <2>2. ASSUME NEW n \in DOMAIN b, NEW m \in DOMAIN b, b[n].item = "meta", b[m].item = "meta",
               b[n].file = b[m].file
        PROVE  n = m
    <3>1. CASE n \in DOMAIN a /\ m \in DOMAIN a
      BY <1>2, <1>6, <2>2, <3>1
    <3>2. CASE n \in DOMAIN a /\ m = k + 1
      BY <1>1, <1>6, <1>14, <2>2, <3>2
    <3>3. CASE n = k + 1 /\ m \in DOMAIN a
      BY <1>1, <1>6, <1>14, <2>2, <3>3
    <3>4. CASE n = k + 1 /\ m = k + 1
      BY <3>4
    <3> QED
      BY <1>8, <2>2, <3>1, <3>2, <3>3, <3>4
  <2> QED
    BY <2>1, <2>2
<1> QED
  BY <1>10, <1>12, <1>13, <1>15 DEF WellFiled, b

(* A renderer makes one item of every line that is well filed. *)
LEMMA ItemsOfFiles == ASSUME NEW c, WellFiled(c) PROVE Scene!TimelineItems(c) = Len(c.slots)
<1> DEFINE a == c.slots
           k == Len(a)
           A == Scene!Announced(c)
           Lines == {n \in DOMAIN a : a[n].file = "main" \/ (a[n].file \in A /\ a[n].item # "meta")}
           Metas == {n \in DOMAIN a : a[n].item = "meta"}
           f == [n \in Metas |-> a[n].file]
<1>1. /\ IsStream(a)
      /\ \A n \in DOMAIN a : a[n].file = "main" \/ a[n].file \in A
      /\ \A n \in DOMAIN a : a[n].item = "meta" => a[n].file # "main"
      /\ \A n, m \in DOMAIN a :
           a[n].item = "meta" /\ a[m].item = "meta" /\ a[n].file = a[m].file => n = m
  BY DEF WellFiled, Keeps, Open
<1>2. Scene!TimelineItems(c) = Cardinality(Lines) + Cardinality(A)
  <2>1. \A S : Scene!Cardinality(S) = Cardinality(S)
    BY DEF Cardinality, Scene!Cardinality
  <2>2. Scene!TimelineItems(c) = Scene!Cardinality(Lines) + Scene!Cardinality(A)
    BY DEF Scene!TimelineItems
  <2> QED
    BY <2>1, <2>2
<1>3. \A x : x \in A <=> \E n \in DOMAIN a : a[n].item = "meta" /\ a[n].file = x
  BY AnnouncedAre
<1> HIDE DEF a, A
<1>4. k \in Nat /\ DOMAIN a = 1..k
  BY <1>1, StreamParts
<1> HIDE DEF k
<1>5. IsFiniteSet(1..k) /\ Cardinality(1..k) = k
  <2>1. IsFiniteSet(1..k) /\ Cardinality(1..k) = IF 1 > k THEN 0 ELSE k - 1 + 1
    BY <1>4, FS_Interval
  <2> QED
    BY <1>4, <2>1
<1>6. Lines \cup Metas = 1..k /\ Lines \cap Metas = {}
  BY <1>1, <1>4
<1>7. IsFiniteSet(Lines) /\ IsFiniteSet(Metas)
  BY <1>4, <1>5, FS_Subset
<1>8. f \in [Metas -> A] /\ \A n, m \in Metas : f[n] = f[m] => n = m
  BY <1>1, <1>3
<1>9. \A x \in A : \E n \in Metas : f[n] = x
  BY <1>3
<1> HIDE DEF Lines, Metas, f
<1>10. f \in Bijection(Metas, A)
  BY <1>8, <1>9 DEF Bijection, Injection, Surjection, IsInjective
<1>11. ExistsBijection(Metas, A)
  BY <1>10 DEF ExistsBijection
<1>12. Cardinality(A) = Cardinality(Metas)
  BY <1>7, <1>11, FS_Bijection
<1>13. Cardinality(Lines \cup Metas)
         = Cardinality(Lines) + Cardinality(Metas) - Cardinality(Lines \cap Metas)
  BY <1>7, FS_Union
<1>14. Cardinality(Lines \cap Metas) = 0
  BY <1>6, FS_EmptySet
<1>15. Cardinality(Lines) \in Nat /\ Cardinality(Metas) \in Nat
  BY <1>7, FS_CardinalityType
<1>16. Cardinality(Lines) + Cardinality(A) = k
  <2>1. Cardinality(Lines \cup Metas) = k
    BY <1>5, <1>6
  <2> QED
    BY <1>4, <1>12, <1>13, <1>14, <1>15, <2>1
<1> QED
  BY <1>2, <1>16 DEF k, a

LEMMA IntroducedAre == ASSUME AgentsAreIntroduced PROVE Introduced(stream)
BY DEF AgentsAreIntroduced, Introduced, Bears, Starts

LEMMA FiledFromTheStart == ASSUME NEW s PROVE WellFiled(Scene!Blank) /\ Enrolled(s, 0, Scene!Blank)
                                               /\ Tiled(Scene!Blank, 0)
<1> DEFINE c == Scene!Blank
<1>1. /\ DOMAIN c = SceneFields /\ c.slots = <<>> /\ DOMAIN c.pending = {} /\ DOMAIN c.nodes = {}
  BY DEF Scene!Blank, Scene!Empty, SceneFields
<1> HIDE DEF c
<1>2. IsStream(<<>>) /\ Len(<<>>) = 0 /\ DOMAIN <<>> = {}
  BY DEF IsStream
<1>3. Scene!Announced(c) = {}
  BY <1>1, <1>2, AnnouncedAre
<1>4. WellFiled(c)
  BY <1>1, <1>2 DEF WellFiled, Keeps
<1>5. Enrolled(s, 0, c)
  BY <1>1, <1>3 DEF Enrolled
<1>6. Tiled(c, 0)
  BY <1>1, <1>2 DEF Tiled
<1> QED
  BY <1>4, <1>5, <1>6 DEF c

LEMMA TilesOn ==
  ASSUME NEW p, NEW k \in Nat, IsStream(p.entries), Len(p.entries) = k, Tiled(p, k),
         Len(p.slots) \in Nat, NEW l, Len(l.slots) \in Nat,
         NEW q, q.slots = l.slots, q.entries = Append(p.entries, EntryOf(p, l))
  PROVE  Tiled(q, k + 1)
<1> DEFINE x == EntryOf(p, l)
           a == p.entries
           b == q.entries
           EndOf(n) == IF n = 0 THEN 0 ELSE a[n].start + a[n].count
           Then(n) == IF n = 0 THEN 0 ELSE b[n].start + b[n].count
<1>1. x.start = Len(p.slots) /\ x.count = Len(l.slots) - Len(p.slots)
  BY DEF EntryOf
<1> HIDE DEF x
<1>2. b[k + 1] = x /\ \A n \in 1..k : b[n] = a[n]
  BY AppendedIsStream DEF x
<1>3. (\A n \in 1..k : a[n].start = EndOf(n - 1)) /\ Len(p.slots) = EndOf(k)
  BY DEF Tiled
<1> HIDE DEF a, b
<1>4. \A n \in 0..k : Then(n) = EndOf(n)
  BY <1>2
<1>5. ASSUME NEW n \in 1..(k + 1) PROVE b[n].start = Then(n - 1)
  <2>1. CASE n = k + 1
    <3>1. n - 1 = k /\ k \in 0..k
      BY <2>1
    <3> QED
      BY <1>1, <1>2, <1>3, <1>4, <2>1, <3>1
  <2>2. CASE n \in 1..k
    <3>1. n - 1 \in 0..k
      BY <2>2
    <3> HIDE DEF EndOf, Then
    <3> QED
      BY <1>2, <1>3, <1>4, <2>2, <3>1
  <2> QED
    BY <1>5, <2>1, <2>2
<1>6. Len(q.slots) = Then(k + 1)
  <2>1. k + 1 # 0 /\ x.start + x.count = Len(l.slots)
    BY <1>1
  <2>2. Then(k + 1) = x.start + x.count
    BY <1>2, <2>1
  <2> HIDE DEF Then
  <2> QED
    BY <2>1, <2>2
<1> QED
  BY <1>5, <1>6 DEF Tiled, b

(* The event of an agent not announced yet can only be its start. *)
LEMMA KnownAnnounces ==
  ASSUME NEW s, IsStream(s), Introduced(s), NEW k \in Nat, k + 1 <= Len(s), NEW p, Enrolled(s, k, p),
         NEW a, a = s[k + 1].agent, a \in DOMAIN p.nodes, p.nodes[a] # "main",
         a \notin Scene!Announced(p)
  PROVE  /\ s[k + 1].type = "agent.started"
         /\ \E j \in 1..k : Bears(s, j, a)
<1>1. PICK j \in 1..k : Bears(s, j, a) /\ \A m \in (j + 1)..k : s[m].agent # a
  BY DEF Enrolled, Idles
<1>2. /\ Len(s) \in Nat /\ j \in DOMAIN s /\ k + 1 \in DOMAIN s /\ j < k + 1 /\ (k + 1) - 1 = k
  BY StreamParts
<1>3. s[k + 1].type = "agent.started" \/ \E i \in (j + 1)..k : Starts(s, i, a)
  BY <1>1, <1>2 DEF Introduced
<1> QED
  BY <1>1, <1>3 DEF Starts

(* An announced agent does not start again. *)
LEMMA KnownStartsOnce ==
  ASSUME NEW s, IsStream(s), Introduced(s), NEW k \in Nat, k + 1 <= Len(s), NEW p, Enrolled(s, k, p),
         NEW a, a = s[k + 1].agent, a \in Scene!Announced(p)
  PROVE  s[k + 1].type # "agent.started"
<1>1. PICK j \in 1..k, m \in 1..k : j < m /\ Bears(s, j, a) /\ Starts(s, m, a)
  BY DEF Enrolled
<1>2. /\ Len(s) \in Nat /\ j \in DOMAIN s /\ k + 1 \in DOMAIN s /\ j < k + 1 /\ (k + 1) - 1 = k
      /\ m \in (j + 1)..k
  BY <1>1, StreamParts
<1>3. s[k + 1].type = "agent.started" => ~\E i \in (j + 1)..k : Starts(s, i, a)
  BY <1>1, <1>2 DEF Introduced
<1> QED
  BY <1>1, <1>2, <1>3

LEMMA KnownOnAnnouncing ==
  ASSUME NEW s, NEW k \in Nat, NEW p, Enrolled(s, k, p), NEW a, a = s[k + 1].agent,
         Starts(s, k + 1, a), NEW i \in 1..k, Bears(s, i, a),
         NEW q, q.nodes = p.nodes, Scene!Announced(q) = Scene!Announced(p) \cup {a}
  PROVE  Enrolled(s, k + 1, q)
<1>1. \A j \in 1..k : j \in 1..(k + 1)
  OBVIOUS
<1>2. k + 1 \in 1..(k + 1) /\ i < k + 1
  OBVIOUS
<1>3. ASSUME NEW b \in Scene!Announced(q)
      PROVE  \E j, m \in 1..(k + 1) : j < m /\ Bears(s, j, b) /\ Starts(s, m, b)
  <2>1. CASE b = a
    BY <1>1, <1>2, <2>1
  <2>2. CASE b \in Scene!Announced(p)
    BY <1>1, <2>2 DEF Enrolled
  <2> QED
    BY <1>3, <2>1, <2>2
<1>4. ASSUME NEW b \in DOMAIN q.nodes, q.nodes[b] # "main", b \notin Scene!Announced(q)
      PROVE  \E j \in 1..(k + 1) : Idles(s, k + 1, b, j)
  <2>1. PICK j \in 1..k : Idles(s, k, b, j)
    BY <1>4 DEF Enrolled
  <2>2. b # a
    BY <1>4
  <2>3. \A m \in (j + 1)..(k + 1) : m \in (j + 1)..k \/ m = k + 1
    OBVIOUS
  <2>4. Idles(s, k + 1, b, j)
    BY <2>1, <2>2, <2>3 DEF Idles
  <2> QED
    BY <1>1, <2>4
<1>5. \A b \in DOMAIN q.nodes : q.nodes[b] \in {"main", b}
  BY DEF Enrolled
<1> QED
  BY <1>3, <1>4, <1>5 DEF Enrolled

LEMMA KnownOnRenaming ==
  ASSUME NEW s, NEW k \in Nat, NEW p, Enrolled(s, k, p), NEW q, Renames(p, q, s[k + 1]),
         Scene!Announced(q) = Scene!Announced(p),
         LET a == s[k + 1].agent
         IN  a \in DOMAIN p.nodes /\ p.nodes[a] # "main" => a \in Scene!Announced(p)
  PROVE  Enrolled(s, k + 1, q)
<1> DEFINE a == s[k + 1].agent
<1>1. \A j \in 1..k : j \in 1..(k + 1)
  OBVIOUS
<1>2. \A b \in Scene!Announced(q) :
        \E j, m \in 1..(k + 1) : j < m /\ Bears(s, j, b) /\ Starts(s, m, b)
  BY <1>1 DEF Enrolled
<1>3. \/ q.nodes = p.nodes
      \/ q.nodes = Scene!Put(p.nodes, a, "main")
      \/ Bears(s, k + 1, a) /\ q.nodes = Scene!Put(p.nodes, a, a)
  BY DEF Renames, Bears
<1>4. \A f, v : /\ DOMAIN Scene!Put(f, a, v) = DOMAIN f \cup {a} /\ Scene!Put(f, a, v)[a] = v
                /\ \A b \in DOMAIN f : b # a => Scene!Put(f, a, v)[b] = f[b]
  BY DEF Scene!Put
<1>5. \A b \in DOMAIN p.nodes : p.nodes[b] \in {"main", b}
  BY DEF Enrolled
<1> HIDE DEF a
<1>6. ASSUME NEW b \in DOMAIN q.nodes
      PROVE  /\ q.nodes[b] \in {"main", b}
             /\ \/ b \in DOMAIN p.nodes /\ q.nodes[b] = p.nodes[b]
                \/ q.nodes[b] = "main"
                \/ b = a /\ Bears(s, k + 1, a)
  <2>1. CASE b = a
    BY <1>3, <1>4, <1>5, <1>6, <2>1
  <2>2. CASE b # a
    <3>1. b \in DOMAIN p.nodes /\ q.nodes[b] = p.nodes[b]
      <4>1. CASE q.nodes = p.nodes
        BY <1>6, <4>1
      <4>2. CASE q.nodes = Scene!Put(p.nodes, a, "main")
        <5>1. /\ DOMAIN q.nodes = DOMAIN p.nodes \cup {a}
              /\ \A d \in DOMAIN p.nodes : d # a => q.nodes[d] = p.nodes[d]
          BY <4>2 DEF Scene!Put
        <5> QED
          BY <1>6, <2>2, <5>1
      <4>3. CASE q.nodes = Scene!Put(p.nodes, a, a)
        <5>1. /\ DOMAIN q.nodes = DOMAIN p.nodes \cup {a}
              /\ \A d \in DOMAIN p.nodes : d # a => q.nodes[d] = p.nodes[d]
          BY <4>3 DEF Scene!Put
        <5> QED
          BY <1>6, <2>2, <5>1
      <4> QED
        BY <1>3, <4>1, <4>2, <4>3
    <3> QED
      BY <1>5, <3>1
  <2> QED
    BY <2>1, <2>2
<1>7. ASSUME NEW b \in DOMAIN q.nodes, q.nodes[b] # "main", b \notin Scene!Announced(q)
      PROVE  \E j \in 1..(k + 1) : Idles(s, k + 1, b, j)
  <2>1. CASE b = a /\ Bears(s, k + 1, a)
    <3>1. Idles(s, k + 1, b, k + 1)
      BY <2>1 DEF Idles
    <3>2. k + 1 \in 1..(k + 1)
      OBVIOUS
    <3> QED
      BY <3>1, <3>2
  <2>2. CASE b \in DOMAIN p.nodes /\ q.nodes[b] = p.nodes[b]
    <3>1. PICK j \in 1..k : Idles(s, k, b, j)
      BY <1>7, <2>2 DEF Enrolled
    <3>2. b # s[k + 1].agent
      BY <1>7, <2>2 DEF a
    <3>3. \A m \in (j + 1)..(k + 1) : m \in (j + 1)..k \/ m = k + 1
      OBVIOUS
    <3>4. Idles(s, k + 1, b, j)
      BY <3>1, <3>2, <3>3 DEF Idles
    <3> QED
      BY <1>1, <3>4
  <2> QED
    BY <1>6, <1>7, <2>1, <2>2
<1> QED
  BY <1>2, <1>6, <1>7 DEF Enrolled

LEMMA FiledStep ==
  ASSUME NEW s, IsStream(s), Introduced(s), NEW k \in Nat, k + 1 <= Len(s), Filed(s, k)
  PROVE  Filed(s, k + 1)
<1> DEFINE p == ScenesOf(s)[k]
           q == ScenesOf(s)[k + 1]
           e == s[k + 1]
           a == e.agent
           l == Scene!Lines(p, e, k + 1)
           c == Scene!Compile(p, e, k + 1)
<1>1. k \in Nat /\ k <= Len(s) /\ k + 1 \in 1..Len(s) /\ (k + 1) - 1 = k
  BY StreamParts
<1>2. q = c
  BY <1>1, ScenesStep
<1>3. /\ DOMAIN p = SceneFields /\ IsStream(p.entries) /\ Len(p.entries) = k
  BY <1>1, AlwaysEntered DEF Entered
<1>4. WellFiled(p) /\ Enrolled(s, k, p) /\ Tiled(p, k)
  BY DEF Filed
<1> HIDE DEF p, q
<1>5. /\ DOMAIN c = SceneFields /\ c.slots = l.slots /\ c.nodes = l.nodes /\ c.pending = l.pending
      /\ c.entries = Append(p.entries, EntryOf(p, l))
  BY <1>3, CompileDraws
<1> HIDE DEF c
<1>6. WellFiled(l) /\ Enrolled(s, k + 1, c)
  <2>1. Keeps(p, Open(p)) /\ "main" \in Open(p)
    BY <1>4 DEF WellFiled, Open
  <2>2. CASE a \in DOMAIN p.nodes /\ p.nodes[a] # "main" /\ a \notin Scene!Announced(p)
    <3>1. e.type = "agent.started" /\ \E j \in 1..k : Bears(s, j, a)
      BY <1>4, <2>2, KnownAnnounces
    <3>2. PICK i \in 1..k : Bears(s, i, a)
      BY <3>1
    <3>3. Scene!Node(p, e) = a /\ a # "main"
      BY <1>4, <2>2 DEF Enrolled, Scene!Node
    <3>4. /\ Keeps(l, Open(p)) /\ l.nodes = p.nodes /\ Continues(p.slots, l.slots)
          /\ Len(l.slots) = Len(p.slots) + 2
          /\ l.slots[Len(p.slots) + 1].file = a /\ l.slots[Len(p.slots) + 1].item = "meta"
          /\ l.slots[Len(p.slots) + 2].file = a /\ l.slots[Len(p.slots) + 2].item = "text"
      BY <2>1, <3>1, <3>3, LinesAnnounce
    <3>5. Starts(s, k + 1, a)
      BY <3>1 DEF Starts
    <3>6. a = s[k + 1].agent
      OBVIOUS
    <3> HIDE DEF l, a, e
    <3>7. WellFiled(l) /\ Scene!Announced(l) = Scene!Announced(p) \cup {a}
      BY <1>4, <2>2, <3>3, <3>4, AnnouncingFiles
    <3>8. Scene!Announced(c) = Scene!Announced(p) \cup {a}
      BY <1>5, <3>7, FilesAlike
    <3>9. c.nodes = p.nodes
      BY <1>5, <3>4
    <3>10. Enrolled(s, k + 1, c)
      BY <1>4, <3>2, <3>5, <3>6, <3>8, <3>9, KnownOnAnnouncing
    <3> QED
      BY <3>7, <3>10
  <2>3. CASE a \in DOMAIN p.nodes /\ p.nodes[a] # "main" => a \in Scene!Announced(p)
    <3>1. Scene!Node(p, e) \in Open(p)
      BY <1>4, <2>3 DEF Enrolled, Scene!Node, Open
    <3>2. e.type # "agent.started" \/ Scene!Node(p, e) = "main"
      <4>1. CASE a \in Scene!Announced(p)
        BY <1>4, <4>1, KnownStartsOnce
      <4>2. CASE a \notin Scene!Announced(p)
        BY <2>3, <4>2 DEF Scene!Node
      <4> QED
        BY <4>1, <4>2
    <3>3. Lengthens(p, l, Open(p)) /\ Renames(p, l, e)
      BY <2>1, <3>1, <3>2, LinesAdd
    <3> HIDE DEF l
    <3>4. WellFiled(l) /\ Scene!Announced(l) = Scene!Announced(p)
      BY <1>4, <3>3, AddingFiles
    <3>5. Scene!Announced(c) = Scene!Announced(p)
      BY <1>5, <3>4, FilesAlike
    <3>6. Renames(p, c, e)
      BY <1>5, <3>3 DEF Renames
    <3>7. Enrolled(s, k + 1, c)
      BY <1>4, <2>3, <3>5, <3>6, KnownOnRenaming
    <3> QED
      BY <3>4, <3>7
  <2> QED
    BY <2>2, <2>3
<1> HIDE DEF l
<1>7. WellFiled(c)
  BY <1>5, <1>6, FilesAlike
<1>8. Len(p.slots) \in Nat /\ Len(l.slots) \in Nat
  BY <1>4, <1>6, StreamParts DEF WellFiled, Keeps
<1>9. Tiled(c, k + 1)
  BY <1>3, <1>4, <1>5, <1>8, TilesOn
<1> QED
  BY <1>2, <1>6, <1>7, <1>9 DEF Filed, q

LEMMA AlwaysFiled ==
  ASSUME NEW s, IsStream(s), Introduced(s) PROVE \A k \in Nat : k <= Len(s) => Filed(s, k)
<1> DEFINE S == {k \in Nat : k <= Len(s) => Filed(s, k)}
<1>1. 0 \in S
  <2>1. ScenesOf(s)[0] = Scene!Blank
    BY ScenesStep
  <2>2. Filed(s, 0)
    BY <2>1, FiledFromTheStart DEF Filed
  <2> QED
    BY <2>2
<1>2. ASSUME NEW k \in Nat, k \in S PROVE k + 1 \in S
  <2>1. Len(s) \in Nat
    BY StreamParts
  <2>2. k + 1 <= Len(s) => k <= Len(s)
    BY <2>1
  <2>3. k + 1 <= Len(s) => Filed(s, k + 1)
    BY <1>2, <2>2, FiledStep
  <2> QED
    BY <2>3
<1> HIDE DEF S
<1>3. \A k \in Nat : k \in S
  BY <1>1, <1>2, CountingUp
<1> QED
  BY <1>3 DEF S

LEMMA ManifestOfAStream == ASSUME IsStream(stream) PROVE TimelineMatchesManifest
<1> SUFFICES ASSUME AgentsAreIntroduced
             PROVE  LET scene == Scene!compileZoetropeScene(stream)
                    IN Scene!validateRenderManifest(scene.entries, Scene!TimelineItems(scene)) = {}
  BY DEF TimelineMatchesManifest
<1> DEFINE scene == Scene!compileZoetropeScene(stream)
           last == ScenesOf(stream)[Len(stream)]
           k == Len(stream)
<1>1. k \in Nat /\ Introduced(stream)
  BY StreamParts, IntroducedAre
<1>2. /\ DOMAIN last = SceneFields /\ IsStream(last.entries) /\ Len(last.entries) = k
      /\ WellFiled(last) /\ Tiled(last, k)
  BY <1>1, AlwaysEntered, AlwaysFiled DEF Entered, Filed
<1>3. \E v : scene = [last EXCEPT !.violations = v]
  <2> HIDE DEF last
  <2>1. \E v : [last EXCEPT !.violations = @ \cup
                 {last.pending[c].origin : c \in {d \in DOMAIN last.pending :
                    last.pending[d].tool = Scene!SPAWN_TOOL /\ ~last.pending[d].resolved}}]
               = [last EXCEPT !.violations = v]
    OBVIOUS
  <2> QED
    BY <2>1, CompiledScene DEF last
<1> HIDE DEF last, scene
<1>4. DOMAIN scene = SceneFields /\ scene.entries = last.entries /\ scene.slots = last.slots
      /\ scene.pending = last.pending
  BY <1>2, <1>3 DEF SceneFields
<1>5. Scene!TimelineItems(scene) = Len(last.slots)
  BY <1>2, <1>4, FilesAlike, ItemsOfFiles
<1> DEFINE entries == last.entries
           EndOf(n) == IF n = 0 THEN 0 ELSE entries[n].start + entries[n].count
           Starting(n) == IF n = 1 THEN 0 ELSE entries[n - 1].start + entries[n - 1].count
           Holes == {n \in DOMAIN entries : entries[n].start # Starting(n)}
<1>6. (\A n \in 1..k : entries[n].start = EndOf(n - 1)) /\ Len(last.slots) = EndOf(k)
  BY <1>2 DEF Tiled
<1>7. DOMAIN entries = 1..k /\ Len(entries) = k
  BY <1>2, StreamParts
<1>8. Scene!validateRenderManifest(entries, Len(last.slots))
        = Holes \cup (IF Starting(Len(entries) + 1) = Len(last.slots) THEN {} ELSE {0})
  BY DEF Scene!validateRenderManifest
<1> HIDE DEF entries, k
<1>9. \A n \in 1..(k + 1) : Starting(n) = EndOf(n - 1)
  <2> SUFFICES ASSUME NEW n \in 1..(k + 1) PROVE Starting(n) = EndOf(n - 1)
    OBVIOUS
  <2>1. n = 1 <=> n - 1 = 0
    BY <1>1
  <2> QED
    BY <2>1
<1> HIDE DEF EndOf, Starting
<1>10. Holes = {}
  <2>1. \A n \in 1..k : n \in 1..(k + 1)
    BY <1>1
  <2> QED
    BY <1>6, <1>7, <1>9, <2>1
<1>11. Starting(Len(entries) + 1) = Len(last.slots)
  <2>1. k + 1 \in 1..(k + 1) /\ (k + 1) - 1 = k
    BY <1>1
  <2> QED
    BY <1>6, <1>7, <1>9, <2>1
<1>12. Scene!validateRenderManifest(entries, Len(last.slots)) = {}
  BY <1>8, <1>10, <1>11
<1> QED
  BY <1>4, <1>5, <1>12 DEF entries, scene

(* The manifest accounts for every item a renderer makes of the files, each
   once and without a hole, whatever agents are spawned, spawned again or
   made the root's, as long as each is started once before anything else
   it does. *)
THEOREM TimelineMatchesManifestHolds ==
  ASSUME CaseStreamAssumption PROVE Spec => []TimelineMatchesManifest
<1>1. Init => IsStream(stream)
  BY StreamFromTheStart
<1>2. IsStream(stream) /\ [Next]_vars => IsStream(stream)'
  BY StreamStep
<1>3. IsStream(stream) => TimelineMatchesManifest
  BY ManifestOfAStream
<1> QED
  BY <1>1, <1>2, <1>3, PTL DEF Spec

----------------------------------------------------------------------------
(* The scene of any stream: where its lines are filed, where its metas can
   be, and where its entries end. *)

LEMMA LaidFromTheStart ==
  ASSUME NEW F, NEW s
  PROVE  Housed(Scene!Blank, F) /\ Led(Scene!Blank, 0) /\ Bounded(Scene!Blank, 0) /\ Tiled(Scene!Blank, 0)
<1> DEFINE c == Scene!Blank
<1>1. /\ DOMAIN c = SceneFields /\ c.slots = <<>> /\ DOMAIN c.pending = {} /\ DOMAIN c.nodes = {}
  BY DEF Scene!Blank, Scene!Empty, SceneFields
<1> HIDE DEF c
<1>2. IsStream(<<>>) /\ Len(<<>>) = 0 /\ DOMAIN <<>> = {}
  BY DEF IsStream
<1> QED
  BY <1>1, <1>2, FiledFromTheStart DEF Housed, Led, Bounded, Keeps, c

LEMMA NodesStayHome ==
  ASSUME NEW p, NEW e, NEW F, "main" \in F,
         e.type = "agent.spawned" /\ e.parent # "none" => e.agent \in F,
         Residing(p.nodes, F), NEW l, Renames(p, l, e)
  PROVE  Resided(p, l, e, F)
<1> USE DEF Residing, Resided
<1>1. CASE l.nodes = p.nodes
  BY <1>1
<1>2. CASE l.nodes = Scene!Put(p.nodes, e.agent, "main")
  <2>1. /\ DOMAIN l.nodes = DOMAIN p.nodes \cup {e.agent}
        /\ \A b \in DOMAIN l.nodes : l.nodes[b] = IF b = e.agent THEN "main" ELSE p.nodes[b]
    BY <1>2 DEF Scene!Put
  <2> QED
    BY <2>1
<1>3. CASE /\ e.type = "agent.spawned" /\ e.parent # "none" /\ l.nodes # p.nodes
           /\ l.nodes = Scene!Put(p.nodes, e.agent, e.agent)
  <2>1. /\ DOMAIN l.nodes = DOMAIN p.nodes \cup {e.agent}
        /\ \A b \in DOMAIN l.nodes : l.nodes[b] = IF b = e.agent THEN e.agent ELSE p.nodes[b]
    BY <1>3 DEF Scene!Put
  <2> QED
    BY <1>3, <2>1
<1> QED
  BY <1>1, <1>2, <1>3 DEF Renames

(* The spawn of a sub-agent is a line of main. *)
LEMMA SpawnIsDrawn ==
  ASSUME NEW s, DOMAIN s = SceneFields, IsStream(s.slots), NEW e, NEW n, e.type = "agent.spawned",
         e.parent # "none", Scene!Lines(s, e, n).nodes # s.nodes
  PROVE  Scene!Lines(s, e, n).slots # <<>>
<1> DEFINE l == Scene!Lines(s, e, n)
           u == Scene!Emit(s, Scene!Node(s, e), "use", <<"spawn", n>>)
<1>1. l = Scene!Spawned(s, e, n)
  <2>1. e.type \notin DOMAIN Scene!PLATFORM_TOOL
    BY DEF Scene!PLATFORM_TOOL
  <2>2. l = s \/ l = Scene!Spawned(s, e, n)
    BY <2>1 DEF Scene!Lines
  <2> QED
    BY <2>2
<1> DEFINE r == Scene!Request(s, e, <<"spawn", n>>, Scene!SPAWN_TOOL, "main", n)
<1>2. \E x : r = [u EXCEPT !.pending = x]
  BY DEF Scene!Request
<1>3. \E y, z : l = [r EXCEPT !.nodes = y, !.spawns = z]
  BY <1>1 DEF Scene!Spawned
<1>4. DOMAIN u = SceneFields /\ IsStream(u.slots) /\ Len(u.slots) = Len(s.slots) + 1
  BY EmitAppends
<1> HIDE DEF u, l, r
<1>5. DOMAIN r = SceneFields /\ r.slots = u.slots
  BY <1>2, <1>4 DEF SceneFields
<1>6. l.slots = u.slots
  BY <1>3, <1>5 DEF SceneFields
<1>7. Len(s.slots) \in Nat /\ Len(<<>>) = 0
  BY StreamParts
<1>8. Len(l.slots) # Len(<<>>)
  BY <1>4, <1>6, <1>7
<1> QED
  BY <1>8 DEF l

LEMMA HousedStep ==
  ASSUME NEW p, NEW F, Housed(p, F), "main" \in F, NEW e, NEW n,
         e.type = "agent.spawned" /\ e.parent # "none" => e.agent \in F
  PROVE  Housed(Scene!Lines(p, e, n), F) /\ Grows(p, Scene!Lines(p, e, n))
<1> DEFINE l == Scene!Lines(p, e, n)
           a == p.slots
           b == l.slots
           k == Len(a)
<1>1. Keeps(p, F) /\ Scene!Node(p, e) \in F /\ IsStream(a) /\ DOMAIN p = SceneFields
  BY DEF Housed, Keeps, Scene!Node
<1>2. k \in Nat /\ DOMAIN a = 1..k /\ \A m \in DOMAIN a : a[m].file \in F
  BY <1>1, StreamParts DEF Housed
<1>3. CASE e.type = "agent.started" /\ Scene!Node(p, e) # "main"
  <2>1. /\ Keeps(l, F) /\ l.nodes = p.nodes /\ Continues(a, b) /\ Len(b) = k + 2
        /\ b[k + 1].file = Scene!Node(p, e) /\ b[k + 1].item = "meta"
        /\ b[k + 2].file = Scene!Node(p, e) /\ b[k + 2].item = "text"
    BY <1>1, <1>3, LinesAnnounce
  <2>2. a # <<>>
    BY <1>3 DEF Housed, Scene!Node
  <2>3. IsStream(b)
    BY <2>1 DEF Keeps
  <2> HIDE DEF a, b, l, k
  <2>4. k # 0
    BY <1>1, <2>2 DEF k, IsStream
  <2>5. DOMAIN b = 1..(k + 2)
    BY <1>2, <2>1, <2>3, StreamParts
  <2>6. \A m \in DOMAIN b : m \in DOMAIN a \/ m = k + 1 \/ m = k + 2
    BY <1>2, <2>5
  <2>7. \A m \in DOMAIN a : b[m] = a[m]
    BY <1>2, <2>1 DEF Continues, k
  <2>8. \A m \in DOMAIN b : b[m].file \in F
    BY <1>1, <1>2, <2>1, <2>6, <2>7
  <2>9. b # <<>>
    <3>1. k + 1 \in DOMAIN b /\ k + 1 \notin DOMAIN <<>>
      BY <1>2, <2>5
    <3> QED
      BY <3>1
  <2>10. Housed(l, F)
    BY <2>1, <2>8, <2>9 DEF Housed, b
  <2>11. \A m \in DOMAIN b : m \notin DOMAIN a /\ b[m].item = "meta" =>
           b[m].file # "main" /\ 1 < m /\ m < Len(b)
    <3> SUFFICES ASSUME NEW m \in DOMAIN b, m \notin DOMAIN a, b[m].item = "meta"
                 PROVE  b[m].file # "main" /\ 1 < m /\ m < Len(b)
      OBVIOUS
    <3>1. m = k + 1
      BY <2>1, <2>6
    <3>2. 1 < k + 1 /\ k + 1 < k + 2
      BY <1>2, <2>4
    <3> QED
      BY <1>3, <2>1, <3>1, <3>2
  <2> QED
    BY <2>1, <2>10, <2>11 DEF Grows, a, b, l
<1>4. CASE e.type # "agent.started" \/ Scene!Node(p, e) = "main"
  <2>1. Lengthens(p, l, F) /\ Renames(p, l, e)
    BY <1>1, <1>4, LinesAdd
  <2>2. e.type = "agent.spawned" /\ e.parent # "none" /\ l.nodes # p.nodes => b # <<>>
    BY <1>1, SpawnIsDrawn
  <2> HIDE DEF l
  <2>3. /\ \A x \in DOMAIN l.nodes : l.nodes[x] \in F
        /\ \/ \A x \in DOMAIN l.nodes : l.nodes[x] = "main"
           \/ \E x \in DOMAIN p.nodes : p.nodes[x] # "main"
           \/ e.type = "agent.spawned" /\ e.parent # "none" /\ l.nodes # p.nodes
    <3>1. Renames(p, l, e) /\ Residing(p.nodes, F)
      BY <2>1 DEF Housed, Residing
    <3>2. Resided(p, l, e, F)
      BY <3>1, NodesStayHome
    <3> QED
      BY <3>2 DEF Resided, Residing
  <2>4. /\ Keeps(l, F) /\ Continues(a, b)
        /\ \A m \in DOMAIN b : m \notin DOMAIN a => b[m].file \in F /\ b[m].item # "meta"
    BY <2>1 DEF Lengthens
  <2>5. IsStream(b)
    BY <2>4 DEF Keeps
  <2>6. (\E x \in DOMAIN p.nodes : p.nodes[x] # "main") => a # <<>>
    BY DEF Housed
  <2> HIDE DEF a, b, k
  <2>7. \A m \in DOMAIN a : b[m] = a[m]
    BY <1>2, <2>4 DEF Continues, k
  <2>8. \A m \in DOMAIN b : b[m].file \in F
    BY <1>2, <2>4, <2>7
  <2>9. a # <<>> => b # <<>>
    <3> SUFFICES ASSUME a # <<>> PROVE b # <<>>
      OBVIOUS
    <3>1. k # 0
      BY <1>1 DEF k, IsStream
    <3>2. Len(b) \in Nat /\ k <= Len(b)
      BY <2>4, <2>5, StreamParts DEF Continues, k
    <3>3. Len(b) # 0 /\ Len(<<>>) = 0
      BY <1>2, <3>1, <3>2
    <3> QED
      BY <3>3
  <2>10. (\E x \in DOMAIN l.nodes : l.nodes[x] # "main") => b # <<>>
    BY <2>2, <2>3, <2>6, <2>9
  <2>11. Housed(l, F)
    BY <2>3, <2>4, <2>8, <2>10 DEF Housed, b
  <2> QED
    BY <2>4, <2>11 DEF Grows, a, b, l
<1> QED
  BY <1>3, <1>4

LEMMA LedStep ==
  ASSUME NEW k \in Nat, NEW p, IsStream(p.slots), IsStream(p.entries), Len(p.entries) = k,
         Led(p, k), Bounded(p, k), Tiled(p, k), NEW l, IsStream(l.slots), Grows(p, l),
         NEW c, c.slots = l.slots, c.entries = Append(p.entries, EntryOf(p, l))
  PROVE  Led(c, k + 1) /\ Bounded(c, k + 1)
<1> DEFINE a == p.slots
           b == l.slots
           x == EntryOf(p, l)
           es == p.entries
           fs == c.entries
<1>1. x.start = Len(a) /\ x.count = Len(b) - Len(a)
  BY DEF EntryOf
<1>2. /\ Len(a) \in Nat /\ Len(b) \in Nat /\ Len(a) <= Len(b)
      /\ DOMAIN a = 1..Len(a) /\ DOMAIN b = 1..Len(b)
      /\ \A n \in DOMAIN a : b[n] = a[n]
  BY StreamParts DEF Grows, Continues
<1>3. \A n \in DOMAIN b : n \notin DOMAIN a /\ b[n].item = "meta" =>
        b[n].file # "main" /\ 1 < n /\ n < Len(b)
  BY DEF Grows
<1>4. \A n \in DOMAIN a : a[n].item = "meta" =>
        a[n].file # "main" /\ 1 < n /\ \A i \in 1..k : es[i].start + es[i].count # n
  BY DEF Led
<1>5. \A i \in 1..k : es[i].start \in Nat /\ es[i].count \in Nat /\ es[i].start + es[i].count <= Len(a)
  BY DEF Bounded
<1>6. Len(a) = IF k = 0 THEN 0 ELSE es[k].start + es[k].count
  BY DEF Tiled
<1> HIDE DEF x
<1>7. fs[k + 1] = x /\ \A i \in 1..k : fs[i] = es[i]
  BY AppendedIsStream DEF x
<1>8. c.slots = b
  OBVIOUS
<1> HIDE DEF a, b, es, fs
<1>9. x.start \in Nat /\ x.count \in Nat /\ x.start + x.count = Len(b)
  BY <1>1, <1>2
<1>10. ASSUME NEW i \in 1..(k + 1)
       PROVE  /\ fs[i].start \in Nat /\ fs[i].count \in Nat
              /\ fs[i].start + fs[i].count <= Len(b)
  <2>1. CASE i = k + 1
    BY <1>2, <1>7, <1>9, <2>1
  <2>2. CASE i \in 1..k
    <3>1. /\ fs[i].start \in Nat /\ fs[i].count \in Nat /\ fs[i].start + fs[i].count <= Len(a)
      BY <1>5, <1>7, <2>2
    <3> QED
      BY <1>2, <3>1
  <2> QED
    BY <1>10, <2>1, <2>2
<1>11. ASSUME NEW n \in DOMAIN b, b[n].item = "meta"
       PROVE  /\ b[n].file # "main" /\ 1 < n
              /\ \A i \in 1..(k + 1) : fs[i].start + fs[i].count # n
  <2>1. CASE n \in DOMAIN a
    <3>1. a[n].item = "meta" /\ a[n].file = b[n].file
      BY <1>2, <1>11, <2>1
    <3>2. n \in 1..Len(a) /\ k # 0
      BY <1>2, <1>6, <2>1
    <3>3. n # Len(a)
      BY <1>4, <1>6, <2>1, <3>1, <3>2
    <3>4. n # Len(b)
      BY <1>2, <3>2, <3>3
    <3>5. ASSUME NEW i \in 1..(k + 1) PROVE fs[i].start + fs[i].count # n
      <4>1. CASE i = k + 1
        BY <1>7, <1>9, <3>4, <4>1
      <4>2. CASE i \in 1..k
        BY <1>4, <1>7, <2>1, <3>1, <4>2
      <4> QED
        BY <3>5, <4>1, <4>2
    <3> QED
      BY <1>4, <2>1, <3>1, <3>5
  <2>2. CASE n \notin DOMAIN a
    <3>1. b[n].file # "main" /\ 1 < n /\ n < Len(b)
      BY <1>3, <1>11, <2>2
    <3>2. n \in Nat /\ Len(a) < n
      BY <1>2, <1>11, <2>2
    <3>3. ASSUME NEW i \in 1..(k + 1) PROVE fs[i].start + fs[i].count # n
      <4>1. CASE i = k + 1
        BY <1>2, <1>7, <1>9, <3>1, <3>2, <4>1
      <4>2. CASE i \in 1..k
        <5>1. fs[i].start \in Nat /\ fs[i].count \in Nat /\ fs[i].start + fs[i].count <= Len(a)
          BY <1>5, <1>7, <4>2
        <5> QED
          BY <1>2, <3>2, <5>1
      <4> QED
        BY <3>3, <4>1, <4>2
    <3> QED
      BY <3>1, <3>3
  <2> QED
    BY <2>1, <2>2
<1>12. Led(c, k + 1)
  BY <1>8, <1>11 DEF Led, fs
<1>13. Bounded(c, k + 1)
  BY <1>8, <1>10 DEF Bounded, fs
<1> QED
  BY <1>12, <1>13

LEMMA LaidStep ==
  ASSUME NEW s, IsStream(s), NEW F, Homes(s, F), NEW k \in Nat, k + 1 <= Len(s), Laid(s, k, F)
  PROVE  /\ Laid(s, k + 1, F)
         /\ Continues(ScenesOf(s)[k].slots, ScenesOf(s)[k + 1].slots)
         /\ Continues(ScenesOf(s)[k].entries, ScenesOf(s)[k + 1].entries)
<1> DEFINE p == ScenesOf(s)[k]
           q == ScenesOf(s)[k + 1]
           e == s[k + 1]
           l == Scene!Lines(p, e, k + 1)
           c == Scene!Compile(p, e, k + 1)
           new == EntryOf(p, l)
<1>1. k + 1 \in DOMAIN s /\ k + 1 \in 1..Len(s) /\ (k + 1) - 1 = k /\ k <= Len(s)
  BY StreamParts
<1>2. q = c
  BY <1>1, ScenesStep
<1>3. DOMAIN p = SceneFields /\ IsStream(p.entries) /\ Len(p.entries) = k
  BY <1>1, AlwaysEntered DEF Entered
<1>4. Housed(p, F) /\ Led(p, k) /\ Bounded(p, k) /\ Tiled(p, k)
  BY DEF Laid
<1>5. "main" \in F /\ (e.type = "agent.spawned" /\ e.parent # "none" => e.agent \in F)
  BY <1>1 DEF Homes
<1> HIDE DEF p, q, e
<1>6. DOMAIN c = SceneFields /\ c.slots = l.slots /\ c.nodes = l.nodes /\ c.pending = l.pending
      /\ c.entries = Append(p.entries, new)
  BY <1>3, CompileDraws
<1>7. Housed(l, F) /\ Grows(p, l)
  BY <1>4, <1>5, HousedStep
<1> HIDE DEF l, c
<1>8. Housed(c, F)
  BY <1>6, <1>7 DEF Housed, Keeps
<1>9. IsStream(p.slots) /\ IsStream(l.slots)
  BY <1>4, <1>7 DEF Housed, Keeps
<1>10. Led(c, k + 1) /\ Bounded(c, k + 1)
  BY <1>3, <1>4, <1>6, <1>7, <1>9, LedStep DEF new
<1>11. Len(p.slots) \in Nat /\ Len(l.slots) \in Nat
  BY <1>9, StreamParts
<1>12. Tiled(c, k + 1)
  BY <1>3, <1>4, <1>6, <1>11, TilesOn DEF new
<1> HIDE DEF new
<1>13. /\ Len(Append(p.entries, new)) = k + 1
       /\ \A n \in 1..k : Append(p.entries, new)[n] = p.entries[n]
  BY <1>3, AppendedIsStream
<1>14. Continues(p.entries, c.entries)
  <2>1. k <= k + 1
    OBVIOUS
  <2> QED
    BY <1>3, <1>6, <1>13, <2>1 DEF Continues
<1>15. Continues(p.slots, c.slots)
  BY <1>6, <1>7 DEF Grows
<1> QED
  BY <1>2, <1>8, <1>10, <1>12, <1>14, <1>15 DEF Laid, p, q

LEMMA AlwaysLaid ==
  ASSUME NEW s, IsStream(s), NEW F, Homes(s, F)
  PROVE  \A k \in Nat : k <= Len(s) => Laid(s, k, F)
<1> DEFINE S == {k \in Nat : k <= Len(s) => Laid(s, k, F)}
<1>1. 0 \in S
  <2>1. ScenesOf(s)[0] = Scene!Blank
    BY ScenesStep
  <2>2. Laid(s, 0, F)
    BY <2>1, LaidFromTheStart DEF Laid
  <2> QED
    BY <2>2
<1>2. ASSUME NEW k \in Nat, k \in S PROVE k + 1 \in S
  <2>1. Len(s) \in Nat
    BY StreamParts
  <2>2. k + 1 <= Len(s) => k <= Len(s)
    BY <2>1
  <2>3. k + 1 <= Len(s) => Laid(s, k + 1, F)
    BY <1>2, <2>2, LaidStep
  <2> QED
    BY <2>3
<1> HIDE DEF S
<1>3. \A k \in Nat : k \in S
  BY <1>1, <1>2, CountingUp
<1> QED
  BY <1>3 DEF S

LEMMA ContinuesTwice ==
  ASSUME NEW a, IsStream(a), NEW b, IsStream(b), NEW c, IsStream(c), Continues(a, b), Continues(b, c)
  PROVE  Continues(a, c)
<1>1. Len(a) \in Nat /\ Len(b) \in Nat /\ Len(c) \in Nat
  BY StreamParts
<1> QED
  BY <1>1 DEF Continues

LEMMA AlwaysDrafted ==
  ASSUME NEW s, IsStream(s), NEW F, Homes(s, F), NEW k \in Nat, k <= Len(s) PROVE Drafted(s, k)
<1>1. Laid(s, k, F) /\ Entered(s, k)
  BY AlwaysLaid, AlwaysEntered
<1> QED
  BY <1>1 DEF Drafted, Laid, Housed, Keeps, Entered

LEMMA ScenesGrow ==
  ASSUME NEW s, IsStream(s), NEW F, Homes(s, F), NEW j \in Nat, j <= Len(s)
  PROVE  \A k \in Nat : j <= k /\ k <= Len(s) => Grown(s, j, k)
<1> DEFINE S == {k \in Nat : j <= k /\ k <= Len(s) => Grown(s, j, k)}
<1>1. Len(s) \in Nat
  BY StreamParts
<1>2. Grown(s, j, j)
  <2>1. Drafted(s, j)
    BY AlwaysDrafted
  <2>2. \A a : IsStream(a) => Continues(a, a)
    BY StreamParts DEF Continues
  <2> QED
    BY <2>1, <2>2 DEF Grown, Drafted
<1>3. 0 \in S
  <2>1. j <= 0 => j = 0
    OBVIOUS
  <2> QED
    BY <1>2, <2>1
<1>4. ASSUME NEW k \in Nat, k \in S PROVE k + 1 \in S
  <2> SUFFICES ASSUME j <= k + 1, k + 1 <= Len(s) PROVE Grown(s, j, k + 1)
    OBVIOUS
  <2>1. CASE j = k + 1
    BY <1>2, <2>1
  <2>2. CASE j # k + 1
    <3>1. j <= k /\ k <= Len(s)
      BY <1>1, <2>2
    <3>2. Grown(s, j, k) /\ Drafted(s, j) /\ Drafted(s, k) /\ Drafted(s, k + 1)
      BY <1>4, <3>1, AlwaysDrafted
    <3>3. Grown(s, k, k + 1)
      BY <3>1, AlwaysLaid, LaidStep DEF Grown
    <3> QED
      BY <3>2, <3>3, ContinuesTwice DEF Grown, Drafted
  <2> QED
    BY <2>1, <2>2
<1> HIDE DEF S
<1>5. \A k \in Nat : k \in S
  BY <1>3, <1>4, CountingUp
<1> QED
  BY <1>5 DEF S

(* What a stream continues, its scenes continue. *)
LEMMA ScenesOfPrefix ==
  ASSUME NEW s, IsStream(s), NEW t, IsStream(t), Continues(s, t)
  PROVE  \A k \in Nat : k <= Len(s) => ScenesOf(t)[k] = ScenesOf(s)[k]
<1> DEFINE S == {k \in Nat : k <= Len(s) => ScenesOf(t)[k] = ScenesOf(s)[k]}
<1>1. 0 \in S
  BY ScenesStep
<1>2. ASSUME NEW k \in Nat, k \in S PROVE k + 1 \in S
  <2> SUFFICES ASSUME k + 1 <= Len(s) PROVE ScenesOf(t)[k + 1] = ScenesOf(s)[k + 1]
    OBVIOUS
  <2>1. Len(s) \in Nat /\ Len(t) \in Nat
    BY StreamParts
  <2>2. k <= Len(s) /\ k + 1 \in 1..Len(s) /\ k + 1 \in 1..Len(t) /\ (k + 1) - 1 = k
    BY <2>1 DEF Continues
  <2>3. ScenesOf(t)[k] = ScenesOf(s)[k] /\ t[k + 1] = s[k + 1]
    BY <1>2, <2>2 DEF Continues
  <2>4. /\ ScenesOf(t)[k + 1] = Scene!Compile(ScenesOf(t)[k], t[k + 1], k + 1)
        /\ ScenesOf(s)[k + 1] = Scene!Compile(ScenesOf(s)[k], s[k + 1], k + 1)
    BY <2>2, ScenesStep
  <2> QED
    BY <2>3, <2>4
<1> HIDE DEF S
<1>3. \A k \in Nat : k \in S
  BY <1>1, <1>2, CountingUp
<1> QED
  BY <1>3 DEF S

(* The compiled scene is the last one, with other violations. *)
LEMMA CompiledFields ==
  ASSUME NEW s, IsStream(s)
  PROVE  LET c == Scene!compileZoetropeScene(s)
             last == ScenesOf(s)[Len(s)]
         IN  DOMAIN c = SceneFields /\ c.entries = last.entries /\ c.slots = last.slots
<1> DEFINE last == ScenesOf(s)[Len(s)]
           c == Scene!compileZoetropeScene(s)
<1>1. DOMAIN last = SceneFields
  <2>1. Len(s) \in Nat /\ Len(s) <= Len(s)
    BY StreamParts
  <2>2. Entered(s, Len(s))
    BY <2>1, AlwaysEntered
  <2> QED
    BY <2>2 DEF Entered
<1>2. \E v : c = [last EXCEPT !.violations = v]
  <2> HIDE DEF last
  <2>1. \E v : [last EXCEPT !.violations = @ \cup
                 {last.pending[x].origin : x \in {d \in DOMAIN last.pending :
                    last.pending[d].tool = Scene!SPAWN_TOOL /\ ~last.pending[d].resolved}}]
               = [last EXCEPT !.violations = v]
    OBVIOUS
  <2> QED
    BY <2>1, CompiledScene DEF last
<1> HIDE DEF last, c
<1>3. DOMAIN c = SceneFields /\ c.entries = last.entries /\ c.slots = last.slots
  BY <1>1, <1>2 DEF SceneFields
<1> QED
  BY <1>3 DEF last, c

LEMMA CompiledGrows ==
  ASSUME NEW s, IsStream(s), NEW t, IsStream(t), Continues(s, t), NEW F, Homes(t, F)
  PROVE  LET c == Scene!compileZoetropeScene(s)
             d == Scene!compileZoetropeScene(t)
         IN  Continues(c.slots, d.slots) /\ Continues(c.entries, d.entries)
<1>1. Len(s) \in Nat /\ Len(t) \in Nat /\ Len(s) <= Len(t)
  BY StreamParts DEF Continues
<1>2. Grown(t, Len(s), Len(t))
  BY <1>1, ScenesGrow
<1>3. ScenesOf(t)[Len(s)] = ScenesOf(s)[Len(s)]
  BY <1>1, ScenesOfPrefix
<1> QED
  BY <1>2, <1>3, CompiledFields DEF Grown

----------------------------------------------------------------------------
(* The manifest and the timeline of a scene. *)

LEMMA TilesSpan ==
  ASSUME NEW E, IsStream(E), NEW k, k = Len(E), NEW M \in Nat,
         \A n \in 1..k : E[n].start \in Nat /\ E[n].count \in Nat,
         \A n \in 1..k : E[n].start = IF n = 1 THEN 0 ELSE End(E, n - 1),
         M = IF k = 0 THEN 0 ELSE End(E, k)
  PROVE  Spanned(E, M)
<1>1. k \in Nat /\ DOMAIN E = 1..k /\ (E = <<>> <=> k = 0)
  BY StreamParts DEF IsStream
<1>2. \A n \in 1..k : End(E, n) \in Nat /\ E[n].start <= End(E, n)
  BY DEF End
<1>3. Scene!rendererEntryCount(E) = M
  BY <1>1 DEF Scene!rendererEntryCount, End
<1>4. \A m \in Nat : m <= k => \A n \in 1..k : n < m => End(E, n) <= E[m].start
  <2> DEFINE S == {m \in Nat : m <= k => \A n \in 1..k : n < m => End(E, n) <= E[m].start}
  <2>1. 0 \in S
    OBVIOUS
  <2>2. ASSUME NEW m \in Nat, m \in S PROVE m + 1 \in S
    <3> SUFFICES ASSUME m + 1 <= k, NEW n \in 1..k, n < m + 1
                 PROVE  End(E, n) <= E[m + 1].start
      OBVIOUS
    <3>1. m \in 1..k /\ m + 1 \in 1..k /\ m + 1 # 1 /\ (m + 1) - 1 = m
      BY <1>1
    <3>2. E[m + 1].start = End(E, m)
      BY <3>1
    <3>3. n = m \/ n < m
      BY <3>1
    <3>4. n < m => End(E, n) <= E[m].start
      BY <2>2, <3>1
    <3>5. End(E, n) \in Nat /\ End(E, m) \in Nat /\ E[m].start \in Nat /\ E[m].start <= End(E, m)
      BY <1>2, <3>1
    <3> QED
      BY <3>2, <3>3, <3>4, <3>5
  <2> HIDE DEF S
  <2>3. \A m \in Nat : m \in S
    BY <2>1, <2>2, CountingUp
  <2> QED
    BY <2>3 DEF S
<1>5. \A n, m \in DOMAIN E : n < m => End(E, n) <= E[m].start
  BY <1>1, <1>4
<1>6. ASSUME NEW n \in 1..k PROVE End(E, n) <= M
  <2>1. k # 0 /\ k \in 1..k /\ (n = k \/ n < k)
    BY <1>1
  <2>2. M = End(E, k)
    BY <2>1
  <2>3. n < k => End(E, n) <= E[k].start
    BY <1>1, <1>5, <2>1
  <2>4. End(E, n) \in Nat /\ End(E, k) \in Nat /\ E[k].start \in Nat /\ E[k].start <= End(E, k)
    BY <1>2, <2>1
  <2> QED
    BY <2>1, <2>2, <2>3, <2>4
<1>7. M # 0 => \E n \in Scene!Visible(E) : E[n].start = 0
  <2> DEFINE Begun(m) == \E n \in 1..m : E[n].count > 0 /\ E[n].start = 0
             S == {m \in Nat : m <= k => Begun(m) \/ m = 0 \/ End(E, m) = 0}
  <2>1. 0 \in S
    OBVIOUS
  <2>2. ASSUME NEW m \in Nat, m \in S PROVE m + 1 \in S
    <3> SUFFICES ASSUME m + 1 <= k, ~Begun(m + 1) PROVE End(E, m + 1) = 0
      OBVIOUS
    <3>1. m <= k /\ m + 1 \in 1..k /\ (m + 1) - 1 = m /\ m + 1 \in 1..(m + 1)
      BY <1>1
    <3>2. ~Begun(m)
      OBVIOUS
    <3>3. m = 0 \/ End(E, m) = 0
      BY <2>2, <3>1, <3>2
    <3>4. E[m + 1].start = 0
      BY <3>1, <3>3
    <3>5. E[m + 1].count \in Nat /\ ~(E[m + 1].count > 0)
      BY <3>1, <3>4
    <3> QED
      BY <3>4, <3>5 DEF End
  <2> HIDE DEF S
  <2>3. k \in S
    BY <1>1, <2>1, <2>2, CountingUp
  <2> QED
    BY <1>1, <2>3 DEF S, Scene!Visible
<1> QED
  BY <1>1, <1>2, <1>3, <1>5, <1>6, <1>7 DEF Spanned

LEMMA SceneIsSpanned ==
  ASSUME NEW s, IsStream(s), NEW F, Homes(s, F)
  PROVE  LET c == Scene!compileZoetropeScene(s)
         IN  /\ IsStream(c.slots) /\ Len(c.entries) = Len(s) /\ Spanned(c.entries, Len(c.slots))
             /\ \A n \in DOMAIN c.slots : c.slots[n].file \in F
             /\ \A n \in DOMAIN c.slots : c.slots[n].item = "meta" =>
                  /\ c.slots[n].file # "main" /\ 1 < n /\ n < Len(c.slots)
                  /\ \A i \in DOMAIN c.entries : End(c.entries, i) # n
<1> DEFINE last == ScenesOf(s)[Len(s)]
           c == Scene!compileZoetropeScene(s)
           k == Len(s)
           L == last.slots
           E == last.entries
<1>1. k \in Nat /\ k <= k
  BY StreamParts
<1>2. c.entries = E /\ c.slots = L
  BY CompiledFields
<1>3. Laid(s, k, F) /\ Entered(s, k)
  BY <1>1, AlwaysLaid, AlwaysEntered
<1>4. IsStream(E) /\ Len(E) = k
  BY <1>3 DEF Entered
<1>5. IsStream(L) /\ \A n \in DOMAIN L : L[n].file \in F
  BY <1>3 DEF Laid, Housed, Keeps
<1>6. /\ \A n \in DOMAIN L : L[n].item = "meta" =>
           /\ L[n].file # "main" /\ 1 < n
           /\ \A i \in 1..k : E[i].start + E[i].count # n
      /\ \A i \in 1..k : E[i].start \in Nat /\ E[i].count \in Nat
  BY <1>3 DEF Laid, Led, Bounded
<1>7. /\ \A n \in 1..k : E[n].start = IF n - 1 = 0 THEN 0 ELSE E[n - 1].start + E[n - 1].count
      /\ Len(L) = IF k = 0 THEN 0 ELSE E[k].start + E[k].count
  BY <1>3 DEF Laid, Tiled
<1> HIDE DEF L, E, c, k
<1>8. Len(L) \in Nat /\ DOMAIN L = 1..Len(L) /\ DOMAIN E = 1..k
  BY <1>4, <1>5, StreamParts
<1>9. \A n \in 1..k : E[n].start = IF n = 1 THEN 0 ELSE End(E, n - 1)
  <2> SUFFICES ASSUME NEW n \in 1..k PROVE E[n].start = IF n = 1 THEN 0 ELSE End(E, n - 1)
    OBVIOUS
  <2>1. n = 1 <=> n - 1 = 0
    BY <1>1
  <2> QED
    BY <1>7, <2>1 DEF End
<1>10. Spanned(E, Len(L))
  <2>1. Len(L) = IF k = 0 THEN 0 ELSE End(E, k)
    BY <1>7 DEF End
  <2> QED
    BY <1>4, <1>6, <1>8, <1>9, <2>1, TilesSpan
<1>11. ASSUME NEW n \in DOMAIN L, L[n].item = "meta" PROVE n < Len(L)
  <2>1. n # Len(L)
    <3>1. Len(L) # 0
      BY <1>8
    <3>2. k # 0 /\ Len(L) = E[k].start + E[k].count
      BY <1>7, <3>1
    <3> QED
      BY <1>1, <1>6, <1>11, <3>2
  <2> QED
    BY <1>8, <2>1
<1> QED
  BY <1>2, <1>4, <1>5, <1>6, <1>8, <1>10, <1>11 DEF c, k, End

LEMMA SceneIsTimed ==
  ASSUME NEW s, IsStream(s), NEW F, Homes(s, F)
  PROVE  LET c == Scene!compileZoetropeScene(s)
         IN  /\ Timed(Times(c.slots), c.entries) /\ Len(Times(c.slots)) = Len(c.slots)
             /\ F = {"main"} => \A n \in DOMAIN c.slots : Times(c.slots)[n] = n
<1> DEFINE c == Scene!compileZoetropeScene(s)
           L == c.slots
           E == c.entries
           T == Times(L)
<1>1. /\ IsStream(L)
      /\ \A n \in DOMAIN L : L[n].file \in F
      /\ \A n \in DOMAIN L : L[n].item = "meta" =>
            L[n].file # "main" /\ 1 < n /\ n < Len(L) /\ \A i \in DOMAIN E : End(E, i) # n
  BY SceneIsSpanned
<1> HIDE DEF c, L, E
<1>2. Len(L) \in Nat /\ DOMAIN L = 1..Len(L)
  BY <1>1, StreamParts DEF L
<1>3. /\ T = [n \in DOMAIN L |-> T[n]]
      /\ \A n \in DOMAIN L : T[n] = IF L[n].item = "meta" THEN n + 1 ELSE n
  BY DEF Times
<1> HIDE DEF T
<1>4. T \in Seq({T[n] : n \in DOMAIN T}) /\ Len(T) = Len(L) /\ DOMAIN T = DOMAIN L
  BY <1>2, <1>3
<1>5. IsStream(T)
  BY <1>4 DEF IsStream
<1>6. ASSUME NEW n \in 1..Len(L)
      PROVE  /\ T[n] \in {n, n + 1} /\ T[n] <= Len(L)
             /\ T[n] = n + 1 => 1 < n /\ \A i \in DOMAIN E : End(E, i) # n
             /\ F = {"main"} => T[n] = n
  <2>1. CASE L[n].item = "meta"
    BY <1>1, <1>2, <1>3, <2>1
  <2>2. CASE L[n].item # "meta"
    BY <1>1, <1>2, <1>3, <2>2
  <2> QED
    BY <2>1, <2>2
<1>7. Timed(T, E)
  BY <1>4, <1>5, <1>6 DEF Timed
<1> QED
  BY <1>2, <1>4, <1>6, <1>7 DEF T, L, E, c

----------------------------------------------------------------------------
(* The renderer: where a time is in its timeline. *)

LEMMA FirstPlaces ==
  ASSUME NEW a \in Nat PROVE Cardinality(1..a) = a
<1>1. Cardinality(1..a) = IF 1 > a THEN 0 ELSE a - 1 + 1
  BY FS_Interval
<1> QED
  BY <1>1

LEMMA CountIs ==
  ASSUME NEW items, NEW entries, Timed(items, entries), NEW at \in 0..Len(items)
  PROVE  Count(items, at) = IF at # 0 /\ items[at] = at + 1 THEN at - 1 ELSE at
<1> DEFINE M == Len(items)
           P == {n \in DOMAIN items : items[n] <= at}
<1>1. M \in Nat /\ DOMAIN items = 1..M
  BY StreamParts DEF Timed
<1>2. \A n \in 1..M : items[n] \in {n, n + 1}
  BY DEF Timed
<1> HIDE DEF M
<1>3. at \in Nat /\ at <= M /\ (at # 0 => at \in 1..M)
  BY <1>1 DEF M
<1>4. CASE at # 0 /\ items[at] = at + 1
  <2>1. P = 1..(at - 1) /\ at - 1 \in Nat
    BY <1>1, <1>2, <1>3, <1>4
  <2> QED
    BY <1>4, <2>1, FirstPlaces DEF Count
<1>5. CASE ~(at # 0 /\ items[at] = at + 1)
  <2>1. P = 1..at
    BY <1>1, <1>2, <1>3, <1>5
  <2> QED
    BY <1>3, <1>5, <2>1, FirstPlaces DEF Count
<1> QED
  BY <1>4, <1>5

(* The item the playhead of a time is at, and the item it is moved to. *)
LEMMA PlacesOf ==
  ASSUME NEW items, NEW entries, Timed(items, entries)
  PROVE  /\ \A at \in 0..Len(items) : Count(items, at) \in 0..Len(items) /\ Count(items, at) <= at
         /\ \A k \in 1..Len(items) :
              /\ items[k] \in 1..Len(items)
              /\ Count(items, items[k]) \in {k, k + 1}
              /\ items[k] = k => Count(items, items[k]) = k
         /\ Len(items) # 0 => /\ Count(items, items[Len(items)]) = Len(items)
                              /\ Count(items, items[1]) = 1
<1> DEFINE M == Len(items)
           At(k) == IF k # 0 /\ items[k] = k + 1 THEN k - 1 ELSE k
<1>1. M \in Nat /\ \A at \in 0..M : Count(items, at) = At(at)
  <2>1. M \in Nat
    BY StreamParts DEF Timed
  <2> QED
    BY <2>1, CountIs
<1>2. \A n \in 1..M : /\ items[n] \in {n, n + 1} /\ items[n] <= M
                      /\ items[n] = n + 1 => 1 < n
  BY DEF Timed
<1> HIDE DEF M
<1>3. \A at \in 0..M : At(at) \in 0..M /\ At(at) <= at
  BY <1>1
<1>4. ASSUME NEW k \in 1..M
      PROVE  /\ items[k] \in 1..M
             /\ At(items[k]) \in {k, k + 1}
             /\ items[k] = k => At(items[k]) = k
  <2>1. CASE items[k] = k
    BY <1>1, <2>1
  <2>2. CASE items[k] = k + 1
    <3>1. k + 1 \in 1..M /\ items[k + 1] \in {k + 1, k + 2}
      BY <1>1, <1>2, <2>2
    <3> QED
      BY <1>1, <2>2, <3>1
  <2> QED
    BY <1>2, <2>1, <2>2
<1>5. ASSUME M # 0 PROVE At(items[M]) = M /\ At(items[1]) = 1
  <2>1. M \in 1..M /\ 1 \in 1..M
    BY <1>1, <1>5
  <2>2. items[M] = M /\ items[1] = 1
    BY <1>1, <1>2, <2>1
  <2> QED
    BY <1>4, <2>1, <2>2
<1> HIDE DEF At
<1>6. \A k \in 1..M : Count(items, items[k]) = At(items[k])
  BY <1>1, <1>4
<1>7. M # 0 => M \in 1..M /\ 1 \in 1..M
  BY <1>1
<1> QED
  BY <1>1, <1>3, <1>4, <1>5, <1>6, <1>7 DEF M

(* A division with what is left over. *)
LEMMA Dividing ==
  ASSUME NEW d \in Nat, d # 0, NEW q \in Nat, NEW r \in Nat, r < d
  PROVE  (d * q + r) \div d = q
<1> DEFINE x == (d * q + r) \div d
           p == d * q
<1>1. p \in Nat
  OBVIOUS
<1>2. x \in Int /\ d * x <= p + r /\ p + r < d * x + d
  OBVIOUS
<1>3. CASE x < q
  <2>1. \E j \in Nat : q = x + 1 + j
    <3>1. q - x - 1 \in Nat /\ q = x + 1 + (q - x - 1)
      BY <1>2, <1>3
    <3> QED
      BY <3>1
  <2>2. PICK j \in Nat : q = x + 1 + j
    BY <2>1
  <2>3. p = d * x + d + d * j /\ d * j \in Nat
    BY <1>2, <2>2
  <2> QED
    BY <1>2, <2>3
<1>4. CASE q < x
  <2>1. \E j \in Nat : x = q + 1 + j
    <3>1. x - q - 1 \in Nat /\ x = q + 1 + (x - q - 1)
      BY <1>2, <1>4
    <3> QED
      BY <3>1
  <2>2. PICK j \in Nat : x = q + 1 + j
    BY <2>1
  <2>3. d * x = p + d + d * j /\ d * j \in Nat
    BY <2>2
  <2> QED
    BY <1>1, <1>2, <2>3
<1> QED
  BY <1>2, <1>3, <1>4

(* Seeking a line finds its item. *)
LEMMA SoughtIs ==
  ASSUME NEW c, Timed(c.items, c.manifest), Spanned(c.manifest, Len(c.items)),
         NEW start \in Nat, start < Len(c.items)
  PROVE  Sought(c, start) = start + 1
<1> DEFINE M == Len(c.items)
           total == Scene!rendererEntryCount(c.manifest)
           floor == Count(c.items, c.items[1])
           offset == IF total <= 1 THEN 0
                     ELSE (2 * start * (M - floor) + (total - 1)) \div (2 * (total - 1))
<1>1. Sought(c, start) = IF floor + offset > M THEN M ELSE floor + offset
  BY DEF Sought
<1>2. M \in Nat /\ M # 0 /\ total = M
  BY StreamParts DEF Timed, Spanned
<1>3. floor = 1
  BY <1>2, PlacesOf
<1> HIDE DEF M, total, floor
<1>4. offset = start
  <2>1. CASE M = 1
    BY <1>2, <2>1 DEF M
  <2>2. CASE M # 1
    <3> DEFINE r == M - 1
    <3>1. r \in Nat /\ 2 * r \in Nat /\ 2 * r # 0 /\ r < 2 * r
      BY <1>2, <2>2
    <3>2. offset = (2 * start * r + r) \div (2 * r)
      BY <1>2, <1>3, <2>2
    <3> HIDE DEF r, offset
    <3>3. 2 * start * r = (2 * r) * start
      BY <3>1
    <3>4. ((2 * r) * start + r) \div (2 * r) = start
      BY <3>1, Dividing
    <3> QED
      BY <3>2, <3>3, <3>4
  <2> QED
    BY <2>1, <2>2
<1> HIDE DEF offset
<1> QED
  BY <1>1, <1>2, <1>3, <1>4 DEF M

----------------------------------------------------------------------------
(* The manifest, read by event and by line. *)

LEMMA LatestIs ==
  ASSUME NEW k \in Nat, NEW S, S \subseteq 1..k
  PROVE  /\ S = {} => Scene!Latest(S) = 0
         /\ S # {} => Scene!Latest(S) \in S /\ \A m \in S : m <= Scene!Latest(S)
         /\ \A x \in S : (\A m \in S : m <= x) => Scene!Latest(S) = x
<1>1. S = {} => Scene!Latest(S) = 0
  BY DEF Scene!Latest
<1>2. ASSUME S # {} PROVE Scene!Latest(S) \in S /\ \A m \in S : m <= Scene!Latest(S)
  <2>1. Max(S) \in S /\ \A m \in S : Max(S) >= m
    <3>1. IsFiniteSet(S)
      BY PositionsAreFinite
    <3>2. \A m \in S : m \in 1..k
      OBVIOUS
    <3>3. S \subseteq Nat
      BY <3>2
    <3> QED
      BY <1>2, <3>1, <3>3, GreatestOf
  <2>2. \A m \in S : m <= Max(S)
    BY <2>1
  <2> QED
    BY <1>2, <2>1, <2>2 DEF Scene!Latest
<1>3. ASSUME NEW x \in S, \A m \in S : m <= x PROVE Scene!Latest(S) = x
  <2>1. Scene!Latest(S) \in S /\ x <= Scene!Latest(S) /\ Scene!Latest(S) <= x
    BY <1>2, <1>3
  <2>3. \A m \in S : m \in 1..k
    OBVIOUS
  <2>4. Scene!Latest(S) \in 1..k /\ x \in 1..k
    BY <2>1, <2>3
  <2>2. Scene!Latest(S) \in Nat /\ x \in Nat
    BY <2>4
  <2> QED
    BY <2>1, <2>2
<1> QED
  BY <1>1, <1>2, <1>3

LEMMA VisibleAre ==
  ASSUME NEW E, NEW M, Spanned(E, M)
  PROVE  /\ Len(E) \in Nat /\ Scene!Visible(E) \subseteq 1..Len(E) /\ DOMAIN E = 1..Len(E)
         /\ \A v \in Scene!Visible(E) : E[v].start \in Nat /\ E[v].start < End(E, v) /\ End(E, v) <= M
         /\ \A v, w \in Scene!Visible(E) : v < w => End(E, v) <= E[w].start
         /\ M \in Nat /\ (M = 0 <=> Scene!Visible(E) = {})
<1>1. Len(E) \in Nat /\ DOMAIN E = 1..Len(E) /\ M \in Nat
  BY StreamParts DEF Spanned
<1>2. Scene!Visible(E) = {n \in DOMAIN E : E[n].count > 0}
  BY DEF Scene!Visible
<1>3. \A n \in DOMAIN E : E[n].start \in Nat /\ E[n].count \in Nat /\ End(E, n) <= M
  BY DEF Spanned
<1>4. \A n \in DOMAIN E : End(E, n) = E[n].start + E[n].count
  BY DEF End
<1>5. \A v \in Scene!Visible(E) : E[v].start \in Nat /\ E[v].start < End(E, v) /\ End(E, v) <= M
  BY <1>2, <1>3, <1>4
<1>6. M = 0 => Scene!Visible(E) = {}
  <2>1. \A v \in Scene!Visible(E) : v \in DOMAIN E
    BY <1>2
  <2>2. \A v \in Scene!Visible(E) : End(E, v) \in Nat /\ 0 < End(E, v)
    BY <1>3, <1>4, <1>5, <2>1
  <2> QED
    BY <1>5, <2>2
<1>7. M # 0 => Scene!Visible(E) # {}
  BY DEF Spanned
<1>8. \A v, w \in Scene!Visible(E) : v < w => End(E, v) <= E[w].start
  BY <1>2 DEF Spanned
<1> QED
  BY <1>1, <1>2, <1>5, <1>6, <1>7, <1>8

LEMMA ShownIs ==
  ASSUME NEW E, NEW M, Spanned(E, M), NEW n \in Nat
  PROVE  LET V == Scene!Visible(E)
             x == Shown(E, n)
         IN  /\ V = {} => x = 0
             /\ V # {} => /\ x \in V
                          /\ \/ x <= n /\ \A v \in V : v <= n => v <= x
                             \/ \A v \in V : n < v /\ x <= v
<1> DEFINE V == Scene!Visible(E)
           x == Shown(E, n)
           S == {v \in V : v <= n}
<1>1. Len(E) \in Nat /\ V \subseteq 1..Len(E)
  BY VisibleAre
<1>2. x = IF S # {} THEN Scene!Latest(S)
          ELSE IF V = {} THEN 0 ELSE CHOOSE v \in V : \A m \in V : v <= m
  BY DEF Shown, Scene!manifestEntryForCaseSequence
<1> HIDE DEF V, x
<1>3. V = {} => x = 0
  BY <1>2
<1>4. ASSUME S # {} PROVE x \in V /\ x <= n /\ \A v \in V : v <= n => v <= x
  <2>1. S \subseteq 1..Len(E)
    BY <1>1
  <2> HIDE DEF S
  <2>2. x \in S /\ \A v \in S : v <= x
    BY <1>1, <1>2, <1>4, <2>1, LatestIs
  <2> QED
    BY <2>2 DEF S
<1>5. ASSUME S = {}, V # {} PROVE x \in V /\ \A v \in V : n < v /\ x <= v
  <2>1. Min(V) \in V /\ \A v \in V : Min(V) <= v
    <3>1. V \subseteq Nat
      BY <1>1
    <3> QED
      BY <1>5, <3>1, LeastOf
  <2>2. x = CHOOSE v \in V : \A m \in V : v <= m
    BY <1>2, <1>5
  <2>3. x \in V /\ \A v \in V : x <= v
    BY <2>1, <2>2
  <2>4. \A v \in V : n < v
    BY <1>1, <1>5
  <2> QED
    BY <2>3, <2>4
<1> QED
  BY <1>3, <1>4, <1>5 DEF V, x

LEMMA EntryIs ==
  ASSUME NEW E, NEW M, Spanned(E, M), NEW index \in Int
  PROVE  LET S == {v \in Scene!Visible(E) : E[v].start <= index}
         IN  /\ S = {} => EntryAt(E, index) = 0
             /\ S # {} => EntryAt(E, index) \in S
             /\ \A x \in S : (\A v \in S : v <= x) => EntryAt(E, index) = x
<1> DEFINE S == {v \in Scene!Visible(E) : E[v].start <= index}
<1>1. Len(E) \in Nat /\ S \subseteq 1..Len(E)
  BY VisibleAre
<1>2. EntryAt(E, index) = Scene!Latest(S)
  BY DEF EntryAt, Scene!manifestEntryForRendererIndex
<1> HIDE DEF S
<1>3. /\ S = {} => Scene!Latest(S) = 0
      /\ S # {} => Scene!Latest(S) \in S
      /\ \A x \in S : (\A m \in S : m <= x) => Scene!Latest(S) = x
  BY <1>1, LatestIs
<1> QED
  BY <1>2, <1>3 DEF S

(* The line an event is shown by belongs to that event; the last line to
   the last event that has any; and each line to some event. *)
LEMMA LinesAndEvents ==
  ASSUME NEW E, NEW M, Spanned(E, M)
  PROVE  /\ \A v \in Scene!Visible(E) : EntryAt(E, E[v].start) = v /\ Shown(E, v) = v
         /\ EntryAt(E, M - 1) = Shown(E, Len(E))
         /\ \A n \in 1..M : EntryAt(E, n - 1) \in Scene!Visible(E)
<1> DEFINE V == Scene!Visible(E)
<1>1. /\ Len(E) \in Nat /\ V \subseteq 1..Len(E)
      /\ \A v \in V : E[v].start \in Nat /\ E[v].start < End(E, v) /\ End(E, v) <= M
      /\ \A v, w \in V : v < w => End(E, v) <= E[w].start
      /\ M \in Nat /\ (M = 0 <=> V = {})
  BY VisibleAre
<1>2. \A v \in V : End(E, v) \in Nat
  <2>1. \A v \in V : v \in DOMAIN E
    BY DEF Scene!Visible
  <2> QED
    BY <2>1 DEF Spanned, End
<1>3. M # 0 => \E v \in V : E[v].start = 0
  BY DEF Spanned
<1> HIDE DEF V
<1>4. ASSUME NEW v \in V PROVE EntryAt(E, E[v].start) = v /\ Shown(E, v) = v
  <2>1. \A w \in V : E[w].start <= E[v].start => w <= v
    <3> SUFFICES ASSUME NEW w \in V, v < w PROVE E[v].start < E[w].start
      BY <1>1
    <3> QED
      BY <1>1, <1>2
  <2>2. v \in Nat /\ E[v].start \in Int /\ E[v].start <= E[v].start
    BY <1>1
  <2>3. EntryAt(E, E[v].start) = v
    BY <2>1, <2>2, EntryIs DEF V
  <2>4. Shown(E, v) \in V /\ \/ Shown(E, v) <= v /\ \A w \in V : w <= v => w <= Shown(E, v)
                             \/ \A w \in V : v < w /\ Shown(E, v) <= w
    BY <2>2, ShownIs DEF V
  <2>6. \A w \in V : w \in 1..Len(E)
    BY <1>1
  <2>7. Shown(E, v) \in 1..Len(E)
    BY <2>4, <2>6
  <2>5. Shown(E, v) \in Nat
    BY <2>7
  <2> QED
    BY <2>2, <2>3, <2>4, <2>5
<1>5. EntryAt(E, M - 1) = Shown(E, Len(E))
  <2>1. CASE V = {}
    <3>1. M - 1 \in Int
      BY <1>1
    <3> QED
      BY <1>1, <2>1, <3>1, EntryIs, ShownIs DEF V
  <2>2. CASE V # {}
    <3> DEFINE x == Shown(E, Len(E))
    <3>1. x \in V /\ \/ x <= Len(E) /\ \A v \in V : v <= Len(E) => v <= x
                     \/ \A v \in V : Len(E) < v /\ x <= v
      BY <1>1, <2>2, ShownIs DEF V
    <3> HIDE DEF x
    <3>2. \A v \in V : v <= Len(E) /\ v \in Nat
      BY <1>1
    <3>3. \A v \in V : v <= x
      BY <1>1, <3>1, <3>2
    <3>4. E[x].start <= M - 1 /\ M - 1 \in Int
      BY <1>1, <1>2, <3>1
    <3> QED
      BY <3>1, <3>3, <3>4, EntryIs DEF V, x
  <2> QED
    BY <2>1, <2>2
<1>6. ASSUME NEW n \in 1..M PROVE EntryAt(E, n - 1) \in V
  <2>1. M # 0 /\ n - 1 \in Int /\ 0 <= n - 1
    BY <1>1
  <2>2. PICK v \in V : E[v].start = 0
    BY <1>3, <2>1
  <2>3. E[v].start <= n - 1
    BY <2>1, <2>2
  <2> QED
    BY <2>1, <2>3, EntryIs DEF V
<1> QED
  BY <1>4, <1>5, <1>6 DEF V

(* An event that does not show the last line shows lines before it. *)
LEMMA EarlierEnds ==
  ASSUME NEW E, NEW M, Spanned(E, M), NEW n \in Nat, Shown(E, n) # Shown(E, Len(E))
  PROVE  Shown(E, n) \in Scene!Visible(E) /\ End(E, Shown(E, n)) < M
<1> DEFINE V == Scene!Visible(E)
           x == Shown(E, n)
           y == Shown(E, Len(E))
<1>1. /\ Len(E) \in Nat /\ V \subseteq 1..Len(E)
      /\ \A v \in V : E[v].start \in Nat /\ E[v].start < End(E, v) /\ End(E, v) <= M
      /\ \A v, w \in V : v < w => End(E, v) <= E[w].start
      /\ M \in Nat
  BY VisibleAre
<1>2. V # {}
  <2> SUFFICES ASSUME V = {} PROVE x = y
    OBVIOUS
  <2> QED
    BY <1>1, ShownIs
<1>3. x \in V
  BY <1>2, ShownIs
<1>4. y \in V /\ \/ y <= Len(E) /\ \A v \in V : v <= Len(E) => v <= y
                 \/ \A v \in V : Len(E) < v /\ y <= v
  BY <1>1, <1>2, ShownIs
<1>5. x # y
  OBVIOUS
<1>6. \A v \in V : End(E, v) \in Nat
  <2>1. \A v \in V : v \in DOMAIN E
    BY DEF Scene!Visible
  <2> QED
    BY <2>1 DEF Spanned, End
<1> HIDE DEF V, x, y
<1>7. x < y
  BY <1>1, <1>3, <1>4, <1>5
<1>8. End(E, x) <= E[y].start /\ E[y].start < End(E, y) /\ End(E, y) <= M
  BY <1>1, <1>3, <1>4, <1>7
<1> QED
  BY <1>1, <1>3, <1>4, <1>6, <1>8 DEF V, x

(* A manifest that continues another reads the same lines and events as
   that one did. *)
LEMMA ReadingStays ==
  ASSUME NEW E, NEW M, Spanned(E, M), NEW G, NEW N, Spanned(G, N), Continues(E, G)
  PROVE  /\ M <= N
         /\ \A k \in 0..M : EntryAt(G, k - 1) = EntryAt(E, k - 1)
         /\ \A n \in 0..Len(E) : Scene!Visible(E) # {} => Shown(G, n) = Shown(E, n)
<1> DEFINE V == Scene!Visible(E)
           W == Scene!Visible(G)
           k == Len(E)
<1>1. /\ k \in Nat /\ DOMAIN E = 1..k /\ DOMAIN G = 1..Len(G) /\ Len(G) \in Nat /\ k <= Len(G)
      /\ \A n \in 1..k : G[n] = E[n]
      /\ M \in Nat /\ N \in Nat
  BY VisibleAre DEF Continues
<1>2. \A n \in 1..k : n \in V <=> n \in W
  BY <1>1 DEF Scene!Visible
<1>3. V \subseteq 1..k /\ W \subseteq 1..Len(G)
  BY VisibleAre
<1>4. \A n \in DOMAIN G : n > k => M <= G[n].start
  <2>1. CASE k = 0
    <3>1. M = 0
      BY <1>1, <1>3, <2>1, VisibleAre
    <3> QED
      BY <3>1 DEF Spanned
  <2>2. CASE k # 0
    <3>1. E # <<>> /\ k \in 1..k
      BY <1>1, <2>2
    <3>2. M = End(E, k)
      BY <3>1 DEF Spanned, Scene!rendererEntryCount, End
    <3>3. End(G, k) = End(E, k) /\ k \in DOMAIN G
      BY <1>1, <3>1 DEF End
    <3>4. \A n \in DOMAIN G : k < n => End(G, k) <= G[n].start
      BY <3>3 DEF Spanned
    <3> QED
      BY <1>1, <3>2, <3>3, <3>4
  <2> QED
    BY <2>1, <2>2
<1>5. M <= N
  <2>1. CASE k = 0
    <3>1. M = 0
      BY <1>1, <1>3, <2>1, VisibleAre
    <3> QED
      BY <1>1, <3>1
  <2>2. CASE k # 0
    <3>1. E # <<>> /\ k \in 1..k /\ k \in DOMAIN G
      BY <1>1, <2>2
    <3>2. M = End(E, k) /\ End(G, k) = End(E, k) /\ End(G, k) <= N
      BY <1>1, <3>1 DEF Spanned, Scene!rendererEntryCount, End
    <3> QED
      BY <3>2
  <2> QED
    BY <2>1, <2>2
<1>6. ASSUME NEW m \in 0..M PROVE EntryAt(G, m - 1) = EntryAt(E, m - 1)
  <2> DEFINE S == {v \in V : E[v].start <= m - 1}
             T == {v \in W : G[v].start <= m - 1}
  <2>1. m - 1 \in Int
    BY <1>1
  <2>2. \A v \in W : v > k => ~(G[v].start <= m - 1)
    <3> SUFFICES ASSUME NEW v \in W, v > k PROVE ~(G[v].start <= m - 1)
      OBVIOUS
    <3>1. M <= G[v].start /\ G[v].start \in Nat
      BY <1>1, <1>3, <1>4 DEF Spanned
    <3> QED
      BY <1>1, <3>1
  <2>3. \A v \in W : v > k \/ v \in 1..k
    BY <1>1, <1>3
  <2>4. S = T
    BY <1>1, <1>2, <1>3, <2>2, <2>3
  <2>5. EntryAt(E, m - 1) = Scene!Latest(S) /\ EntryAt(G, m - 1) = Scene!Latest(T)
    BY DEF EntryAt, Scene!manifestEntryForRendererIndex
  <2> QED
    BY <2>4, <2>5
<1>7. ASSUME NEW n \in 0..k, V # {} PROVE Shown(G, n) = Shown(E, n)
  <2> DEFINE x == Shown(E, n)
             y == Shown(G, n)
  <2>1. n \in Nat /\ n <= k
    BY <1>1
  <2>2. x \in V /\ \/ x <= n /\ \A v \in V : v <= n => v <= x
                   \/ \A v \in V : n < v /\ x <= v
    BY <1>7, <2>1, ShownIs
  <2>3. x \in W
    BY <1>2, <1>3, <2>2
  <2>4. y \in W /\ \/ y <= n /\ \A v \in W : v <= n => v <= y
                   \/ \A v \in W : n < v /\ y <= v
    BY <2>1, <2>3, ShownIs
  <2> HIDE DEF x, y, V, W
  <2>5. x \in 1..k /\ y \in Nat
    BY <1>3, <2>2, <2>4
  <2>6. y \in 1..k
    BY <1>1, <1>3, <2>1, <2>3, <2>4, <2>5
  <2>7. y \in V
    BY <1>2, <2>4, <2>6
  <2>8. x = y
    BY <2>1, <2>2, <2>3, <2>4, <2>5, <2>7
  <2> QED
    BY <2>8 DEF x, y
<1> QED
  BY <1>5, <1>6, <1>7 DEF V, W, k

----------------------------------------------------------------------------
(* The evidence of a call. *)

LEMMA EvidenceJoins ==
  ASSUME NEW a, Evidence(a), NEW b, Evidence(b) PROVE Evidence(a \o b)
<1> DEFINE S == {a[n] : n \in DOMAIN a} \cup {b[n] : n \in DOMAIN b}
           u == a \o b
<1>1. a \in Seq(S) /\ b \in Seq(S) /\ \A e \in S : Countable(e) /\ e.type # "agent.spawned"
  BY DEF Evidence, IsStream
<1> HIDE DEF S
<1>2. u \in Seq(S)
  BY <1>1
<1>3. \A n \in DOMAIN u : u[n] \in S
  BY <1>2
<1>4. IsStream(u)
  BY <1>1, StreamsJoin DEF Evidence
<1> HIDE DEF u
<1>5. Evidence(u)
  BY <1>1, <1>3, <1>4 DEF Evidence
<1> QED
  BY <1>5 DEF u

LEMMA CallsAreEvidence ==
  ASSUME NEW at \in Nat
  PROVE  /\ Evidence(liveFailureEvidence(at))
         /\ \A usage \in BOOLEAN : Evidence(liveSuccessEvidence(at, usage))
<1> DEFINE Single(e) == Countable(e) /\ e.type # "agent.spawned"
           asked == request(at)
           failed == LiveEvent(101, "tool.failed", at)
           done == LiveEvent(103, "tool.succeeded", at)
           metered == LiveEvent(104, "usage.recorded", at)
<1>1. Single(asked) /\ Single(failed) /\ Single(done) /\ Single(metered)
  BY DEF request, LiveEvent, Countable
<1> HIDE DEF asked, failed, done, metered
<1>2. Evidence(<<asked, failed>>) /\ Evidence(<<asked, done>>) /\ Evidence(<<metered>>) /\ Evidence(<<>>)
  BY <1>1 DEF Evidence, IsStream
<1>3. \A usage \in BOOLEAN : Evidence(<<asked, done>> \o (IF usage THEN <<metered>> ELSE <<>>))
  BY <1>2, EvidenceJoins
<1>4. Evidence(liveFailureEvidence(at))
  BY <1>2 DEF liveFailureEvidence, asked, failed
<1>5. \A usage \in BOOLEAN : Evidence(liveSuccessEvidence(at, usage))
  BY <1>3 DEF liveSuccessEvidence, asked, done, metered
<1> QED
  BY <1>4, <1>5

(* It is no earlier than anything of the case. *)
LEMMA ObservedIsTime ==
  ASSUME NEW s, IsStream(s), AllCountable(s) PROVE observedAt(s) \in Nat
<1>1. HighWater(s) \in Nat
  BY HighWaterIsHigh DEF AllCountable, Countable
<1> QED
  BY <1>1 DEF observedAt

(* What is appended spawns nobody. *)
LEMMA AppendsEvidence ==
  ASSUME NEW s, IsStream(s), AllCountable(s), NEW events, Evidence(events)
  PROVE  LET t == canonicalizeAppend(s, events).stream
         IN  /\ IsStream(t) /\ Continues(s, t) /\ AllCountable(t)
             /\ \A n \in DOMAIN t : n \notin DOMAIN s => t[n].type # "agent.spawned"
<1> DEFINE fresh == canonicalize(events).accepted
           new == {n \in DOMAIN fresh : fresh[n].key \notin Keys(s)}
           late == {n \in new : s # <<>> /\ fresh[n].text < HighWater(s)}
           P == new \ late
           u == Picked(fresh, P)
           t == canonicalizeAppend(s, events).stream
<1>1. IsStream(events) /\ AllCountable(events)
  BY DEF Evidence, AllCountable
<1>2. IsStream(t) /\ Continues(s, t) /\ AllCountable(t)
  BY <1>1, AppendGrows, AppendComesFrom
<1>3. t = s \o u
  BY DEF canonicalizeAppend, Continued
<1>4. IsStream(fresh) /\ \A n \in DOMAIN fresh : \E i \in DOMAIN events : fresh[n] = events[i]
  BY <1>1, CanonicalIsStream, AcceptedAreDelivered
<1>5. P \subseteq DOMAIN fresh
  OBVIOUS
<1> HIDE DEF fresh, P, t
<1>6. IsFiniteSet(P) /\ Positions(P)
  BY <1>4, <1>5, StreamParts, PositionsAreFinite DEF Positions
<1>7. IsStream(u) /\ \A n \in DOMAIN u : \E i \in P : u[n] = fresh[i]
  BY <1>6, PickedIsStream, PickedComesFrom
<1> HIDE DEF u
<1>8. \A n \in DOMAIN u : u[n].type # "agent.spawned"
  BY <1>4, <1>5, <1>7 DEF Evidence
<1>9. \A n \in DOMAIN t : n \notin DOMAIN s => \E m \in DOMAIN u : t[n] = u[m]
  <2> DEFINE S == {s[n] : n \in DOMAIN s} \cup {u[n] : n \in DOMAIN u}
  <2>1. s \in Seq(S) /\ u \in Seq(S)
    BY <1>7 DEF IsStream
  <2> HIDE DEF S
  <2>2. /\ Len(t) = Len(s) + Len(u) /\ Len(s) \in Nat /\ Len(u) \in Nat
        /\ DOMAIN t = 1..Len(t) /\ DOMAIN s = 1..Len(s) /\ DOMAIN u = 1..Len(u)
        /\ \A n \in 1..(Len(s) + Len(u)) : n > Len(s) => t[n] = u[n - Len(s)]
    BY <1>3, <2>1
  <2> SUFFICES ASSUME NEW n \in DOMAIN t, n \notin DOMAIN s PROVE \E m \in DOMAIN u : t[n] = u[m]
    OBVIOUS
  <2>3. n - Len(s) \in DOMAIN u /\ t[n] = u[n - Len(s)]
    BY <2>2
  <2> QED
    BY <2>3
<1>10. \A n \in DOMAIN t : n \notin DOMAIN s => t[n].type # "agent.spawned"
  BY <1>8, <1>9
<1> QED
  BY <1>2, <1>10 DEF t

LEMMA FilingIsHome ==
  ASSUME NEW s
  PROVE  Homes(s, Filing(s)) /\ (~Delegating(s) => Homes(s, {"main"}))
BY DEF Homes, Filing, Delegating

LEMMA StillAtHome ==
  ASSUME NEW s, IsStream(s), NEW t, IsStream(t), Continues(s, t), ~Delegating(s),
         \A n \in DOMAIN t : n \notin DOMAIN s => t[n].type # "agent.spawned"
  PROVE  ~Delegating(t)
<1>1. DOMAIN s = 1..Len(s) /\ \A n \in DOMAIN s : t[n] = s[n]
  BY StreamParts DEF Continues
<1> QED
  BY <1>1 DEF Delegating

----------------------------------------------------------------------------
(* What an append hands over. *)

LEMMA EntriesJoin ==
  ASSUME NEW a, IsStream(a), NEW b, IsStream(b), Continues(a, b)
  PROVE  LET rest == SubSeq(b, Len(a) + 1, Len(b))
         IN  /\ a \o rest = b
             /\ (rest = <<>> => Len(a) = Len(b)) /\ (rest # <<>> => Len(a) < Len(b))
<1> DEFINE S == {b[n] : n \in DOMAIN b}
           rest == SubSeq(b, Len(a) + 1, Len(b))
           u == a \o rest
<1>1. /\ Len(a) \in Nat /\ Len(b) \in Nat /\ Len(a) <= Len(b) /\ DOMAIN a = 1..Len(a)
      /\ DOMAIN b = 1..Len(b) /\ \A n \in 1..Len(a) : b[n] = a[n]
  BY StreamParts DEF Continues
<1>2. b \in Seq(S)
  BY DEF IsStream
<1>3. a \in Seq(S)
  <2>1. \A n \in DOMAIN a : a[n] \in S
    BY <1>1
  <2> HIDE DEF S
  <2>2. a \in Seq({a[n] : n \in DOMAIN a})
    BY DEF IsStream
  <2> QED
    BY <2>1, <2>2
<1> HIDE DEF S, rest
<1>9. rest \in Seq(S) /\ Len(rest) = Len(b) - Len(a)
  <2>1. Len(a) + 1 \in 1..(Len(b) + 1) /\ Len(b) \in ((Len(a) + 1) - 1)..Len(b)
    BY <1>1
  <2>2. /\ SubSeq(b, Len(a) + 1, Len(b)) \in Seq(S)
        /\ Len(SubSeq(b, Len(a) + 1, Len(b)))
             = IF Len(a) + 1 <= Len(b) THEN Len(b) - (Len(a) + 1) + 1 ELSE 0
    BY <1>2, <2>1, SubSeqProperties
  <2>3. (IF Len(a) + 1 <= Len(b) THEN Len(b) - (Len(a) + 1) + 1 ELSE 0) = Len(b) - Len(a)
    <3>1. \A x, y \in Nat : x <= y => (IF x + 1 <= y THEN y - (x + 1) + 1 ELSE 0) = y - x
      OBVIOUS
    <3> QED
      BY <1>1, <3>1
  <2> QED
    BY <2>2, <2>3 DEF rest
<1>4. \A n \in 1..(Len(b) - Len(a)) : rest[n] = b[Len(a) + n]
  <2>1. Len(a) + 1 \in 1..(Len(b) + 1) /\ Len(b) \in ((Len(a) + 1) - 1)..Len(b)
    BY <1>1
  <2>2. \A n \in 1..(Len(b) - (Len(a) + 1) + 1) : rest[n] = b[(Len(a) + 1) + n - 1]
    BY <1>2, <2>1, SubSeqProperties DEF rest
  <2> QED
    BY <1>1, <2>2
<1> DEFINE p == Len(a)
           q == Len(b)
<1>10. p \in Nat /\ q \in Nat /\ p <= q /\ Len(rest) = q - p
  BY <1>1, <1>9
<1>5. /\ u \in Seq(S) /\ Len(u) = q
      /\ \A n \in 1..p : u[n] = a[n]
      /\ \A n \in 1..q : n > p => u[n] = rest[n - p]
  <2>1. a \in Seq(S) /\ rest \in Seq(S)
    BY <1>3, <1>9
  <2>2. /\ u \in Seq(S) /\ Len(u) = p + Len(rest)
        /\ \A n \in 1..p : u[n] = a[n]
        /\ \A n \in 1..(p + Len(rest)) : n > p => u[n] = rest[n - p]
    BY <2>1
  <2>3. p + Len(rest) = q
    BY <1>10
  <2> QED
    BY <2>2, <2>3
<1>6. \A n \in 1..Len(b) : u[n] = b[n]
  <2> SUFFICES ASSUME NEW n \in 1..Len(b) PROVE u[n] = b[n]
    OBVIOUS
  <2>1. CASE n \in 1..Len(a)
    BY <1>1, <1>5, <2>1
  <2>2. CASE n \notin 1..Len(a)
    <3>1. n > Len(a) /\ n - Len(a) \in 1..(Len(b) - Len(a)) /\ Len(a) + (n - Len(a)) = n
      BY <1>1, <2>2
    <3>2. u[n] = rest[n - Len(a)] /\ rest[n - Len(a)] = b[Len(a) + (n - Len(a))]
      BY <1>4, <1>5, <3>1
    <3> QED
      BY <3>1, <3>2
  <2> QED
    BY <2>1, <2>2
<1> HIDE DEF u
<1>7. u = b
  <2>1. u \in Seq(S) /\ Len(u) = Len(b)
    BY <1>5
  <2> HIDE DEF p, q
  <2> QED
    BY <1>2, <1>6, <2>1
<1>8. (rest = <<>> => Len(rest) = 0) /\ (rest # <<>> => Len(rest) # 0)
  BY <1>9
<1> QED
  BY <1>7, <1>8, <1>10 DEF u, rest

LEMMA NumbersFrom ==
  ASSUME NEW M \in Nat, NEW N \in Nat, M <= N
  PROVE  Numbers(M) \o Picked(Numbers(N), {n \in 1..N : n > M}) = Numbers(N)
<1> DEFINE P == {n \in 1..N : n > M}
           rest == Picked(Numbers(N), P)
           u == Numbers(M) \o rest
<1>1. P = (M + 1)..N
  OBVIOUS
<1> HIDE DEF P
<1>2. Cardinality(P) = N - M
  <2>1. M + 1 \in Int /\ N \in Int
    OBVIOUS
  <2>2. Cardinality((M + 1)..N) = IF M + 1 > N THEN 0 ELSE N - (M + 1) + 1
    BY <2>1, FS_Interval
  <2>3. (IF M + 1 > N THEN 0 ELSE N - (M + 1) + 1) = N - M
    OBVIOUS
  <2> QED
    BY <1>1, <2>2, <2>3
<1>3. ASSUME NEW i \in P PROVE Cardinality({j \in P : j < i}) = i - M - 1
  <2>1. i \in Int /\ M + 1 <= i /\ i <= N
    BY <1>1
  <2>2. {j \in P : j < i} = (M + 1)..(i - 1)
    BY <1>1, <2>1
  <2>3. M + 1 \in Int /\ i - 1 \in Int
    BY <2>1
  <2>4. Cardinality((M + 1)..(i - 1)) = IF M + 1 > i - 1 THEN 0 ELSE (i - 1) - (M + 1) + 1
    BY <2>3, FS_Interval
  <2>5. (IF M + 1 > i - 1 THEN 0 ELSE (i - 1) - (M + 1) + 1) = i - M - 1
    BY <2>1
  <2> QED
    BY <2>2, <2>4, <2>5
<1>4. ASSUME NEW n \in 1..(N - M)
      PROVE  (CHOOSE i \in P : Cardinality({j \in P : j < i}) = n - 1) = M + n
  <2>1. M + n \in P /\ \A i \in P : i \in Int
    BY <1>1
  <2>2. \A i \in P : Cardinality({j \in P : j < i}) = n - 1 <=> i = M + n
    BY <1>3, <2>1
  <2> QED
    BY <2>1, <2>2
<1>5. DOMAIN rest = 1..(N - M) /\ \A n \in 1..(N - M) : rest[n] = M + n
  <2>1. rest = [n \in 1..(N - M) |->
                  Numbers(N)[CHOOSE i \in P : Cardinality({j \in P : j < i}) = n - 1]]
    BY <1>2 DEF Picked
  <2>2. \A n \in 1..(N - M) : Numbers(N)[M + n] = M + n
    BY DEF Numbers
  <2> QED
    BY <1>4, <2>1, <2>2
<1>6. rest = [n \in 1..(N - M) |-> rest[n]]
  BY <1>5 DEF Picked
<1> HIDE DEF rest
<1>7. rest \in Seq(Nat) /\ Len(rest) = N - M
  BY <1>5, <1>6
<1>8. /\ Numbers(M) \in Seq(Nat) /\ Len(Numbers(M)) = M /\ \A n \in 1..M : Numbers(M)[n] = n
      /\ Numbers(N) \in Seq(Nat) /\ Len(Numbers(N)) = N /\ \A n \in 1..N : Numbers(N)[n] = n
  BY DEF Numbers
<1>9. /\ u \in Seq(Nat) /\ Len(u) = N
      /\ \A n \in 1..M : u[n] = Numbers(M)[n]
      /\ \A n \in 1..N : n > M => u[n] = rest[n - M]
  BY <1>7, <1>8
<1>10. \A n \in 1..N : u[n] = Numbers(N)[n]
  <2> SUFFICES ASSUME NEW n \in 1..N PROVE u[n] = n
    BY <1>8
  <2>1. CASE n \in 1..M
    BY <1>8, <1>9, <2>1
  <2>2. CASE n \notin 1..M
    <3>1. n > M /\ n - M \in 1..(N - M) /\ M + (n - M) = n
      BY <2>2
    <3> QED
      BY <1>5, <1>9, <3>1
  <2> QED
    BY <2>1, <2>2
<1> HIDE DEF u
<1>11. u = Numbers(N)
  BY <1>8, <1>9, <1>10
<1> QED
  BY <1>11 DEF u, rest, P

LEMMA NumbersAreInTime ==
  ASSUME NEW N \in Nat PROVE InTime(Numbers(N)) = Numbers(N)
<1> DEFINE T == Numbers(N)
           V == {T[m] : m \in DOMAIN T}
           Fits(n, at) == Cardinality({m \in DOMAIN T : T[m] < at}) < n /\ n <= Count(T, at)
<1>1. DOMAIN T = 1..N /\ (\A n \in 1..N : T[n] = n) /\ V = 1..N
  BY DEF Numbers
<1> HIDE DEF T, V
<1>2. ASSUME NEW at \in 1..N PROVE Count(T, at) = at /\ Cardinality({m \in DOMAIN T : T[m] < at}) = at - 1
  <2>1. {m \in DOMAIN T : T[m] <= at} = 1..at /\ {m \in DOMAIN T : T[m] < at} = 1..(at - 1)
    BY <1>1
  <2>2. at \in Nat /\ at - 1 \in Nat
    OBVIOUS
  <2> QED
    BY <2>1, <2>2, FirstPlaces DEF Count
<1>3. ASSUME NEW n \in 1..N PROVE (CHOOSE at \in V : Fits(n, at)) = n
  <2>1. \A at \in V : Fits(n, at) <=> at = n
    BY <1>1, <1>2
  <2> HIDE DEF Fits
  <2> QED
    BY <1>1, <2>1
<1>4. InTime(T) = [n \in DOMAIN T |-> CHOOSE at \in V : Fits(n, at)]
  BY DEF InTime, V
<1> HIDE DEF Fits
<1>5. InTime(T) = [n \in 1..N |-> n]
  BY <1>1, <1>3, <1>4
<1> QED
  BY <1>5 DEF T, Numbers

(* A timeline of main alone, and what is handed over of it. *)
LEMMA TimesAreNumbers ==
  ASSUME NEW s, IsStream(s), Homes(s, {"main"})
  PROVE  LET c == Scene!compileZoetropeScene(s) IN Times(c.slots) = Numbers(Len(c.slots))
<1> DEFINE c == Scene!compileZoetropeScene(s)
           T == Times(c.slots)
<1>1. \A n \in DOMAIN c.slots : T[n] = n
  BY SceneIsTimed
<1>2. IsStream(c.slots)
  BY SceneIsSpanned
<1> HIDE DEF c
<1>3. DOMAIN c.slots = 1..Len(c.slots)
  BY <1>2, StreamParts
<1>4. T = [n \in DOMAIN c.slots |-> T[n]]
  BY DEF Times
<1> HIDE DEF T
<1>5. T = [n \in 1..Len(c.slots) |-> n]
  BY <1>1, <1>3, <1>4
<1> QED
  BY <1>5 DEF Numbers, T, c

LEMMA TimelineGrows ==
  ASSUME NEW s, IsStream(s), NEW t, IsStream(t), Continues(s, t), Homes(s, {"main"}), Homes(t, {"main"})
  PROVE  LET c == Scene!compileZoetropeScene(s)
             d == Scene!compileZoetropeScene(t)
         IN  InTime(Times(c.slots) \o Handed(c, d)) = Times(d.slots)
<1> DEFINE c == Scene!compileZoetropeScene(s)
           d == Scene!compileZoetropeScene(t)
           M == Len(c.slots)
           N == Len(d.slots)
           P == {n \in DOMAIN d.slots : IF d.slots[n].file = "main" THEN n > M
                                        ELSE d.slots[n].file \in Scene!Announced(d)}
<1>1. Times(c.slots) = Numbers(M) /\ Times(d.slots) = Numbers(N)
  BY TimesAreNumbers
<1>2. Continues(c.slots, d.slots)
  BY CompiledGrows
<1>3. IsStream(c.slots) /\ IsStream(d.slots) /\ \A n \in DOMAIN d.slots : d.slots[n].file \in {"main"}
  BY SceneIsSpanned
<1> HIDE DEF c, d
<1>4. M \in Nat /\ N \in Nat /\ M <= N /\ DOMAIN d.slots = 1..N
  BY <1>2, <1>3, StreamParts DEF Continues
<1>5. Handed(c, d) = Picked(Numbers(N), P)
  BY <1>1 DEF Handed
<1>6. P = {n \in 1..N : n > M}
  BY <1>3, <1>4
<1> HIDE DEF M, N, P
<1>7. Numbers(M) \o Picked(Numbers(N), P) = Numbers(N)
  BY <1>4, <1>6, NumbersFrom
<1> QED
  BY <1>1, <1>4, <1>5, <1>7, NumbersAreInTime DEF c, d

----------------------------------------------------------------------------
(* Where the renderer rests, and what the shell makes of it. *)

LEMMA IndexIs ==
  ASSUME NEW c, Charted(c)
  PROVE  /\ Len(c.items) \in Nat
         /\ c.playhead \in 0..Len(c.items) => Index(c) \in 0..Len(c.items) /\ Index(c) <= c.playhead
         /\ \A d : Alike(c, d) /\ d.playhead = c.playhead => Index(d) = Index(c)
         /\ \A d : Alike(c, d) => (AtEdge(d) <=> Index(d) = Len(c.items))
<1>1. Len(c.items) \in Nat
  BY StreamParts DEF Charted, Timed
<1>2. c.playhead \in 0..Len(c.items) => Index(c) \in 0..Len(c.items) /\ Index(c) <= c.playhead
  BY PlacesOf DEF Charted, Index
<1> QED
  BY <1>1, <1>2 DEF Alike, Index, AtEdge

LEMMA ItemIs ==
  ASSUME NEW c, Charted(c), NEW d, Alike(c, d), NEW k \in 1..Len(c.items), d.playhead = c.items[k]
  PROVE  /\ d.playhead \in 1..Len(c.items) /\ Index(d) \in {k, k + 1}
         /\ Index(d) \in 0..Len(c.items) /\ (c.items[k] = k => Index(d) = k)
         /\ k = Len(c.items) => Index(d) = k
<1>1. c.items[k] \in 1..Len(c.items)
      /\ Count(c.items, c.items[k]) \in {k, k + 1}
      /\ (c.items[k] = k => Count(c.items, c.items[k]) = k)
  BY PlacesOf DEF Charted
<1>2. Index(d) = Count(c.items, c.items[k])
  BY DEF Index, Alike
<1>3. Len(c.items) \in Nat
  BY IndexIs
<1>4. c.items[k] \in 0..Len(c.items)
  BY <1>1, <1>3
<1>5. Count(c.items, c.items[k]) \in 0..Len(c.items)
  BY <1>4, PlacesOf DEF Charted
<1>6. k = Len(c.items) => Count(c.items, c.items[k]) = k
  BY <1>1, <1>3, <1>5
<1> QED
  BY <1>1, <1>2, <1>5, <1>6

(* The operator moves the playhead of a renderer the shell has seen. *)
LEMMA MoveRests ==
  ASSUME NEW c, Charted(c), NEW h, Rested(c, h), h.polled = Index(c),
         NEW d, Alike(c, d), NEW g, g.polled = h.polled,
         NEW k \in 1..Len(c.items), d.playhead = c.items[k], d.follow => k >= Len(c.items)
  PROVE  Rested(d, g)
<1>1. /\ Len(c.items) \in Nat /\ Len(d.items) = Len(c.items)
      /\ Index(c) \in 0..Len(c.items)
  BY IndexIs DEF Rested, Alike
<1>2. /\ d.playhead \in 1..Len(c.items) /\ Index(d) \in 0..Len(c.items)
      /\ k = Len(c.items) => Index(d) = k
  BY ItemIs
<1>3. k >= Len(c.items) => k = Len(c.items)
  BY <1>1
<1>4. d.follow => Index(d) = Len(c.items)
  BY <1>2, <1>3
<1>5. g.polled \in 0..Len(c.items) /\ (d.follow /\ g.polled # Index(d) => g.polled < Index(d))
  BY <1>1, <1>4
<1> QED
  BY <1>1, <1>2, <1>5 DEF Rested

LEMMA StillAgrees ==
  ASSUME NEW c, Charted(c), NEW h, h.polled = Index(c), NEW d, Alike(c, d), NEW known
  PROVE  (Aware(c, h) => Aware(d, h)) /\ (Agrees(c, h, known) => Agrees(d, h, known))
<1>1. (AtEdge(c) <=> Index(c) = Len(c.items)) /\ (AtEdge(d) <=> Index(d) = Len(c.items))
  BY IndexIs DEF Alike
<1>2. d.manifest = c.manifest
  BY DEF Alike
<1> QED
  BY <1>1, <1>2 DEF Aware, Agrees

LEMMA AdvanceRests ==
  ASSUME NEW c, Charted(c), NEW h, Rested(c, h), c.follow, ~AtEdge(c),
         NEW d, Alike(c, d), d.follow = c.follow, d.playhead = c.items[Index(c) + 1]
  PROVE  Rested(d, h) /\ h.polled # Index(d)
<1>1. /\ Len(c.items) \in Nat /\ Len(d.items) = Len(c.items) /\ Index(c) \in 0..Len(c.items)
      /\ Index(c) # Len(c.items)
  BY IndexIs DEF Rested, Alike, AtEdge
<1> DEFINE k == Index(c) + 1
<1>2. k \in 1..Len(c.items)
  BY <1>1
<1>3. d.playhead \in 1..Len(c.items) /\ Index(d) \in {k, k + 1} /\ Index(d) \in 0..Len(c.items)
  <2> HIDE DEF k
  <2>1. d.playhead = c.items[k]
    BY DEF k
  <2> QED
    BY <1>2, <2>1, ItemIs
<1>4. h.polled \in 0..Len(c.items) /\ (h.polled = Index(c) \/ h.polled < Index(c))
  BY DEF Rested
<1>5. h.polled < Index(d)
  BY <1>1, <1>3, <1>4
<1>6. h.polled # Index(d)
  BY <1>3, <1>4, <1>5
<1> QED
  BY <1>1, <1>3, <1>4, <1>5, <1>6 DEF Rested

(* Seeking an event: the renderer comes to rest on its lines. *)
LEMMA SeekAgrees ==
  ASSUME NEW c, Charted(c), NEW n \in Nat \ {0}, Scene!Visible(c.manifest) # {},
         NEW x, x = Shown(c.manifest, n), NEW d, Alike(c, d),
         d.playhead = c.items[c.manifest[x].start + 1],
         NEW g, g.manifest = c.manifest, g.cursor.at = n
  PROVE  /\ c.manifest[x].start \in Nat /\ c.manifest[x].start < Len(c.items)
         /\ \A known : Evenly(c) => Agrees(d, g, known)
         /\ (n >= Len(c.manifest) => g.cursor.edge) => Aware(d, g)
<1> DEFINE E == c.manifest
           M == Len(c.items)
           k == E[x].start + 1
<1>1. Spanned(E, M) /\ M \in Nat
  BY IndexIs DEF Charted
<1>2. x \in Scene!Visible(E)
  BY <1>1, ShownIs
<1>3. /\ Len(E) \in Nat /\ Scene!Visible(E) \subseteq 1..Len(E) /\ DOMAIN E = 1..Len(E)
      /\ E[x].start \in Nat /\ E[x].start < End(E, x) /\ End(E, x) <= M
  BY <1>1, <1>2, VisibleAre
<1>4. x \in DOMAIN E /\ End(E, x) \in Nat
  BY <1>1, <1>2, <1>3 DEF Spanned, End
<1>5. k \in 1..M /\ k <= End(E, x)
  BY <1>1, <1>3, <1>4
<1>6. /\ Index(d) \in {k, k + 1} /\ Index(d) \in 0..M /\ (c.items[k] = k => Index(d) = k)
  <2> HIDE DEF k
  <2>1. d.playhead = c.items[k]
    BY DEF k
  <2> QED
    BY <1>5, <2>1, ItemIs DEF M
<1>7. c.items[k] # k => End(E, x) # k
  BY <1>4, <1>5 DEF Charted, Timed
<1>8. Index(d) <= End(E, x)
  BY <1>3, <1>4, <1>5, <1>6, <1>7
<1>9. ASSUME Evenly(c), NEW known PROVE Agrees(d, g, known)
  <2>0. c.items[k] = k
    <3> HIDE DEF k
    <3> QED
      BY <1>5, <1>9 DEF Evenly
  <2>1. Index(d) - 1 = E[x].start
    <3>1. Index(d) = k
      BY <1>6, <2>0
    <3> QED
      BY <1>3, <3>1
  <2>2. EntryAt(E, E[x].start) = x
    BY <1>1, <1>2, LinesAndEvents
  <2>3. d.manifest = E
    BY DEF Alike
  <2> QED
    BY <2>1, <2>2, <2>3 DEF Agrees
<1>10. ASSUME n >= Len(E) => g.cursor.edge PROVE Aware(d, g)
  <2> SUFFICES ASSUME StandsAlone(E), n < Len(E), 1 <= n PROVE ~AtEdge(d)
    <3>1. n < Len(E) \/ n >= Len(E)
      BY <1>3
    <3>2. CASE n >= Len(E)
      BY <1>10, <3>2 DEF Aware
    <3>3. CASE n < Len(E)
      <4>1. 1 <= n
        OBVIOUS
      <4>2. d.manifest = E /\ g.manifest = E
        BY DEF Alike
      <4> QED
        BY <3>3, <4>1, <4>2 DEF Aware
    <3> QED
      BY <3>1, <3>2, <3>3
  <2>1. n \in 1..(Len(E) - 1)
    BY <1>3
  <2>2. Shown(E, n) # Shown(E, Len(E))
    BY <2>1 DEF StandsAlone
  <2>3. End(E, x) < M
    BY <1>1, <2>2, EarlierEnds
  <2>4. Index(d) # M
    BY <1>1, <1>4, <1>6, <1>8, <2>3
  <2> QED
    BY <2>4, IndexIs
<1> QED
  BY <1>1, <1>3, <1>4, <1>9, <1>10

----------------------------------------------------------------------------
(* The gate: what is counted, and what an API that started again forgot. *)
Admits ==
  /\ gate \in [used : Nat, calls : Nat, restarts : Nat]
  /\ gate.used <= MaxCalls
  /\ gate.calls <= gate.used + MaxCalls * gate.restarts

LEMMA AdmitsFromTheStart == ASSUME LiveCaseAssumption, LiveInit PROVE Admits
BY DEF LiveCaseAssumption, LiveInit, Admits

LEMMA GateStays ==
  ASSUME [LiveNext]_liveVars, ~ApiRestarts, \A q \in requests : ~Admitted(q)
  PROVE  gate' = gate
<1>1. CASE \E q \in requests : Refused(q) \/ Decided(q) \/ DecisionFails(q) \/ Unreachable(q)
  BY <1>1 DEF Refused, Decided, DecisionFails, Unreachable
<1>2. CASE Clicked \/ ReplyFails \/ EvidenceRefused \/ EvidenceAppended \/ Reload
  BY <1>2 DEF Clicked, ReplyFails, EvidenceRefused, EvidenceAppended, Reload
<1>3. CASE Mount \/ Degrade \/ Play \/ Advance \/ ReturnToLive \/ Poll
  BY <1>3 DEF Mount, Degrade, Play, Advance, ReturnToLive, Poll
<1>4. CASE \E n \in DOMAIN page.stream : Seek(n)
  BY <1>4 DEF Seek
<1>5. CASE \E target \in DOMAIN cockpit.items : Scrub(target)
  BY <1>5 DEF Scrub
<1>6. CASE UNCHANGED liveVars
  BY <1>6 DEF liveVars
<1> QED
  BY <1>1, <1>2, <1>3, <1>4, <1>5, <1>6 DEF LiveNext

LEMMA AdmitsStep ==
  ASSUME LiveCaseAssumption, Admits, [LiveNext]_liveVars PROVE Admits'
<1>0. MaxCalls \in Nat
  BY DEF LiveCaseAssumption
<1>1. ASSUME NEW q \in requests, Admitted(q) PROVE Admits'
  <2>1. gate.used < MaxCalls /\ gate' = [gate EXCEPT !.used = @ + 1, !.calls = @ + 1]
    BY <1>1 DEF Admitted
  <2>2. /\ gate' \in [used : Nat, calls : Nat, restarts : Nat]
        /\ gate'.used = gate.used + 1 /\ gate'.calls = gate.calls + 1
        /\ gate'.restarts = gate.restarts
    <3>1. gate \in [used : Nat, calls : Nat, restarts : Nat]
      BY DEF Admits
    <3>2. gate.used \in Nat /\ gate.calls \in Nat /\ gate.restarts \in Nat
      BY <3>1
    <3>3. gate'.used = gate.used + 1 /\ gate'.calls = gate.calls + 1 /\ gate'.restarts = gate.restarts
      BY <2>1, <3>1
    <3>4. gate' = [used |-> gate.used + 1, calls |-> gate.calls + 1, restarts |-> gate.restarts]
      BY <2>1, <3>1
    <3> QED
      BY <3>2, <3>3, <3>4
  <2>3. MaxCalls * gate.restarts \in Nat
    BY <1>0 DEF Admits
  <2>4. gate.used \in Nat /\ gate.calls \in Nat
    BY DEF Admits
  <2> QED
    BY <1>0, <2>1, <2>2, <2>3, <2>4 DEF Admits
<1>2. CASE ApiRestarts
  <2>1. gate' = [gate EXCEPT !.used = 0, !.restarts = @ + 1]
    BY <1>2 DEF ApiRestarts
  <2>2. /\ gate' \in [used : Nat, calls : Nat, restarts : Nat]
        /\ gate'.used = 0 /\ gate'.calls = gate.calls /\ gate'.restarts = gate.restarts + 1
    <3>1. gate \in [used : Nat, calls : Nat, restarts : Nat]
      BY DEF Admits
    <3>2. gate.used \in Nat /\ gate.calls \in Nat /\ gate.restarts \in Nat
      BY <3>1
    <3>3. gate'.used = 0 /\ gate'.calls = gate.calls /\ gate'.restarts = gate.restarts + 1
      BY <2>1, <3>1
    <3>4. gate' = [used |-> 0, calls |-> gate.calls, restarts |-> gate.restarts + 1]
      BY <2>1, <3>1
    <3> QED
      BY <3>2, <3>3, <3>4
  <2>3. \A m, r \in Nat : m * (r + 1) = m + m * r /\ m * r \in Nat
    OBVIOUS
  <2>4. gate.used \in Nat /\ gate.calls \in Nat /\ gate.restarts \in Nat
    BY DEF Admits
  <2>5. MaxCalls * (gate.restarts + 1) = MaxCalls + MaxCalls * gate.restarts
        /\ MaxCalls * gate.restarts \in Nat
    BY <1>0, <2>3, <2>4
  <2>6. gate.calls <= MaxCalls + MaxCalls * gate.restarts
    BY <1>0, <2>4, <2>5 DEF Admits
  <2> QED
    BY <1>0, <2>2, <2>5, <2>6 DEF Admits
<1>3. CASE ~ApiRestarts /\ \A q \in requests : ~Admitted(q)
  BY <1>3, GateStays DEF Admits
<1> QED
  BY <1>1, <1>2, <1>3

(* Within one life of the API no more calls than it permits, whatever is
   clicked, lost or loaded again meanwhile (guard.ts admitLiveRequest). *)
THEOREM CallsBoundedHolds == ASSUME LiveCaseAssumption PROVE LiveSpec => []CallsBounded
<1>1. LiveInit => Admits
  BY AdmitsFromTheStart
<1>2. Admits /\ [LiveNext]_liveVars => Admits'
  BY AdmitsStep
<1>3. Admits => CallsBounded
  <2>1. \A m, r \in Nat : m * (r + 1) = m + m * r /\ m * r \in Nat
    OBVIOUS
  <2>2. MaxCalls \in Nat
    BY DEF LiveCaseAssumption
  <2>3. SUFFICES ASSUME Admits PROVE CallsBounded
    OBVIOUS
  <2>4. gate.used \in Nat /\ gate.calls \in Nat /\ gate.restarts \in Nat
    BY <2>3 DEF Admits
  <2>5. MaxCalls * (gate.restarts + 1) = MaxCalls + MaxCalls * gate.restarts
        /\ MaxCalls * gate.restarts \in Nat
    BY <2>1, <2>2, <2>4
  <2> QED
    BY <2>2, <2>3, <2>4, <2>5 DEF Admits, CallsBounded
<1> QED
  BY <1>1, <1>2, <1>3, PTL DEF LiveSpec

----------------------------------------------------------------------------
(* The page: who asks, what is answered, and the stream it grows. *)

LEMMA DialogueFromTheStart == ASSUME LiveCaseAssumption, LiveInit PROVE Dialogue
<1>1. /\ recorded \in Recordings /\ requests = {} /\ reply.kind = "none"
      /\ DOMAIN page = {"number", "stream", "button", "spent", "asking"}
      /\ page.number = 0 /\ page.stream = recorded /\ page.asking = FALSE /\ page.spent = FALSE
  BY DEF LiveInit, NewPage, NoReply
<1>2. IsStream(recorded) /\ AllCountable(recorded)
  BY <1>1 DEF LiveCaseAssumption, IsStream, AllCountable
<1>3. Continues(recorded, recorded)
  BY <1>2, StreamParts DEF Continues
<1>4. Asks
  BY <1>1 DEF Asks
<1>5. Tells
  BY <1>1, <1>2, <1>3 DEF Tells
<1> QED
  BY <1>4, <1>5 DEF Dialogue

(* A request that has been answered, with evidence or without. *)
LEMMA AnswerStep ==
  ASSUME Asks, NEW q \in requests, NEW kind, NEW events, Answer(q, kind, events), page' = page,
         kind # "none", kind = "evidence" => Evidence(events)
  PROVE  Asks'
<1>1. requests' = requests \ {q}
  BY DEF Answer
<1>2. CASE q.page = page.number
  <2>1. reply'.kind = kind /\ reply'.events = events
    BY <1>2 DEF Answer
  <2>2. page.asking /\ \A p \in requests' : ~Current(p)
    BY <1>1, <1>2 DEF Asks, Current
  <2> QED
    BY <1>1, <2>1, <2>2 DEF Asks, Current
<1>3. CASE q.page # page.number
  <2>1. reply' = reply
    BY <1>3 DEF Answer
  <2> QED
    BY <1>1, <2>1 DEF Asks, Current
<1> QED
  BY <1>2, <1>3

LEMMA CallStep ==
  ASSUME Asks, NEW q \in requests, Admitted(q) PROVE Asks'
<1> DEFINE p == [q EXCEPT !.called = TRUE]
<1>1. requests' = (requests \ {q}) \cup {p} /\ page' = page /\ reply' = reply
  BY DEF Admitted
<1>2. DOMAIN p = {"page", "called", "at"} /\ p.page = q.page /\ p.at = q.at
  BY DEF Asks
<1> HIDE DEF p
<1>3. \A r \in requests' : r = p \/ (r \in requests /\ r # q)
  BY <1>1
<1> QED
  BY <1>1, <1>2, <1>3 DEF Asks, Current

LEMMA RequestsStep ==
  ASSUME Dialogue, NEW q \in requests,
         Admitted(q) \/ Refused(q) \/ Decided(q) \/ DecisionFails(q) \/ Unreachable(q)
  PROVE  Dialogue'
<1>1. q.at \in Nat
  BY DEF Dialogue, Asks
<1>2. page' = page /\ recorded' = recorded
  BY DEF Admitted, Refused, Decided, DecisionFails, Unreachable
<1>3. Tells'
  BY <1>2 DEF Dialogue, Tells
<1>4. CASE Admitted(q)
  BY <1>3, <1>4, CallStep DEF Dialogue
<1>5. CASE Refused(q)
  <2>1. Answer(q, "budget", <<>>)
    BY <1>5 DEF Refused
  <2> QED
    BY <1>2, <1>3, <2>1, AnswerStep DEF Dialogue
<1>6. CASE Decided(q)
  <2>1. PICK usage \in BOOLEAN : Answer(q, "evidence", liveSuccessEvidence(q.at, usage))
    BY <1>6 DEF Decided
  <2>2. Evidence(liveSuccessEvidence(q.at, usage))
    BY <1>1, CallsAreEvidence
  <2> QED
    BY <1>2, <1>3, <2>1, <2>2, AnswerStep DEF Dialogue
<1>7. CASE DecisionFails(q)
  <2>1. Answer(q, "evidence", liveFailureEvidence(q.at))
    BY <1>7 DEF DecisionFails
  <2>2. Evidence(liveFailureEvidence(q.at))
    BY <1>1, CallsAreEvidence
  <2> QED
    BY <1>2, <1>3, <2>1, <2>2, AnswerStep DEF Dialogue
<1>8. CASE Unreachable(q)
  <2>1. Answer(q, "unreachable", <<>>)
    BY <1>8 DEF Unreachable
  <2> QED
    BY <1>2, <1>3, <2>1, AnswerStep DEF Dialogue
<1> QED
  BY <1>4, <1>5, <1>6, <1>7, <1>8

LEMMA RestartDialogue == ASSUME Dialogue, ApiRestarts PROVE Dialogue'
<1>1. requests' = {} /\ page' = page /\ recorded' = recorded
  BY DEF ApiRestarts
<1>2. CASE \E q \in requests : q.page = page.number
  <2>1. reply'.kind = "unreachable"
    BY <1>2 DEF ApiRestarts
  <2>2. page.asking
    BY <1>2 DEF Dialogue, Asks, Current
  <2> QED
    BY <1>1, <2>1, <2>2 DEF Dialogue, Asks, Tells
<1>3. CASE ~\E q \in requests : q.page = page.number
  <2>1. reply' = reply
    BY <1>3 DEF ApiRestarts
  <2> QED
    BY <1>1, <2>1 DEF Dialogue, Asks, Tells
<1> QED
  BY <1>2, <1>3

LEMMA ClickDialogue == ASSUME Dialogue, Clicked PROVE Dialogue'
<1> DEFINE p == [page |-> page.number, called |-> FALSE, at |-> observedAt(page.stream)]
<1>1. /\ ~page.asking /\ ~page.spent /\ reply' = reply /\ recorded' = recorded
      /\ page' = [page EXCEPT !.asking = TRUE, !.button = FALSE]
      /\ requests' = requests \cup {p}
  BY DEF Clicked
<1>2. /\ DOMAIN page' = DOMAIN page /\ page'.number = page.number /\ page'.stream = page.stream
      /\ page'.spent = page.spent /\ page'.asking = TRUE
  BY <1>1 DEF Dialogue, Asks
<1>3. observedAt(page.stream) \in Nat
  BY ObservedIsTime DEF Dialogue, Tells
<1>4. DOMAIN p = {"page", "called", "at"} /\ p.page = page.number /\ p.at \in Nat
  BY <1>3
<1> HIDE DEF p
<1>5. reply.kind = "none" /\ \A q \in requests : ~Current(q)
  BY <1>1 DEF Dialogue, Asks
<1>6. Tells'
  BY <1>1, <1>2 DEF Dialogue, Tells
<1>7. Asks'
  BY <1>1, <1>2, <1>4, <1>5 DEF Dialogue, Asks, Current
<1> QED
  BY <1>6, <1>7 DEF Dialogue

(* An answer that is not applied. *)
LEMMA RefusalDialogue == ASSUME Dialogue, ReplyFails \/ EvidenceRefused PROVE Dialogue'
<1>1. /\ reply.kind # "none" /\ reply' = NoReply /\ requests' = requests /\ recorded' = recorded
      /\ DOMAIN page' = DOMAIN page /\ page'.number = page.number /\ page'.stream = page.stream
      /\ page'.asking = FALSE
  BY DEF Dialogue, Asks, ReplyFails, EvidenceRefused
<1>2. ~page'.spent => ~page.spent
  BY DEF Dialogue, Asks, ReplyFails, EvidenceRefused
<1>3. reply'.kind = "none" /\ \A q \in requests : ~Current(q)
  BY <1>1 DEF Dialogue, Asks, NoReply
<1>4. Tells'
  BY <1>1, <1>2 DEF Dialogue, Tells
<1>5. Asks'
  BY <1>1, <1>3 DEF Dialogue, Asks, Current
<1> QED
  BY <1>4, <1>5 DEF Dialogue

LEMMA ReloadDialogue == ASSUME Dialogue, Reload PROVE Dialogue'
<1>1. /\ reply'.kind = "none" /\ requests' = requests /\ recorded' = recorded
      /\ DOMAIN page' = {"number", "stream", "button", "spent", "asking"}
      /\ page'.number = page.number + 1 /\ page'.stream = recorded
      /\ page'.asking = FALSE /\ page'.spent = FALSE
  BY DEF Reload, NewPage, NoReply
<1>2. page.number \in Nat /\ \A q \in requests : q.page \in Nat /\ q.page <= page.number
  BY DEF Dialogue, Asks
<1>3. page'.number \in Nat /\ \A q \in requests : q.page <= page'.number /\ q.page # page'.number
  BY <1>1, <1>2
<1>4. Continues(recorded, recorded)
  BY StreamParts DEF Dialogue, Tells, Continues
<1>5. Tells'
  BY <1>1, <1>4 DEF Dialogue, Tells
<1>6. Asks'
  BY <1>1, <1>3 DEF Dialogue, Asks, Current
<1> QED
  BY <1>5, <1>6 DEF Dialogue

(* What the page had, and what it has when evidence has been appended. *)
LEMMA AppendDialogue ==
  ASSUME Dialogue, EvidenceAppended
  PROVE  /\ Dialogue' /\ page.stream = recorded /\ ~page.spent /\ page'.spent /\ recorded' = recorded
         /\ page'.stream = planAppend(recorded, reply.events).stream
<1>1. reply.kind = "evidence" /\ ~page.spent /\ page.stream = recorded /\ Evidence(reply.events)
  BY DEF Dialogue, Asks, Tells, EvidenceAppended
<1> DEFINE plan == planAppend(recorded, reply.events)
           t == canonicalizeAppend(recorded, reply.events).stream
<1>2. /\ reply' = NoReply /\ requests' = requests /\ recorded' = recorded
      /\ page' = [page EXCEPT !.asking = FALSE, !.spent = TRUE, !.stream = plan.stream]
  BY <1>1 DEF EvidenceAppended, Extends
<1>3. /\ DOMAIN page' = DOMAIN page /\ page'.number = page.number /\ page'.stream = plan.stream
      /\ page'.asking = FALSE /\ page'.spent = TRUE
  <2> HIDE DEF plan
  <2> QED
    BY <1>2 DEF Dialogue, Asks
<1>4. plan.stream = t
  BY DEF planAppend, Compiled, Planned
<1>5. IsStream(recorded) /\ AllCountable(recorded)
  BY DEF Dialogue, Tells
<1>6. /\ IsStream(t) /\ Continues(recorded, t) /\ AllCountable(t)
      /\ \A n \in DOMAIN t : n \notin DOMAIN recorded => t[n].type # "agent.spawned"
  BY <1>1, <1>5, AppendsEvidence
<1> HIDE DEF t, plan
<1>7. ~Delegating(recorded) => ~Delegating(t)
  BY <1>5, <1>6, StillAtHome
<1>8. Tells'
  BY <1>2, <1>3, <1>4, <1>5, <1>6, <1>7 DEF Dialogue, Tells
<1>9. reply'.kind = "none" /\ \A q \in requests : ~Current(q)
  BY <1>1, <1>2 DEF Dialogue, Asks, NoReply
<1>10. Asks'
  BY <1>2, <1>3, <1>9 DEF Dialogue, Asks, Current
<1> QED
  BY <1>1, <1>2, <1>3, <1>8, <1>10 DEF Dialogue, plan

LEMMA DialogueOn ==
  ASSUME Dialogue, UNCHANGED <<recorded, requests, reply, page>> PROVE Dialogue'
BY DEF Dialogue, Asks, Tells, Current

LEMMA LooksOnly ==
  ASSUME Looks PROVE UNCHANGED <<recorded, gate, requests, reply, page>>
<1>1. CASE Mount \/ Degrade \/ Play \/ Advance \/ ReturnToLive \/ Poll
  BY <1>1 DEF Mount, Degrade, Play, Advance, ReturnToLive, Poll
<1>2. CASE \E n \in DOMAIN page.stream : Seek(n)
  BY <1>2 DEF Seek
<1>3. CASE \E target \in DOMAIN cockpit.items : Scrub(target)
  BY <1>3 DEF Scrub
<1> QED
  BY <1>1, <1>2, <1>3 DEF Looks

LEMMA DialogueStep ==
  ASSUME Dialogue, [LiveNext]_liveVars PROVE Dialogue'
<1>1. CASE \E q \in requests : \/ Admitted(q) \/ Refused(q) \/ Decided(q) \/ DecisionFails(q)
                               \/ Unreachable(q)
  BY <1>1, RequestsStep
<1>2. CASE ApiRestarts
  BY <1>2, RestartDialogue
<1>3. CASE Clicked
  BY <1>3, ClickDialogue
<1>4. CASE ReplyFails \/ EvidenceRefused
  BY <1>4, RefusalDialogue
<1>5. CASE EvidenceAppended
  BY <1>5, AppendDialogue
<1>6. CASE Reload
  BY <1>6, ReloadDialogue
<1>7. CASE Looks
  BY <1>7, LooksOnly, DialogueOn
<1>8. CASE UNCHANGED liveVars
  BY <1>8, DialogueOn DEF liveVars
<1> QED
  BY <1>1, <1>2, <1>3, <1>4, <1>5, <1>6, <1>7, <1>8 DEF LiveNext, Looks

----------------------------------------------------------------------------
(* What the shell and the renderer hold. *)

LEMMA SceneParts ==
  ASSUME NEW s, IsStream(s)
  PROVE  LET c == Compiles(s)
         IN  /\ IsStream(c.entries) /\ Len(c.entries) = Len(s) /\ Spanned(c.entries, Len(c.slots))
             /\ Timed(Times(c.slots), c.entries) /\ Len(Times(c.slots)) = Len(c.slots)
             /\ Len(c.slots) \in Nat
             /\ ~Delegating(s) => Times(c.slots) = Numbers(Len(c.slots))
<1> DEFINE c == Compiles(s)
<1>1. Homes(s, Filing(s)) /\ (~Delegating(s) => Homes(s, {"main"}))
  BY FilingIsHome
<1>2. /\ IsStream(c.slots) /\ Len(c.entries) = Len(s) /\ Spanned(c.entries, Len(c.slots))
  BY <1>1, SceneIsSpanned DEF Compiles
<1>3. Timed(Times(c.slots), c.entries) /\ Len(Times(c.slots)) = Len(c.slots)
  BY <1>1, SceneIsTimed DEF Compiles
<1>4. ~Delegating(s) => Times(c.slots) = Numbers(Len(c.slots))
  BY <1>1, TimesAreNumbers DEF Compiles
<1>5. IsStream(c.entries) /\ Len(c.slots) \in Nat
  BY <1>2, StreamParts DEF Spanned
<1> QED
  BY <1>2, <1>3, <1>4, <1>5

LEMMA SameStream ==
  ASSUME NEW s, IsStream(s), NEW t, IsStream(t), Continues(s, t), Len(s) = Len(t) PROVE s = t
<1>1. DOMAIN s = 1..Len(s) /\ DOMAIN t = 1..Len(s) /\ \A n \in 1..Len(s) : t[n] = s[n]
  BY StreamParts DEF Continues
<1>2. s = [n \in DOMAIN s |-> s[n]] /\ t = [n \in DOMAIN t |-> t[n]]
  BY DEF IsStream
<1> QED
  BY <1>1, <1>2

(* The page's plan, made of two scenes. *)
LEMMA PlanParts ==
  ASSUME NEW events
  PROVE  LET plan == planAppend(recorded, events)
             c == Compiles(recorded)
             d == Compiles(plan.stream)
         IN  /\ plan.stream = canonicalizeAppend(recorded, events).stream
             /\ plan.entries = SubSeq(d.entries, Len(c.entries) + 1, Len(d.entries))
             /\ plan.times = Handed(c, d)
<1> DEFINE a == canonicalizeAppend(recorded, events)
<1>1. planAppend(recorded, events) = Planned(a, Compiles(recorded), Compiles(a.stream))
  BY DEF planAppend, Compiled, Compiles
<1> DEFINE p == planAppend(recorded, events)
           c == Compiles(recorded)
           d == Compiles(a.stream)
<1> HIDE DEF p, a, c, d
<1>2. p = Planned(a, c, d)
  BY <1>1 DEF p, c, d
<1>3. /\ p.stream = a.stream
      /\ p.entries = SubSeq(d.entries, Len(c.entries) + 1, Len(d.entries))
      /\ p.times = Handed(c, d)
  BY <1>2 DEF Planned
<1>4. Compiles(p.stream) = d
  BY <1>3 DEF d
<1> QED
  BY <1>3, <1>4 DEF a, p, c

LEMMA AppendCarries ==
  ASSUME Dialogue, Carried, EvidenceAppended
  PROVE  \/ cockpit.mounted /\ Appending(Compiles(recorded), Compiles(page'.stream))
         \/ UNCHANGED <<cockpit, shell>> /\ (cockpit.mounted => page'.stream = recorded)
<1> DEFINE plan == planAppend(recorded, reply.events)
           c == Compiles(recorded)
           d == Compiles(plan.stream)
<1>1. /\ Dialogue' /\ page.stream = recorded /\ page'.stream = plan.stream /\ recorded' = recorded
  BY AppendDialogue
<1>2. /\ IF shell.mode = "mounted" /\ plan.entries # <<>>
         THEN /\ cockpit' = Appended(cockpit, plan.entries, plan.times)
              /\ shell' = [shell EXCEPT !.manifest = @ \o plan.entries,
                             !.cursor = acceptEvents(@, Len(shell.manifest \o plan.entries))]
         ELSE UNCHANGED <<cockpit, shell>>
  BY <1>1 DEF EvidenceAppended, Extends
<1>3. /\ plan.entries = SubSeq(d.entries, Len(c.entries) + 1, Len(d.entries))
      /\ plan.times = Handed(c, d)
  BY PlanParts
<1>4. /\ IsStream(recorded) /\ IsStream(plan.stream) /\ Continues(recorded, plan.stream)
      /\ ~Delegating(recorded) => ~Delegating(plan.stream)
  BY <1>1 DEF Dialogue, Tells
<1> HIDE DEF plan
<1>5. /\ IsStream(c.entries) /\ Len(c.entries) = Len(recorded)
      /\ IsStream(d.entries) /\ Len(d.entries) = Len(plan.stream)
  BY <1>4, SceneParts
<1>6. Continues(c.entries, d.entries)
  BY <1>4, CompiledGrows, FilingIsHome DEF Compiles
<1>7. ~Delegating(recorded) => InTime(Times(c.slots) \o Handed(c, d)) = Times(d.slots)
  BY <1>4, TimelineGrows, FilingIsHome DEF Compiles
<1> HIDE DEF c, d
<1>8. /\ c.entries \o plan.entries = d.entries
      /\ plan.entries = <<>> => Len(c.entries) = Len(d.entries)
      /\ plan.entries # <<>> => Len(c.entries) < Len(d.entries)
  BY <1>3, <1>5, <1>6, EntriesJoin
<1>9. CASE ~cockpit.mounted
  BY <1>2, <1>9 DEF Carried
<1>10. CASE cockpit.mounted /\ plan.entries = <<>>
  BY <1>1, <1>2, <1>4, <1>5, <1>8, <1>10, SameStream
<1>11. CASE cockpit.mounted /\ plan.entries # <<>>
  <2>1. /\ shell.manifest = c.entries /\ cockpit.manifest = c.entries
        /\ cockpit.items = Times(c.slots)
    BY <1>1, <1>11 DEF Carried, Carries, c
  <2>2. /\ shell.mode = "mounted" /\ cockpit' = Appended(cockpit, plan.entries, plan.times)
        /\ shell' = [shell EXCEPT !.manifest = @ \o plan.entries,
                       !.cursor = acceptEvents(@, Len(shell.manifest \o plan.entries))]
    BY <1>2, <1>11 DEF Carried
  <2>3. /\ DOMAIN shell' = DOMAIN shell /\ shell'.manifest = d.entries
        /\ shell'.cursor = acceptEvents(shell.cursor, Len(d.entries))
        /\ shell'.polled = shell.polled /\ shell'.mode = shell.mode
    BY <1>8, <2>1, <2>2 DEF Carried
  <2> DEFINE items == InTime(cockpit.items \o plan.times)
             head == IF Riding(cockpit) /\ items # <<>> THEN items[Len(items)] ELSE cockpit.playhead
  <2>4. cockpit' = [cockpit EXCEPT !.manifest = cockpit.manifest \o plan.entries, !.items = items,
                                   !.playhead = head]
    BY <2>2 DEF Appended
  <2> HIDE DEF items, head
  <2>5. /\ DOMAIN cockpit' = DOMAIN cockpit /\ cockpit'.mounted = cockpit.mounted
        /\ cockpit'.follow = cockpit.follow /\ cockpit'.items = items /\ cockpit'.playhead = head
        /\ cockpit'.manifest = cockpit.manifest \o plan.entries
    BY <2>4 DEF Carried
  <2>6. ~Delegating(recorded) => items = Times(d.slots)
    BY <1>3, <1>7, <2>1 DEF items
  <2>7. /\ cockpit'.playhead = IF Riding(cockpit) /\ cockpit'.items # <<>>
                               THEN cockpit'.items[Len(cockpit'.items)] ELSE cockpit.playhead
    BY <2>5 DEF head
  <2>8. Appending(c, d)
    BY <1>6, <1>8, <1>11, <2>1, <2>3, <2>5, <2>6, <2>7 DEF Appending
  <2> QED
    BY <1>1, <1>11, <2>8 DEF c, d
<1> QED
  BY <1>9, <1>10, <1>11 DEF Carried

LEMMA MovedIs ==
  ASSUME NEW c, DOMAIN c = {"mounted", "manifest", "items", "playhead", "follow"}, NEW k
  PROVE  LET d == Moved(c, k)
         IN  /\ DOMAIN d = DOMAIN c /\ Alike(c, d) /\ d.mounted = c.mounted
             /\ d.playhead = IF c.items = <<>> THEN c.playhead ELSE c.items[k]
             /\ d.follow = (k >= Len(c.items))
<1> DEFINE head == IF c.items = <<>> THEN c.playhead ELSE c.items[k]
           rides == k >= Len(c.items)
<1>1. Moved(c, k) = [c EXCEPT !.playhead = head, !.follow = rides]
  BY DEF Moved
<1> HIDE DEF head, rides
<1>2. /\ DOMAIN Moved(c, k) = DOMAIN c /\ Alike(c, Moved(c, k)) /\ Moved(c, k).mounted = c.mounted
      /\ Moved(c, k).playhead = head /\ Moved(c, k).follow = rides
  BY <1>1 DEF Alike
<1> QED
  BY <1>2 DEF head, rides

LEMMA SeekIs ==
  ASSUME Carried, NEW n, Seek(n)
  PROVE  /\ Retained /\ shell'.polled = shell.polled
         /\ shell'.cursor = seekCursor(shell.cursor, Len(shell.manifest), n)
         /\ LET entry == Shown(cockpit.manifest, n)
                k == Sought(cockpit, cockpit.manifest[entry].start)
            IN  IF cockpit.mounted /\ Scene!Visible(cockpit.manifest) # {}
                THEN /\ cockpit'.playhead = IF cockpit.items = <<>> THEN cockpit.playhead
                                            ELSE cockpit.items[k]
                     /\ cockpit'.follow = (k >= Len(cockpit.items))
                ELSE cockpit' = cockpit
<1> DEFINE entry == Shown(cockpit.manifest, n)
           k == Sought(cockpit, cockpit.manifest[entry].start)
           cursor == seekCursor(shell.cursor, Len(shell.manifest), n)
<1>1. /\ shell' = [shell EXCEPT !.cursor = cursor]
      /\ page' = page /\ recorded' = recorded
      /\ cockpit' = IF cockpit.mounted /\ Scene!Visible(cockpit.manifest) # {}
                    THEN Moved(cockpit, k) ELSE cockpit
  BY DEF Seek, Shown
<1> HIDE DEF k, cursor
<1>2. /\ DOMAIN shell' = DOMAIN shell /\ shell'.cursor = cursor /\ shell'.polled = shell.polled
      /\ shell'.manifest = shell.manifest /\ shell'.mode = shell.mode
  BY <1>1 DEF Carried
<1>3. CASE cockpit.mounted /\ Scene!Visible(cockpit.manifest) # {}
  <2>1. cockpit' = Moved(cockpit, k)
    BY <1>1, <1>3
  <2>2. /\ DOMAIN cockpit' = DOMAIN cockpit /\ Alike(cockpit, cockpit')
        /\ cockpit'.mounted = cockpit.mounted
        /\ cockpit'.playhead = IF cockpit.items = <<>> THEN cockpit.playhead ELSE cockpit.items[k]
        /\ cockpit'.follow = (k >= Len(cockpit.items))
    BY <2>1, MovedIs DEF Carried
  <2> QED
    BY <1>1, <1>2, <1>3, <2>2 DEF Retained, k, cursor
<1>4. CASE ~(cockpit.mounted /\ Scene!Visible(cockpit.manifest) # {})
  <2>1. cockpit' = cockpit
    BY <1>1, <1>4
  <2>2. Retained
    BY <1>1, <1>2, <2>1 DEF Retained, Alike
  <2> QED
    BY <1>2, <1>4, <2>1, <2>2 DEF cursor
<1> QED
  BY <1>3, <1>4

LEMMA ScrubIs ==
  ASSUME Carried, NEW k, Scrub(k)
  PROVE  /\ Retained /\ shell' = shell /\ cockpit.mounted /\ Framed
         /\ cockpit'.playhead = IF cockpit.items = <<>> THEN cockpit.playhead ELSE cockpit.items[k]
         /\ cockpit'.follow = (k >= Len(cockpit.items))
<1>1. cockpit' = Moved(cockpit, k) /\ UNCHANGED <<recorded, page, shell>> /\ cockpit.mounted /\ Framed
  BY DEF Scrub
<1>2. cockpit' = Moved(cockpit, k) /\ DOMAIN cockpit = {"mounted", "manifest", "items", "playhead", "follow"}
  BY <1>1 DEF Carried
<1>3. /\ DOMAIN cockpit' = DOMAIN cockpit /\ Alike(cockpit, cockpit')
      /\ cockpit'.mounted = cockpit.mounted
      /\ cockpit'.playhead = IF cockpit.items = <<>> THEN cockpit.playhead ELSE cockpit.items[k]
      /\ cockpit'.follow = (k >= Len(cockpit.items))
  BY <1>2, MovedIs
<1> QED
  BY <1>1, <1>3 DEF Retained

LEMMA ReturnIs ==
  ASSUME Carried, ReturnToLive
  PROVE  /\ Retained /\ cockpit.mounted /\ Framed /\ shell'.polled = shell.polled
         /\ shell'.cursor = Live(Len(shell.manifest))
         /\ cockpit'.playhead = IF cockpit.items = <<>> THEN cockpit.playhead
                                ELSE cockpit.items[Len(cockpit.items)]
         /\ cockpit'.follow = (Len(cockpit.items) >= Len(cockpit.items))
<1> DEFINE cursor == Live(Len(shell.manifest))
           k == Len(cockpit.items)
<1>1. /\ cockpit' = Moved(cockpit, k) /\ shell' = [shell EXCEPT !.cursor = cursor]
      /\ UNCHANGED <<recorded, page>> /\ cockpit.mounted /\ Framed
  BY DEF ReturnToLive
<1> HIDE DEF cursor, k
<1>2. /\ DOMAIN shell' = DOMAIN shell /\ shell'.cursor = cursor /\ shell'.polled = shell.polled
      /\ shell'.manifest = shell.manifest /\ shell'.mode = shell.mode
  BY <1>1 DEF Carried
<1>3. /\ DOMAIN cockpit' = DOMAIN cockpit /\ Alike(cockpit, cockpit')
      /\ cockpit'.mounted = cockpit.mounted
      /\ cockpit'.playhead = IF cockpit.items = <<>> THEN cockpit.playhead ELSE cockpit.items[k]
      /\ cockpit'.follow = (k >= Len(cockpit.items))
  <2>1. cockpit' = Moved(cockpit, k) /\ DOMAIN cockpit = {"mounted", "manifest", "items", "playhead", "follow"}
    BY <1>1 DEF Carried
  <2> QED
    BY <2>1, MovedIs
<1> QED
  BY <1>1, <1>2, <1>3 DEF Retained, cursor, k

LEMMA PlayIs ==
  ASSUME Carried, Play
  PROVE  /\ Retained /\ shell' = shell /\ cockpit.mounted /\ Framed
         /\ cockpit'.playhead = cockpit.playhead /\ cockpit'.follow = TRUE
BY DEF Play, Carried, Retained, Alike

LEMMA AdvanceIs ==
  ASSUME Carried, Advance
  PROVE  /\ Retained /\ shell' = shell /\ cockpit.mounted /\ cockpit.follow /\ ~AtEdge(cockpit)
         /\ cockpit'.playhead = cockpit.items[Index(cockpit) + 1] /\ cockpit'.follow = cockpit.follow
<1> DEFINE head == cockpit.items[Index(cockpit) + 1]
<1>1. /\ cockpit' = [cockpit EXCEPT !.playhead = head] /\ UNCHANGED <<recorded, page, shell>>
      /\ cockpit.mounted /\ cockpit.follow /\ ~AtEdge(cockpit)
  BY DEF Advance
<1> HIDE DEF head
<1> QED
  BY <1>1 DEF Carried, Retained, Alike, head

LEMMA PollIs ==
  ASSUME Carried, Poll
  PROVE  /\ Retained /\ cockpit' = cockpit /\ cockpit.mounted /\ Index(cockpit) # shell.polled
         /\ shell'.polled = Index(cockpit)
         /\ shell'.cursor = LET entry == EntryAt(shell.manifest, Index(cockpit) - 1)
                            IN  IF entry = 0 THEN shell.cursor
                                ELSE IF AtEdge(cockpit) THEN Live(Len(shell.manifest))
                                ELSE seekCursor(shell.cursor, Len(shell.manifest), entry)
<1> DEFINE entry == EntryAt(shell.manifest, Index(cockpit) - 1)
           cursor == IF entry = 0 THEN shell.cursor
                     ELSE IF AtEdge(cockpit) THEN Live(Len(shell.manifest))
                     ELSE seekCursor(shell.cursor, Len(shell.manifest), entry)
           seen == Index(cockpit)
<1>1. /\ shell' = [shell EXCEPT !.polled = seen, !.cursor = cursor]
      /\ UNCHANGED <<recorded, page, cockpit>> /\ cockpit.mounted /\ seen # shell.polled
  BY DEF Poll, EntryAt
<1> HIDE DEF cursor, seen
<1>2. /\ DOMAIN shell' = DOMAIN shell /\ shell'.cursor = cursor /\ shell'.polled = seen
      /\ shell'.manifest = shell.manifest /\ shell'.mode = shell.mode
  BY <1>1 DEF Carried
<1> QED
  BY <1>1, <1>2 DEF Retained, Alike, cursor, seen

LEMMA MountIs ==
  ASSUME Dialogue, Mount
  PROVE  LET c == Compiles(recorded)
             times == Times(c.slots)
         IN  /\ UNCHANGED <<recorded, page>>
             /\ DOMAIN shell' = {"manifest", "cursor", "polled", "mode"}
             /\ DOMAIN cockpit' = {"mounted", "manifest", "items", "playhead", "follow"}
             /\ shell'.manifest = c.entries /\ cockpit'.manifest = c.entries /\ cockpit'.items = times
             /\ cockpit'.mounted = TRUE /\ shell'.mode = "mounted" /\ shell'.polled = 0
             /\ shell'.cursor = Live(Len(recorded))
             /\ cockpit'.playhead = IF times = <<>> THEN 0 ELSE times[Len(times)]
             /\ cockpit'.follow = (Len(times) >= Len(times))
<1> DEFINE c == Compiles(recorded)
           times == Times(c.slots)
           fresh == [mounted |-> TRUE, manifest |-> c.entries, items |-> times,
                     playhead |-> 0, follow |-> TRUE]
<1>1. /\ cockpit' = Moved(fresh, Len(times)) /\ UNCHANGED <<recorded, page>>
      /\ shell' = [manifest |-> cockpit'.manifest, cursor |-> Live(Len(recorded)),
                   polled |-> 0, mode |-> "mounted"]
  BY DEF Mount, Loaded, Compiles
<1>2. /\ DOMAIN fresh = {"mounted", "manifest", "items", "playhead", "follow"}
      /\ fresh.mounted = TRUE /\ fresh.manifest = c.entries /\ fresh.items = times
      /\ fresh.playhead = 0
  <2> HIDE DEF c, times
  <2> QED
    OBVIOUS
<1> HIDE DEF c, times, fresh
<1>3. /\ DOMAIN cockpit' = DOMAIN fresh /\ Alike(fresh, cockpit') /\ cockpit'.mounted = fresh.mounted
      /\ cockpit'.playhead = IF times = <<>> THEN 0 ELSE times[Len(times)]
      /\ cockpit'.follow = (Len(times) >= Len(times))
  BY <1>1, <1>2, MovedIs
<1>4. cockpit'.manifest = c.entries /\ cockpit'.items = times
  BY <1>2, <1>3 DEF Alike
<1>5. /\ DOMAIN shell' = {"manifest", "cursor", "polled", "mode"}
      /\ shell'.manifest = c.entries /\ shell'.mode = "mounted" /\ shell'.polled = 0
      /\ shell'.cursor = Live(Len(recorded))
  BY <1>1, <1>4
<1> QED
  BY <1>1, <1>2, <1>3, <1>4, <1>5 DEF c, times

LEMMA CarriedFromTheStart == ASSUME LiveInit PROVE Carried
BY DEF LiveInit, Carried, NoShell, Unmounted

LEMMA RetainedCarries == ASSUME Carried, Retained PROVE Carried'
<1>1. page' = page /\ recorded' = recorded
  BY DEF Retained
<1>2. Carries(recorded) => Carries(recorded)'
  BY <1>1 DEF Carries, Retained, Alike
<1>3. Carries(page.stream) => Carries(page.stream)'
  BY <1>1 DEF Carries, Retained, Alike
<1> QED
  BY <1>2, <1>3 DEF Carried, Retained

(* An append brings the shell and the renderer to the page's stream. *)
LEMMA AppendingCarries ==
  ASSUME Dialogue, Carried, EvidenceAppended PROVE Carried'
<1>1. page.stream = recorded /\ recorded' = recorded
  BY AppendDialogue
<1>2. CASE cockpit.mounted /\ Appending(Compiles(recorded), Compiles(page'.stream))
  <2> DEFINE d == Compiles(page'.stream)
  <2>1. /\ shell'.manifest = d.entries /\ cockpit'.manifest = d.entries
        /\ DOMAIN shell' = DOMAIN shell /\ DOMAIN cockpit' = DOMAIN cockpit
        /\ shell'.mode = shell.mode /\ cockpit'.mounted = cockpit.mounted
        /\ ~Delegating(recorded) => cockpit'.items = Times(d.slots)
    <3> HIDE DEF d
    <3> QED
      BY <1>2 DEF Appending, d
  <2>2. page'.stream # recorded
    <3>1. page'.stream = recorded => Len(Compiles(recorded).entries) < Len(Compiles(recorded).entries)
      BY <1>2 DEF Appending
    <3>2. Len(Compiles(recorded).entries) \in Nat
      BY SceneParts, StreamParts DEF Dialogue, Tells
    <3> QED
      BY <3>1, <3>2
  <2>3. Carries(page.stream)'
    BY <1>1, <1>2, <2>1, <2>2 DEF Carries
  <2> QED
    BY <2>1, <2>3 DEF Carried
<1>3. CASE UNCHANGED <<cockpit, shell>> /\ (cockpit.mounted => page'.stream = recorded)
  <2>1. cockpit.mounted => Carries(recorded)
    BY <1>1 DEF Carried
  <2>2. Carries(recorded) => Carries(recorded)'
    BY <1>1, <1>3 DEF Carries
  <2> QED
    BY <1>3, <2>1, <2>2 DEF Carried
<1> QED
  BY <1>2, <1>3, AppendCarries

LEMMA CarriedOn ==
  ASSUME Carried, UNCHANGED <<shell, cockpit, recorded>>, page'.stream = page.stream
  PROVE  Carried'
BY DEF Carried, Carries

LEMMA AsidesAre ==
  ASSUME Dialogue, Asides
  PROVE  /\ UNCHANGED <<shell, cockpit, recorded>> /\ page'.stream = page.stream
         /\ ~page'.spent => ~page.spent
<1>0. DOMAIN page = {"number", "stream", "button", "spent", "asking"}
  BY DEF Dialogue, Asks
<1>1. CASE \E q \in requests : Admitted(q) \/ Refused(q) \/ Decided(q) \/ DecisionFails(q) \/ Unreachable(q)
  BY <1>1 DEF Admitted, Refused, Decided, DecisionFails, Unreachable
<1>2. CASE ApiRestarts
  BY <1>2 DEF ApiRestarts
<1>3. CASE Clicked
  BY <1>0, <1>3 DEF Clicked
<1>4. CASE ReplyFails
  <2>1. ~page.spent
    BY <1>4 DEF Dialogue, Asks, ReplyFails
  <2> QED
    BY <1>0, <1>4, <2>1 DEF ReplyFails
<1>5. CASE EvidenceRefused
  BY <1>0, <1>5 DEF EvidenceRefused
<1> QED
  BY <1>1, <1>2, <1>3, <1>4, <1>5 DEF Asides

LEMMA MountCarries == ASSUME Dialogue, Mount PROVE Carried'
<1> DEFINE c == Compiles(recorded)
<1>1. /\ UNCHANGED <<recorded, page>>
      /\ DOMAIN shell' = {"manifest", "cursor", "polled", "mode"}
      /\ DOMAIN cockpit' = {"mounted", "manifest", "items", "playhead", "follow"}
      /\ shell'.manifest = c.entries /\ cockpit'.manifest = c.entries
      /\ cockpit'.items = Times(c.slots)
      /\ cockpit'.mounted = TRUE /\ shell'.mode = "mounted"
  <2> HIDE DEF c
  <2> QED
    BY MountIs DEF c
<1>2. Carries(recorded)'
  BY <1>1 DEF Carries
<1> QED
  BY <1>1, <1>2 DEF Carried

LEMMA DegradeCarries == ASSUME Carried, Degrade PROVE Carried' /\ ~cockpit'.mounted
<1>1. cockpit' = cockpit /\ shell.mode = "hidden" /\ shell'.mode = "degraded"
      /\ DOMAIN shell' = {"manifest", "cursor", "polled", "mode"}
  BY DEF Degrade
<1>2. ~cockpit.mounted
  BY <1>1 DEF Carried
<1> QED
  BY <1>1, <1>2 DEF Carried

LEMMA ReloadCarries == ASSUME Reload PROVE Carried' /\ ~cockpit'.mounted
<1>1. shell' = NoShell /\ cockpit' = Unmounted
  BY DEF Reload
<1> QED
  BY <1>1 DEF Carried, NoShell, Unmounted

LEMMA CarriedStep ==
  ASSUME Dialogue, Carried, [LiveNext]_liveVars PROVE Carried'
<1>1. CASE Asides
  BY <1>1, AsidesAre, CarriedOn
<1>2. CASE EvidenceAppended
  BY <1>2, AppendingCarries
<1>3. CASE Reload
  BY <1>3, ReloadCarries
<1>4. CASE Mount
  BY <1>4, MountCarries
<1>5. CASE Degrade
  BY <1>5, DegradeCarries
<1>6. CASE Play \/ Advance \/ ReturnToLive \/ Poll
  BY <1>6, PlayIs, AdvanceIs, ReturnIs, PollIs, RetainedCarries
<1>7. CASE \E n \in DOMAIN page.stream : Seek(n)
  BY <1>7, SeekIs, RetainedCarries
<1>8. CASE \E target \in DOMAIN cockpit.items : Scrub(target)
  BY <1>8, ScrubIs, RetainedCarries
<1>9. CASE UNCHANGED liveVars
  BY <1>9, CarriedOn DEF liveVars
<1> QED
  BY <1>1, <1>2, <1>3, <1>4, <1>5, <1>6, <1>7, <1>8, <1>9 DEF LiveNext, Asides

LEMMA CarriedIsInStep == ASSUME Dialogue, Carried PROVE InStep
<1> DEFINE s == page.stream
           c == Compiles(s)
<1> SUFFICES ASSUME Informed
             PROVE  /\ shell.manifest = c.entries /\ cockpit.manifest = c.entries
                    /\ ~Delegating(recorded) =>
                         Len(cockpit.items) = Scene!rendererEntryCount(cockpit.manifest)
  BY DEF InStep, Compiles
<1>1. IsStream(recorded) /\ IsStream(s) /\ Continues(recorded, s)
  BY DEF Dialogue, Tells
<1>2. cockpit.mounted /\ Len(shell.manifest) = Len(s)
  BY DEF Informed
<1>3. Carries(recorded) => recorded = s
  <2>1. Carries(recorded) => Len(shell.manifest) = Len(recorded)
    BY <1>1, SceneParts DEF Carries
  <2> QED
    BY <1>1, <1>2, <2>1, SameStream
<1>4. Carries(s)
  BY <1>2, <1>3 DEF Carried
<1>5. Len(Times(c.slots)) = Len(c.slots) /\ Spanned(c.entries, Len(c.slots))
  BY <1>1, SceneParts
<1>6. Scene!rendererEntryCount(c.entries) = Len(c.slots)
  BY <1>5 DEF Spanned
<1> QED
  BY <1>4, <1>5, <1>6 DEF Carries

(* "An append extends both the timeline and the manifest together": what
   the shell, the renderer's manifest and its timeline hold is the page's
   stream, if the renderer was there to be told (live-proof.ts planAppend,
   scene.rs Cockpit::append). *)
THEOREM InStepHolds == ASSUME LiveCaseAssumption PROVE LiveSpec => []InStep
<1>1. LiveInit => Dialogue /\ Carried
  BY DialogueFromTheStart, CarriedFromTheStart
<1>2. Dialogue /\ Carried /\ [LiveNext]_liveVars => (Dialogue /\ Carried)'
  BY DialogueStep, CarriedStep
<1>3. Dialogue /\ Carried => InStep
  BY CarriedIsInStep
<1> QED
  BY <1>1, <1>2, <1>3, PTL DEF LiveSpec

----------------------------------------------------------------------------
(* The operator's view: a renderer c, its shell h, a page that has spent
   its call or has not, and a case of as many events as are known, which
   delegates nothing when it is plain. *)

LEMMA CursorsAre ==
  ASSUME NEW n
  PROVE  /\ DOMAIN Live(n) = {"at", "edge", "mark", "unread"}
         /\ Live(n).at = n /\ Live(n).edge = TRUE /\ Live(n).mark = n
         /\ \A c, at : /\ DOMAIN seekCursor(c, n, at) = {"at", "edge", "mark", "unread"}
                       /\ seekCursor(c, n, at).at = at /\ seekCursor(c, n, at).mark = c.mark
                       /\ at >= c.mark => seekCursor(c, n, at).edge
BY DEF Live, seekCursor

LEMMA ScrubBeholds ==
  ASSUME NEW c, NEW h, NEW spent, NEW known, NEW plain,
         Grounds(c, h, spent, known, plain), Beholds(c, h, spent, known, plain), h.polled = Index(c),
         NEW d, Alike(c, d), NEW k \in 1..Len(c.items), d.playhead = c.items[k],
         d.follow => k >= Len(c.items)
  PROVE  Beholds(d, h, spent, known, plain)
<1>1. ~spent \/ plain => Charted(c) /\ Rested(c, h)
  BY DEF Grounds, Beholds
<1>2. ~spent \/ plain => Rested(d, h)
  BY <1>1, MoveRests
<1>3. ~spent => Aware(d, h)
  BY <1>1, StillAgrees DEF Beholds
<1>4. plain => Agrees(d, h, known)
  BY <1>1, StillAgrees DEF Beholds
<1> QED
  BY <1>2, <1>3, <1>4 DEF Beholds

LEMMA PlayBeholds ==
  ASSUME NEW c, NEW h, NEW spent, NEW known, NEW plain,
         Grounds(c, h, spent, known, plain), Beholds(c, h, spent, known, plain), h.polled = Index(c),
         NEW d, Alike(c, d), d.playhead = c.playhead, d.follow = TRUE
  PROVE  Beholds(d, h, spent, known, plain)
<1>1. ~spent \/ plain => Charted(c) /\ Rested(c, h)
  BY DEF Grounds, Beholds
<1>2. ~spent \/ plain => Rested(d, h)
  <2> SUFFICES ASSUME Charted(c), Rested(c, h) PROVE Rested(d, h)
    BY <1>1
  <2>1. Index(d) = Index(c)
    BY IndexIs
  <2> QED
    BY <2>1 DEF Rested, Alike
<1>3. ~spent => Aware(d, h)
  BY <1>1, StillAgrees DEF Beholds
<1>4. plain => Agrees(d, h, known)
  BY <1>1, StillAgrees DEF Beholds
<1> QED
  BY <1>2, <1>3, <1>4 DEF Beholds

LEMMA AdvanceBeholds ==
  ASSUME NEW c, NEW h, NEW spent, NEW known, NEW plain,
         Grounds(c, h, spent, known, plain), Beholds(c, h, spent, known, plain),
         c.follow, ~AtEdge(c),
         NEW d, Alike(c, d), d.follow = c.follow, d.playhead = c.items[Index(c) + 1]
  PROVE  Beholds(d, h, spent, known, plain)
<1>1. ~spent \/ plain => Charted(c) /\ Rested(c, h)
  BY DEF Grounds, Beholds
<1>2. ~spent \/ plain => Rested(d, h) /\ h.polled # Index(d)
  BY <1>1, AdvanceRests
<1> QED
  BY <1>2 DEF Beholds, Aware, Agrees

(* At the edge, the shell's and the renderer's. *)
LEMMA EdgeBeholds ==
  ASSUME NEW d, NEW g, NEW spent, NEW known, NEW plain, Grounds(d, g, spent, known, plain),
         g.cursor = Live(Len(d.manifest)), d.follow,
         ~spent \/ plain => /\ g.polled \in 0..Len(d.items)
                            /\ d.playhead = IF d.items = <<>> THEN 0 ELSE d.items[Len(d.items)]
  PROVE  Beholds(d, g, spent, known, plain)
<1> DEFINE E == d.manifest
           M == Len(d.items)
<1>1. /\ DOMAIN g.cursor = {"at", "edge", "mark", "unread"}
      /\ g.cursor.at = Len(E) /\ g.cursor.edge /\ g.cursor.mark = Len(E)
  BY CursorsAre
<1>2. ~spent => g.cursor.at \in 0..known /\ g.cursor.mark = known
  BY <1>1 DEF Grounds
<1>3. ASSUME ~spent \/ plain PROVE Rested(d, g) /\ Index(d) = M
  <2>1. Charted(d) /\ M \in Nat
    BY <1>3, IndexIs DEF Grounds
  <2>2. CASE M = 0
    <3>1. d.items = <<>>
      BY <2>1, <2>2, StreamParts DEF Charted, Timed, IsStream
    <3>2. d.playhead = 0 /\ g.polled = 0
      BY <1>3, <2>2, <3>1
    <3>3. Index(d) \in 0..0
      BY <2>1, <2>2, <3>2, IndexIs
    <3> QED
      BY <2>2, <3>2, <3>3 DEF Rested
  <2>3. CASE M # 0
    <3>1. d.items # <<>>
      BY <2>3
    <3>2. d.playhead = d.items[M]
      BY <1>3, <3>1
    <3>3. M \in 1..M /\ Alike(d, d)
      BY <2>1, <2>3 DEF Alike
    <3> HIDE DEF M
    <3>4. d.playhead \in 1..Len(d.items) /\ Index(d) = M
      BY <2>1, <3>2, <3>3, ItemIs DEF M
    <3>5. g.polled \in 0..M
      BY <1>3 DEF M
    <3>6. d.playhead \in 0..M /\ d.playhead # 0 /\ (g.polled # M => g.polled < M)
      BY <2>1, <3>4, <3>5 DEF M
    <3> QED
      BY <2>3, <3>4, <3>5, <3>6 DEF Rested, M
  <2> QED
    BY <2>2, <2>3
<1>4. ASSUME ~spent PROVE Aware(d, g)
  BY <1>1 DEF Aware
<1>5. ASSUME plain, plain => Evenly(d) PROVE Agrees(d, g, known)
  <2>1. Spanned(E, M) /\ g.manifest = E
    BY <1>5 DEF Grounds, Charted
  <2>2. EntryAt(E, M - 1) = Shown(E, Len(E))
    BY <2>1, LinesAndEvents
  <2> QED
    BY <1>1, <1>3, <1>5, <2>1, <2>2 DEF Agrees
<1>6. plain => Evenly(d)
  BY DEF Grounds
<1> QED
  BY <1>1, <1>2, <1>3, <1>4, <1>5, <1>6 DEF Beholds

(* The line the playhead has passed is some event's. *)
LEMMA PassedIs ==
  ASSUME NEW c, Charted(c), NEW h, Rested(c, h), Len(c.items) # 0
  PROVE  Index(c) \in 1..Len(c.items)
<1>1. Len(c.items) \in Nat
  BY IndexIs
<1>2. c.playhead \in 1..Len(c.items) /\ c.playhead \in 0..Len(c.items) /\ c.playhead # 0
  BY <1>1 DEF Rested
<1>3. Index(c) = IF c.items[c.playhead] = c.playhead + 1 THEN c.playhead - 1 ELSE c.playhead
  BY <1>2, CountIs DEF Charted, Index
<1>4. c.items[c.playhead] = c.playhead + 1 => 1 < c.playhead
  BY <1>2 DEF Charted, Timed
<1> QED
  BY <1>1, <1>2, <1>3, <1>4

LEMMA PollBeholds ==
  ASSUME NEW c, NEW h, NEW spent, NEW known, NEW plain,
         Grounds(c, h, spent, known, plain), Beholds(c, h, spent, known, plain),
         Index(c) # h.polled, NEW entry, entry = EntryAt(h.manifest, Index(c) - 1),
         NEW g, g.manifest = h.manifest, g.polled = Index(c),
         g.cursor = IF entry = 0 THEN h.cursor
                    ELSE IF AtEdge(c) THEN Live(Len(h.manifest))
                    ELSE seekCursor(h.cursor, Len(h.manifest), entry)
  PROVE  Beholds(c, g, spent, known, plain)
<1> DEFINE E == c.manifest
           M == Len(c.items)
<1> DEFINE edge == Live(Len(h.manifest))
           back == seekCursor(h.cursor, Len(h.manifest), entry)
<1>1. /\ DOMAIN edge = {"at", "edge", "mark", "unread"} /\ DOMAIN back = {"at", "edge", "mark", "unread"}
      /\ edge.at = Len(h.manifest) /\ edge.edge = TRUE /\ edge.mark = Len(h.manifest)
      /\ back.at = entry /\ back.mark = h.cursor.mark
  <2>1. /\ DOMAIN edge = {"at", "edge", "mark", "unread"}
        /\ edge.at = Len(h.manifest) /\ edge.edge = TRUE /\ edge.mark = Len(h.manifest)
    BY CursorsAre
  <2>2. /\ DOMAIN back = {"at", "edge", "mark", "unread"}
        /\ back.at = entry /\ back.mark = h.cursor.mark
    BY DEF seekCursor
  <2> QED
    BY <2>1, <2>2
<1> HIDE DEF edge, back
<1>2. g.cursor = IF entry = 0 THEN h.cursor ELSE IF AtEdge(c) THEN edge ELSE back
  BY DEF edge, back
<1>3. DOMAIN h.cursor = {"at", "edge", "mark", "unread"}
  BY DEF Beholds
<1>4. DOMAIN g.cursor = {"at", "edge", "mark", "unread"}
  BY <1>1, <1>2, <1>3
<1>5. CASE spent /\ ~plain
  BY <1>4, <1>5 DEF Beholds
<1>6. CASE ~spent \/ plain
  <2>1. Charted(c) /\ Rested(c, h) /\ h.manifest = E /\ Spanned(E, M) /\ M \in Nat
    BY <1>6, IndexIs DEF Grounds, Beholds, Charted
  <2>2. M # 0
    <3>1. ASSUME M = 0 PROVE FALSE
      <4>1. h.polled = 0 /\ c.playhead \in 0..M
        BY <2>1, <3>1 DEF Rested
      <4>2. Index(c) \in 0..M
        BY <2>1, <4>1, IndexIs
      <4> QED
        BY <3>1, <4>1, <4>2
    <3> QED
      BY <3>1
  <2>3. Index(c) \in 1..M
    BY <2>1, <2>2, PassedIs
  <2>4. entry \in Scene!Visible(E)
    BY <2>1, <2>3, LinesAndEvents
  <2>5. entry \in 1..Len(E) /\ Shown(E, entry) = entry /\ Len(E) \in Nat
    BY <2>1, <2>4, VisibleAre, LinesAndEvents
  <2>6. Rested(c, g)
    BY <2>1, <2>3 DEF Rested
  <2>7. (AtEdge(c) <=> Index(c) = M)
    BY DEF AtEdge
  <2>8. CASE AtEdge(c)
    <3>1. g.cursor.at = Len(E) /\ g.cursor.edge /\ g.cursor.mark = Len(E)
      <4>1. g.cursor = edge
        BY <1>2, <2>5, <2>8
      <4> QED
        BY <1>1, <2>1, <4>1
    <3>2. ~spent => g.cursor.at \in 0..known /\ g.cursor.mark = known
      BY <2>5, <3>1 DEF Grounds
    <3>3. EntryAt(E, M - 1) = Shown(E, Len(E))
      BY <2>1, LinesAndEvents
    <3>4. Agrees(c, g, known) /\ Aware(c, g)
      BY <2>1, <2>7, <2>8, <3>1, <3>3 DEF Agrees, Aware
    <3> QED
      BY <1>4, <2>6, <3>2, <3>4 DEF Beholds
  <2>9. CASE ~AtEdge(c)
    <3>1. g.cursor.at = entry /\ g.cursor.mark = h.cursor.mark
      <4>1. g.cursor = back
        BY <1>2, <2>5, <2>9
      <4> QED
        BY <1>1, <4>1
    <3>2. ~spent => g.cursor.at \in 0..known /\ g.cursor.mark = known
      BY <2>5, <3>1 DEF Grounds, Beholds
    <3>3. Agrees(c, g, known) /\ Aware(c, g)
      BY <2>1, <2>5, <2>9, <3>1 DEF Agrees, Aware
    <3> QED
      BY <1>4, <2>6, <3>2, <3>3 DEF Beholds
  <2> QED
    BY <2>8, <2>9
<1> QED
  BY <1>5, <1>6

(* Looking for a row of the page's evidence. *)
LEMMA SeekBeholds ==
  ASSUME NEW c, NEW h, NEW spent, NEW known, NEW plain,
         Grounds(c, h, spent, known, plain), Beholds(c, h, spent, known, plain), h.polled = Index(c),
         NEW n \in Nat \ {0}, ~spent => n <= known,
         NEW k, k = Sought(c, c.manifest[Shown(c.manifest, n)].start),
         NEW d, IF Scene!Visible(c.manifest) # {}
                THEN /\ Alike(c, d)
                     /\ d.playhead = IF c.items = <<>> THEN c.playhead ELSE c.items[k]
                     /\ d.follow => k >= Len(c.items)
                ELSE d = c,
         NEW g, g.manifest = h.manifest, g.polled = h.polled,
         g.cursor = seekCursor(h.cursor, Len(h.manifest), n)
  PROVE  Beholds(d, g, spent, known, plain)
<1> DEFINE E == c.manifest
           M == Len(c.items)
           x == Shown(E, n)
<1>1. /\ DOMAIN g.cursor = {"at", "edge", "mark", "unread"}
      /\ g.cursor.at = n /\ g.cursor.mark = h.cursor.mark
      /\ n >= h.cursor.mark => g.cursor.edge
  <2>1. /\ DOMAIN g.cursor = {"at", "edge", "mark", "unread"}
        /\ g.cursor.at = n /\ g.cursor.mark = h.cursor.mark
    BY DEF seekCursor
  <2>2. g.cursor.edge = (n >= h.cursor.mark)
    BY DEF seekCursor
  <2> QED
    BY <2>1, <2>2
<1>2. CASE spent /\ ~plain
  BY <1>1, <1>2 DEF Beholds
<1>3. CASE ~spent \/ plain
  <2>1. Charted(c) /\ Rested(c, h) /\ h.manifest = E /\ Spanned(E, M) /\ M \in Nat
    BY <1>3, IndexIs DEF Grounds, Beholds, Charted
  <2>2. ~spent => Len(E) = known /\ g.cursor.at \in 0..known /\ g.cursor.mark = known /\ h.cursor.mark = known
    BY <1>1 DEF Grounds, Beholds
  <2>3. ~spent => (n >= Len(E) => g.cursor.edge)
    BY <1>1, <2>2
  <2>4. plain => Evenly(c)
    BY DEF Grounds
  <2>5. CASE Scene!Visible(E) # {}
    <3>1. x \in Scene!Visible(E)
      BY <2>1, <2>5, ShownIs
    <3>2. E[x].start \in Nat /\ E[x].start < End(E, x) /\ End(E, x) <= M
      BY <2>1, <3>1, VisibleAre
    <3>3. x \in DOMAIN E /\ End(E, x) \in Nat
      BY <2>1, <3>1, <3>2, VisibleAre DEF Spanned, End
    <3>4. E[x].start < M
      BY <2>1, <3>2, <3>3
    <3>5. k = E[x].start + 1
      BY <2>1, <3>2, <3>4, SoughtIs DEF Charted
    <3>6. k \in 1..M /\ c.items # <<>>
      BY <2>1, <3>2, <3>4, <3>5
    <3>7. Alike(c, d) /\ d.playhead = c.items[k] /\ (d.follow => k >= M)
      BY <2>5, <3>6
    <3>8. d.playhead = c.items[E[x].start + 1]
      BY <3>5, <3>7
    <3>9. g.manifest = E
      BY <2>1
    <3> HIDE DEF E
    <3>10. /\ plain => Agrees(d, g, known)
           /\ ~spent => Aware(d, g)
      BY <1>1, <2>1, <2>3, <2>4, <2>5, <3>7, <3>8, <3>9, SeekAgrees DEF E, x
    <3>11. Rested(d, g)
      BY <2>1, <3>6, <3>7, MoveRests
    <3> QED
      BY <1>1, <2>2, <3>10, <3>11 DEF Beholds
  <2>6. CASE Scene!Visible(E) = {}
    <3>1. d = c /\ M = 0 /\ Len(E) \in Nat
      BY <2>1, <2>6, VisibleAre
    <3>2. c.playhead \in 0..M
      BY <2>1 DEF Rested
    <3>3. Index(c) = 0
      BY <2>1, <3>1, <3>2, IndexIs
    <3>4. \A m \in Nat : Shown(E, m) = 0
      BY <2>1, <2>6, ShownIs
    <3>5. Shown(E, n) = 0 /\ Shown(E, Len(E)) = 0 /\ EntryAt(E, M - 1) = Shown(E, Len(E))
      BY <2>1, <3>1, <3>4, LinesAndEvents
    <3>6. EntryAt(E, Index(c) - 1) = Shown(g.manifest, g.cursor.at)
      BY <1>1, <2>1, <3>1, <3>3, <3>5
    <3>7. ASSUME ~spent, StandsAlone(E) PROVE g.cursor.edge
      <4>1. CASE n >= Len(E)
        BY <2>3, <3>7, <4>1
      <4>2. CASE ~(n >= Len(E))
        <5>1. n \in 1..(Len(E) - 1)
          BY <3>1, <4>2
        <5> QED
          BY <3>5, <3>7, <5>1 DEF StandsAlone
      <4> QED
        BY <4>1, <4>2
    <3>8. ~spent => Aware(c, g)
      BY <2>1, <3>7 DEF Aware
    <3>9. Rested(c, g)
      BY <2>1 DEF Rested
    <3>10. Agrees(c, g, known)
      BY <3>6 DEF Agrees
    <3> QED
      BY <1>1, <2>2, <3>1, <3>8, <3>9, <3>10 DEF Beholds
  <2> QED
    BY <2>5, <2>6
<1> QED
  BY <1>2, <1>3

(* Of a timeline whose times are its places, the playhead is a place. *)
LEMMA EvenPlaces ==
  ASSUME NEW c, Charted(c), Evenly(c), c.playhead \in 0..Len(c.items) PROVE Index(c) = c.playhead
<1>1. Len(c.items) \in Nat
  BY IndexIs
<1>2. c.playhead = 0 \/ c.playhead \in 1..Len(c.items)
  BY <1>1
<1>3. Index(c) = IF c.playhead # 0 /\ c.items[c.playhead] = c.playhead + 1 THEN c.playhead - 1 ELSE c.playhead
  BY CountIs DEF Charted, Index
<1>4. c.playhead \in 1..Len(c.items) => c.items[c.playhead] = c.playhead
  BY DEF Evenly
<1> QED
  BY <1>2, <1>3, <1>4

(* Evidence is appended to a case that nobody has appended to. *)
LEMMA AppendBeholds ==
  ASSUME NEW c, NEW h, NEW known, NEW plain,
         Grounds(c, h, FALSE, known, plain), Beholds(c, h, FALSE, known, plain),
         NEW d, NEW g, Grounds(d, g, TRUE, known, plain),
         Continues(c.manifest, d.manifest), Len(c.manifest) < Len(d.manifest),
         g.cursor = acceptEvents(h.cursor, Len(d.manifest)), g.polled = h.polled,
         d.follow = c.follow,
         d.playhead = IF Riding(c) /\ d.items # <<>> THEN d.items[Len(d.items)] ELSE c.playhead
  PROVE  Beholds(d, g, TRUE, known, plain)
<1> DEFINE E == c.manifest
           M == Len(c.items)
           G == d.manifest
           N == Len(d.items)
<1>1. DOMAIN h.cursor = {"at", "edge", "mark", "unread"}
  BY DEF Beholds
<1>2. /\ DOMAIN g.cursor = {"at", "edge", "mark", "unread"}
      /\ h.cursor.edge => g.cursor.at = Len(G) /\ g.cursor.edge
      /\ ~h.cursor.edge => g.cursor.at = h.cursor.at
  BY <1>1 DEF acceptEvents, Live
<1>3. ASSUME plain PROVE Rested(d, g) /\ Agrees(d, g, known)
  <2>1. /\ Charted(c) /\ Rested(c, h) /\ Evenly(c) /\ h.manifest = E /\ Spanned(E, M) /\ M \in Nat
        /\ Len(E) = known /\ h.cursor.at \in 0..Len(E) /\ Agrees(c, h, known)
    BY <1>3, IndexIs DEF Grounds, Beholds, Charted
  <2>2. Charted(d) /\ Evenly(d) /\ g.manifest = G /\ Spanned(G, N) /\ N \in Nat
    BY <1>3, IndexIs DEF Grounds, Charted
  <2>3. /\ M <= N /\ \A k \in 0..M : EntryAt(G, k - 1) = EntryAt(E, k - 1)
        /\ \A n \in 0..Len(E) : Scene!Visible(E) # {} => Shown(G, n) = Shown(E, n)
    BY <2>1, <2>2, ReadingStays
  <2>4. /\ c.playhead \in 0..M /\ (c.playhead = 0 => M = 0) /\ (M = 0 => c.follow)
        /\ h.polled \in 0..M /\ (c.follow /\ h.polled # Index(c) => h.polled < Index(c))
    BY <2>1 DEF Rested
  <2>5. Index(c) = c.playhead /\ (AtEdge(c) <=> c.playhead = M)
    BY <2>1, <2>4, EvenPlaces DEF AtEdge
  <2>6. Riding(c) <=> (c.follow /\ c.playhead = M)
    BY <2>5 DEF Riding
  <2>7. EntryAt(G, N - 1) = Shown(G, Len(G))
    BY <2>2, LinesAndEvents
  <2>8. Len(G) \in Nat /\ Len(E) \in Nat /\ Len(G) # known
    <3>1. Len(G) \in Nat /\ Len(E) \in Nat
      BY <2>1, <2>2, VisibleAre
    <3> QED
      BY <2>1, <3>1
  <2>9. (M = 0 <=> Scene!Visible(E) = {}) /\ (N = 0 <=> Scene!Visible(G) = {})
    BY <2>1, <2>2, VisibleAre
  <2>10. CASE Riding(c)
    <3>1. d.playhead = N
      <4>1. CASE N = 0
        <5>1. d.items = <<>>
          BY <2>2, <4>1 DEF Charted, Timed, IsStream
        <5>2. c.playhead = 0
          BY <2>1, <2>3, <2>4, <4>1
        <5> QED
          BY <4>1, <5>1, <5>2
      <4>2. CASE N # 0
        <5>1. d.items # <<>> /\ N \in 1..N
          BY <2>2, <4>2
        <5>2. d.items[N] = N
          BY <2>2, <5>1 DEF Evenly
        <5> QED
          BY <2>10, <5>1, <5>2
      <4> QED
        BY <4>1, <4>2
    <3>2. Index(d) = N
      BY <2>2, <3>1, EvenPlaces
    <3>3. Rested(d, g)
      <4>1. d.playhead \in 0..N /\ (d.playhead = 0 => N = 0) /\ d.follow
        BY <2>2, <2>6, <2>10, <3>1
      <4>2. g.polled \in 0..N /\ (g.polled # N => g.polled < N)
        BY <2>1, <2>2, <2>3, <2>4
      <4> QED
        BY <3>2, <4>1, <4>2 DEF Rested
    <3>4. ASSUME g.polled = N PROVE EntryAt(G, N - 1) = Shown(G, g.cursor.at)
      <4>1. N = M /\ h.polled = Index(c)
        BY <2>1, <2>2, <2>3, <2>4, <2>5, <2>6, <2>10, <3>4
      <4>2. EntryAt(E, M - 1) = Shown(E, h.cursor.at)
        BY <2>1, <2>5, <2>6, <2>10, <4>1 DEF Agrees
      <4>3. CASE h.cursor.edge
        BY <1>2, <2>7, <4>3
      <4>4. CASE ~h.cursor.edge /\ Scene!Visible(E) # {}
        <5>1. EntryAt(G, M - 1) = EntryAt(E, M - 1)
          BY <2>1, <2>3
        <5>2. Shown(G, h.cursor.at) = Shown(E, h.cursor.at)
          BY <2>1, <2>3, <4>4
        <5> QED
          BY <1>2, <4>1, <4>2, <4>4, <5>1, <5>2
      <4>5. CASE ~h.cursor.edge /\ Scene!Visible(E) = {}
        <5>1. Scene!Visible(G) = {}
          BY <2>9, <4>1, <4>5
        <5>2. \A m \in Nat : Shown(G, m) = 0
          BY <2>2, <5>1, ShownIs
        <5>3. h.cursor.at \in Nat
          BY <2>1, <2>8
        <5> QED
          BY <1>2, <2>7, <2>8, <4>5, <5>2, <5>3
      <4> QED
        BY <4>3, <4>4, <4>5
    <3>5. Agrees(d, g, known)
      BY <2>2, <3>2, <3>4 DEF Agrees
    <3> QED
      BY <3>3, <3>5
  <2>11. CASE ~Riding(c)
    <3>1. d.playhead = c.playhead
      BY <2>11
    <3>2. c.playhead \in 0..N
      BY <2>1, <2>2, <2>3, <2>4
    <3>3. Index(d) = c.playhead
      BY <2>2, <3>1, <3>2, EvenPlaces
    <3>4. M # 0
      <4>1. M = 0 => c.playhead = M
        BY <2>1, <2>4
      <4> QED
        BY <2>4, <2>6, <2>11, <4>1
    <3>5. Rested(d, g)
      <4>1. g.polled \in 0..N /\ c.playhead # 0 /\ N # 0
        BY <2>1, <2>2, <2>3, <2>4, <3>4
      <4> QED
        BY <2>4, <2>5, <3>1, <3>2, <3>3, <4>1 DEF Rested
    <3>6. ASSUME g.polled = c.playhead
          PROVE  \/ EntryAt(G, c.playhead - 1) = Shown(G, g.cursor.at)
                 \/ g.cursor.edge /\ c.playhead # N
      <4>1. CASE h.cursor.edge
        BY <1>2, <2>7, <4>1
      <4>2. CASE ~h.cursor.edge
        <5>1. EntryAt(E, c.playhead - 1) = Shown(E, h.cursor.at)
          BY <2>1, <2>5, <3>6, <4>2 DEF Agrees
        <5>2. EntryAt(G, c.playhead - 1) = EntryAt(E, c.playhead - 1)
          BY <2>3, <2>4
        <5>3. Shown(G, h.cursor.at) = Shown(E, h.cursor.at)
          BY <2>1, <2>3, <2>9, <3>4
        <5> QED
          BY <1>2, <4>2, <5>1, <5>2, <5>3
      <4> QED
        BY <4>1, <4>2
    <3>7. AtEdge(d) <=> c.playhead = N
      BY <3>3 DEF AtEdge
    <3>8. Agrees(d, g, known)
      BY <2>2, <2>8, <3>3, <3>6, <3>7 DEF Agrees
    <3> QED
      BY <3>5, <3>8
  <2> QED
    BY <2>10, <2>11
<1> QED
  BY <1>2, <1>3 DEF Beholds

LEMMA GroundsFrom ==
  ASSUME NEW r, IsStream(r), NEW s, IsStream(s), ~Delegating(r) => ~Delegating(s),
         NEW c, NEW h, h.manifest = Compiles(s).entries, c.manifest = Compiles(s).entries,
         s = r \/ ~Delegating(r) => c.items = Times(Compiles(s).slots),
         NEW spent, ~spent => s = r
  PROVE  Grounds(c, h, spent, Len(r), ~Delegating(r))
<1> DEFINE C == Compiles(s)
<1>1. /\ IsStream(C.entries) /\ Len(C.entries) = Len(s) /\ Spanned(C.entries, Len(C.slots))
      /\ Timed(Times(C.slots), C.entries) /\ Len(Times(C.slots)) = Len(C.slots)
      /\ ~Delegating(s) => Times(C.slots) = Numbers(Len(C.slots))
  BY SceneParts
<1>2. Len(r) \in Nat
  BY StreamParts
<1>3. ASSUME ~spent \/ ~Delegating(r) PROVE Charted(c)
  BY <1>1, <1>3 DEF Charted
<1>4. ASSUME ~Delegating(r) PROVE Evenly(c)
  <2>1. c.items = Numbers(Len(C.slots)) /\ Len(c.items) = Len(C.slots)
    BY <1>1, <1>4
  <2> HIDE DEF C
  <2> QED
    BY <2>1 DEF Evenly, Numbers
<1>5. ~spent => Len(c.manifest) = Len(r)
  BY <1>1
<1> QED
  BY <1>1, <1>2, <1>3, <1>4, <1>5 DEF Grounds

LEMMA GroundsNow ==
  ASSUME Dialogue, Carried, cockpit.mounted
  PROVE  Grounds(cockpit, shell, page.spent, Len(recorded), Plainly)
<1>1. /\ IsStream(recorded) /\ IsStream(page.stream) /\ (~Delegating(recorded) => ~Delegating(page.stream))
      /\ ~page.spent => page.stream = recorded
  BY DEF Dialogue, Tells
<1>2. PICK s \in {recorded, page.stream} : Carries(s) /\ (~page.spent => s = recorded)
  BY <1>1 DEF Carried
<1> QED
  BY <1>1, <1>2, GroundsFrom DEF Carries, Plainly

LEMMA GroundsNext ==
  ASSUME Dialogue', Carried', cockpit'.mounted
  PROVE  Grounds(cockpit', shell', page'.spent, Len(recorded'), Plainly')
<1>1. /\ IsStream(recorded') /\ IsStream(page'.stream) /\ (~Delegating(recorded') => ~Delegating(page'.stream))
      /\ ~page'.spent => page'.stream = recorded'
  BY DEF Dialogue, Tells
<1>2. PICK s \in {recorded', page'.stream} :
        /\ shell'.manifest = Compiles(s).entries /\ cockpit'.manifest = Compiles(s).entries
        /\ s = recorded' \/ ~Delegating(recorded') => cockpit'.items = Times(Compiles(s).slots)
        /\ ~page'.spent => s = recorded'
  BY <1>1 DEF Carried, Carries
<1> QED
  BY <1>1, <1>2, GroundsFrom DEF Plainly

LEMMA WatchedFromTheStart == ASSUME LiveInit PROVE Watched
BY DEF LiveInit, Unmounted, Watched

LEMMA WatchedOn ==
  ASSUME Watched, UNCHANGED <<shell, cockpit, recorded>>, ~page'.spent => ~page.spent
  PROVE  Watched'
BY DEF Watched, Beholds, Plainly

LEMMA ScrubWatches ==
  ASSUME Dialogue, Carried, Watched, NEW k \in DOMAIN cockpit.items, Scrub(k) PROVE Watched'
<1>1. /\ Retained /\ shell' = shell /\ cockpit.mounted /\ Framed
      /\ cockpit'.playhead = IF cockpit.items = <<>> THEN cockpit.playhead ELSE cockpit.items[k]
      /\ cockpit'.follow = (k >= Len(cockpit.items))
  BY ScrubIs
<1>2. /\ Grounds(cockpit, shell, page.spent, Len(recorded), Plainly)
      /\ Beholds(cockpit, shell, page.spent, Len(recorded), Plainly)
      /\ shell.polled = Index(cockpit) /\ Alike(cockpit, cockpit')
  BY <1>1, GroundsNow DEF Watched, Framed, Retained
<1>3. CASE page.spent /\ ~Plainly
  BY <1>1, <1>2, <1>3 DEF Watched, Beholds, Retained, Plainly
<1>4. CASE ~page.spent \/ Plainly
  <2>1. k \in 1..Len(cockpit.items) /\ cockpit.items # <<>>
    BY <1>2, <1>4, StreamParts DEF Grounds, Charted, Timed
  <2>2. cockpit'.playhead = cockpit.items[k] /\ (cockpit'.follow => k >= Len(cockpit.items))
    BY <1>1, <2>1
  <2>3. Beholds(cockpit', shell, page.spent, Len(recorded), Plainly)
    BY <1>2, <2>1, <2>2, ScrubBeholds
  <2> QED
    BY <1>1, <2>3 DEF Watched, Retained, Plainly
<1> QED
  BY <1>3, <1>4

LEMMA PlayWatches == ASSUME Dialogue, Carried, Watched, Play PROVE Watched'
<1>1. /\ Retained /\ shell' = shell /\ cockpit.mounted /\ Framed
      /\ cockpit'.playhead = cockpit.playhead /\ cockpit'.follow = TRUE
  BY PlayIs
<1>2. /\ Grounds(cockpit, shell, page.spent, Len(recorded), Plainly)
      /\ Beholds(cockpit, shell, page.spent, Len(recorded), Plainly)
      /\ shell.polled = Index(cockpit) /\ Alike(cockpit, cockpit')
  BY <1>1, GroundsNow DEF Watched, Framed, Retained
<1>3. Beholds(cockpit', shell, page.spent, Len(recorded), Plainly)
  BY <1>1, <1>2, PlayBeholds
<1> QED
  BY <1>1, <1>3 DEF Watched, Retained, Plainly

LEMMA AdvanceWatches == ASSUME Dialogue, Carried, Watched, Advance PROVE Watched'
<1>1. /\ Retained /\ shell' = shell /\ cockpit.mounted /\ cockpit.follow /\ ~AtEdge(cockpit)
      /\ cockpit'.playhead = cockpit.items[Index(cockpit) + 1] /\ cockpit'.follow = cockpit.follow
  BY AdvanceIs
<1>2. /\ Grounds(cockpit, shell, page.spent, Len(recorded), Plainly)
      /\ Beholds(cockpit, shell, page.spent, Len(recorded), Plainly)
      /\ Alike(cockpit, cockpit')
  BY <1>1, GroundsNow DEF Watched, Retained
<1>3. Beholds(cockpit', shell, page.spent, Len(recorded), Plainly)
  BY <1>1, <1>2, AdvanceBeholds
<1> QED
  BY <1>1, <1>3 DEF Watched, Retained, Plainly

LEMMA PollWatches == ASSUME Dialogue, Carried, Watched, Poll PROVE Watched'
<1> DEFINE entry == EntryAt(shell.manifest, Index(cockpit) - 1)
<1>1. /\ Retained /\ cockpit' = cockpit /\ cockpit.mounted /\ Index(cockpit) # shell.polled
      /\ shell'.polled = Index(cockpit)
      /\ shell'.cursor = IF entry = 0 THEN shell.cursor
                         ELSE IF AtEdge(cockpit) THEN Live(Len(shell.manifest))
                         ELSE seekCursor(shell.cursor, Len(shell.manifest), entry)
  BY PollIs
<1>2. /\ Grounds(cockpit, shell, page.spent, Len(recorded), Plainly)
      /\ Beholds(cockpit, shell, page.spent, Len(recorded), Plainly)
      /\ shell'.manifest = shell.manifest
  BY <1>1, GroundsNow DEF Watched, Retained
<1>3. Beholds(cockpit, shell', page.spent, Len(recorded), Plainly)
  BY <1>1, <1>2, PollBeholds
<1> QED
  BY <1>1, <1>3 DEF Watched, Retained, Plainly

LEMMA ReturnWatches == ASSUME Dialogue, Carried, Watched, ReturnToLive PROVE Watched'
<1>1. /\ Retained /\ cockpit.mounted /\ shell'.polled = shell.polled
      /\ shell'.cursor = Live(Len(shell.manifest))
      /\ cockpit'.playhead = IF cockpit.items = <<>> THEN cockpit.playhead
                             ELSE cockpit.items[Len(cockpit.items)]
      /\ cockpit'.follow = (Len(cockpit.items) >= Len(cockpit.items))
  BY ReturnIs
<1>2. /\ Grounds(cockpit, shell, page.spent, Len(recorded), Plainly)
      /\ Beholds(cockpit, shell, page.spent, Len(recorded), Plainly)
      /\ Alike(cockpit, cockpit') /\ shell'.manifest = shell.manifest
  BY <1>1, GroundsNow DEF Watched, Retained
<1>3. CASE page.spent /\ ~Plainly
  <2>1. DOMAIN shell'.cursor = {"at", "edge", "mark", "unread"}
    BY <1>1, CursorsAre
  <2> QED
    BY <1>1, <1>3, <2>1 DEF Watched, Beholds, Retained, Plainly
<1>4. CASE ~page.spent \/ Plainly
  <2>1. Charted(cockpit) /\ Rested(cockpit, shell) /\ Len(cockpit.items) \in Nat
    BY <1>2, <1>4, IndexIs DEF Grounds, Beholds
  <2>2. cockpit.items = <<>> => cockpit.playhead = 0
    <3>1. cockpit.items = <<>> => Len(cockpit.items) = 0
      OBVIOUS
    <3> QED
      BY <2>1, <3>1 DEF Rested
  <2>3. cockpit'.follow /\ cockpit'.items = cockpit.items /\ cockpit'.manifest = cockpit.manifest
    <3>1. (Len(cockpit.items) >= Len(cockpit.items)) = TRUE
      BY <2>1
    <3>2. cockpit'.follow = TRUE
      BY <1>1, <3>1, Zenon
    <3> QED
      BY <1>2, <3>2 DEF Alike
  <2>4. Grounds(cockpit', shell', page.spent, Len(recorded), Plainly)
    BY <1>2, <2>3 DEF Grounds, Charted, Evenly
  <2>5. shell'.cursor = Live(Len(cockpit'.manifest))
    BY <1>1, <1>2, <2>3 DEF Grounds
  <2>6. /\ shell'.polled \in 0..Len(cockpit'.items)
        /\ cockpit'.playhead = IF cockpit'.items = <<>> THEN 0
                               ELSE cockpit'.items[Len(cockpit'.items)]
    BY <1>1, <2>1, <2>2, <2>3 DEF Rested
  <2>7. Beholds(cockpit', shell', page.spent, Len(recorded), Plainly)
    BY <2>3, <2>4, <2>5, <2>6, EdgeBeholds
  <2> QED
    BY <1>1, <2>7 DEF Watched, Retained, Plainly
<1> QED
  BY <1>3, <1>4

LEMMA MountWatches == ASSUME Dialogue, Carried, Watched, Mount PROVE Watched'
<1> DEFINE c == Compiles(recorded)
           times == Times(c.slots)
<1>1. /\ UNCHANGED <<recorded, page>>
      /\ shell'.manifest = c.entries /\ cockpit'.manifest = c.entries /\ cockpit'.items = times
      /\ cockpit'.mounted = TRUE /\ shell'.polled = 0
      /\ shell'.cursor = Live(Len(recorded))
      /\ cockpit'.playhead = IF times = <<>> THEN 0 ELSE times[Len(times)]
      /\ cockpit'.follow = (Len(times) >= Len(times))
  BY MountIs
<1>2. IsStream(recorded)
  BY DEF Dialogue, Tells
<1>3. /\ Len(c.entries) = Len(recorded) /\ Len(times) \in Nat
  BY <1>2, SceneParts
<1>4. Grounds(cockpit', shell', page.spent, Len(recorded), Plainly)
  <2> HIDE DEF times
  <2>1. cockpit'.items = Times(Compiles(recorded).slots)
    BY <1>1 DEF times
  <2> QED
    BY <1>1, <1>2, <2>1, GroundsFrom DEF Plainly
<1> HIDE DEF c, times
<1>5. /\ cockpit'.follow /\ shell'.cursor = Live(Len(cockpit'.manifest))
      /\ shell'.polled \in 0..Len(cockpit'.items)
      /\ cockpit'.playhead = IF cockpit'.items = <<>> THEN 0 ELSE cockpit'.items[Len(cockpit'.items)]
  <2>1. (Len(times) >= Len(times)) = TRUE
    BY <1>3
  <2>2. cockpit'.follow = TRUE
    BY <1>1, <2>1, Zenon
  <2> QED
    BY <1>1, <1>3, <2>2
<1>6. Beholds(cockpit', shell', page.spent, Len(recorded), Plainly)
  BY <1>4, <1>5, EdgeBeholds
<1> QED
  BY <1>1, <1>6 DEF Watched, Plainly

LEMMA SeekWatches ==
  ASSUME Dialogue, Carried, Watched, NEW n \in DOMAIN page.stream, Seek(n) PROVE Watched'
<1> DEFINE k == Sought(cockpit, cockpit.manifest[Shown(cockpit.manifest, n)].start)
<1>1. /\ Retained /\ shell'.polled = shell.polled
      /\ shell'.cursor = seekCursor(shell.cursor, Len(shell.manifest), n)
      /\ IF cockpit.mounted /\ Scene!Visible(cockpit.manifest) # {}
         THEN /\ cockpit'.playhead = IF cockpit.items = <<>> THEN cockpit.playhead
                                     ELSE cockpit.items[k]
              /\ cockpit'.follow = (k >= Len(cockpit.items))
         ELSE cockpit' = cockpit
  BY SeekIs
<1> SUFFICES ASSUME cockpit.mounted
             PROVE  Beholds(cockpit', shell', page.spent, Len(recorded), Plainly)
  BY <1>1 DEF Watched, Retained, Plainly
<1>2. /\ Grounds(cockpit, shell, page.spent, Len(recorded), Plainly)
      /\ Beholds(cockpit, shell, page.spent, Len(recorded), Plainly)
      /\ Alike(cockpit, cockpit') /\ shell'.manifest = shell.manifest
  BY <1>1, GroundsNow DEF Watched, Retained
<1>3. shell.polled = Index(cockpit)
  BY DEF Seek, Framed
<1>4. n \in Nat \ {0} /\ (~page.spent => n <= Len(recorded))
  <2>1. DOMAIN page.stream = 1..Len(page.stream) /\ Len(page.stream) \in Nat
    BY StreamParts DEF Dialogue, Tells
  <2> QED
    BY <2>1 DEF Dialogue, Tells
<1> HIDE DEF k
<1>5. IF Scene!Visible(cockpit.manifest) # {}
      THEN /\ Alike(cockpit, cockpit')
           /\ cockpit'.playhead = IF cockpit.items = <<>> THEN cockpit.playhead ELSE cockpit.items[k]
           /\ cockpit'.follow => k >= Len(cockpit.items)
      ELSE cockpit' = cockpit
  <2>1. CASE Scene!Visible(cockpit.manifest) # {}
    <3>1. /\ cockpit'.playhead = IF cockpit.items = <<>> THEN cockpit.playhead ELSE cockpit.items[k]
          /\ cockpit'.follow = (k >= Len(cockpit.items))
      BY <1>1, <2>1
    <3>2. cockpit'.follow => k >= Len(cockpit.items)
      BY <3>1
    <3> QED
      BY <1>2, <2>1, <3>1, <3>2
  <2>2. CASE ~(Scene!Visible(cockpit.manifest) # {})
    BY <1>1, <2>2
  <2> QED
    BY <2>1, <2>2
<1> QED
  BY <1>1, <1>2, <1>3, <1>4, <1>5, SeekBeholds DEF k

LEMMA AppendWatches ==
  ASSUME Dialogue, Carried, Watched, EvidenceAppended PROVE Watched'
<1>1. /\ Dialogue' /\ ~page.spent /\ page'.spent /\ recorded' = recorded
  BY AppendDialogue
<1>2. CASE UNCHANGED <<cockpit, shell>>
  BY <1>1, <1>2, WatchedOn
<1>3. CASE cockpit.mounted /\ Appending(Compiles(recorded), Compiles(page'.stream))
  <2> DEFINE c == Compiles(recorded)
             d == Compiles(page'.stream)
  <2> HIDE DEF c, d
  <2>1. /\ Len(c.entries) < Len(d.entries) /\ Continues(c.entries, d.entries)
        /\ cockpit.manifest = c.entries /\ cockpit'.manifest = d.entries
        /\ shell'.cursor = acceptEvents(shell.cursor, Len(d.entries))
        /\ shell'.polled = shell.polled
        /\ cockpit'.mounted = cockpit.mounted /\ cockpit'.follow = cockpit.follow
        /\ cockpit'.playhead = IF Riding(cockpit) /\ cockpit'.items # <<>>
                               THEN cockpit'.items[Len(cockpit'.items)] ELSE cockpit.playhead
    BY <1>3 DEF Appending, c, d
  <2>2. /\ Grounds(cockpit, shell, page.spent, Len(recorded), Plainly)
        /\ Beholds(cockpit, shell, page.spent, Len(recorded), Plainly)
    BY <1>3, GroundsNow DEF Watched
  <2>3. /\ Grounds(cockpit, shell, FALSE, Len(recorded), Plainly)
        /\ Beholds(cockpit, shell, FALSE, Len(recorded), Plainly)
    BY <1>1, <2>2 DEF Grounds, Beholds
  <2>4. Carried'
    BY AppendingCarries
  <2>5. Grounds(cockpit', shell', page'.spent, Len(recorded), Plainly)
    BY <1>1, <1>3, <2>1, <2>4, GroundsNext DEF Plainly
  <2>6. Grounds(cockpit', shell', TRUE, Len(recorded), Plainly)
    BY <1>1, <2>5 DEF Grounds
  <2>7. Beholds(cockpit', shell', TRUE, Len(recorded), Plainly)
    BY <2>1, <2>3, <2>6, AppendBeholds
  <2>8. Beholds(cockpit', shell', page'.spent, Len(recorded), Plainly)
    BY <1>1, <2>7 DEF Beholds
  <2> QED
    BY <1>1, <2>8 DEF Watched, Plainly
<1> QED
  BY <1>2, <1>3, AppendCarries

LEMMA WatchedStep ==
  ASSUME Dialogue, Carried, Watched, [LiveNext]_liveVars PROVE Watched'
<1>1. CASE Asides
  BY <1>1, AsidesAre, WatchedOn
<1>2. CASE EvidenceAppended
  BY <1>2, AppendWatches
<1>3. CASE Reload
  BY <1>3, ReloadCarries DEF Watched
<1>4. CASE Mount
  BY <1>4, MountWatches
<1>5. CASE Degrade
  BY <1>5, DegradeCarries DEF Watched
<1>6. CASE Play \/ Advance \/ ReturnToLive \/ Poll
  BY <1>6, PlayWatches, AdvanceWatches, ReturnWatches, PollWatches
<1>7. CASE \E n \in DOMAIN page.stream : Seek(n)
  BY <1>7, SeekWatches
<1>8. CASE \E target \in DOMAIN cockpit.items : Scrub(target)
  BY <1>8, ScrubWatches
<1>9. CASE UNCHANGED liveVars
  BY <1>9, WatchedOn DEF liveVars
<1> QED
  BY <1>1, <1>2, <1>3, <1>4, <1>5, <1>6, <1>7, <1>8, <1>9 DEF LiveNext, Asides

LEMMA WatchedIsSettled == ASSUME Dialogue, Carried, Watched PROVE SettledTogether
<1> SUFFICES ASSUME cockpit.mounted, shell.polled = Index(cockpit), Plainly,
                    Len(shell.manifest) = Len(recorded) \/ (shell.cursor.edge => AtEdge(cockpit))
             PROVE  EntryAt(cockpit.manifest, Index(cockpit) - 1) = Shown(shell.manifest, shell.cursor.at)
  BY DEF SettledTogether, EntryAt, Plainly
<1>1. Agrees(cockpit, shell, Len(recorded))
  BY DEF Watched, Beholds
<1> QED
  BY <1>1 DEF Agrees

(* Once the shell has seen where the renderer is, both name one event
   (CockpitMount.astro poll, seekTo and acceptEvents; scene.rs), in a case
   without sub-agents, unless an append has moved only the shell. *)
THEOREM SettledTogetherHolds ==
  ASSUME LiveCaseAssumption PROVE LiveSpec => []SettledTogether
<1>1. LiveInit => Dialogue /\ Carried /\ Watched
  BY DialogueFromTheStart, CarriedFromTheStart, WatchedFromTheStart
<1>2. Dialogue /\ Carried /\ Watched /\ [LiveNext]_liveVars => (Dialogue /\ Carried /\ Watched)'
  BY DialogueStep, CarriedStep, WatchedStep
<1>3. Dialogue /\ Carried /\ Watched => SettledTogether
  BY WatchedIsSettled
<1> QED
  BY <1>1, <1>2, <1>3, PTL DEF LiveSpec

LEMMA AppendYanksNobody ==
  ASSUME Dialogue, Carried, Watched, EvidenceAppended, Framed, ~shell.cursor.edge,
         StandsAlone(shell.manifest)
  PROVE  shell'.cursor.at = shell.cursor.at /\ cockpit'.playhead = cockpit.playhead
<1>1. CASE UNCHANGED <<cockpit, shell>>
  BY <1>1
<1>2. CASE cockpit.mounted /\ Appending(Compiles(recorded), Compiles(page'.stream))
  <2> DEFINE d == Compiles(page'.stream)
  <2> HIDE DEF d
  <2>1. /\ shell'.cursor = acceptEvents(shell.cursor, Len(d.entries))
        /\ cockpit'.playhead = IF Riding(cockpit) /\ cockpit'.items # <<>>
                               THEN cockpit'.items[Len(cockpit'.items)] ELSE cockpit.playhead
    BY <1>2 DEF Appending, d
  <2>2. ~page.spent
    BY AppendDialogue
  <2>3. /\ Aware(cockpit, shell) /\ DOMAIN shell.cursor = {"at", "edge", "mark", "unread"}
    BY <1>2, <2>2 DEF Watched, Beholds
  <2>4. shell.polled = Index(cockpit)
    BY <1>2 DEF Framed
  <2>5. ~Riding(cockpit)
    BY <2>3, <2>4 DEF Aware, Riding
  <2>6. shell'.cursor.at = shell.cursor.at
    BY <2>1, <2>3 DEF acceptEvents
  <2> QED
    BY <2>1, <2>5, <2>6
<1> QED
  BY <1>1, <1>2, AppendCarries

(* "Events arriving during inspection must not yank the operator's view
   forward": an append that finds the operator in the past, and the shell
   aware of it, moves neither cursor nor playhead (scene.rs Cockpit::append,
   cursor.ts acceptEvents), where the last event is told from those before. *)
THEOREM NotYankedHolds == ASSUME LiveCaseAssumption PROVE LiveSpec => NotYanked
<1>1. LiveInit => Dialogue /\ Carried /\ Watched
  BY DialogueFromTheStart, CarriedFromTheStart, WatchedFromTheStart
<1>2. Dialogue /\ Carried /\ Watched /\ [LiveNext]_liveVars => (Dialogue /\ Carried /\ Watched)'
  BY DialogueStep, CarriedStep, WatchedStep
<1>3. Dialogue /\ Carried /\ Watched /\ [LiveNext]_liveVars =>
        [EvidenceAppended /\ Framed /\ ~shell.cursor.edge /\ StandsAlone(shell.manifest) =>
           shell'.cursor.at = shell.cursor.at /\ cockpit'.playhead = cockpit.playhead]_liveVars
  BY AppendYanksNobody
<1> QED
  BY <1>1, <1>2, <1>3, PTL DEF LiveSpec, NotYanked
=============================================================================
