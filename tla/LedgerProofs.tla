---------------------------- MODULE LedgerProofs ----------------------------
(***************************************************************************)
(* Proofs about RunLedger, for any runs, versions, events and bounds: its  *)
(* file keeps the promise of LedgerView however its writes are cut, a cut  *)
(* costs one line, and a poller is given all it has passed.                *)
(***************************************************************************)
EXTENDS RunLedger, FiniteSetTheorems, SequenceTheorems, TLAPS

Lines == Line \cup {Malformed}

----------------------------------------------------------------------------
(* Positions: a nonempty set of positions of a file has a last one and a    *)
(* first one.                                                               *)

LEMMA FirstPosition ==
  ASSUME NEW n \in Nat, NEW S, S \subseteq 1..n, S # {}
  PROVE  Min(S) \in S /\ \A j \in S : Min(S) <= j
<1> DEFINE Less == {p \in Nat \X Nat : p[1] < p[2]}
<1>1. IsWellFoundedOn(Less, Nat)
  BY NatLessThanWellFounded DEF OpToRel
<1>2. S \subseteq Nat /\ S # {}
  OBVIOUS
<1> HIDE DEF Less
<1>3. PICK x \in S : \A y \in S : ~(<<y, x>> \in Less)
  BY <1>1, <1>2, WFMin
<1>4. ASSUME NEW j \in S PROVE x <= j
  <2>1. ~(<<j, x>> \in Less) /\ j \in Nat /\ x \in Nat
    BY <1>2, <1>3
  <2> QED
    BY <2>1 DEF Less
<1> QED
  BY <1>4 DEF Min

LEMMA LastPosition ==
  ASSUME NEW n \in Nat, NEW S, S \subseteq 1..n, S # {}
  PROVE  Max(S) \in S /\ \A j \in S : j <= Max(S)
<1> DEFINE Below == {n - i + 1 : i \in S}
<1>1. \A i \in S : i \in Nat /\ n - i + 1 \in 1..n
  OBVIOUS
<1>2. Below \subseteq 1..n /\ Below # {}
  BY <1>1
<1>3. Min(Below) \in Below /\ \A j \in Below : Min(Below) <= j
  <2> HIDE DEF Below
  <2> QED
    BY <1>2, FirstPosition
<1>4. PICK x \in S : Min(Below) = n - x + 1
  BY <1>3
<1>5. ASSUME NEW j \in S PROVE j <= x
  <2>1. n - x + 1 <= n - j + 1
    BY <1>3, <1>4
  <2> QED
    BY <1>1, <2>1
<1>6. \A j \in S : x >= j
  BY <1>1, <1>5
<1>7. Max(S) \in S /\ \A j \in S : Max(S) >= j
  BY <1>6 DEF Max
<1> QED
  BY <1>1, <1>7

----------------------------------------------------------------------------
(* What readers make of one line more.                                      *)

LEMMA LineParts ==
  /\ \A l \in VersionLine : l.kind = "version" /\ l.run \in Runs /\ l.body \in Versions
  /\ \A l \in EventLine : /\ l.kind = "event" /\ l.run \in Runs
                          /\ l.sequence \in Numbers /\ l.body \in Events
  /\ Malformed.kind = "malformed"
BY DEF VersionLine, EventLine, Malformed

LEMMA Appended ==
  ASSUME NEW s \in Seq(Lines), NEW l \in Lines
  PROVE  /\ Append(s, l) \in Seq(Lines)
         /\ Len(s) \in Nat /\ DOMAIN s = 1..Len(s)
         /\ DOMAIN Append(s, l) = 1..(Len(s) + 1)
         /\ \A i \in DOMAIN s : i \in Nat /\ i <= Len(s) /\ Append(s, l)[i] = s[i] /\ s[i] \in Lines
         /\ Append(s, l)[Len(s) + 1] = l
BY AppendProperties, LenProperties, ElementOfSeq

LEMMA VersionsAppended ==
  ASSUME NEW s \in Seq(Lines), NEW l \in Lines, NEW r \in Runs
  PROVE  /\ (l.kind = "version" /\ l.run = r)
              => VersionsOf(Append(s, l), r) = VersionsOf(s, r) \cup {Len(s) + 1}
         /\ ~(l.kind = "version" /\ l.run = r)
              => VersionsOf(Append(s, l), r) = VersionsOf(s, r)
<1> DEFINE t == Append(s, l)
<1>1. /\ Len(s) \in Nat /\ DOMAIN s = 1..Len(s) /\ DOMAIN t = 1..(Len(s) + 1)
      /\ \A i \in DOMAIN s : t[i] = s[i]
      /\ t[Len(s) + 1] = l
  BY Appended
<1>2. DOMAIN t = DOMAIN s \cup {Len(s) + 1}
  BY <1>1
<1> HIDE DEF t
<1> SUFFICES /\ (l.kind = "version" /\ l.run = r)
                  => VersionsOf(t, r) = VersionsOf(s, r) \cup {Len(s) + 1}
             /\ ~(l.kind = "version" /\ l.run = r)
                  => VersionsOf(t, r) = VersionsOf(s, r)
  BY DEF t
<1> QED
  BY <1>1, <1>2 DEF VersionsOf

LEMMA EventsAppended ==
  ASSUME NEW s \in Seq(Lines), NEW l \in Lines, NEW r \in Runs, NEW n \in Numbers
  PROVE  /\ (l.kind = "event" /\ l.run = r /\ l.sequence = n)
              => EventsOf(Append(s, l), r, n) = EventsOf(s, r, n) \cup {Len(s) + 1}
         /\ ~(l.kind = "event" /\ l.run = r /\ l.sequence = n)
              => EventsOf(Append(s, l), r, n) = EventsOf(s, r, n)
<1> DEFINE t == Append(s, l)
<1>1. /\ Len(s) \in Nat /\ DOMAIN s = 1..Len(s) /\ DOMAIN t = 1..(Len(s) + 1)
      /\ \A i \in DOMAIN s : t[i] = s[i]
      /\ t[Len(s) + 1] = l
  BY Appended
<1>2. DOMAIN t = DOMAIN s \cup {Len(s) + 1}
  BY <1>1
<1> HIDE DEF t
<1> SUFFICES /\ (l.kind = "event" /\ l.run = r /\ l.sequence = n)
                  => EventsOf(t, r, n) = EventsOf(s, r, n) \cup {Len(s) + 1}
             /\ ~(l.kind = "event" /\ l.run = r /\ l.sequence = n)
                  => EventsOf(t, r, n) = EventsOf(s, r, n)
  BY DEF t
<1> QED
  BY <1>1, <1>2 DEF EventsOf

(* The last version written is the current state.                           *)
LEMMA VersionIsLast ==
  ASSUME NEW s \in Seq(Lines), NEW l \in Lines, NEW r \in Runs
  PROVE  /\ (l.kind = "version" /\ l.run = r) => versionIn(Append(s, l), r) = l.body
         /\ ~(l.kind = "version" /\ l.run = r)
              => versionIn(Append(s, l), r) = versionIn(s, r)
<1> DEFINE t == Append(s, l)
           new == VersionsOf(t, r)
           old == VersionsOf(s, r)
<1>1. /\ Len(s) \in Nat /\ DOMAIN s = 1..Len(s)
      /\ \A i \in DOMAIN s : t[i] = s[i]
      /\ t[Len(s) + 1] = l
  BY Appended
<1>2. old \subseteq 1..Len(s)
  BY <1>1 DEF VersionsOf
<1>3. CASE l.kind = "version" /\ l.run = r
  <2>1. new = old \cup {Len(s) + 1}
    BY <1>3, VersionsAppended
  <2>2. new \subseteq 1..(Len(s) + 1) /\ new # {} /\ Len(s) + 1 \in Nat
    BY <1>1, <1>2, <2>1
  <2>3. Max(new) \in new /\ \A j \in new : j <= Max(new)
    <3> HIDE DEF new
    <3> QED
      BY <2>2, LastPosition
  <2>4. Max(new) \in 1..(Len(s) + 1) /\ Len(s) + 1 <= Max(new)
    BY <2>1, <2>2, <2>3
  <2>5. Max(new) = Len(s) + 1
    BY <1>1, <2>4
  <2> QED
    BY <1>1, <1>3, <2>2, <2>5 DEF versionIn
<1>4. CASE ~(l.kind = "version" /\ l.run = r)
  <2>1. new = old
    BY <1>4, VersionsAppended
  <2>2. old # {} => t[Max(old)] = s[Max(old)]
    BY <1>1, <1>2, LastPosition
  <2> QED
    BY <1>4, <2>1, <2>2 DEF versionIn
<1> QED
  BY <1>3, <1>4

(* A stored event is a body; where none stands the reader answers "none".   *)
LEMMA NoneIsNotStored ==
  ASSUME LedgerAssumption, NEW s \in Seq(Lines), NEW r \in Runs, NEW n \in Numbers
  PROVE  eventIn(s, r, n) = "none" <=> EventsOf(s, r, n) = {}
<1> DEFINE at == EventsOf(s, r, n)
<1>1. Len(s) \in Nat /\ DOMAIN s = 1..Len(s) /\ \A i \in DOMAIN s : s[i] \in Lines
  BY LenProperties, ElementOfSeq
<1>2. at \subseteq 1..Len(s)
  BY <1>1 DEF EventsOf
<1>3. ASSUME at # {} PROVE s[Min(at)].body # "none"
  <2>1. Min(at) \in at
    <3> HIDE DEF at
    <3> QED
      BY <1>1, <1>2, <1>3, FirstPosition
  <2>2. s[Min(at)] \in Lines /\ s[Min(at)].kind = "event"
    BY <1>1, <2>1 DEF EventsOf
  <2>3. s[Min(at)].body \in Events
    BY <2>2, LineParts DEF Lines, Line
  <2> QED
    BY <2>3 DEF LedgerAssumption
<1> QED
  BY <1>3 DEF eventIn

(* The first event written under a sequence is kept.                        *)
LEMMA EventIsFirst ==
  ASSUME LedgerAssumption, NEW s \in Seq(Lines), NEW l \in Lines,
         NEW r \in Runs, NEW n \in Numbers
  PROVE  /\ (l.kind = "event" /\ l.run = r /\ l.sequence = n /\ eventIn(s, r, n) = "none")
              => eventIn(Append(s, l), r, n) = l.body
         /\ ~(l.kind = "event" /\ l.run = r /\ l.sequence = n /\ eventIn(s, r, n) = "none")
              => eventIn(Append(s, l), r, n) = eventIn(s, r, n)
<1> DEFINE t == Append(s, l)
           new == EventsOf(t, r, n)
           old == EventsOf(s, r, n)
           here == l.kind = "event" /\ l.run = r /\ l.sequence = n
<1>1. /\ Len(s) \in Nat /\ DOMAIN s = 1..Len(s)
      /\ \A i \in DOMAIN s : i \in Nat /\ i <= Len(s) /\ t[i] = s[i]
      /\ t[Len(s) + 1] = l
  BY Appended
<1>2. old \subseteq 1..Len(s)
  BY <1>1 DEF EventsOf
<1>3. old # {} => Min(old) \in old /\ \A j \in old : Min(old) <= j
  <2> HIDE DEF old
  <2> QED
    BY <1>1, <1>2, FirstPosition
<1>4. eventIn(s, r, n) = "none" <=> old = {}
  BY NoneIsNotStored
<1>5. CASE here /\ old = {}
  <2>1. new = {Len(s) + 1}
    BY <1>5, EventsAppended
  <2>2. Min(new) = Len(s) + 1
    <3>1. new \subseteq 1..(Len(s) + 1) /\ new # {} /\ Len(s) + 1 \in Nat
      BY <1>1, <2>1
    <3>2. Min(new) \in new
      <4> HIDE DEF new
      <4> QED
        BY <3>1, FirstPosition
    <3> QED
      BY <2>1, <3>2
  <2>3. eventIn(t, r, n) = l.body
    BY <1>1, <2>1, <2>2 DEF eventIn
  <2> QED
    BY <1>4, <1>5, <2>3
<1>6. CASE here /\ old # {}
  <2>1. new = old \cup {Len(s) + 1}
    BY <1>6, EventsAppended
  <2>2. new \subseteq 1..(Len(s) + 1) /\ new # {} /\ Len(s) + 1 \in Nat
    BY <1>1, <1>2, <2>1
  <2>3. Min(new) \in new /\ \A j \in new : Min(new) <= j
    <3> HIDE DEF new
    <3> QED
      BY <2>2, FirstPosition
  <2>4. Min(old) \in 1..Len(s) /\ Min(new) <= Min(old)
    BY <1>2, <1>3, <1>6, <2>1, <2>3
  <2>5. Min(new) # Len(s) + 1
    BY <1>1, <2>4
  <2>6. Min(new) \in old /\ Min(old) <= Min(new)
    BY <1>3, <1>6, <2>1, <2>3, <2>5
  <2>7. Min(new) = Min(old)
    BY <1>1, <1>2, <2>4, <2>6
  <2>8. t[Min(new)] = s[Min(old)]
    BY <1>1, <1>2, <2>4, <2>7
  <2>9. eventIn(t, r, n) = eventIn(s, r, n)
    BY <1>6, <2>2, <2>8 DEF eventIn
  <2> QED
    BY <1>4, <1>6, <2>9
<1>7. CASE ~here
  <2>1. new = old
    BY <1>7, EventsAppended
  <2>2. old # {} => t[Min(old)] = s[Min(old)]
    BY <1>1, <1>2, <1>3
  <2>3. eventIn(t, r, n) = eventIn(s, r, n)
    BY <2>1, <2>2 DEF eventIn
  <2> QED
    BY <1>7, <2>3
<1> QED
  BY <1>5, <1>6, <1>7

----------------------------------------------------------------------------
(* Steps: what a write, whole or cut, does to the finished lines.           *)

Typed ==
  /\ file \in Seq(Lines)
  /\ tail \in {"newline", "fragment", "unterminated"}
  /\ tail = "unterminated" => file # <<>>
  /\ next \in [Runs -> Nat]
  /\ put \in [Runs -> Versions \cup {"none"}]
  /\ failures \in Nat
  /\ cursor \in [Runs -> Nat]
  /\ seen \in [Runs -> SUBSET Numbers]

LEMMA FrontOfLines ==
  ASSUME NEW s \in Seq(Lines), s # <<>>
  PROVE  /\ Front(s) \in Seq(Lines)
         /\ Len(s) \in Nat \ {0}
         /\ Len(Front(s)) = Len(s) - 1
         /\ \A i \in 1..(Len(s) - 1) : Front(s)[i] = s[i]
<1>1. Len(s) \in Nat \ {0}
  BY EmptySeq
<1>2. \A i \in 1..(Len(s) - 1) : s[i] \in Lines
  BY <1>1, ElementOfSeq
<1>3. 1 \in Int /\ Len(s) - 1 \in Int
  BY <1>1
<1>4. /\ SubSeq(s, 1, Len(s) - 1) \in Seq(Lines)
      /\ Len(SubSeq(s, 1, Len(s) - 1)) = IF 1 <= Len(s) - 1 THEN Len(s) - 1 - 1 + 1 ELSE 0
      /\ \A i \in 1..(Len(s) - 1 - 1 + 1) : SubSeq(s, 1, Len(s) - 1)[i] = s[1 + i - 1]
  BY <1>2, <1>3, SubSeqProperties
<1>5. Len(SubSeq(s, 1, Len(s) - 1)) = Len(s) - 1
  <2>1. CASE Len(s) = 1
    <3>1. ~(1 <= Len(s) - 1) /\ Len(s) - 1 = 0
      BY <2>1
    <3> QED
      BY <1>4, <3>1
  <2>2. CASE Len(s) # 1
    <3>0. \A k \in Nat \ {0} : k # 1 => 1 <= k - 1 /\ k - 1 - 1 + 1 = k - 1
      OBVIOUS
    <3>1. 1 <= Len(s) - 1 /\ Len(s) - 1 - 1 + 1 = Len(s) - 1
      BY <1>1, <2>2, <3>0
    <3> QED
      BY <1>4, <3>1
  <2> QED
    BY <2>1, <2>2
<1>6. ASSUME NEW i \in 1..(Len(s) - 1) PROVE SubSeq(s, 1, Len(s) - 1)[i] = s[i]
  <2>1. 1 + i - 1 = i /\ i \in 1..(Len(s) - 1 - 1 + 1)
    BY <1>1
  <2>2. SubSeq(s, 1, Len(s) - 1)[i] = s[1 + i - 1]
    BY <1>4, <2>1
  <2> QED
    BY <2>1, <2>2
<1> QED
  BY <1>1, <1>4, <1>5, <1>6 DEF Front

(* Breaking the last line is appending a broken one to those before it.     *)
LEMMA BrokenLast ==
  ASSUME NEW s \in Seq(Lines), s # <<>>
  PROVE  /\ ReplaceAt(s, Len(s), Malformed) \in Seq(Lines)
         /\ ReplaceAt(s, Len(s), Malformed) = Append(Front(s), Malformed)
         /\ Len(ReplaceAt(s, Len(s), Malformed)) = Len(s)
         /\ \A i \in 1..Len(s) : ReplaceAt(s, Len(s), Malformed)[i]
                                   = IF i = Len(s) THEN Malformed ELSE s[i]
<1> DEFINE t == ReplaceAt(s, Len(s), Malformed)
           u == Append(Front(s), Malformed)
<1>1. /\ Front(s) \in Seq(Lines) /\ Len(s) \in Nat \ {0} /\ Len(Front(s)) = Len(s) - 1
      /\ \A i \in 1..(Len(s) - 1) : Front(s)[i] = s[i]
  BY FrontOfLines
<1>2. Malformed \in Lines /\ Len(s) \in 1..Len(s)
  BY <1>1 DEF Lines
<1>3. /\ t \in Seq(Lines) /\ Len(t) = Len(s)
      /\ \A i \in 1..Len(s) : t[i] = IF i = Len(s) THEN Malformed ELSE s[i]
  BY <1>2, ExceptSeq DEF ReplaceAt
<1>4. /\ u \in Seq(Lines) /\ Len(u) = Len(s) - 1 + 1
      /\ \A i \in 1..(Len(s) - 1) : u[i] = s[i]
      /\ u[Len(s) - 1 + 1] = Malformed
  BY <1>1, <1>2, AppendProperties
<1>5. Len(s) - 1 + 1 = Len(s)
  BY <1>1
<1> HIDE DEF t, u
<1>6. ASSUME NEW i \in 1..Len(s) PROVE t[i] = u[i]
  <2>1. CASE i = Len(s)
    BY <1>3, <1>4, <1>5, <2>1
  <2>2. CASE i # Len(s)
    <3>1. i \in 1..(Len(s) - 1)
      BY <1>1, <2>2
    <3> QED
      BY <1>3, <1>4, <2>2, <3>1
  <2> QED
    BY <2>1, <2>2
<1>7. t = u
  BY <1>3, <1>4, <1>5, <1>6, SeqEqual
<1> QED
  BY <1>3, <1>7 DEF t, u

LEMMA FrontAppended ==
  ASSUME NEW s \in Seq(Lines), NEW l \in Lines
  PROVE  Front(Append(s, l)) = s
<1> DEFINE t == Append(s, l)
<1>1. /\ t \in Seq(Lines) /\ t # <<>> /\ Len(t) = Len(s) + 1 /\ Len(s) \in Nat
      /\ \A i \in 1..Len(s) : t[i] = s[i]
  BY AppendProperties, LenProperties
<1> HIDE DEF t
<1>2. /\ Front(t) \in Seq(Lines) /\ Len(Front(t)) = Len(t) - 1
      /\ \A i \in 1..(Len(t) - 1) : Front(t)[i] = t[i]
  BY <1>1, FrontOfLines
<1>3. Len(t) - 1 = Len(s)
  BY <1>1
<1>4. Front(t) = s
  BY <1>1, <1>2, <1>3, SeqEqual
<1> QED
  BY <1>4 DEF t

(* A whole write appends its line, or breaks the line it continues.         *)
LEMMA WriteStep ==
  ASSUME Typed, NEW line \in Line, Write(line)
  PROVE  /\ file' \in Seq(Lines) /\ tail' = "newline" /\ finished' = file'
         /\ finished \in Seq(Lines)
         /\ tail = "newline" => finished = file /\ finished' = Append(finished, line)
         /\ tail # "newline" => finished' = Append(finished, Malformed)
<1>1. line \in Lines /\ Malformed \in Lines
  BY DEF Lines
<1>2. finished \in Seq(Lines)
  BY FrontOfLines DEF Typed, finished
<1>3. tail' = "newline" /\ finished' = file'
  BY DEF Write, finished
<1>4. CASE tail = "newline"
  <2>1. file' = Append(file, line) /\ finished = file
    BY <1>4 DEF Write, finished
  <2> QED
    BY <1>1, <1>2, <1>3, <1>4, <2>1, AppendProperties DEF Typed
<1>5. CASE tail = "fragment"
  <2>1. file' = Append(file, Malformed) /\ finished = file
    BY <1>5 DEF Write, finished
  <2> QED
    BY <1>1, <1>2, <1>3, <1>5, <2>1, AppendProperties DEF Typed
<1>6. CASE tail = "unterminated"
  <2>1. file' = ReplaceAt(file, Len(file), Malformed) /\ finished = Front(file)
    BY <1>6 DEF Write, finished
  <2> QED
    BY <1>2, <1>3, <1>6, <2>1, BrokenLast DEF Typed
<1> QED
  BY <1>4, <1>5, <1>6 DEF Typed

(* A write cut short touches no finished line.                              *)
LEMMA CutStep ==
  ASSUME Typed, NEW line \in Line, CutShort(line)
  PROVE  /\ file' \in Seq(Lines) /\ tail' \in {"fragment", "unterminated"}
         /\ tail' = "unterminated" => file' # <<>>
         /\ finished' = finished
         /\ failures' = failures + 1
<1>1. line \in Lines
  BY DEF Lines
<1>2. CASE tail # "unterminated" /\ tail' = "fragment" /\ UNCHANGED file
  BY <1>2 DEF Typed, finished, CutShort
<1>3. CASE tail = "unterminated" /\ tail' = "fragment" /\ file' = Front(file)
  BY <1>3, FrontOfLines DEF Typed, finished, CutShort
<1>4. CASE tail = "newline" /\ tail' = "unterminated" /\ file' = Append(file, line)
  <2>1. file' \in Seq(Lines) /\ file' # <<>> /\ Front(file') = file
    BY <1>1, <1>4, AppendProperties, FrontAppended DEF Typed
  <2> QED
    BY <1>4, <2>1 DEF finished, CutShort
<1> QED
  BY <1>2, <1>3, <1>4 DEF CutShort

LEMMA WrittenLines ==
  ASSUME NEW r \in Runs
  PROVE  /\ \A v \in Versions : [kind |-> "version", run |-> r, body |-> v] \in VersionLine
         /\ \A s \in Numbers, e \in Events :
              [kind |-> "event", run |-> r, sequence |-> s, body |-> e] \in EventLine
BY DEF VersionLine, EventLine

(* What the poller reads stays within the numbers.                          *)
LEMMA MarkType ==
  ASSUME LedgerAssumption, NEW r \in Runs
  PROVE  /\ highWaterMark(r) \in Nat
         /\ since(r, cursor[r]) \subseteq Numbers
         /\ all(r) # {} => highWaterMark(r) \in all(r) /\ \A t \in all(r) : t <= highWaterMark(r)
         /\ all(r) = {} => highWaterMark(r) = 0
<1>1. all(r) \subseteq 1..MaxSequence /\ MaxSequence \in Nat
  BY DEF all, Numbers, LedgerAssumption
<1>2. all(r) # {} => \E s \in all(r) : \A t \in all(r) : t <= s
  BY <1>1, LastPosition
<1>3. since(r, cursor[r]) \subseteq Numbers
  BY DEF since, all
<1>4. all(r) # {} => highWaterMark(r) \in all(r) /\ \A t \in all(r) : t <= highWaterMark(r)
  BY <1>2 DEF highWaterMark
<1> QED
  BY <1>1, <1>3, <1>4 DEF highWaterMark

LEMMA TypedInit == Init => Typed
BY EmptySeq DEF Init, Typed

LEMMA TypedStep ==
  ASSUME LedgerAssumption, Typed, [Next]_vars
  PROVE  Typed'
<1>1. ASSUME NEW r \in Runs, NEW v \in Versions, Put(r, v) PROVE Typed'
  <2>1. PICK line \in Line : Write(line)
    BY <1>1, WrittenLines DEF Put, Line
  <2>2. file' \in Seq(Lines) /\ tail' = "newline"
    BY <2>1, WriteStep
  <2> QED
    BY <1>1, <2>2 DEF Put, Typed
<1>2. ASSUME NEW r \in Runs, NEW v \in Versions, PutFails(r, v) PROVE Typed'
  <2>1. PICK line \in Line : CutShort(line)
    BY <1>2, WrittenLines DEF PutFails, Line
  <2>2. /\ file' \in Seq(Lines) /\ tail' \in {"fragment", "unterminated"}
        /\ tail' = "unterminated" => file' # <<>>
        /\ failures' = failures + 1
    BY <2>1, CutStep
  <2> QED
    BY <1>2, <2>2 DEF PutFails, Typed
<1>3. ASSUME NEW r \in Runs, NEW s \in Numbers, NEW e \in Events, Store(r, s, e) PROVE Typed'
  <2>1. PICK line \in Line : Write(line)
    BY <1>3, WrittenLines DEF Store, Line
  <2>2. file' \in Seq(Lines) /\ tail' = "newline"
    BY <2>1, WriteStep
  <2>3. next' \in [Runs -> Nat]
    BY <1>3 DEF Store, Typed, Numbers
  <2> QED
    BY <1>3, <2>2, <2>3 DEF Store, Typed
<1>4. ASSUME NEW r \in Runs, NEW s \in Numbers, NEW e \in Events, StoreFails(r, s, e) PROVE Typed'
  <2>1. PICK line \in Line : CutShort(line)
    BY <1>4, WrittenLines DEF StoreFails, Line
  <2>2. /\ file' \in Seq(Lines) /\ tail' \in {"fragment", "unterminated"}
        /\ tail' = "unterminated" => file' # <<>>
        /\ failures' = failures + 1
    BY <2>1, CutStep
  <2>3. next' \in [Runs -> Nat]
    BY <1>4 DEF StoreFails, Typed, Numbers
  <2> QED
    BY <1>4, <2>2, <2>3 DEF StoreFails, Typed
<1>5. ASSUME NEW r \in Runs, WriterRestarts(r) PROVE Typed'
  BY <1>5 DEF WriterRestarts, Typed
<1>6. ASSUME NEW r \in Runs, Poll(r) PROVE Typed'
  BY <1>6, MarkType DEF Poll, Typed
<1>7. CASE UNCHANGED vars
  BY <1>7 DEF vars, Typed
<1> QED
  BY <1>1, <1>2, <1>3, <1>4, <1>5, <1>6, <1>7 DEF Next

(* Every variable of the ledger keeps its type: in particular the file stays *)
(* a sequence of lines however its writes are cut, and an unterminated last  *)
(* line is there to be continued (FileRunStore.append).                      *)
THEOREM LedgerTypes == LedgerAssumption => (Spec => []Typed)
<1> SUFFICES ASSUME LedgerAssumption PROVE Spec => []Typed
  OBVIOUS
<1>1. Typed /\ [Next]_vars => Typed'
  BY TypedStep
<1> QED
  BY <1>1, TypedInit, PTL DEF Spec

----------------------------------------------------------------------------
(* What a step shows the readers of the finished lines.                     *)

(* The line a step appends to the finished lines, if any.                   *)
Settles(line) ==
  /\ file' \in Seq(Lines) /\ finished \in Seq(Lines)
  /\ tail = "newline" => finished' = Append(finished, line)
  /\ tail # "newline" => finished' = Append(finished, Malformed)

LEMMA FinishedStep ==
  ASSUME LedgerAssumption, Typed, [Next]_vars
  PROVE  \/ /\ finished' = finished
            /\ put' = put
         \/ \E r \in Runs, v \in Versions :
              /\ Settles([kind |-> "version", run |-> r, body |-> v])
              /\ put' = [put EXCEPT ![r] = v]
         \/ \E r \in Runs, s \in Numbers, e \in Events :
              /\ Settles([kind |-> "event", run |-> r, sequence |-> s, body |-> e])
              /\ put' = put
<1>1. ASSUME NEW r \in Runs, NEW v \in Versions, Put(r, v)
      PROVE  /\ Settles([kind |-> "version", run |-> r, body |-> v])
             /\ put' = [put EXCEPT ![r] = v]
  <2>1. [kind |-> "version", run |-> r, body |-> v] \in Line
    BY WrittenLines DEF Line
  <2> QED
    BY <1>1, <2>1, WriteStep DEF Put, Settles
<1>2. ASSUME NEW r \in Runs, NEW v \in Versions, PutFails(r, v)
      PROVE  finished' = finished /\ put' = put
  <2>1. [kind |-> "version", run |-> r, body |-> v] \in Line
    BY WrittenLines DEF Line
  <2> QED
    BY <1>2, <2>1, CutStep DEF PutFails
<1>3. ASSUME NEW r \in Runs, NEW s \in Numbers, NEW e \in Events, Store(r, s, e)
      PROVE  /\ Settles([kind |-> "event", run |-> r, sequence |-> s, body |-> e])
             /\ put' = put
  <2>1. [kind |-> "event", run |-> r, sequence |-> s, body |-> e] \in Line
    BY WrittenLines DEF Line
  <2> QED
    BY <1>3, <2>1, WriteStep DEF Store, Settles
<1>4. ASSUME NEW r \in Runs, NEW s \in Numbers, NEW e \in Events, StoreFails(r, s, e)
      PROVE  finished' = finished /\ put' = put
  <2>1. [kind |-> "event", run |-> r, sequence |-> s, body |-> e] \in Line
    BY WrittenLines DEF Line
  <2> QED
    BY <1>4, <2>1, CutStep DEF StoreFails
<1>5. ASSUME NEW r \in Runs, WriterRestarts(r) \/ Poll(r)
      PROVE  finished' = finished /\ put' = put
  BY <1>5 DEF WriterRestarts, Poll, finished
<1>6. CASE UNCHANGED vars
  BY <1>6 DEF vars, finished
<1> QED
  BY <1>1, <1>2, <1>3, <1>4, <1>5, <1>6 DEF Next

latestView == [r \in Runs |-> versionIn(finished, r)]
storedView == [r \in Runs |-> [s \in Numbers |-> eventIn(finished, r, s)]]

LEMMA BrokenLineSaysNothing ==
  ASSUME LedgerAssumption, NEW s \in Seq(Lines)
  PROVE  /\ \A r \in Runs : versionIn(Append(s, Malformed), r) = versionIn(s, r)
         /\ \A r \in Runs, n \in Numbers : eventIn(Append(s, Malformed), r, n) = eventIn(s, r, n)
<1>1. Malformed \in Lines /\ Malformed.kind # "version" /\ Malformed.kind # "event"
  BY DEF Lines, Malformed
<1> QED
  BY <1>1, VersionIsLast, EventIsFirst

(* A version line replaces its run's latest version and shows no event.     *)
LEMMA VersionLineShows ==
  ASSUME LedgerAssumption, NEW s \in Seq(Lines), NEW r \in Runs, NEW v \in Versions
  PROVE  LET t == Append(s, [kind |-> "version", run |-> r, body |-> v])
         IN  /\ \A q \in Runs : versionIn(t, q) = IF q = r THEN v ELSE versionIn(s, q)
             /\ \A q \in Runs, n \in Numbers : eventIn(t, q, n) = eventIn(s, q, n)
<1> DEFINE l == [kind |-> "version", run |-> r, body |-> v]
<1>1. l \in Lines /\ l.kind = "version" /\ l.run = r /\ l.body = v
  BY WrittenLines DEF Lines, Line
<1> HIDE DEF l
<1>2. \A q \in Runs : versionIn(Append(s, l), q) = IF q = r THEN v ELSE versionIn(s, q)
  BY <1>1, VersionIsLast
<1>3. \A q \in Runs, n \in Numbers : eventIn(Append(s, l), q, n) = eventIn(s, q, n)
  BY <1>1, EventIsFirst
<1> QED
  BY <1>2, <1>3 DEF l

(* An event line shows its event where none stood, and nothing else.        *)
LEMMA EventLineShows ==
  ASSUME LedgerAssumption, NEW s \in Seq(Lines),
         NEW r \in Runs, NEW n \in Numbers, NEW e \in Events
  PROVE  LET t == Append(s, [kind |-> "event", run |-> r, sequence |-> n, body |-> e])
         IN  /\ \A q \in Runs : versionIn(t, q) = versionIn(s, q)
             /\ \A q \in Runs, m \in Numbers :
                  eventIn(t, q, m) = IF q = r /\ m = n /\ eventIn(s, r, n) = "none"
                                     THEN e ELSE eventIn(s, q, m)
<1> DEFINE l == [kind |-> "event", run |-> r, sequence |-> n, body |-> e]
<1>1. l \in Lines /\ l.kind = "event" /\ l.run = r /\ l.sequence = n /\ l.body = e
  BY WrittenLines DEF Lines, Line
<1> HIDE DEF l
<1>2. \A q \in Runs : versionIn(Append(s, l), q) = versionIn(s, q)
  BY <1>1, VersionIsLast
<1>3. \A q \in Runs, m \in Numbers :
        eventIn(Append(s, l), q, m) = IF q = r /\ m = n /\ eventIn(s, r, n) = "none"
                                      THEN e ELSE eventIn(s, q, m)
  BY <1>1, EventIsFirst
<1> QED
  BY <1>2, <1>3 DEF l

(* The ledger implements LedgerView: whatever its writers are cut at, the    *)
(* finished lines show each reader a latest version that only the next one   *)
(* replaces and events that, once shown, are never replaced and never        *)
(* disappear (RunLedger.put and get, RunEventLedger.append and all).         *)
THEOREM LedgerImplementsView == LedgerAssumption => (Spec => ImplementsView)
<1> SUFFICES ASSUME LedgerAssumption PROVE Spec => View!ViewSpec
  BY DEF ImplementsView
<1>1. Init => View!ViewInit
  <2> SUFFICES ASSUME Init PROVE View!ViewInit
    OBVIOUS
  <2>1. finished = <<>>
    BY DEF Init, finished
  <2>2. \A r \in Runs : versionIn(<<>>, r) = "none"
    BY DEF versionIn, VersionsOf
  <2>3. \A r \in Runs, s \in Numbers : eventIn(<<>>, r, s) = "none"
    BY DEF eventIn, EventsOf
  <2> QED
    BY <2>1, <2>2, <2>3 DEF View!ViewInit
<1>2. ASSUME Typed, [Next]_vars
      PROVE  [View!ViewNext]_<<latestView, storedView>>
  <2>1. ASSUME finished' = finished
        PROVE  UNCHANGED <<latestView, storedView>>
    BY <2>1 DEF latestView, storedView
  <2>2. ASSUME finished \in Seq(Lines), finished' = Append(finished, Malformed)
        PROVE  UNCHANGED <<latestView, storedView>>
    BY <2>2, BrokenLineSaysNothing DEF latestView, storedView
  <2>3. ASSUME NEW r \in Runs, NEW v \in Versions, finished \in Seq(Lines),
               finished' = Append(finished, [kind |-> "version", run |-> r, body |-> v])
        PROVE  View!Replace(r, v)
    <3>1. \A q \in Runs : versionIn(finished', q) = IF q = r THEN v ELSE versionIn(finished, q)
      BY <2>3, VersionLineShows
    <3>2. \A q \in Runs, n \in Numbers : eventIn(finished', q, n) = eventIn(finished, q, n)
      BY <2>3, VersionLineShows
    <3> QED
      BY <3>1, <3>2 DEF View!Replace
  <2>4. ASSUME NEW r \in Runs, NEW n \in Numbers, NEW e \in Events, finished \in Seq(Lines),
               finished' = Append(finished, [kind |-> "event", run |-> r, sequence |-> n, body |-> e])
        PROVE  View!Reveal(r, n, e) \/ UNCHANGED <<latestView, storedView>>
    <3>1. \A q \in Runs : versionIn(finished', q) = versionIn(finished, q)
      BY <2>4, EventLineShows
    <3>2. \A q \in Runs, m \in Numbers :
            eventIn(finished', q, m) = IF q = r /\ m = n /\ eventIn(finished, r, n) = "none"
                                       THEN e ELSE eventIn(finished, q, m)
      BY <2>4, EventLineShows
    <3>3. CASE eventIn(finished, r, n) = "none"
      BY <3>1, <3>2, <3>3 DEF View!Reveal
    <3>4. CASE eventIn(finished, r, n) # "none"
      BY <3>1, <3>2, <3>4 DEF latestView, storedView
    <3> QED
      BY <3>3, <3>4
  <2>5. \A r \in Runs, v \in Versions : View!Replace(r, v) => View!ViewNext
    BY DEF View!ViewNext
  <2>6. \A r \in Runs, n \in Numbers, e \in Events : View!Reveal(r, n, e) => View!ViewNext
    BY DEF View!ViewNext
  <2> QED
    BY <1>2, <2>1, <2>2, <2>3, <2>4, <2>5, <2>6, FinishedStep DEF Settles
<1> QED
  BY <1>1, <1>2, LedgerTypes, PTL DEF Spec, View!ViewSpec, latestView, storedView

----------------------------------------------------------------------------
(* A cut costs one line.  The fragment a cut leaves is broken by the append  *)
(* after it, so a cut is paid for once: by the broken line, or still by the  *)
(* tail.                                                                     *)

Paid ==
  /\ tail = "newline" => Cardinality(Broken) <= failures
  /\ tail # "newline" => Cardinality(Broken) + 1 <= failures

Current ==
  (\A i \in DOMAIN finished : finished[i] # Malformed)
    => \A r \in Runs : versionIn(finished, r) = put[r]

LEMMA BrokenIsFinite ==
  ASSUME NEW lines \in Seq(Lines)
  PROVE  LET b == {i \in DOMAIN lines : lines[i] = Malformed}
         IN  IsFiniteSet(b) /\ Cardinality(b) \in Nat /\ b \subseteq 1..Len(lines)
<1> DEFINE b == {i \in DOMAIN lines : lines[i] = Malformed}
<1>1. DOMAIN lines = 1..Len(lines) /\ Len(lines) \in Nat
  BY LenProperties
<1>2. IsFiniteSet(1..Len(lines)) /\ b \subseteq 1..Len(lines)
  BY <1>1, FS_Interval
<1>3. IsFiniteSet(b)
  BY <1>2, FS_Subset
<1> QED
  BY <1>2, <1>3, FS_CardinalityType

LEMMA OneMore ==
  ASSUME NEW S, IsFiniteSet(S), NEW x, NEW T, T \subseteq S \cup {x}
  PROVE  Cardinality(T) <= Cardinality(S) + 1
<1>1. IsFiniteSet(S \cup {x}) /\ Cardinality(S) \in Nat
  BY FS_AddElement, FS_CardinalityType
<1>2. Cardinality(S \cup {x}) = Cardinality(S) \/ Cardinality(S \cup {x}) = Cardinality(S) + 1
  BY FS_AddElement
<1>3. Cardinality(T) <= Cardinality(S \cup {x}) /\ IsFiniteSet(T)
  BY <1>1, FS_Subset
<1>4. Cardinality(T) \in Nat
  BY <1>3, FS_CardinalityType
<1> QED
  BY <1>1, <1>2, <1>3, <1>4

(* An append breaks no line but the one it continues.                       *)
LEMMA WriteBreaks ==
  ASSUME Typed, NEW line \in Line, Write(line)
  PROVE  /\ tail = "newline" => Broken' = Broken
         /\ tail # "newline" => Cardinality(Broken') <= Cardinality(Broken) + 1
<1>0. file \in Seq(Lines) /\ file' \in Seq(Lines) /\ Malformed \in Lines /\ line \in Lines
  BY WriteStep DEF Typed, Lines
<1>1. Broken \subseteq 1..Len(file) /\ IsFiniteSet(Broken) /\ Cardinality(Broken) \in Nat
  BY <1>0, BrokenIsFinite DEF Broken
<1>2. line # Malformed
  BY LineParts DEF Line
<1>3. CASE tail = "newline"
  <2>1. file' = Append(file, line)
    BY <1>3 DEF Write
  <2>2. /\ DOMAIN file' = 1..(Len(file) + 1) /\ DOMAIN file = 1..Len(file) /\ Len(file) \in Nat
        /\ \A i \in DOMAIN file : file'[i] = file[i]
        /\ file'[Len(file) + 1] = line
    BY <1>0, <2>1, Appended
  <2>3. DOMAIN file' = DOMAIN file \cup {Len(file) + 1}
    BY <2>2
  <2>4. Broken' = Broken
    BY <1>2, <2>2, <2>3 DEF Broken
  <2> QED
    BY <1>3, <2>4
<1>4. CASE tail = "fragment"
  <2>1. file' = Append(file, Malformed)
    BY <1>4 DEF Write
  <2>2. /\ DOMAIN file' = 1..(Len(file) + 1) /\ DOMAIN file = 1..Len(file) /\ Len(file) \in Nat
        /\ \A i \in DOMAIN file : file'[i] = file[i]
    BY <1>0, <2>1, Appended
  <2>3. DOMAIN file' = DOMAIN file \cup {Len(file) + 1}
    BY <2>2
  <2>4. Broken' \subseteq Broken \cup {Len(file) + 1}
    BY <2>2, <2>3 DEF Broken
  <2> QED
    BY <1>1, <1>4, <2>4, OneMore
<1>5. CASE tail = "unterminated"
  <2>1. file' = ReplaceAt(file, Len(file), Malformed)
    BY <1>5 DEF Write
  <2>2. /\ Len(file') = Len(file)
        /\ \A i \in 1..Len(file) : file'[i] = IF i = Len(file) THEN Malformed ELSE file[i]
    BY <1>0, <1>5, <2>1, BrokenLast DEF Typed
  <2>3. DOMAIN file' = 1..Len(file) /\ DOMAIN file = 1..Len(file)
    BY <1>0, <2>2, LenProperties
  <2>4. Broken' \subseteq Broken \cup {Len(file)}
    BY <2>2, <2>3 DEF Broken
  <2> QED
    BY <1>1, <1>5, <2>4, OneMore
<1> QED
  BY <1>3, <1>4, <1>5 DEF Typed

(* A write cut short breaks no line by itself.                              *)
LEMMA CutBreaks ==
  ASSUME Typed, NEW line \in Line, CutShort(line)
  PROVE  /\ Cardinality(Broken') <= Cardinality(Broken)
         /\ tail = "newline" \/ tail' # "newline"
<1>0. file \in Seq(Lines) /\ file' \in Seq(Lines) /\ line \in Lines /\ tail' # "newline"
  BY CutStep DEF Typed, Lines
<1>1. Broken \subseteq 1..Len(file) /\ IsFiniteSet(Broken) /\ Cardinality(Broken) \in Nat
  BY <1>0, BrokenIsFinite DEF Broken
<1>2. line # Malformed
  BY LineParts DEF Line
<1>3. ASSUME UNCHANGED file PROVE Broken' \subseteq Broken
  BY <1>3 DEF Broken
<1>4. ASSUME tail = "unterminated", file' = Front(file) PROVE Broken' \subseteq Broken
  <2>1. /\ Len(file) \in Nat \ {0} /\ Len(file') = Len(file) - 1
        /\ \A i \in 1..(Len(file) - 1) : file'[i] = file[i]
    BY <1>0, <1>4, FrontOfLines DEF Typed
  <2>2. DOMAIN file' = 1..(Len(file) - 1) /\ DOMAIN file = 1..Len(file)
    BY <1>0, <2>1, LenProperties
  <2>3. DOMAIN file' \subseteq DOMAIN file
    BY <2>1, <2>2
  <2> QED
    BY <2>1, <2>2, <2>3 DEF Broken
<1>5. ASSUME file' = Append(file, line) PROVE Broken' \subseteq Broken
  <2>1. /\ DOMAIN file' = 1..(Len(file) + 1) /\ DOMAIN file = 1..Len(file) /\ Len(file) \in Nat
        /\ \A i \in DOMAIN file : file'[i] = file[i]
        /\ file'[Len(file) + 1] = line
    BY <1>0, <1>5, Appended
  <2>2. DOMAIN file' = DOMAIN file \cup {Len(file) + 1}
    BY <2>1
  <2> QED
    BY <1>2, <2>1, <2>2 DEF Broken
<1>6. Broken' \subseteq Broken
  BY <1>3, <1>4, <1>5 DEF CutShort
<1>7. Cardinality(Broken') <= Cardinality(Broken)
  BY <1>1, <1>6, FS_Subset
<1> QED
  BY <1>0, <1>7

LEMMA PaidStep ==
  ASSUME LedgerAssumption, Typed, Paid, [Next]_vars
  PROVE  Paid'
<1>0. Cardinality(Broken) \in Nat /\ failures \in Nat
  BY BrokenIsFinite DEF Typed, Broken
<1>1. ASSUME NEW line \in Line, Write(line), failures' = failures PROVE Paid'
  <2>1. tail' = "newline" /\ file' \in Seq(Lines)
    BY <1>1, WriteStep
  <2>2. CASE tail = "newline"
    BY <1>1, <2>1, <2>2, WriteBreaks DEF Paid
  <2>3. CASE tail # "newline"
    <3>1. Cardinality(Broken') <= Cardinality(Broken) + 1
      BY <1>1, <2>3, WriteBreaks
    <3>2. Cardinality(Broken') \in Nat
      BY <2>1, BrokenIsFinite DEF Broken
    <3>3. Cardinality(Broken) + 1 <= failures
      BY <2>3 DEF Paid
    <3>4. Cardinality(Broken') <= failures'
      BY <1>0, <1>1, <3>1, <3>2, <3>3
    <3> QED
      BY <2>1, <3>4 DEF Paid
  <2> QED
    BY <2>2, <2>3
<1>2. ASSUME NEW line \in Line, CutShort(line) PROVE Paid'
  <2>1. file' \in Seq(Lines) /\ tail' # "newline" /\ failures' = failures + 1
    BY <1>2, CutStep
  <2>2. Cardinality(Broken') <= Cardinality(Broken)
    BY <1>2, CutBreaks
  <2>3. Cardinality(Broken') \in Nat
    BY <2>1, BrokenIsFinite DEF Broken
  <2>4. Cardinality(Broken) <= failures
    BY <1>0 DEF Paid
  <2>5. Cardinality(Broken') + 1 <= failures'
    BY <1>0, <2>1, <2>2, <2>3, <2>4
  <2> QED
    BY <2>1, <2>5 DEF Paid
<1>3. ASSUME UNCHANGED <<file, tail, failures>> PROVE Paid'
  BY <1>3 DEF Paid, Broken
<1>4. ASSUME NEW r \in Runs, NEW v \in Versions, Put(r, v) \/ PutFails(r, v) PROVE Paid'
  <2>1. [kind |-> "version", run |-> r, body |-> v] \in Line
    BY WrittenLines DEF Line
  <2> QED
    BY <1>1, <1>2, <1>4, <2>1 DEF Put, PutFails
<1>5. ASSUME NEW r \in Runs, NEW s \in Numbers, NEW e \in Events,
             Store(r, s, e) \/ StoreFails(r, s, e)
      PROVE  Paid'
  <2>1. [kind |-> "event", run |-> r, sequence |-> s, body |-> e] \in Line
    BY WrittenLines DEF Line
  <2> QED
    BY <1>1, <1>2, <1>5, <2>1 DEF Store, StoreFails
<1>6. ASSUME NEW r \in Runs, WriterRestarts(r) \/ Poll(r) PROVE Paid'
  BY <1>3, <1>6 DEF WriterRestarts, Poll
<1>7. CASE UNCHANGED vars
  BY <1>3, <1>7 DEF vars
<1> QED
  BY <1>4, <1>5, <1>6, <1>7 DEF Next

LEMMA CurrentStep ==
  ASSUME LedgerAssumption, Typed, Current, [Next]_vars
  PROVE  Current'
<1>1. ASSUME finished \in Seq(Lines), finished' = Append(finished, Malformed) PROVE Current'
  <2>1. finished'[Len(finished) + 1] = Malformed /\ Len(finished) + 1 \in DOMAIN finished'
    <3>1. Malformed \in Lines
      BY DEF Lines
    <3> QED
      BY <1>1, <3>1, Appended
  <2> QED
    BY <2>1 DEF Current
<1>2. ASSUME finished' = finished, put' = put PROVE Current'
  BY <1>2 DEF Current
<1>3. ASSUME NEW r \in Runs, NEW v \in Versions, finished \in Seq(Lines),
             finished' = Append(finished, [kind |-> "version", run |-> r, body |-> v]),
             put' = [put EXCEPT ![r] = v]
      PROVE  Current'
  <2>1. \A q \in Runs : versionIn(finished', q) = IF q = r THEN v ELSE versionIn(finished, q)
    BY <1>3, VersionLineShows
  <2>2. \A i \in DOMAIN finished : i \in DOMAIN finished' /\ finished'[i] = finished[i]
    <3>1. [kind |-> "version", run |-> r, body |-> v] \in Lines
      BY WrittenLines DEF Lines, Line
    <3>2. \A i \in 1..Len(finished) : i \in 1..(Len(finished) + 1)
      BY <1>3, Appended, <3>1
    <3> QED
      BY <1>3, <3>1, <3>2, Appended
  <2>3. \A q \in Runs : put'[q] = IF q = r THEN v ELSE put[q]
    BY <1>3 DEF Typed
  <2> QED
    BY <2>1, <2>2, <2>3 DEF Current
<1>4. ASSUME NEW r \in Runs, NEW n \in Numbers, NEW e \in Events, finished \in Seq(Lines),
             finished' = Append(finished, [kind |-> "event", run |-> r, sequence |-> n, body |-> e]),
             put' = put
      PROVE  Current'
  <2>1. \A q \in Runs : versionIn(finished', q) = versionIn(finished, q)
    BY <1>4, EventLineShows
  <2>2. \A i \in DOMAIN finished : i \in DOMAIN finished' /\ finished'[i] = finished[i]
    <3>1. [kind |-> "event", run |-> r, sequence |-> n, body |-> e] \in Lines
      BY WrittenLines DEF Lines, Line
    <3>2. \A i \in 1..Len(finished) : i \in 1..(Len(finished) + 1)
      BY <1>4, Appended, <3>1
    <3> QED
      BY <1>4, <3>1, <3>2, Appended
  <2> QED
    BY <1>4, <2>1, <2>2 DEF Current
<1> QED
  BY <1>1, <1>2, <1>3, <1>4, FinishedStep DEF Settles

(* A cut write costs at most itself and the append after it: there are never *)
(* more broken lines than cuts, and while the file has none, what a reader   *)
(* calls the current state is what put returned (FileRunStore.append,        *)
(* RunLedger.put and get).                                                   *)
THEOREM CutsCostOneLine == LedgerAssumption => (Spec => []CutCostsOneLine)
<1> SUFFICES ASSUME LedgerAssumption PROVE Spec => []CutCostsOneLine
  OBVIOUS
<1>1. Init => Paid /\ Current
  <2> SUFFICES ASSUME Init PROVE Paid /\ Current
    OBVIOUS
  <2>1. Broken = {} /\ finished = <<>> /\ failures = 0 /\ tail = "newline"
    BY DEF Init, Broken, finished
  <2>2. \A r \in Runs : versionIn(<<>>, r) = "none"
    BY DEF versionIn, VersionsOf
  <2> QED
    BY <2>1, <2>2, FS_EmptySet DEF Paid, Current, Init
<1>2. Typed /\ Paid /\ Current /\ [Next]_vars => (Paid /\ Current)'
  BY PaidStep, CurrentStep
<1>3. Typed /\ Paid /\ Current => CutCostsOneLine
  <2> SUFFICES ASSUME Typed, Paid, Current PROVE CutCostsOneLine
    OBVIOUS
  <2>1. Cardinality(Broken) <= failures
    <3>1. Cardinality(Broken) \in Nat /\ failures \in Nat
      BY BrokenIsFinite DEF Typed, Broken
    <3> QED
      BY <3>1 DEF Paid
  <2>2. ASSUME tail # "unterminated", Broken = {}, NEW r \in Runs PROVE get(r) = put[r]
    <3>1. finished = file
      BY <2>2 DEF finished
    <3> QED
      BY <2>2, <3>1 DEF Current, Broken, get
  <2> QED
    BY <2>1, <2>2 DEF CutCostsOneLine
<1> QED
  BY <1>1, <1>2, <1>3, LedgerTypes, PTL DEF Spec

----------------------------------------------------------------------------
(* Nothing is skipped.  A dense writer leaves no gap under what is stored,   *)
(* so a mark is at most the number of stored events, and what lies at or     *)
(* below it was given when it was passed.                                    *)

Dense(r, k) ==
  /\ all(r) = 1..k
  /\ next[r] <= k + 1
  /\ cursor[r] <= k
  /\ \A s \in 1..k : s <= cursor[r] => s \in seen[r]

Gapless ==
  failures = 0 => tail = "newline" /\ \A r \in Runs : \E k \in Nat : Dense(r, k)

(* A poll passes what is stored and is given all of it.                     *)
LEMMA PollIsGapless ==
  ASSUME LedgerAssumption, Typed, NEW r \in Runs, NEW k \in Nat, Dense(r, k), Poll(r)
  PROVE  Dense(r, k)'
<1>1. all(r)' = all(r) /\ next' = next
  BY DEF Poll, all, eventAt
<1>2. cursor'[r] = highWaterMark(r) /\ seen'[r] = seen[r] \cup since(r, cursor[r])
  BY DEF Poll, Typed
<1>3. all(r) = 1..k /\ cursor[r] \in Nat
  BY DEF Dense, Typed
<1>4. since(r, cursor[r]) = {s \in 1..k : s > cursor[r]}
  BY <1>3 DEF since
<1>5. highWaterMark(r) <= k
  BY <1>3, MarkType
<1>6. \A s \in 1..k : s \in seen'[r]
  <2> TAKE s \in 1..k
  <2>1. s <= cursor[r] \/ s > cursor[r]
    BY <1>3
  <2> QED
    BY <1>2, <1>4, <2>1 DEF Dense
<1> QED
  BY <1>1, <1>2, <1>3, <1>5, <1>6 DEF Dense

(* A dense writer fills the next gap or repeats what is stored.             *)
LEMMA StoreIsGapless ==
  ASSUME LedgerAssumption, Typed, tail = "newline",
         NEW r \in Runs, NEW k \in Nat, Dense(r, k),
         NEW n \in Numbers, NEW e \in Events, Store(r, n, e)
  PROVE  \E m \in Nat : Dense(r, m)'
<1>0. n \in Nat /\ n >= 1 /\ n <= k + 1 /\ n <= MaxSequence
  BY DEF Numbers, LedgerAssumption, Dense, Store
<1>1. /\ \A m \in Numbers :
           eventIn(file', r, m) = IF m = n /\ eventIn(file, r, n) = "none"
                                  THEN e ELSE eventIn(file, r, m)
      /\ e # "none"
  <2>1. file \in Seq(Lines)
        /\ file' = Append(file, [kind |-> "event", run |-> r, sequence |-> n, body |-> e])
    BY DEF Typed, Store, Write
  <2> QED
    BY <2>1, EventLineShows DEF LedgerAssumption
<1>2. next'[r] = n + 1 /\ cursor' = cursor /\ seen' = seen
  BY DEF Store, Typed
<1>3. all(r) = 1..k
  BY DEF Dense
<1>4. CASE n <= k
  <2>1. eventIn(file, r, n) # "none"
    BY <1>0, <1>3, <1>4 DEF all, eventAt
  <2>2. all(r)' = all(r)
    BY <1>1, <2>1 DEF all, eventAt
  <2>3. Dense(r, k)'
    BY <1>0, <1>2, <1>4, <2>2 DEF Dense
  <2> QED
    BY <2>3
<1>5. CASE n = k + 1
  <2>1. n \notin all(r)
    BY <1>0, <1>3, <1>5
  <2>2. eventIn(file, r, n) = "none"
    BY <2>1 DEF all, eventAt
  <2>3. all(r)' = all(r) \cup {n}
    BY <1>1, <2>2 DEF all, eventAt
  <2>4. all(r)' = 1..n
    BY <1>0, <1>3, <1>5, <2>3
  <2>5. cursor[r] \in Nat /\ cursor[r] <= k
    BY DEF Dense, Typed
  <2>6. cursor'[r] <= n /\ next'[r] <= n + 1
    BY <1>0, <1>2, <1>5, <2>5
  <2>7. ASSUME NEW s \in 1..n, s <= cursor'[r] PROVE s \in seen'[r]
    <3>1. s \in 1..k /\ s <= cursor[r]
      BY <1>0, <1>2, <2>5, <2>7
    <3> QED
      BY <1>2, <3>1 DEF Dense
  <2>8. Dense(r, n)'
    BY <2>4, <2>6, <2>7 DEF Dense
  <2> QED
    BY <1>0, <2>8
<1> QED
  BY <1>0, <1>4, <1>5

(* What a step does not touch stays dense.                                  *)
LEMMA OthersStayDense ==
  ASSUME NEW r \in Runs, NEW k \in Nat, Dense(r, k),
         next'[r] <= next[r], next[r] \in Nat, next'[r] \in Nat,
         cursor'[r] = cursor[r], seen'[r] = seen[r],
         \A m \in Numbers : eventIn(file', r, m) = eventIn(file, r, m)
  PROVE  Dense(r, k)'
<1>1. all(r)' = all(r)
  BY DEF all, eventAt
<1> QED
  BY <1>1 DEF Dense

LEMMA GaplessStep ==
  ASSUME LedgerAssumption, Typed, Gapless, [Next]_vars
  PROVE  Gapless'
<1> SUFFICES ASSUME failures' = 0
             PROVE  tail' = "newline" /\ \A q \in Runs : \E k \in Nat : Dense(q, k)'
  BY DEF Gapless
<1>0. \A q \in Runs : next[q] \in Nat /\ cursor[q] \in Nat
  BY DEF Typed
<1>1. ASSUME NEW r \in Runs, NEW v \in Versions, Put(r, v)
      PROVE  tail' = "newline" /\ \A q \in Runs : \E k \in Nat : Dense(q, k)'
  <2>1. failures = 0 /\ tail = "newline" /\ tail' = "newline"
    BY <1>1 DEF Gapless, Put, Write
  <2>2. file \in Seq(Lines) /\ file' = Append(file, [kind |-> "version", run |-> r, body |-> v])
    BY <1>1, <2>1 DEF Typed, Put, Write
  <2>3. \A q \in Runs, m \in Numbers : eventIn(file', q, m) = eventIn(file, q, m)
    BY <2>2, VersionLineShows
  <2>4. next' = next /\ cursor' = cursor /\ seen' = seen
    BY <1>1 DEF Put
  <2>5. ASSUME NEW q \in Runs PROVE \E k \in Nat : Dense(q, k)'
    <3>1. PICK k \in Nat : Dense(q, k)
      BY <2>1 DEF Gapless
    <3>2. next'[q] <= next[q]
      BY <1>0, <2>4
    <3> QED
      BY <1>0, <2>3, <2>4, <3>1, <3>2, OthersStayDense
  <2> QED
    BY <2>1, <2>5
<1>2. ASSUME NEW r \in Runs, NEW n \in Numbers, NEW e \in Events, Store(r, n, e)
      PROVE  tail' = "newline" /\ \A q \in Runs : \E k \in Nat : Dense(q, k)'
  <2>1. failures = 0 /\ tail = "newline" /\ tail' = "newline"
    BY <1>2 DEF Gapless, Store, Write
  <2>2. file \in Seq(Lines)
        /\ file' = Append(file, [kind |-> "event", run |-> r, sequence |-> n, body |-> e])
    BY <1>2, <2>1 DEF Typed, Store, Write
  <2>3. \A q \in Runs \ {r}, m \in Numbers : eventIn(file', q, m) = eventIn(file, q, m)
    BY <2>2, EventLineShows
  <2>4. \A q \in Runs \ {r} : next'[q] = next[q] /\ cursor'[q] = cursor[q] /\ seen'[q] = seen[q]
    BY <1>2 DEF Store, Typed
  <2>5. ASSUME NEW q \in Runs \ {r} PROVE \E k \in Nat : Dense(q, k)'
    <3>1. PICK k \in Nat : Dense(q, k)
      BY <2>1 DEF Gapless
    <3>2. next'[q] <= next[q] /\ next'[q] \in Nat
      BY <1>0, <2>4
    <3> QED
      BY <1>0, <2>3, <2>4, <3>1, <3>2, OthersStayDense
  <2>6. \E k \in Nat : Dense(r, k)'
    BY <1>2, <2>1, StoreIsGapless DEF Gapless
  <2> QED
    BY <2>1, <2>5, <2>6
<1>3. ASSUME NEW r \in Runs, WriterRestarts(r)
      PROVE  tail' = "newline" /\ \A q \in Runs : \E k \in Nat : Dense(q, k)'
  <2>1. failures = 0 /\ tail = "newline" /\ tail' = "newline"
    BY <1>3 DEF Gapless, WriterRestarts
  <2>2. file' = file /\ cursor' = cursor /\ seen' = seen
    BY <1>3 DEF WriterRestarts
  <2>3. \A q \in Runs : next'[q] <= next[q] /\ next'[q] \in Nat
    BY <1>0, <1>3 DEF WriterRestarts, Typed
  <2> QED
    BY <1>0, <2>1, <2>2, <2>3, OthersStayDense DEF Gapless
<1>4. ASSUME NEW r \in Runs, Poll(r)
      PROVE  tail' = "newline" /\ \A q \in Runs : \E k \in Nat : Dense(q, k)'
  <2>1. failures = 0 /\ tail = "newline" /\ tail' = "newline"
    BY <1>4 DEF Gapless, Poll
  <2>2. file' = file /\ next' = next
    BY <1>4 DEF Poll
  <2>3. \A q \in Runs \ {r} : cursor'[q] = cursor[q] /\ seen'[q] = seen[q]
    BY <1>4 DEF Poll, Typed
  <2>4. ASSUME NEW q \in Runs \ {r} PROVE \E k \in Nat : Dense(q, k)'
    <3>1. next'[q] <= next[q]
      BY <1>0, <2>2
    <3> QED
      BY <1>0, <2>1, <2>2, <2>3, <3>1, OthersStayDense DEF Gapless
  <2>5. \E k \in Nat : Dense(r, k)'
    BY <1>4, <2>1, PollIsGapless DEF Gapless
  <2> QED
    BY <2>1, <2>4, <2>5
<1>5. ASSUME NEW line \in Line, CutShort(line) PROVE FALSE
  <2>1. failures \in Nat /\ failures' = failures + 1
    BY <1>5, CutStep DEF Typed
  <2> QED
    BY <2>1
<1>6. ASSUME NEW r \in Runs, NEW v \in Versions, PutFails(r, v) PROVE FALSE
  <2>1. [kind |-> "version", run |-> r, body |-> v] \in Line
    BY WrittenLines DEF Line
  <2> QED
    BY <1>5, <1>6, <2>1 DEF PutFails
<1>7. ASSUME NEW r \in Runs, NEW s \in Numbers, NEW e \in Events, StoreFails(r, s, e) PROVE FALSE
  <2>1. [kind |-> "event", run |-> r, sequence |-> s, body |-> e] \in Line
    BY WrittenLines DEF Line
  <2> QED
    BY <1>5, <1>7, <2>1 DEF StoreFails
<1>8. CASE UNCHANGED vars
  BY <1>8 DEF vars, Gapless, Dense, all, eventAt
<1> QED
  BY <1>1, <1>2, <1>3, <1>4, <1>6, <1>7, <1>8 DEF Next

(* Of a writer that numbers densely, and while no write is cut short, a      *)
(* poller that keeps the mark of each answer was given every stored event at *)
(* or below its mark, restarted writers and repeated numbers included        *)
(* (RunEventLedger.since and highWaterMark, GET /runs/:runId/events).        *)
THEOREM PollersSkipNothing == LedgerAssumption => (Spec => []NothingSkipped)
<1> SUFFICES ASSUME LedgerAssumption PROVE Spec => []NothingSkipped
  OBVIOUS
<1>1. Init => Gapless
  <2> SUFFICES ASSUME Init PROVE Gapless
    OBVIOUS
  <2>1. ASSUME NEW r \in Runs PROVE Dense(r, 0)
    <3>1. all(r) = {}
      BY DEF Init, all, eventAt, eventIn, EventsOf
    <3>2. next[r] = 1 /\ cursor[r] = 0 /\ 1..0 = {}
      BY DEF Init
    <3> QED
      BY <3>1, <3>2 DEF Dense
  <2> QED
    BY <2>1 DEF Gapless, Init
<1>2. Typed /\ Gapless /\ [Next]_vars => Gapless'
  BY GaplessStep
<1>3. Gapless => NothingSkipped
  BY DEF Gapless, Dense, NothingSkipped
<1> QED
  BY <1>1, <1>2, <1>3, LedgerTypes, PTL DEF Spec
=============================================================================
