----------------------------- MODULE ReadProofs -----------------------------
(***************************************************************************)
(* Proofs about GovernedRead, for any program, number of readers, retries, *)
(* faults and crashes: the controlled fault is bounded, the evidence is    *)
(* one whole reading, and an intervention is stored before its retry.      *)
(***************************************************************************)
EXTENDS GovernedRead, FiniteSetTheorems, SequenceTheorems, TLAPS

(* An event as the programs write it: a run_end says how the run ended.     *)
Sound == {e \in Event : e.kind = "run_end" => e.says \in {"succeeded", "failed"}}

----------------------------------------------------------------------------
(* A nonempty set of positions has a last one.                              *)
LEMMA LastPosition ==
  ASSUME NEW n \in Nat, NEW S, S \subseteq 1..n, S # {}
  PROVE  Max(S) \in S /\ \A j \in S : j <= Max(S)
<1> DEFINE Less == {p \in Nat \X Nat : p[1] < p[2]}
           Below == {n - i : i \in S}
<1>1. IsWellFoundedOn(Less, Nat)
  BY NatLessThanWellFounded DEF OpToRel
<1>2. \A i \in 1..n : i \in Nat /\ i <= n /\ n - i \in Nat
  OBVIOUS
<1>3. \A i \in S : i \in Nat /\ i <= n /\ n - i \in Nat
  BY <1>2
<1>4. Below \subseteq Nat /\ Below # {}
  BY <1>3
<1> HIDE DEF Less
<1>5. PICK x \in Below : \A y \in Below : ~(<<y, x>> \in Less)
  <2> HIDE DEF Below
  <2> QED
    BY <1>1, <1>4, WFMin
<1>6. PICK i \in S : x = n - i
  OBVIOUS
<1>7. ASSUME NEW j \in S PROVE i >= j
  <2>1. ~(<<n - j, n - i>> \in Less)
    BY <1>5, <1>6
  <2>2. n - j \in Nat /\ n - i \in Nat /\ j \in Nat /\ i \in Nat
    BY <1>3
  <2> QED
    BY <2>1, <2>2 DEF Less
<1>8. Max(S) \in S /\ \A j \in S : Max(S) >= j
  BY <1>7 DEF Max
<1> QED
  BY <1>3, <1>8

----------------------------------------------------------------------------
(* The events the programs write.                                           *)

LEMMA Written ==
  /\ \A kind \in {"run_start", "agent_start", "delegation", "tool_call", "tool_result",
                  "incident", "intervention", "agent_end", "other"},
        truth \in Truths,
        says \in {"", "ok", "failed", "refused", "succeeded", "retry_once",
                  "refuse_not_retryable", "refuse_budget_exhausted"} :
       Ev(kind, truth, says) \in Sound
  /\ \A truth \in Truths, says \in {"succeeded", "failed"} : Ev("run_end", truth, says) \in Sound
  /\ \A truth \in Truths, n \in Nat : CallEv(truth, n) \in Sound
  /\ Claimed \in Truths
BY DEF Ev, CallEv, Sound, Event, Truths, Claimed

(* Events in the middle of a reading, and the events that close one.        *)
Mid(e) ==
  /\ e \in Seq(Sound)
  /\ \A i \in 1..Len(e) : e[i].kind \notin {"run_start", "run_end"}

Closing(e) ==
  /\ e \in Seq(Sound) /\ Len(e) >= 1
  /\ \A i \in 1..Len(e) : e[i].kind # "run_start"
  /\ \A i \in 1..Len(e) : e[i].kind = "run_end" <=> i = Len(e)
  /\ e[Len(e)].says = "succeeded"
       => \E i \in 1..Len(e) : e[i].kind = "tool_result" /\ e[i].says = "ok"

(* A reading under way, and a whole one.                                    *)
Opened(b) ==
  /\ b \in Seq(Sound) /\ Len(b) >= 1
  /\ \A i \in 1..Len(b) : b[i].kind = "run_start" <=> i = 1
  /\ \A i \in 1..Len(b) : b[i].kind # "run_end"

Whole(b) ==
  /\ b \in Seq(Sound) /\ Len(b) >= 1
  /\ \A i \in 1..Len(b) : b[i].kind = "run_start" <=> i = 1
  /\ \A i \in 1..Len(b) : b[i].kind = "run_end" <=> i = Len(b)
  /\ b[Len(b)].says = "succeeded"
       => \E i \in 1..Len(b) : b[i].kind = "tool_result" /\ b[i].says = "ok"

LEMMA Joined ==
  ASSUME NEW b \in Seq(Sound), NEW e \in Seq(Sound)
  PROVE  /\ b \o e \in Seq(Sound) /\ Len(b) \in Nat /\ Len(e) \in Nat
         /\ Len(b \o e) = Len(b) + Len(e)
         /\ \A i \in 1..Len(b) : (b \o e)[i] = b[i]
         /\ \A i \in 1..Len(e) : (b \o e)[Len(b) + i] = e[i]
         /\ \A i \in 1..Len(b \o e) : i \in 1..Len(b) \/ \E j \in 1..Len(e) : i = Len(b) + j
<1>1. Len(b) \in Nat /\ Len(e) \in Nat
  BY LenProperties
<1>2. /\ b \o e \in Seq(Sound) /\ Len(b \o e) = Len(b) + Len(e)
      /\ \A i \in 1..(Len(b) + Len(e)) :
           (b \o e)[i] = IF i <= Len(b) THEN b[i] ELSE e[i - Len(b)]
  BY ConcatProperties
<1>3. \A i \in 1..Len(b) : (b \o e)[i] = b[i]
  BY <1>1, <1>2
<1>4. ASSUME NEW i \in 1..Len(e) PROVE (b \o e)[Len(b) + i] = e[i]
  <2>1. Len(b) + i \in 1..(Len(b) + Len(e)) /\ ~(Len(b) + i <= Len(b)) /\ Len(b) + i - Len(b) = i
    BY <1>1
  <2> QED
    BY <1>2, <2>1
<1>5. ASSUME NEW i \in 1..Len(b \o e), i \notin 1..Len(b)
      PROVE  \E j \in 1..Len(e) : i = Len(b) + j
  <2>1. i - Len(b) \in 1..Len(e) /\ i = Len(b) + (i - Len(b))
    BY <1>1, <1>2, <1>5
  <2> QED
    BY <2>1
<1> QED
  BY <1>1, <1>2, <1>3, <1>4, <1>5

LEMMA OpenedMid ==
  ASSUME NEW b, NEW e, Opened(b), Mid(e)
  PROVE  Opened(b \o e)
<1> DEFINE t == b \o e
<1>1. b \in Seq(Sound) /\ e \in Seq(Sound)
  BY DEF Opened, Mid
<1>2. /\ t \in Seq(Sound) /\ Len(b) \in Nat /\ Len(e) \in Nat /\ Len(t) = Len(b) + Len(e)
      /\ \A i \in 1..Len(b) : t[i] = b[i]
      /\ \A i \in 1..Len(e) : t[Len(b) + i] = e[i]
      /\ \A i \in 1..Len(t) : i \in 1..Len(b) \/ \E j \in 1..Len(e) : i = Len(b) + j
  BY <1>1, Joined
<1> HIDE DEF t
<1>3. Len(b) >= 1 /\ Len(t) >= 1
  BY <1>2 DEF Opened
<1>4. ASSUME NEW i \in 1..Len(t)
      PROVE  (t[i].kind = "run_start" <=> i = 1) /\ t[i].kind # "run_end"
  <2>1. CASE i \in 1..Len(b)
    BY <1>2, <2>1 DEF Opened
  <2>2. ASSUME NEW j \in 1..Len(e), i = Len(b) + j
        PROVE  (t[i].kind = "run_start" <=> i = 1) /\ t[i].kind # "run_end"
    <3>1. i # 1
      BY <1>2, <1>3, <2>2
    <3> QED
      BY <1>2, <2>2, <3>1 DEF Mid
  <2> QED
    BY <1>2, <2>1, <2>2
<1> QED
  BY <1>2, <1>3, <1>4 DEF Opened, t

LEMMA OpenedClosing ==
  ASSUME NEW b, NEW e, Opened(b), Closing(e)
  PROVE  Whole(b \o e) /\ (b \o e)[Len(b \o e)] = e[Len(e)]
<1> DEFINE t == b \o e
<1>1. b \in Seq(Sound) /\ e \in Seq(Sound)
  BY DEF Opened, Closing
<1>2. /\ t \in Seq(Sound) /\ Len(b) \in Nat /\ Len(e) \in Nat /\ Len(t) = Len(b) + Len(e)
      /\ \A i \in 1..Len(b) : t[i] = b[i]
      /\ \A i \in 1..Len(e) : t[Len(b) + i] = e[i]
      /\ \A i \in 1..Len(t) : i \in 1..Len(b) \/ \E j \in 1..Len(e) : i = Len(b) + j
  BY <1>1, Joined
<1> HIDE DEF t
<1>3. Len(b) >= 1 /\ Len(e) >= 1 /\ Len(t) >= 1 /\ Len(e) \in 1..Len(e)
  BY <1>2 DEF Opened, Closing
<1>4. ASSUME NEW i \in 1..Len(t)
      PROVE  (t[i].kind = "run_start" <=> i = 1) /\ (t[i].kind = "run_end" <=> i = Len(t))
  <2>1. CASE i \in 1..Len(b)
    <3>1. i # Len(t)
      BY <1>2, <1>3, <2>1
    <3> QED
      BY <1>2, <2>1, <3>1 DEF Opened
  <2>2. ASSUME NEW j \in 1..Len(e), i = Len(b) + j
        PROVE  (t[i].kind = "run_start" <=> i = 1) /\ (t[i].kind = "run_end" <=> i = Len(t))
    <3>0. \A m, n \in Nat : \A k \in 1..n : m >= 1 =>
            m + k # 1 /\ (m + k = m + n <=> k = n)
      OBVIOUS
    <3>a. Len(b) \in Nat /\ Len(e) \in Nat /\ Len(b) >= 1 /\ Len(t) = Len(b) + Len(e)
      BY <1>2, <1>3
    <3>b. Len(b) + j # 1 /\ (Len(b) + j = Len(b) + Len(e) <=> j = Len(e))
      BY <3>0, <3>a
    <3>1. i # 1 /\ (i = Len(t) <=> j = Len(e))
      BY <2>2, <3>a, <3>b
    <3>2. t[i] = e[j]
      BY <1>2, <2>2
    <3> QED
      BY <3>1, <3>2 DEF Closing
  <2> QED
    BY <1>2, <2>1, <2>2
<1>5. t[Len(t)] = e[Len(e)]
  BY <1>2, <1>3
<1>6. ASSUME t[Len(t)].says = "succeeded"
      PROVE  \E i \in 1..Len(t) : t[i].kind = "tool_result" /\ t[i].says = "ok"
  <2>1. PICK j \in 1..Len(e) : e[j].kind = "tool_result" /\ e[j].says = "ok"
    BY <1>5, <1>6 DEF Closing
  <2>2. Len(b) + j \in 1..Len(t)
    BY <1>2
  <2> QED
    BY <1>2, <2>1, <2>2
<1> QED
  BY <1>2, <1>3, <1>4, <1>5, <1>6 DEF Whole, t

(* The events that end a reading, whichever program writes them.            *)
LEMMA CloseParts ==
  ASSUME NEW result \in {"succeeded", "failed"}
  PROVE  LET c == Close(result) IN
         /\ c \in Seq(Sound) /\ Len(c) \in Nat /\ Len(c) >= 1
         /\ \A i \in 1..Len(c) : c[i].kind # "run_start"
         /\ \A i \in 1..Len(c) : c[i].kind = "run_end" <=> i = Len(c)
         /\ c[Len(c)].says = result
<1> DEFINE end == Ev("run_end", Claimed, result)
           out == Ev("agent_end", Claimed, "")
<1>1. /\ end \in Sound /\ out \in Sound
      /\ end.kind = "run_end" /\ end.says = result /\ out.kind = "agent_end"
  BY Written DEF Ev
<1> HIDE DEF end, out
<1>2. CASE Buffered
  <2>1. Close(result) = <<end>>
    BY <1>2 DEF Close, end
  <2>2. Len(<<end>>) = 1 /\ <<end>>[1] = end /\ <<end>> \in Seq(Sound)
    BY <1>1
  <2> QED
    BY <1>1, <2>1, <2>2
<1>3. CASE ~Buffered
  <2>1. Close(result) = <<out, out, end>>
    BY <1>3 DEF Close, end, out
  <2>2. /\ Len(<<out, out, end>>) = 3 /\ <<out, out, end>> \in Seq(Sound)
        /\ <<out, out, end>>[1] = out /\ <<out, out, end>>[2] = out /\ <<out, out, end>>[3] = end
    BY <1>1
  <2>3. 1..3 = {1, 2, 3}
    OBVIOUS
  <2> QED
    BY <1>1, <2>1, <2>2, <2>3
<1> QED
  BY <1>2, <1>3

LEMMA ClosingParts ==
  ASSUME NEW e \in Sound, e.kind \notin {"run_start", "run_end"},
         NEW result \in {"succeeded", "failed"},
         result = "succeeded" => e.kind = "tool_result" /\ e.says = "ok"
  PROVE  /\ Closing(<<e>> \o Close(result))
         /\ (<<e>> \o Close(result))[Len(<<e>> \o Close(result))].says = result
<1> DEFINE c == Close(result)
           t == <<e>> \o c
<1>1. /\ c \in Seq(Sound) /\ Len(c) \in Nat /\ Len(c) >= 1
      /\ \A i \in 1..Len(c) : c[i].kind # "run_start"
      /\ \A i \in 1..Len(c) : c[i].kind = "run_end" <=> i = Len(c)
      /\ c[Len(c)].says = result
  BY CloseParts
<1> HIDE DEF c
<1>2. Len(<<e>>) = 1 /\ <<e>>[1] = e /\ <<e>> \in Seq(Sound)
  OBVIOUS
<1>3. /\ t \in Seq(Sound) /\ Len(t) = 1 + Len(c)
      /\ \A i \in 1..1 : t[i] = <<e>>[i]
      /\ \A i \in 1..Len(c) : t[1 + i] = c[i]
      /\ \A i \in 1..Len(t) : i \in 1..1 \/ \E j \in 1..Len(c) : i = 1 + j
  BY <1>1, <1>2, Joined
<1> HIDE DEF t
<1>4. t[1] = e /\ Len(c) \in 1..Len(c) /\ 1 \in 1..Len(t)
  BY <1>1, <1>2, <1>3
<1>5. t[Len(t)] = c[Len(c)]
  BY <1>3, <1>4
<1>6. ASSUME NEW i \in 1..Len(t)
      PROVE  t[i].kind # "run_start" /\ (t[i].kind = "run_end" <=> i = Len(t))
  <2>1. CASE i = 1
    <3>1. i # Len(t)
      BY <1>1, <1>3, <2>1
    <3> QED
      BY <1>4, <2>1, <3>1
  <2>2. ASSUME NEW j \in 1..Len(c), i = 1 + j
        PROVE  t[i].kind # "run_start" /\ (t[i].kind = "run_end" <=> i = Len(t))
    <3>1. i = Len(t) <=> j = Len(c)
      BY <1>1, <1>3, <2>2
    <3>2. t[i] = c[j]
      BY <1>3, <2>2
    <3> QED
      BY <1>1, <3>1, <3>2
  <2>3. i = 1 \/ \E j \in 1..Len(c) : i = 1 + j
    BY <1>3
  <2> QED
    BY <2>1, <2>2, <2>3
<1>7. Len(t) >= 1
  BY <1>1, <1>3
<1>8. Closing(t) /\ t[Len(t)].says = result
  BY <1>1, <1>3, <1>4, <1>5, <1>6, <1>7 DEF Closing
<1> QED
  BY <1>8 DEF t, c

LEMMA MidParts ==
  /\ \A n \in Nat : Mid(<<CallEv(Claimed, n)>>)
  /\ \A truth \in Truths :
       Mid(<<Ev("tool_result", truth, "failed"), Ev("incident", truth, "")>>)
  /\ \A says \in {"retry_once", "refuse_not_retryable", "refuse_budget_exhausted"} :
       Mid(<<Ev("intervention", Claimed, says)>>)
<1>1. ASSUME NEW e \in Sound, e.kind \notin {"run_start", "run_end"} PROVE Mid(<<e>>)
  BY <1>1 DEF Mid
<1>2. ASSUME NEW e \in Sound, e.kind \notin {"run_start", "run_end"},
             NEW f \in Sound, f.kind \notin {"run_start", "run_end"}
      PROVE  Mid(<<e, f>>)
  <2>1. Len(<<e, f>>) = 2 /\ <<e, f>>[1] = e /\ <<e, f>>[2] = f /\ <<e, f>> \in Seq(Sound)
    OBVIOUS
  <2>2. 1..2 = {1, 2}
    OBVIOUS
  <2> QED
    BY <1>2, <2>1, <2>2 DEF Mid
<1>3. ASSUME NEW n \in Nat PROVE Mid(<<CallEv(Claimed, n)>>)
  <2>1. CallEv(Claimed, n) \in Sound /\ CallEv(Claimed, n).kind = "tool_call"
    BY Written DEF CallEv
  <2> QED
    BY <1>1, <2>1
<1>4. ASSUME NEW truth \in Truths
      PROVE  Mid(<<Ev("tool_result", truth, "failed"), Ev("incident", truth, "")>>)
  <2>1. /\ Ev("tool_result", truth, "failed") \in Sound
        /\ Ev("tool_result", truth, "failed").kind = "tool_result"
        /\ Ev("incident", truth, "") \in Sound /\ Ev("incident", truth, "").kind = "incident"
    BY Written DEF Ev
  <2> QED
    BY <1>2, <2>1
<1>5. ASSUME NEW says \in {"retry_once", "refuse_not_retryable", "refuse_budget_exhausted"}
      PROVE  Mid(<<Ev("intervention", Claimed, says)>>)
  <2>1. /\ Ev("intervention", Claimed, says) \in Sound
        /\ Ev("intervention", Claimed, says).kind = "intervention"
    BY Written DEF Ev
  <2> QED
    BY <1>1, <2>1
<1> QED
  BY <1>3, <1>4, <1>5

LEMMA ReadsParts ==
  /\ Closing(<<Ev("tool_result", Claimed, "ok")>> \o Close("succeeded"))
  /\ Closing(<<Ev("tool_result", "live", "refused")>> \o Close("failed"))
  /\ \A says \in {"refuse_not_retryable", "refuse_budget_exhausted"} :
       Closing(<<Ev("intervention", Claimed, says)>> \o Close("failed"))
<1>1. /\ Ev("tool_result", Claimed, "ok") \in Sound
      /\ Ev("tool_result", Claimed, "ok").kind = "tool_result"
      /\ Ev("tool_result", Claimed, "ok").says = "ok"
  BY Written DEF Ev
<1>2. /\ Ev("tool_result", "live", "refused") \in Sound
      /\ Ev("tool_result", "live", "refused").kind = "tool_result"
  BY Written DEF Ev, Truths
<1>3. \A says \in {"refuse_not_retryable", "refuse_budget_exhausted"} :
        /\ Ev("intervention", Claimed, says) \in Sound
        /\ Ev("intervention", Claimed, says).kind = "intervention"
  BY Written DEF Ev
<1>4. Closing(<<Ev("tool_result", Claimed, "ok")>> \o Close("succeeded"))
  BY <1>1, ClosingParts
<1>5. Closing(<<Ev("tool_result", "live", "refused")>> \o Close("failed"))
  BY <1>2, ClosingParts
<1>6. ASSUME NEW says \in {"refuse_not_retryable", "refuse_budget_exhausted"}
      PROVE  Closing(<<Ev("intervention", Claimed, says)>> \o Close("failed"))
  BY <1>3, ClosingParts
<1> QED
  BY <1>4, <1>5, <1>6

LEMMA StartParts ==
  /\ Opened(<<Ev("run_start", "live", "")>>)
  /\ Opened(Prelude) /\ Len(Prelude) = 4
<1>1. /\ Ev("run_start", "live", "") \in Sound
      /\ Ev("run_start", "live", "").kind = "run_start"
  BY Written DEF Ev, Truths
<1>2. ASSUME NEW e \in Sound, e.kind = "run_start" PROVE Opened(<<e>>)
  <2>1. Len(<<e>>) = 1 /\ <<e>>[1] = e /\ <<e>> \in Seq(Sound)
    OBVIOUS
  <2> QED
    BY <1>2, <2>1 DEF Opened
<1> DEFINE a == Ev("run_start", Claimed, "")
           b == Ev("agent_start", Claimed, "")
           c == Ev("delegation", Claimed, "")
<1>3. /\ a \in Sound /\ b \in Sound /\ c \in Sound
      /\ a.kind = "run_start" /\ b.kind = "agent_start" /\ c.kind = "delegation"
  BY Written DEF Ev
<1>4. Prelude = <<a, b, c, b>>
  BY DEF Prelude
<1> HIDE DEF a, b, c
<1>5. /\ Len(<<a, b, c, b>>) = 4 /\ <<a, b, c, b>> \in Seq(Sound)
      /\ <<a, b, c, b>>[1] = a /\ <<a, b, c, b>>[2] = b
      /\ <<a, b, c, b>>[3] = c /\ <<a, b, c, b>>[4] = b
  BY <1>3
<1>6. 1..4 = {1, 2, 3, 4}
  OBVIOUS
<1>7. Opened(Prelude) /\ Len(Prelude) = 4
  BY <1>3, <1>4, <1>5, <1>6 DEF Opened
<1> QED
  BY <1>1, <1>2, <1>7

----------------------------------------------------------------------------
(* Types.                                                                   *)

Results == {"open", "succeeded", "failed"}
Failures == [truth : Truths, retryable : BOOLEAN]

LedgerTyped ==
  /\ \E n \in Nat : DOMAIN ledger \subseteq 1..n
  /\ \A i \in DOMAIN ledger : ledger[i] \in Sound
  /\ ended \in Results
  /\ told \subseteq [at : Nat, event : Sound]

Typed ==
  /\ program \in Programs
  /\ pc \in [AllCallers -> Steps]
  /\ mark \in [AllCallers -> Nat]
  /\ batch \in [AllCallers -> Seq(Sound)]
  /\ retries \in [AllCallers -> Nat]
  /\ number \in [AllCallers -> Nat]
  /\ reserved \in [Stores -> Nat]
  /\ failure \in [AllCallers -> Failures]
  /\ answer \in [AllCallers -> {"none", "refused", "error", "facts", "failed"}]
  /\ LedgerTyped
  /\ gets \in Nat /\ faults \in Nat /\ working \in Nat /\ calls \in Nat /\ crashes \in Nat

LEMMA Program ==
  ASSUME ReadAssumption, program \in Programs
  PROVE  /\ Callers \subseteq AllCallers /\ Callers # {} /\ IsFiniteSet(Callers)
         /\ Buffered \in BOOLEAN /\ Persistent \in BOOLEAN
         /\ FaultAttempts \in Nat /\ MaxRetries \in Nat /\ WorkerEvents \in Nat /\ MaxCalls \in Nat
         /\ ~Buffered => MaxCalls <= 1 /\ WorkerEvents = 0
         /\ \A p \in Callers : StoreOf(p) \in Stores
<1>1. Callers \subseteq AllCallers
  BY DEF AllCallers, Callers
<1>2. \A p \in Callers : StoreOf(p) \in Stores
  BY DEF StoreOf, Stores
<1>3. /\ Callers # {} /\ IsFiniteSet(Callers)
      /\ Buffered \in BOOLEAN /\ Persistent \in BOOLEAN
      /\ FaultAttempts \in Nat /\ MaxRetries \in Nat /\ WorkerEvents \in Nat /\ MaxCalls \in Nat
      /\ ~Buffered => MaxCalls <= 1 /\ WorkerEvents = 0
  BY DEF ReadAssumption, Callers, Buffered, Persistent, FaultAttempts, MaxRetries, WorkerEvents, MaxCalls
<1> QED
  BY <1>1, <1>2, <1>3

LEMMA HighType ==
  ASSUME LedgerTyped
  PROVE  /\ highWaterMark \in Nat
         /\ DOMAIN ledger # {} =>
              highWaterMark \in DOMAIN ledger /\ \A i \in DOMAIN ledger : i <= highWaterMark
<1>1. PICK n \in Nat : DOMAIN ledger \subseteq 1..n
  BY DEF LedgerTyped
<1>2. ASSUME DOMAIN ledger # {}
      PROVE  Max(DOMAIN ledger) \in DOMAIN ledger
             /\ \A i \in DOMAIN ledger : i <= Max(DOMAIN ledger)
  BY <1>1, <1>2, LastPosition
<1> QED
  BY <1>1, <1>2 DEF highWaterMark

(* What the ingest route and the executor's sink make of numbered events.   *)
LEMMA IngestParts ==
  ASSUME LedgerTyped, NEW from \in Nat, NEW events \in Seq(Sound),
         Ingest(Numbered(from, events))
  PROVE  LET items == Numbered(from, events) IN
         /\ LedgerTyped'
         /\ DOMAIN items = (from + 1)..(from + Len(events)) /\ Len(events) \in Nat
         /\ \A i \in 1..Len(events) : items[from + i] = events[i]
         /\ DOMAIN ledger' = DOMAIN ledger \cup DOMAIN items
         /\ \A i \in DOMAIN ledger : ledger'[i] = ledger[i]
         /\ \A i \in DOMAIN items \ DOMAIN ledger : ledger'[i] = items[i]
         /\ told' = told \cup {[at |-> i, event |-> items[i]] : i \in DOMAIN items}
<1> DEFINE items == Numbered(from, events)
           new   == DOMAIN items \ DOMAIN ledger
           ends  == {i \in new : items[i].kind = "run_end"}
<1>1. Len(events) \in Nat /\ \A i \in 1..Len(events) : events[i] \in Sound
  BY LenProperties, ElementOfSeq
<1>2. DOMAIN items = (from + 1)..(from + Len(events))
  BY DEF Numbered
<1>3. \A i \in DOMAIN items : items[i] \in Sound /\ i \in Nat /\ i \in 1..(from + Len(events))
  <2>1. \A i \in (from + 1)..(from + Len(events)) :
          i - from \in 1..Len(events) /\ i \in Nat /\ i \in 1..(from + Len(events))
    BY <1>1
  <2> QED
    BY <1>1, <1>2, <2>1 DEF Numbered
<1>4. ASSUME NEW i \in 1..Len(events) PROVE items[from + i] = events[i]
  <2>1. from + i \in (from + 1)..(from + Len(events)) /\ from + i - from = i
    BY <1>1
  <2> QED
    BY <2>1 DEF Numbered
<1> HIDE DEF items
<1>5. /\ ledger' = [i \in DOMAIN ledger \cup new |-> IF i \in new THEN items[i] ELSE ledger[i]]
      /\ ended' = IF ends = {} THEN ended ELSE items[Max(ends)].says
      /\ told' = told \cup {[at |-> i, event |-> items[i]] : i \in DOMAIN items}
  BY DEF Ingest, items
<1>6. DOMAIN ledger' = DOMAIN ledger \cup DOMAIN items
  BY <1>5
<1>7. \A i \in DOMAIN ledger : ledger'[i] = ledger[i]
  BY <1>5
<1>8. \A i \in DOMAIN items \ DOMAIN ledger : ledger'[i] = items[i]
  BY <1>5
<1>9. \E n \in Nat : DOMAIN ledger' \subseteq 1..n
  <2>1. PICK n \in Nat : DOMAIN ledger \subseteq 1..n
    BY DEF LedgerTyped
  <2>2. n + from + Len(events) \in Nat
    BY <1>1
  <2>3. \A i \in DOMAIN ledger' : i \in 1..(n + from + Len(events))
    BY <1>1, <1>3, <1>6, <2>1
  <2> QED
    BY <2>2, <2>3
<1>10. \A i \in DOMAIN ledger' : ledger'[i] \in Sound
  BY <1>3, <1>6, <1>7, <1>8 DEF LedgerTyped
<1>11. ended' \in Results
  <2>1. ASSUME ends # {} PROVE items[Max(ends)].says \in {"succeeded", "failed"}
    <3>1. ends \subseteq 1..(from + Len(events)) /\ from + Len(events) \in Nat
      BY <1>1, <1>3
    <3>2. Max(ends) \in ends
      <4> HIDE DEF ends
      <4> QED
        BY <2>1, <3>1, LastPosition
    <3> QED
      BY <1>3, <3>2 DEF Sound
  <2> QED
    BY <1>5, <2>1 DEF Results, LedgerTyped
<1>12. told' \subseteq [at : Nat, event : Sound]
  BY <1>3, <1>5 DEF LedgerTyped
<1>13. LedgerTyped'
  BY <1>9, <1>10, <1>11, <1>12 DEF LedgerTyped
<1> QED
  BY <1>1, <1>2, <1>4, <1>5, <1>6, <1>7, <1>8, <1>13 DEF items

LEMMA EmitTyped ==
  ASSUME Typed, NEW p \in AllCallers, NEW events \in Seq(Sound), Emit(p, events)
  PROVE  /\ batch' \in [AllCallers -> Seq(Sound)]
         /\ LedgerTyped'
<1>1. batch[p] \in Seq(Sound) /\ LedgerTyped
  BY DEF Typed
<1>2. batch[p] \o events \in Seq(Sound) /\ Len(batch[p]) \in Nat
  BY <1>1, Joined
<1>3. batch' \in [AllCallers -> Seq(Sound)]
  BY <1>2 DEF Emit, Typed
<1>4. ASSUME UNCHANGED api PROVE LedgerTyped'
  BY <1>1, <1>4 DEF api, LedgerTyped
<1>5. ASSUME Ingest(Numbered(Len(batch[p]), events)) PROVE LedgerTyped'
  BY <1>1, <1>2, <1>5, IngestParts
<1> QED
  BY <1>3, <1>4, <1>5 DEF Emit

LEMMA AbandonTyped ==
  ASSUME Typed, NEW p \in AllCallers, Abandon(p)
  PROVE  /\ batch' \in [AllCallers -> Seq(Sound)]
         /\ LedgerTyped'
         /\ pc' \in [AllCallers -> Steps]
         /\ answer' \in [AllCallers -> {"none", "refused", "error", "facts", "failed"}]
<1>1. <<>> \in Seq(Sound)
  BY EmptySeq
<1>2. batch' \in [AllCallers -> Seq(Sound)]
  BY <1>1 DEF Abandon, Typed
<1>3. LedgerTyped'
  BY DEF Abandon, Typed, LedgerTyped, Results
<1> QED
  BY <1>2, <1>3 DEF Abandon, Typed, goto, tell, Steps

LEMMA TypedInit == ASSUME ReadAssumption PROVE Init => Typed
<1> SUFFICES ASSUME Init PROVE Typed
  OBVIOUS
<1>1. <<>> \in Seq(Sound)
  BY EmptySeq
<1>2. LedgerTyped
  BY DEF Init, LedgerTyped, Results
<1> QED
  BY <1>1, <1>2 DEF Init, Typed, Steps, NoFailure, Failures, Truths

LEMMA TypedStep ==
  ASSUME ReadAssumption, Typed, [Next]_vars
  PROVE  Typed' /\ program' = program
<1>0. /\ Callers \subseteq AllCallers
      /\ \A p \in Callers : StoreOf(p) \in Stores /\ p \in AllCallers
      /\ LedgerTyped
  BY Program DEF Typed
<1>a. program' = program => Stores' = Stores
  BY DEF Stores, Persistent, Callers
<1>b. UNCHANGED api => LedgerTyped'
  BY <1>0 DEF api, LedgerTyped
<1> USE DEF Typed
<1>1. ASSUME NEW p \in Callers, BeginCall(p), program' = program PROVE Typed'
  <2>1. Prelude \in Seq(Sound) /\ <<>> \in Seq(Sound)
    BY StartParts, EmptySeq DEF Opened
  <2>2. LedgerTyped'
    <3>1. ASSUME UNCHANGED api PROVE LedgerTyped'
      BY <3>1 DEF api, LedgerTyped
    <3>2. ASSUME Ingest(Numbered(0, Prelude)) PROVE LedgerTyped'
      BY <2>1, <3>2, IngestParts
    <3> QED
      BY <1>1, <3>1, <3>2 DEF BeginCall
  <2>3. batch' \in [AllCallers -> Seq(Sound)]
    BY <1>1, <2>1 DEF BeginCall
  <2>4. reserved' \in [Stores' -> Nat]
    BY <1>1 DEF BeginCall, Stores, StoreOf, Persistent, Callers
  <2> QED
    BY <1>a, <1>b, <1>0, <1>1, <2>2, <2>3, <2>4 DEF BeginCall, goto, Steps, work
<1>2. ASSUME NEW p \in Callers, FindRun(p), program' = program PROVE Typed'
  <2>1. pc' \in [AllCallers -> Steps] /\ answer' \in [AllCallers -> {"none", "refused", "error", "facts", "failed"}]
    BY <1>0, <1>2 DEF FindRun, goto, tell, Steps
  <2> QED
    BY <1>a, <1>b, <1>0, <1>2, <2>1 DEF FindRun, work
<1>3. ASSUME NEW p \in Callers, ReadMark(p), program' = program PROVE Typed'
  <2>1. PICK high \in {0, highWaterMark}, allowed \in BOOLEAN :
          LET start   == IF high = 0 THEN <<Ev("run_start", "live", "")>> ELSE <<>>
              refusal == <<Ev("tool_result", "live", "refused")>> \o Close("failed")
          IN /\ mark' = [mark EXCEPT ![p] = high]
             /\ Emit(p, IF allowed THEN start ELSE start \o refusal)
             /\ goto(p, IF allowed THEN "call" ELSE "publish")
    BY <1>3 DEF ReadMark
  <2> DEFINE start   == IF high = 0 THEN <<Ev("run_start", "live", "")>> ELSE <<>>
             refusal == <<Ev("tool_result", "live", "refused")>> \o Close("failed")
  <2>2. start \in Seq(Sound) /\ refusal \in Seq(Sound)
    BY StartParts, ReadsParts, EmptySeq DEF Opened, Closing
  <2>3. (IF allowed THEN start ELSE start \o refusal) \in Seq(Sound)
    BY <2>2, Joined
  <2>4. batch' \in [AllCallers -> Seq(Sound)] /\ LedgerTyped'
    <3> HIDE DEF start, refusal
    <3> QED
      BY <1>a, <1>b, <1>0, <2>1, <2>3, EmitTyped DEF start, refusal
  <2>5. mark' \in [AllCallers -> Nat] /\ pc' \in [AllCallers -> Steps]
    <3>0. highWaterMark \in Nat
      BY <1>0, HighType
    <3>1. high \in Nat
      BY <3>0
    <3>2. (IF allowed THEN "call" ELSE "publish") \in Steps
      BY DEF Steps
    <3> QED
      BY <1>0, <2>1, <3>1, <3>2 DEF goto
  <2> QED
    BY <1>a, <1>b, <1>3, <2>4, <2>5 DEF ReadMark, work
<1>4. ASSUME NEW p \in Callers, IssueCall(p), program' = program PROVE Typed'
  <2>1. <<CallEv(Claimed, reserved[StoreOf(p)] + 1)>> \in Seq(Sound)
    <3>1. reserved[StoreOf(p)] + 1 \in Nat
      BY <1>0
    <3> QED
      BY <3>1, MidParts DEF Mid
  <2>2. batch' \in [AllCallers -> Seq(Sound)] /\ LedgerTyped'
    BY <1>a, <1>b, <1>0, <1>4, <2>1, EmitTyped DEF IssueCall
  <2>3. pc' \in [AllCallers -> Steps]
    BY <1>0, <1>4 DEF IssueCall, goto, Steps
  <2> QED
    BY <1>a, <1>b, <1>4, <2>2, <2>3 DEF IssueCall, work
<1>5. ASSUME NEW p \in Callers, CountAttempts(p), program' = program PROVE Typed'
  <2>1. number' \in [AllCallers -> Nat] /\ pc' \in [AllCallers -> Steps]
    BY <1>0, <1>5 DEF CountAttempts, goto, Steps
  <2> QED
    BY <1>a, <1>b, <1>5, <2>1 DEF CountAttempts, work
<1>6. ASSUME NEW p \in Callers, AppendAttempt(p), program' = program PROVE Typed'
  <2>1. reserved' \in [Stores -> Nat] /\ pc' \in [AllCallers -> Steps]
    BY <1>a, <1>b, <1>0, <1>6 DEF AppendAttempt, goto, Steps
  <2> QED
    BY <1>a, <1>b, <1>6, <2>1 DEF AppendAttempt, work
<1>7. ASSUME NEW p \in Callers, NEW f \in Failures, Fails(p, f)
      PROVE  /\ batch' \in [AllCallers -> Seq(Sound)] /\ LedgerTyped'
             /\ failure' \in [AllCallers -> Failures] /\ pc' \in [AllCallers -> Steps]
             /\ answer' = answer
  <2>1. <<Ev("tool_result", f.truth, "failed"), Ev("incident", f.truth, "")>> \in Seq(Sound)
    BY MidParts DEF Mid, Failures
  <2>2. batch' \in [AllCallers -> Seq(Sound)] /\ LedgerTyped'
    BY <1>a, <1>b, <1>0, <1>7, <2>1, EmitTyped DEF Fails
  <2> QED
    BY <1>0, <1>7, <2>2 DEF Fails, goto, Steps
<1>8. ASSUME NEW p \in Callers, InjectFault(p), program' = program PROVE Typed'
  <2>1. [truth |-> "controlled_fault", retryable |-> TRUE] \in Failures
    BY DEF Failures, Truths
  <2>2. Fails(p, [truth |-> "controlled_fault", retryable |-> TRUE])
    BY <1>a, <1>b, <1>8 DEF InjectFault
  <2> QED
    BY <1>a, <1>b, <1>7, <1>8, <2>1, <2>2 DEF InjectFault
<1>9. ASSUME NEW p \in Callers, Fetch(p), program' = program PROVE Typed'
  <2>1. CASE Reads(p)
    <3>1. <<Ev("tool_result", Claimed, "ok")>> \o Close("succeeded") \in Seq(Sound)
      BY ReadsParts DEF Closing
    <3>2. batch' \in [AllCallers -> Seq(Sound)] /\ LedgerTyped'
      BY <1>a, <1>b, <1>0, <2>1, <3>1, EmitTyped DEF Reads
    <3>3. pc' \in [AllCallers -> Steps]
      BY <1>0, <2>1 DEF Reads, goto, Steps
    <3> QED
      BY <1>a, <1>b, <1>9, <2>1, <3>2, <3>3 DEF Reads, Fetch
  <2>2. ASSUME NEW again \in BOOLEAN, Fails(p, [truth |-> "live", retryable |-> again])
        PROVE  Typed'
    <3>1. [truth |-> "live", retryable |-> again] \in Failures
      BY DEF Failures, Truths
    <3> QED
      BY <1>a, <1>b, <1>7, <1>9, <2>2, <3>1 DEF Fetch
  <2>3. CASE Abandon(p) /\ UNCHANGED failure
    BY <1>a, <1>b, <1>0, <1>9, <2>3, AbandonTyped DEF Fetch
  <2> QED
    BY <1>9, <2>1, <2>2, <2>3 DEF Fetch
<1>10. ASSUME NEW p \in Callers, Decide(p), program' = program PROVE Typed'
  <2> DEFINE outcome == decide(failure[p], retries[p])
             asked   == <<Ev("intervention", Claimed, outcome)>>
  <2>1. /\ outcome \in {"retry_once", "refuse_not_retryable", "refuse_budget_exhausted"}
        /\ outcome # "retry_once" => outcome \in {"refuse_not_retryable", "refuse_budget_exhausted"}
    BY DEF decide
  <2> HIDE DEF outcome
  <2>2. CASE outcome = "retry_once"
    <3>1. Emit(p, asked) /\ retries' = [retries EXCEPT ![p] = @ + 1] /\ goto(p, "call")
      BY <1>10, <2>2 DEF Decide, outcome
    <3>2. asked \in Seq(Sound)
      BY <2>1, MidParts DEF Mid
    <3>3. batch' \in [AllCallers -> Seq(Sound)] /\ LedgerTyped'
      BY <1>a, <1>b, <1>0, <3>1, <3>2, EmitTyped
    <3>4. retries' \in [AllCallers -> Nat] /\ pc' \in [AllCallers -> Steps]
      BY <1>0, <3>1 DEF goto, Steps
    <3> QED
      BY <1>a, <1>b, <1>10, <3>3, <3>4 DEF Decide, work
  <2>3. CASE outcome # "retry_once"
    <3>1. Emit(p, asked \o Close("failed")) /\ UNCHANGED retries /\ goto(p, "publish")
      BY <1>10, <2>3 DEF Decide, outcome
    <3>2. asked \o Close("failed") \in Seq(Sound)
      BY <2>1, <2>3, ReadsParts DEF Closing
    <3>3. batch' \in [AllCallers -> Seq(Sound)] /\ LedgerTyped'
      BY <1>a, <1>b, <1>0, <3>1, <3>2, EmitTyped
    <3>4. pc' \in [AllCallers -> Steps]
      BY <1>0, <3>1 DEF goto, Steps
    <3> QED
      BY <1>a, <1>b, <1>10, <3>1, <3>3, <3>4 DEF Decide, work
  <2> QED
    BY <2>2, <2>3
<1>11. ASSUME NEW p \in Callers, Publish(p), program' = program PROVE Typed'
  <2>1. LedgerTyped'
    <3>1. ASSUME UNCHANGED api PROVE LedgerTyped'
      BY <3>1 DEF api, LedgerTyped
    <3>2. ASSUME Ingest(Numbered(mark[p], batch[p])) PROVE LedgerTyped'
      BY <1>0, <3>2, IngestParts
    <3> QED
      BY <1>11, <3>1, <3>2 DEF Publish
  <2>2. pc' \in [AllCallers -> Steps] /\ answer' \in [AllCallers -> {"none", "refused", "error", "facts", "failed"}]
    BY <1>0, <1>11 DEF Publish, goto, tell, Text, Steps
  <2> QED
    BY <1>a, <1>b, <1>11, <2>1, <2>2 DEF Publish, work
<1>12. ASSUME WorkerStores, program' = program PROVE Typed'
  <2>1. PICK e \in Sound : Ingest(Numbered(working, <<e>>))
    BY <1>12, Written DEF WorkerStores, Truths
  <2>2. LedgerTyped'
    <3>1. <<e>> \in Seq(Sound) /\ working \in Nat
      OBVIOUS
    <3> QED
      BY <1>0, <2>1, <3>1, IngestParts
  <2>3. working' \in Nat
    <3>1. working' = working + 1 /\ working \in Nat
      BY <1>12 DEF WorkerStores
    <3> QED
      BY <3>1
  <2>4. UNCHANGED <<pc, mark, batch, retries, number, failure, reserved, answer, gets, faults, calls, crashes>>
    BY <1>12 DEF WorkerStores, call, work
  <2> QED
    BY <1>a, <1>12, <2>2, <2>3, <2>4
<1>13. ASSUME NEW p \in Callers, Crash(p), program' = program PROVE Typed'
  <2>1. /\ batch' \in [AllCallers -> Seq(Sound)] /\ LedgerTyped'
        /\ pc' \in [AllCallers -> Steps]
        /\ answer' \in [AllCallers -> {"none", "refused", "error", "facts", "failed"}]
    BY <1>0, <1>13, AbandonTyped DEF Crash
  <2>2. crashes' \in Nat
    BY <1>13 DEF Crash
  <2>3. UNCHANGED <<mark, retries, number, failure, reserved, gets, faults, working, calls>>
    BY <1>13 DEF Crash, work
  <2> QED
    BY <1>a, <1>13, <2>1, <2>2, <2>3
<1>14. CASE UNCHANGED vars
  BY <1>a, <1>b, <1>14 DEF vars, call, work
<1> QED
  BY <1>1, <1>2, <1>3, <1>4, <1>5, <1>6, <1>8, <1>9, <1>10, <1>11, <1>12, <1>13, <1>14
     DEF Next, Step, vars

(* Every variable of the readers keeps its type: an event numbered within    *)
(* the ledger is an event one of the programs writes, and a run that ended   *)
(* ended in a result a run_end may carry (POST /runs/:runId/events).         *)
THEOREM ReadTypes == ReadAssumption => (Spec => []Typed)
<1> SUFFICES ASSUME ReadAssumption PROVE Spec => []Typed
  OBVIOUS
<1>1. Typed /\ [Next]_vars => Typed'
  BY TypedStep
<1> QED
  BY <1>1, TypedInit, PTL DEF Spec

----------------------------------------------------------------------------
(* The fault is bounded.  Who meets it reserved an attempt, so the faults    *)
(* met do not outnumber the attempts; and once the attempts are used up      *)
(* every number given out is past the fault, so only the readers that had    *)
(* counted before the last of them was added, all but the one that added it, *)
(* can still meet it.                                                        *)

Facing  == {p \in Callers : pc[p] = "fetch" /\ number[p] <= FaultAttempts}
Counted == {p \in Callers : pc[p] = "append" /\ number[p] <= FaultAttempts}

Met ==
  Persistent =>
    /\ faults + Cardinality(Facing) <= reserved["file"]
    /\ reserved["file"] >= FaultAttempts =>
         faults + Cardinality(Facing) + Cardinality(Counted)
           <= FaultAttempts + Cardinality(Callers) - 1

LEMMA Readers ==
  ASSUME ReadAssumption, Typed
  PROVE  /\ IsFiniteSet(Callers) /\ Cardinality(Callers) \in Nat /\ Cardinality(Callers) >= 1
         /\ \A S : S \subseteq Callers => IsFiniteSet(S) /\ Cardinality(S) \in Nat
         /\ \A S, T : S \subseteq T /\ T \subseteq Callers => Cardinality(S) <= Cardinality(T)
         /\ \A p \in Callers : Cardinality(Callers \ {p}) = Cardinality(Callers) - 1
         /\ \A p \in Callers : p \in AllCallers /\ number[p] \in Nat
         /\ FaultAttempts \in Nat
         /\ Persistent => reserved["file"] \in Nat
<1>1. IsFiniteSet(Callers) /\ Callers # {} /\ FaultAttempts \in Nat /\ Callers \subseteq AllCallers
  BY Program DEF Typed
<1>2. Cardinality(Callers) \in Nat /\ Cardinality(Callers) # 0
  BY <1>1, FS_CardinalityType, FS_EmptySet
<1>3. \A S : S \subseteq Callers => IsFiniteSet(S) /\ Cardinality(S) \in Nat
  BY <1>1, FS_Subset, FS_CardinalityType
<1>4. \A S, T : S \subseteq T /\ T \subseteq Callers => Cardinality(S) <= Cardinality(T)
  BY <1>3, FS_Subset
<1>5. \A p \in Callers : Cardinality(Callers \ {p}) = Cardinality(Callers) - 1
  BY <1>1, FS_RemoveElement
<1>6. Persistent => reserved["file"] \in Nat
  BY DEF Typed, Stores
<1>7. Cardinality(Callers) >= 1
  BY <1>2
<1>8. \A p \in Callers : p \in AllCallers /\ number[p] \in Nat
  BY <1>1 DEF Typed
<1> QED
  BY <1>1, <1>2, <1>3, <1>4, <1>5, <1>6, <1>7, <1>8

LEMMA FewerMeet ==
  ASSUME ReadAssumption, Typed, Met, program' = program,
         Facing' \subseteq Facing,
         Persistent => faults' = faults /\ reserved'["file"] = reserved["file"]
                       /\ (reserved["file"] >= FaultAttempts => Counted' \subseteq Counted)
  PROVE  Met'
<1>1. /\ Persistent' = Persistent /\ FaultAttempts' = FaultAttempts /\ Callers' = Callers
  BY DEF Persistent, FaultAttempts, Callers
<1>2. Facing \subseteq Callers /\ Counted \subseteq Callers
  BY DEF Facing, Counted
<1>3. /\ Cardinality(Facing') <= Cardinality(Facing)
      /\ Cardinality(Facing') \in Nat /\ Cardinality(Facing) \in Nat
  BY <1>2, Readers
<1>4. SUFFICES ASSUME Persistent
      PROVE /\ faults + Cardinality(Facing') <= reserved["file"]
            /\ reserved["file"] >= FaultAttempts =>
                 faults + Cardinality(Facing') + Cardinality(Counted')
                   <= FaultAttempts + Cardinality(Callers) - 1
  BY <1>1 DEF Met
<1>5. faults \in Nat /\ reserved["file"] \in Nat /\ Cardinality(Callers) \in Nat /\ FaultAttempts \in Nat
  BY <1>4, Readers DEF Typed
<1>6. faults + Cardinality(Facing') <= reserved["file"]
  BY <1>3, <1>4, <1>5 DEF Met
<1>7. ASSUME reserved["file"] >= FaultAttempts
      PROVE  faults + Cardinality(Facing') + Cardinality(Counted')
               <= FaultAttempts + Cardinality(Callers) - 1
  <2>1. /\ Cardinality(Counted') <= Cardinality(Counted)
        /\ Cardinality(Counted') \in Nat /\ Cardinality(Counted) \in Nat
    BY <1>2, <1>4, <1>7, Readers
  <2>2. faults + Cardinality(Facing) + Cardinality(Counted)
          <= FaultAttempts + Cardinality(Callers) - 1
    BY <1>4, <1>7 DEF Met
  <2> QED
    BY <1>3, <1>5, <2>1, <2>2
<1> QED
  BY <1>6, <1>7

LEMMA InjectMeets ==
  ASSUME ReadAssumption, Typed, Met, program' = program,
         NEW p \in Callers, InjectFault(p)
  PROVE  Met'
<1>1. /\ Persistent' = Persistent /\ FaultAttempts' = FaultAttempts /\ Callers' = Callers
  BY DEF Persistent, FaultAttempts, Callers
<1>2. /\ pc[p] = "fetch" /\ number[p] <= FaultAttempts /\ number' = number
      /\ faults' = faults + 1 /\ reserved' = reserved
      /\ pc' = [pc EXCEPT ![p] = "decide"]
  BY DEF InjectFault, faultApplies, Fails, goto
<1>3. Facing' = Facing \ {p} /\ Counted' = Counted /\ p \in Facing
  BY <1>1, <1>2, Readers DEF Facing, Counted, Typed
<1>4. Facing \subseteq Callers /\ Counted \subseteq Callers
  BY DEF Facing, Counted
<1>5. Cardinality(Facing') = Cardinality(Facing) - 1
  BY <1>3, <1>4, Readers, FS_RemoveElement
<1>6. Cardinality(Facing) \in Nat /\ faults \in Nat
  BY <1>4, Readers DEF Typed
<1>7. faults' + Cardinality(Facing') = faults + Cardinality(Facing)
  BY <1>2, <1>5, <1>6
<1> QED
  BY <1>1, <1>2, <1>3, <1>7 DEF Met

LEMMA AppendMeets ==
  ASSUME ReadAssumption, Typed, Met, program' = program,
         NEW p \in Callers, AppendAttempt(p)
  PROVE  Met'
<1>1. /\ Persistent' = Persistent /\ FaultAttempts' = FaultAttempts /\ Callers' = Callers
  BY DEF Persistent, FaultAttempts, Callers
<1>2. /\ pc[p] = "append" /\ number' = number /\ faults' = faults
      /\ pc' = [pc EXCEPT ![p] = "fetch"]
  BY DEF AppendAttempt, goto, work
<1>3. Facing \subseteq Callers /\ Counted \subseteq Callers /\ p \notin Facing
  BY <1>2 DEF Facing, Counted
<1>4. SUFFICES ASSUME Persistent
      PROVE /\ faults + Cardinality(Facing') <= reserved'["file"]
            /\ reserved'["file"] >= FaultAttempts =>
                 faults + Cardinality(Facing') + Cardinality(Counted')
                   <= FaultAttempts + Cardinality(Callers) - 1
  BY <1>1, <1>2 DEF Met
<1>5. reserved'["file"] = reserved["file"] + 1
  BY <1>4 DEF AppendAttempt, StoreOf, Stores, Typed
<1>6. /\ faults \in Nat /\ reserved["file"] \in Nat /\ FaultAttempts \in Nat
      /\ Cardinality(Callers) \in Nat /\ Cardinality(Callers) >= 1
      /\ Cardinality(Facing) \in Nat /\ Cardinality(Counted) \in Nat
  BY <1>3, <1>4, Readers DEF Typed
<1>7. Counted' = Counted \ {p}
  BY <1>1, <1>2, Readers DEF Counted, Typed
<1>8. faults + Cardinality(Facing) <= reserved["file"]
  BY <1>4 DEF Met
<1>9. Cardinality(Counted') <= Cardinality(Callers) - 1 /\ Cardinality(Counted') \in Nat
  <2>1. Counted' \subseteq Callers \ {p} /\ Callers \ {p} \subseteq Callers
    BY <1>3, <1>7
  <2> QED
    BY <2>1, Readers
<1>10. CASE number[p] <= FaultAttempts
  <2>1. Facing' = Facing \cup {p} /\ p \in Counted
    BY <1>1, <1>2, <1>10, Readers DEF Facing, Counted, Typed
  <2>2. Cardinality(Facing') = Cardinality(Facing) + 1
    BY <1>3, <2>1, Readers, FS_AddElement
  <2>3. Cardinality(Counted') = Cardinality(Counted) - 1
    BY <1>3, <1>7, <2>1, Readers, FS_RemoveElement
  <2>4. CASE reserved["file"] >= FaultAttempts
    <3>1. faults + Cardinality(Facing) + Cardinality(Counted)
            <= FaultAttempts + Cardinality(Callers) - 1
      BY <1>4, <2>4 DEF Met
    <3> QED
      BY <1>5, <1>6, <1>8, <2>2, <2>3, <3>1
  <2>5. CASE reserved["file"] < FaultAttempts
    BY <1>5, <1>6, <1>8, <1>9, <2>2, <2>5
  <2> QED
    BY <1>6, <2>4, <2>5
<1>11. CASE ~(number[p] <= FaultAttempts)
  <2>1. Facing' = Facing /\ p \notin Counted
    BY <1>1, <1>2, <1>11, Readers DEF Facing, Counted, Typed
  <2>2. Counted' = Counted
    BY <1>7, <2>1
  <2>4. CASE reserved["file"] >= FaultAttempts
    <3>1. faults + Cardinality(Facing) + Cardinality(Counted)
            <= FaultAttempts + Cardinality(Callers) - 1
      BY <1>4, <2>4 DEF Met
    <3> QED
      BY <1>5, <1>6, <1>8, <2>1, <2>2, <3>1
  <2>5. CASE reserved["file"] < FaultAttempts
    BY <1>5, <1>6, <1>8, <1>9, <2>1, <2>5
  <2> QED
    BY <1>6, <2>4, <2>5
<1> QED
  BY <1>10, <1>11

LEMMA MetStep ==
  ASSUME ReadAssumption, Typed, Met, [Next]_vars
  PROVE  Met'
<1>0. /\ program' = program
      /\ Callers' = Callers /\ FaultAttempts' = FaultAttempts
      /\ \A p \in Callers : p \in AllCallers
      /\ pc \in [AllCallers -> Steps]
      /\ \A p \in Callers : number[p] \in Nat
  BY TypedStep, Readers DEF Callers, FaultAttempts, Typed
(* A step that takes its reader neither to the append nor to the fetch.     *)
<1>1. ASSUME NEW p \in Callers, NEW step, step \notin {"append", "fetch"}, goto(p, step),
             number' = number, faults' = faults,
             Persistent => reserved'["file"] = reserved["file"]
      PROVE  Met'
  <2>1. Facing' \subseteq Facing /\ Counted' \subseteq Counted
    BY <1>0, <1>1 DEF goto, Facing, Counted
  <2> QED
    BY <1>0, <1>1, <2>1, FewerMeet
<1>2. ASSUME NEW p \in Callers, BeginCall(p) PROVE Met'
  BY <1>1, <1>2 DEF BeginCall, work
<1>3. ASSUME NEW p \in Callers, FindRun(p) PROVE Met'
  BY <1>1, <1>3 DEF FindRun, work
<1>4. ASSUME NEW p \in Callers, ReadMark(p) PROVE Met'
  <2>1. PICK step \in {"call", "publish"} : goto(p, step)
    BY <1>4 DEF ReadMark
  <2> QED
    BY <1>1, <1>4, <2>1 DEF ReadMark, work
<1>5. ASSUME NEW p \in Callers, IssueCall(p) PROVE Met'
  BY <1>1, <1>5 DEF IssueCall, work
<1>6. ASSUME NEW p \in Callers, CountAttempts(p) PROVE Met'
  <2>1. /\ pc' = [pc EXCEPT ![p] = "append"] /\ faults' = faults /\ reserved' = reserved
        /\ number' = [number EXCEPT ![p] = reserved[StoreOf(p)] + 1]
    BY <1>6 DEF CountAttempts, goto, work
  <2>2. Facing' \subseteq Facing
    BY <1>0, <2>1 DEF Facing, Typed
  <2>3. ASSUME Persistent, reserved["file"] >= FaultAttempts PROVE Counted' \subseteq Counted
    <3>1. number'[p] = reserved["file"] + 1
      BY <1>0, <2>1, <2>3 DEF StoreOf, Typed
    <3>2. ~(number'[p] <= FaultAttempts)
      BY <2>3, <3>1, Readers
    <3>3. \A q \in Callers : q # p => pc'[q] = pc[q] /\ number'[q] = number[q]
      BY <1>0, <2>1 DEF Typed
    <3> QED
      BY <1>0, <3>2, <3>3 DEF Counted
  <2> QED
    BY <1>0, <2>1, <2>2, <2>3, FewerMeet
<1>7. ASSUME NEW p \in Callers, AppendAttempt(p) PROVE Met'
  BY <1>0, <1>7, AppendMeets
<1>8. ASSUME NEW p \in Callers, InjectFault(p) PROVE Met'
  BY <1>0, <1>8, InjectMeets
<1>9. ASSUME NEW p \in Callers, Fetch(p) PROVE Met'
  <2>1. PICK step \in {"publish", "decide", "idle"} : goto(p, step)
    BY <1>9 DEF Fetch, Reads, Fails, Abandon
  <2> QED
    BY <1>1, <1>9, <2>1 DEF Fetch
<1>10. ASSUME NEW p \in Callers, Decide(p) PROVE Met'
  <2>1. PICK step \in {"call", "publish"} : goto(p, step)
    BY <1>10 DEF Decide
  <2> QED
    BY <1>1, <1>10, <2>1 DEF Decide, work
<1>11. ASSUME NEW p \in Callers, Publish(p) PROVE Met'
  BY <1>1, <1>11 DEF Publish, work
<1>12. ASSUME WorkerStores PROVE Met'
  <2>1. pc' = pc /\ number' = number /\ faults' = faults /\ reserved' = reserved
    BY <1>12 DEF WorkerStores, call, work
  <2>2. Facing' = Facing /\ Counted' = Counted
    BY <1>0, <2>1 DEF Facing, Counted
  <2> QED
    BY <1>0, <2>1, <2>2, FewerMeet
<1>13. ASSUME NEW p \in Callers, Crash(p) PROVE Met'
  BY <1>1, <1>13 DEF Crash, Abandon, work
<1>14. CASE UNCHANGED vars
  <2>1. pc' = pc /\ number' = number /\ faults' = faults /\ reserved' = reserved
    BY <1>14 DEF vars, call, work
  <2>2. Facing' = Facing /\ Counted' = Counted
    BY <1>0, <2>1 DEF Facing, Counted
  <2> QED
    BY <1>0, <2>1, <2>2, FewerMeet
<1> QED
  BY <1>2, <1>3, <1>4, <1>5, <1>6, <1>7, <1>8, <1>9, <1>10, <1>11, <1>12, <1>13, <1>14
     DEF Next, Step

(* The Controlled Fault is per logical operation: with an attempt file,      *)
(* however many calls, readers, crashes and retries it takes, it strikes its *)
(* number of attempts and at most once more for each further reader          *)
(* (AttemptStore.reserve, ControlledFault.applies_to).                       *)
THEOREM FaultIsBounded == ReadAssumption => (Spec => []FaultsBounded)
<1> SUFFICES ASSUME ReadAssumption PROVE Spec => []FaultsBounded
  OBVIOUS
<1>1. Init => Met
  <2> SUFFICES ASSUME Init PROVE Met
    OBVIOUS
  <2>1. Typed
    BY TypedInit
  <2>2. Facing = {} /\ Counted = {} /\ faults = 0
    BY <2>1, Readers DEF Init, Facing, Counted
  <2>3. Persistent => reserved["file"] = 0
    BY DEF Init, Stores
  <2>4. Cardinality(Callers) \in Nat /\ Cardinality(Callers) >= 1 /\ FaultAttempts \in Nat
    BY <2>1, Readers
  <2>5. Cardinality({}) = 0
    BY FS_EmptySet
  <2> QED
    BY <2>2, <2>3, <2>4, <2>5 DEF Met
<1>2. Typed /\ Met /\ [Next]_vars => Met'
  BY MetStep
<1>3. Typed /\ Met => FaultsBounded
  <2> SUFFICES ASSUME Typed, Met, Persistent
               PROVE  faults <= FaultAttempts + Cardinality(Callers) - 1
    BY DEF FaultsBounded
  <2>1. /\ Cardinality(Callers) \in Nat /\ Cardinality(Callers) >= 1 /\ FaultAttempts \in Nat
        /\ reserved["file"] \in Nat /\ faults \in Nat
        /\ Cardinality(Facing) \in Nat /\ Cardinality(Counted) \in Nat
    BY Readers DEF Typed, Facing, Counted
  <2> QED
    BY <2>1 DEF Met
<1> QED
  BY <1>1, <1>2, <1>3, ReadTypes, PTL DEF Spec

----------------------------------------------------------------------------
(* The evidence is one whole reading.  First, what a reader has batched.     *)

Reading == {"call", "reserve", "append", "fetch", "decide"}

Shaped ==
  \A p \in Callers :
    /\ pc[p] \in {"find", "mark"} => Buffered /\ batch[p] = <<>>
    /\ pc[p] \in Reading /\ (Buffered => mark[p] = 0) => Opened(batch[p])
    /\ pc[p] = "publish" /\ (Buffered => mark[p] = 0) => Whole(batch[p])

LEMMA EmptyJoined == \A e \in Seq(Sound) : <<>> \o e = e
BY ConcatEmptySeq

(* A reader that moves to a step with a batch of that step's shape.         *)
LEMMA MovedShape ==
  ASSUME Typed, ReadAssumption, Shaped, program' = program, NEW p \in Callers,
         \A q \in Callers \ {p} : pc'[q] = pc[q] /\ batch'[q] = batch[q] /\ mark'[q] = mark[q],
         pc'[p] \in {"find", "mark"} => Buffered /\ batch'[p] = <<>>,
         pc'[p] \in Reading /\ (Buffered => mark'[p] = 0) => Opened(batch'[p]),
         pc'[p] = "publish" /\ (Buffered => mark'[p] = 0) => Whole(batch'[p])
  PROVE  Shaped'
<1>1. Callers' = Callers /\ Buffered' = Buffered
  BY DEF Callers, Buffered
<1>2. \A q \in Callers \ {p} :
        /\ pc'[q] \in {"find", "mark"} => Buffered /\ batch'[q] = <<>>
        /\ pc'[q] \in Reading /\ (Buffered => mark'[q] = 0) => Opened(batch'[q])
        /\ pc'[q] = "publish" /\ (Buffered => mark'[q] = 0) => Whole(batch'[q])
  BY DEF Shaped
<1> QED
  BY <1>1, <1>2 DEF Shaped

LEMMA EmittedMid ==
  ASSUME Typed, ReadAssumption, Shaped, program' = program, NEW p \in Callers,
         NEW events, Mid(events), Emit(p, events), pc[p] \in Reading,
         NEW step \in Reading, goto(p, step), mark' = mark
  PROVE  Shaped'
<1>0. p \in AllCallers /\ Callers \subseteq AllCallers
  BY Program DEF Typed
<1>1. /\ pc'[p] = step /\ batch'[p] = batch[p] \o events
      /\ \A q \in Callers \ {p} : pc'[q] = pc[q] /\ batch'[q] = batch[q]
  BY <1>0 DEF goto, Emit, Typed
<1>2. (Buffered => mark'[p] = 0) => Opened(batch'[p])
  BY <1>1, OpenedMid DEF Shaped
<1>3. step \notin {"find", "mark"} /\ step # "publish"
  BY DEF Reading
<1> QED
  BY <1>1, <1>2, <1>3, MovedShape

LEMMA EmittedClosing ==
  ASSUME Typed, ReadAssumption, Shaped, program' = program, NEW p \in Callers,
         NEW events, Closing(events), Emit(p, events), pc[p] \in Reading,
         goto(p, "publish"), mark' = mark
  PROVE  Shaped'
<1>0. p \in AllCallers /\ Callers \subseteq AllCallers
  BY Program DEF Typed
<1>1. /\ pc'[p] = "publish" /\ batch'[p] = batch[p] \o events
      /\ \A q \in Callers \ {p} : pc'[q] = pc[q] /\ batch'[q] = batch[q]
  BY <1>0 DEF goto, Emit, Typed
<1>2. (Buffered => mark'[p] = 0) => Whole(batch'[p])
  BY <1>1, OpenedClosing DEF Shaped
<1> QED
  BY <1>1, <1>2, MovedShape DEF Reading

LEMMA ShapedStep ==
  ASSUME ReadAssumption, Typed, Shaped, [Next]_vars
  PROVE  Shaped'
<1>0. /\ program' = program /\ Callers \subseteq AllCallers
      /\ pc \in [AllCallers -> Steps] /\ batch \in [AllCallers -> Seq(Sound)]
      /\ mark \in [AllCallers -> Nat]
  BY TypedStep, Program DEF Typed
<1>1. ASSUME NEW p \in Callers, BeginCall(p) PROVE Shaped'
  <2>1. CASE Buffered
    <3>1. /\ pc'[p] = "find" /\ batch'[p] = <<>>
          /\ \A q \in Callers \ {p} : pc'[q] = pc[q] /\ batch'[q] = batch[q] /\ mark'[q] = mark[q]
      BY <1>0, <1>1, <2>1 DEF BeginCall, goto
    <3> QED
      BY <1>0, <2>1, <3>1, MovedShape DEF Reading
  <2>2. CASE ~Buffered
    <3>1. /\ pc'[p] = "call" /\ batch'[p] = Prelude
          /\ \A q \in Callers \ {p} : pc'[q] = pc[q] /\ batch'[q] = batch[q] /\ mark'[q] = mark[q]
      BY <1>0, <1>1, <2>2 DEF BeginCall, goto
    <3> QED
      BY <1>0, <2>2, <3>1, StartParts, MovedShape
  <2> QED
    BY <2>1, <2>2
<1>2. ASSUME NEW p \in Callers, FindRun(p) PROVE Shaped'
  <2>1. /\ pc[p] = "find" /\ pc'[p] \in {"mark", "idle"} /\ batch' = batch /\ mark' = mark
        /\ \A q \in Callers \ {p} : pc'[q] = pc[q]
    BY <1>0, <1>2 DEF FindRun, goto
  <2>2. Buffered /\ batch'[p] = <<>>
    BY <2>1 DEF Shaped
  <2> QED
    BY <1>0, <2>1, <2>2, MovedShape DEF Reading
<1>3. ASSUME NEW p \in Callers, ReadMark(p) PROVE Shaped'
  <2>1. PICK high \in {0, highWaterMark}, allowed \in BOOLEAN :
          LET start   == IF high = 0 THEN <<Ev("run_start", "live", "")>> ELSE <<>>
              refusal == <<Ev("tool_result", "live", "refused")>> \o Close("failed")
          IN /\ mark' = [mark EXCEPT ![p] = high]
             /\ Emit(p, IF allowed THEN start ELSE start \o refusal)
             /\ goto(p, IF allowed THEN "call" ELSE "publish")
    BY <1>3 DEF ReadMark
  <2> DEFINE start   == IF high = 0 THEN <<Ev("run_start", "live", "")>> ELSE <<>>
             refusal == <<Ev("tool_result", "live", "refused")>> \o Close("failed")
             said    == IF allowed THEN start ELSE start \o refusal
  <2>2. Buffered /\ batch[p] = <<>>
    BY <1>3 DEF ReadMark, Shaped
  <2>3. start \in Seq(Sound) /\ refusal \in Seq(Sound)
    BY StartParts, ReadsParts, EmptySeq DEF Opened, Closing
  <2>4. high = 0 => Opened(start)
    BY StartParts
  <2>5. Closing(refusal)
    BY ReadsParts
  <2>6. Emit(p, said) /\ mark' = [mark EXCEPT ![p] = high]
        /\ goto(p, IF allowed THEN "call" ELSE "publish")
    BY <2>1
  <2> HIDE DEF start, refusal
  <2>7. said \in Seq(Sound)
    BY <2>3, Joined
  <2>8. /\ batch'[p] = said /\ mark'[p] = high
        /\ \A q \in Callers \ {p} : pc'[q] = pc[q] /\ batch'[q] = batch[q] /\ mark'[q] = mark[q]
    <3> HIDE DEF said
    <3> QED
      BY <1>0, <2>2, <2>6, <2>7, EmptyJoined DEF Emit, goto
  <2>9. CASE allowed
    <3>1. pc'[p] = "call" /\ said = start
      BY <1>0, <2>6, <2>9 DEF goto
    <3> QED
      BY <1>0, <2>2, <2>4, <2>8, <3>1, MovedShape
  <2>10. CASE ~allowed
    <3>1. pc'[p] = "publish" /\ said = start \o refusal
      BY <1>0, <2>6, <2>10 DEF goto
    <3>2. high = 0 => Whole(start \o refusal)
      BY <2>4, <2>5, OpenedClosing
    <3>3. \A q \in Callers \ {p} : pc'[q] = pc[q] /\ batch'[q] = batch[q] /\ mark'[q] = mark[q]
      BY <2>8
    <3>4. mark'[p] = 0 => Whole(batch'[p])
      BY <2>8, <3>1, <3>2
    <3> QED
      BY <1>0, <2>2, <3>1, <3>3, <3>4, MovedShape DEF Reading
  <2> QED
    BY <2>9, <2>10
<1>4. ASSUME NEW p \in Callers, IssueCall(p) PROVE Shaped'
  <2>1. reserved[StoreOf(p)] + 1 \in Nat
    <3>1. reserved \in [Stores -> Nat] /\ program \in Programs
      BY DEF Typed
    <3>2. StoreOf(p) \in Stores
      BY <3>1, Program
    <3> QED
      BY <3>1, <3>2
  <2>2. Mid(<<CallEv(Claimed, reserved[StoreOf(p)] + 1)>>)
    BY <2>1, MidParts
  <2> QED
    BY <1>0, <1>4, <2>2, EmittedMid DEF IssueCall, Reading
<1>5. ASSUME NEW p \in Callers, NEW step \in Reading, pc[p] \in Reading, goto(p, step),
             batch' = batch, mark' = mark
      PROVE  Shaped'
  <2>1. pc'[p] = step /\ \A q \in Callers \ {p} : pc'[q] = pc[q]
    BY <1>0, <1>5 DEF goto
  <2>2. (Buffered => mark'[p] = 0) => Opened(batch'[p])
    BY <1>5 DEF Shaped
  <2>3. step \notin {"find", "mark", "publish"}
    BY DEF Reading
  <2> QED
    BY <1>0, <1>5, <2>1, <2>2, <2>3, MovedShape
<1>6. ASSUME NEW p \in Callers, CountAttempts(p) PROVE Shaped'
  BY <1>5, <1>6 DEF CountAttempts, Reading
<1>7. ASSUME NEW p \in Callers, AppendAttempt(p) PROVE Shaped'
  BY <1>5, <1>7 DEF AppendAttempt, Reading
<1>8. ASSUME NEW p \in Callers, pc[p] = "fetch", NEW f \in Failures, Fails(p, f), mark' = mark PROVE Shaped'
  <2>1. Mid(<<Ev("tool_result", f.truth, "failed"), Ev("incident", f.truth, "")>>)
    BY MidParts DEF Failures
  <2> QED
    BY <1>0, <1>8, <2>1, EmittedMid DEF Fails, Reading
<1>9. ASSUME NEW p \in Callers, InjectFault(p) PROVE Shaped'
  <2>1. [truth |-> "controlled_fault", retryable |-> TRUE] \in Failures
    BY DEF Failures, Truths
  <2> QED
    BY <1>8, <1>9, <2>1 DEF InjectFault
<1>10. ASSUME NEW p \in Callers, batch'[p] = <<>>, goto(p, "idle"), mark' = mark,
              \A q \in Callers \ {p} : batch'[q] = batch[q]
       PROVE  Shaped'
  <2>1. pc'[p] = "idle" /\ \A q \in Callers \ {p} : pc'[q] = pc[q]
    BY <1>0, <1>10 DEF goto
  <2> QED
    BY <1>0, <1>10, <2>1, MovedShape DEF Reading
<1>11. ASSUME NEW p \in Callers, Abandon(p), mark' = mark PROVE Shaped'
  BY <1>0, <1>10, <1>11 DEF Abandon
<1>12. ASSUME NEW p \in Callers, Fetch(p) PROVE Shaped'
  <2>1. CASE Reads(p)
    BY <1>0, <1>12, <2>1, ReadsParts, EmittedClosing DEF Fetch, Reads, Reading
  <2>2. ASSUME NEW again \in BOOLEAN, Fails(p, [truth |-> "live", retryable |-> again])
        PROVE  Shaped'
    <3>1. [truth |-> "live", retryable |-> again] \in Failures
      BY DEF Failures, Truths
    <3> QED
      BY <1>8, <1>12, <2>2, <3>1 DEF Fetch
  <2>3. CASE Abandon(p)
    BY <1>11, <1>12, <2>3 DEF Fetch
  <2> QED
    BY <1>12, <2>1, <2>2, <2>3 DEF Fetch
<1>13. ASSUME NEW p \in Callers, Decide(p) PROVE Shaped'
  <2> DEFINE outcome == decide(failure[p], retries[p])
             asked   == <<Ev("intervention", Claimed, outcome)>>
  <2>1. outcome \in {"retry_once", "refuse_not_retryable", "refuse_budget_exhausted"}
    BY DEF decide
  <2> HIDE DEF outcome
  <2>2. CASE outcome = "retry_once"
    <3>1. Emit(p, asked) /\ goto(p, "call") /\ mark' = mark /\ pc[p] = "decide"
      BY <1>13, <2>2 DEF Decide, outcome
    <3>2. Mid(asked)
      BY <2>1, MidParts
    <3> QED
      BY <1>0, <3>1, <3>2, EmittedMid DEF Reading
  <2>3. CASE outcome # "retry_once"
    <3>1. Emit(p, asked \o Close("failed")) /\ goto(p, "publish") /\ mark' = mark /\ pc[p] = "decide"
      BY <1>13, <2>3 DEF Decide, outcome
    <3>2. Closing(asked \o Close("failed"))
      BY <2>1, <2>3, ReadsParts
    <3> QED
      BY <1>0, <3>1, <3>2, EmittedClosing DEF Reading
  <2> QED
    BY <2>2, <2>3
<1>14. ASSUME NEW p \in Callers, Publish(p) PROVE Shaped'
  <2>1. pc'[p] = "idle" /\ batch' = batch /\ mark' = mark /\ \A q \in Callers \ {p} : pc'[q] = pc[q]
    BY <1>0, <1>14 DEF Publish, goto
  <2> QED
    BY <1>0, <2>1, MovedShape DEF Reading
<1>15. ASSUME NEW p \in Callers, Crash(p) PROVE Shaped'
  BY <1>11, <1>15 DEF Crash
<1>16. ASSUME pc' = pc, batch' = batch, mark' = mark PROVE Shaped'
  BY <1>0, <1>16 DEF Shaped, Callers, Buffered
<1>17. ASSUME WorkerStores PROVE Shaped'
  BY <1>16, <1>17 DEF WorkerStores, call
<1>18. CASE UNCHANGED vars
  BY <1>16, <1>18 DEF vars, call
<1> QED
  BY <1>1, <1>2, <1>3, <1>4, <1>6, <1>7, <1>9, <1>12, <1>13, <1>14, <1>15, <1>17, <1>18
     DEF Next, Step

----------------------------------------------------------------------------
(* Then, what the API has stored.                                           *)

(* The evidence of an ended run, of a log and a result.                     *)
Proven(log, result) ==
  LET high == IF DOMAIN log = {} THEN 0 ELSE Max(DOMAIN log) IN
  /\ DOMAIN log = 1..high
  /\ \A i \in DOMAIN log : log[i].kind = "run_start" <=> i = 1
  /\ \A i \in DOMAIN log : log[i].kind = "run_end" => i = high /\ log[i].says = result
  /\ result = "succeeded" =>
       \E i \in DOMAIN log : log[i].kind = "tool_result" /\ log[i].says = "ok"

Copies(log, b) == DOMAIN log = 1..Len(b) /\ \A i \in DOMAIN log : log[i] = b[i]

LEMMA HighOfCopy ==
  ASSUME NEW n \in Nat, n >= 1
  PROVE  1..n # {} /\ Max(1..n) = n
<1>1. 1..n \subseteq 1..n /\ n \in 1..n /\ 1..n # {}
  OBVIOUS
<1>2. Max(1..n) \in 1..n /\ \A j \in 1..n : j <= Max(1..n)
  BY <1>1, LastPosition
<1>3. n <= Max(1..n) /\ Max(1..n) <= n /\ Max(1..n) \in Nat
  BY <1>1, <1>2
<1> QED
  BY <1>1, <1>3

LEMMA WholeIsProven ==
  ASSUME NEW log, NEW b, Copies(log, b), Whole(b)
  PROVE  Proven(log, b[Len(b)].says)
<1>1. Len(b) \in Nat /\ Len(b) >= 1
  BY LenProperties DEF Whole
<1>2. DOMAIN log # {} /\ Max(DOMAIN log) = Len(b)
  BY <1>1, HighOfCopy DEF Copies
<1> QED
  BY <1>2 DEF Proven, Copies, Whole

LEMMA OpenedIsProven ==
  ASSUME NEW log, NEW b, Copies(log, b), Opened(b)
  PROVE  Proven(log, "failed")
<1>1. Len(b) \in Nat /\ Len(b) >= 1
  BY LenProperties DEF Opened
<1>2. DOMAIN log # {} /\ Max(DOMAIN log) = Len(b)
  BY <1>1, HighOfCopy DEF Copies
<1> QED
  BY <1>2 DEF Proven, Copies, Opened

(* What an accepted run_end does to the run.                                *)
LEMMA IngestVerdict ==
  ASSUME LedgerTyped, NEW from \in Nat, NEW events \in Seq(Sound),
         Ingest(Numbered(from, events)),
         DOMAIN ledger \cap ((from + 1)..(from + Len(events))) = {}
  PROVE  /\ (\A i \in 1..Len(events) : events[i].kind # "run_end") => ended' = ended
         /\ Len(events) >= 1 /\ (\A i \in 1..Len(events) : events[i].kind = "run_end" <=> i = Len(events))
              => ended' = events[Len(events)].says
<1> DEFINE items == Numbered(from, events)
           new   == DOMAIN items \ DOMAIN ledger
           ends  == {i \in new : items[i].kind = "run_end"}
<1>1. Len(events) \in Nat
  BY LenProperties
<1>2. DOMAIN items = (from + 1)..(from + Len(events))
  BY DEF Numbered
<1>3. \A i \in DOMAIN items : i - from \in 1..Len(events) /\ i = from + (i - from)
                              /\ items[i] = events[i - from]
  <2>1. \A i \in (from + 1)..(from + Len(events)) :
          i - from \in 1..Len(events) /\ i = from + (i - from)
    BY <1>1
  <2> QED
    BY <1>2, <2>1 DEF Numbered
<1> HIDE DEF items
<1>4. new = DOMAIN items
  BY <1>2
<1>5. ended' = IF ends = {} THEN ended ELSE items[Max(ends)].says
  BY DEF Ingest, items
<1>6. ASSUME \A i \in 1..Len(events) : events[i].kind # "run_end" PROVE ended' = ended
  BY <1>3, <1>4, <1>5, <1>6
<1>7. ASSUME Len(events) >= 1,
             \A i \in 1..Len(events) : events[i].kind = "run_end" <=> i = Len(events)
      PROVE  ended' = events[Len(events)].says
  <2> DEFINE last == from + Len(events)
  <2>1. last \in DOMAIN items /\ last - from = Len(events) /\ last \in Nat
    BY <1>1, <1>2, <1>7
  <2>2. ends = {last}
    <3>1. Len(events) \in 1..Len(events)
      BY <1>1, <1>7
    <3>2. items[last].kind = "run_end"
      BY <1>3, <1>7, <2>1, <3>1
    <3>3. \A i \in DOMAIN items : items[i].kind = "run_end" => i = last
      BY <1>3, <1>7
    <3> QED
      BY <1>4, <2>1, <3>2, <3>3
  <2>3. Max(ends) = last
    BY <2>1, <2>2 DEF Max
  <2>4. ended' = items[last].says
    BY <1>5, <2>2, <2>3
  <2> QED
    BY <1>3, <2>1, <2>4
<1> QED
  BY <1>6, <1>7

Stored(t) == t.at \in DOMAIN ledger /\ ledger[t.at] = t.event

(* The MCP servers, while no worker writes: nothing is stored until a whole  *)
(* reading is, and then the run has ended and takes nothing more.            *)
Posted ==
  Buffered /\ working = 0 =>
    /\ ended = "open" =>
         /\ ledger = <<>>
         /\ \A p \in Callers : pc[p] \notin {"idle", "find", "mark"} => mark[p] = 0
    /\ TakenIsStored
    /\ ended # "open" /\ ledger # <<>> => Proven(ledger, ended)

(* The pure worker: one reading, stored as it is made.                      *)
Printed ==
  ~Buffered =>
    /\ working = 0
    /\ calls = 0 => ended = "open" /\ ledger = <<>> /\ \A p \in Callers : pc[p] = "idle"
    /\ \A p, q \in Callers : pc[p] # "idle" /\ pc[q] # "idle" => p = q
    /\ \A p \in Callers : pc[p] # "idle" => Copies(ledger, batch[p])
    /\ \A p \in Callers : pc[p] \in Reading => ended = "open"
    /\ \A p \in Callers : pc[p] = "publish" => ended = batch[p][Len(batch[p])].says
    /\ \A p \in Callers : pc[p] \in Reading /\ retries[p] > 0 => HasIntervention
    /\ TakenIsStored
    /\ ended # "open" /\ ledger # <<>> => Proven(ledger, ended)

(* Nothing a batch brings is lost where its numbers are free.               *)
LEMMA FreeIsStored ==
  ASSUME LedgerTyped, NEW from \in Nat, NEW events \in Seq(Sound),
         Ingest(Numbered(from, events)), TakenIsStored,
         DOMAIN ledger \cap ((from + 1)..(from + Len(events))) = {}
  PROVE  TakenIsStored'
<1> DEFINE items == Numbered(from, events)
<1>1. /\ DOMAIN items = (from + 1)..(from + Len(events))
      /\ DOMAIN ledger' = DOMAIN ledger \cup DOMAIN items
      /\ \A i \in DOMAIN ledger : ledger'[i] = ledger[i]
      /\ \A i \in DOMAIN items \ DOMAIN ledger : ledger'[i] = items[i]
      /\ told' = told \cup {[at |-> i, event |-> items[i]] : i \in DOMAIN items}
  BY IngestParts
<1> HIDE DEF items
<1>2. \A i \in DOMAIN items : i \notin DOMAIN ledger
  BY <1>1
<1>3. ASSUME NEW t \in told PROVE t.at \in DOMAIN ledger' /\ ledger'[t.at] = t.event
  BY <1>1, <1>3 DEF TakenIsStored
<1>4. ASSUME NEW i \in DOMAIN items PROVE i \in DOMAIN ledger' /\ ledger'[i] = items[i]
  BY <1>1, <1>2
<1> QED
  BY <1>1, <1>3, <1>4 DEF TakenIsStored

LEMMA PublishPosts ==
  ASSUME ReadAssumption, Typed, Shaped, Posted, program' = program,
         Buffered, working = 0, NEW p \in Callers, Publish(p)
  PROVE  Posted'
<1>0. /\ p \in AllCallers /\ Callers \subseteq AllCallers /\ batch[p] \in Seq(Sound) /\ LedgerTyped
      /\ Callers' = Callers /\ Buffered' = Buffered
  BY Program DEF Typed, Callers, Buffered
<1>1. working' = working /\ mark' = mark /\ pc[p] = "publish"
      /\ \A q \in Callers : pc'[q] = pc[q] \/ pc'[q] = "idle"
  BY <1>0 DEF Publish, goto, Typed
<1>2. ASSUME UNCHANGED api PROVE Posted'
  <2>1. ledger' = ledger /\ ended' = ended /\ told' = told
    BY <1>2 DEF api
  <2> QED
    BY <1>0, <1>1, <2>1 DEF Posted, TakenIsStored
<1>3. ASSUME ended = "open", Ingest(Numbered(mark[p], batch[p])) PROVE Posted'
  <2>1. ledger = <<>> /\ mark[p] = 0 /\ TakenIsStored
    BY <1>1, <1>3 DEF Posted
  <2>2. Whole(batch[p])
    BY <1>1, <2>1 DEF Shaped
  <2>3. DOMAIN ledger = {} /\ 0 \in Nat
    BY <2>1
  <2>4. Ingest(Numbered(0, batch[p]))
    BY <1>3, <2>1
  <2>5. DOMAIN ledger \cap ((0 + 1)..(0 + Len(batch[p]))) = {}
    BY <2>3
  <2>6. ended' = batch[p][Len(batch[p])].says
    BY <1>0, <2>2, <2>3, <2>4, <2>5, IngestVerdict DEF Whole
  <2>7. TakenIsStored'
    BY <1>0, <2>1, <2>3, <2>4, <2>5, FreeIsStored
  <2>8. Copies(ledger', batch[p])
    <3> DEFINE items == Numbered(0, batch[p])
    <3>1. /\ DOMAIN items = (0 + 1)..(0 + Len(batch[p])) /\ Len(batch[p]) \in Nat
          /\ \A i \in 1..Len(batch[p]) : items[0 + i] = batch[p][i]
          /\ DOMAIN ledger' = DOMAIN ledger \cup DOMAIN items
          /\ \A i \in DOMAIN items \ DOMAIN ledger : ledger'[i] = items[i]
      BY <1>0, <2>3, <2>4, IngestParts
    <3> HIDE DEF items
    <3>2. DOMAIN ledger' = 1..Len(batch[p]) /\ DOMAIN items = 1..Len(batch[p])
      BY <2>3, <3>1
    <3>3. \A i \in 1..Len(batch[p]) : 0 + i = i
      BY <3>1
    <3> QED
      BY <2>3, <3>1, <3>2, <3>3 DEF Copies
  <2>9. Proven(ledger', ended')
    BY <2>2, <2>6, <2>8, WholeIsProven
  <2>10. ended' # "open"
    <3>1. Len(batch[p]) \in Nat /\ Len(batch[p]) >= 1
      BY <1>0, <2>2, LenProperties DEF Whole
    <3>2. batch[p][Len(batch[p])] \in Sound /\ batch[p][Len(batch[p])].kind = "run_end"
      BY <1>0, <2>2, <3>1, ElementOfSeq DEF Whole
    <3> QED
      BY <2>6, <3>2 DEF Sound
  <2> QED
    BY <2>7, <2>9, <2>10 DEF Posted
<1> QED
  BY <1>2, <1>3 DEF Publish

LEMMA PostedStep ==
  ASSUME ReadAssumption, Typed, Shaped, Posted, [Next]_vars
  PROVE  Posted'
<1>0. /\ program' = program /\ Callers \subseteq AllCallers
      /\ pc \in [AllCallers -> Steps] /\ mark \in [AllCallers -> Nat]
      /\ Callers' = Callers /\ Buffered' = Buffered
  BY TypedStep, Program DEF Typed, Callers, Buffered
<1> SUFFICES ASSUME Buffered PROVE Posted'
  BY <1>0 DEF Posted
(* A step of a reader that stores nothing and leaves its mark alone.        *)
<1>1. ASSUME NEW p \in Callers, NEW step, goto(p, step), mark' = mark, UNCHANGED api, working' = working,
             step \notin {"idle", "find", "mark"} => pc[p] \notin {"idle", "find", "mark"}
      PROVE  Posted'
  <2>1. ledger' = ledger /\ ended' = ended /\ told' = told
    BY <1>1 DEF api
  <2>2. \A q \in Callers : pc'[q] \notin {"idle", "find", "mark"}
                             => pc[q] \notin {"idle", "find", "mark"}
    BY <1>0, <1>1 DEF goto
  <2> QED
    BY <1>0, <1>1, <2>1, <2>2 DEF Posted, TakenIsStored
<1>2. ASSUME NEW p \in Callers, BeginCall(p) PROVE Posted'
  <2>1. goto(p, "find") /\ mark' = mark /\ UNCHANGED api /\ working' = working
    BY <1>2 DEF BeginCall
  <2> QED
    BY <1>1, <2>1
<1>3. ASSUME NEW p \in Callers, FindRun(p) PROVE Posted'
  <2>1. PICK step \in {"mark", "idle"} : goto(p, step)
    BY <1>3 DEF FindRun
  <2>2. mark' = mark /\ UNCHANGED api /\ working' = working
    BY <1>3 DEF FindRun
  <2> QED
    BY <1>1, <2>1, <2>2
<1>4. ASSUME NEW p \in Callers, ReadMark(p) PROVE Posted'
  <2>1. PICK high \in {0, highWaterMark} : mark' = [mark EXCEPT ![p] = high]
    BY <1>4 DEF ReadMark
  <2>2. UNCHANGED api /\ working' = working
    BY <1>4 DEF ReadMark, Emit
  <2>3. ledger' = ledger /\ ended' = ended /\ told' = told
    BY <2>2 DEF api
  <2>4. ASSUME ended = "open", working = 0, NEW q \in Callers,
               pc'[q] \notin {"idle", "find", "mark"}
        PROVE  mark'[q] = 0
    <3>1. ledger = <<>>
      BY <2>4 DEF Posted
    <3>2. high = 0
      BY <2>1, <3>1 DEF highWaterMark
    <3>3. q # p => pc'[q] = pc[q] /\ mark'[q] = mark[q]
      BY <1>0, <1>4, <2>1 DEF ReadMark, goto
    <3>4. mark'[p] = high
      BY <1>0, <2>1
    <3> QED
      BY <2>4, <3>2, <3>3, <3>4 DEF Posted
  <2> QED
    BY <1>0, <2>2, <2>3, <2>4 DEF Posted, TakenIsStored
<1>5. ASSUME NEW p \in Callers, IssueCall(p) PROVE Posted'
  <2>1. goto(p, "reserve") /\ mark' = mark /\ UNCHANGED api /\ working' = working /\ pc[p] = "call"
    BY <1>5 DEF IssueCall, Emit
  <2> QED
    BY <1>1, <2>1
<1>6. ASSUME NEW p \in Callers, CountAttempts(p) PROVE Posted'
  <2>1. goto(p, "append") /\ mark' = mark /\ UNCHANGED api /\ working' = working /\ pc[p] = "reserve"
    BY <1>6 DEF CountAttempts
  <2> QED
    BY <1>1, <2>1
<1>7. ASSUME NEW p \in Callers, AppendAttempt(p) PROVE Posted'
  <2>1. goto(p, "fetch") /\ mark' = mark /\ UNCHANGED api /\ working' = working /\ pc[p] = "append"
    BY <1>7 DEF AppendAttempt
  <2> QED
    BY <1>1, <2>1
<1>8. ASSUME NEW p \in Callers, InjectFault(p) PROVE Posted'
  <2>1. goto(p, "decide") /\ mark' = mark /\ UNCHANGED api /\ working' = working /\ pc[p] = "fetch"
    BY <1>8 DEF InjectFault, Fails, Emit
  <2> QED
    BY <1>1, <2>1
<1>9. ASSUME NEW p \in Callers, Fetch(p) PROVE Posted'
  <2>1. PICK step \in {"publish", "decide", "idle"} : goto(p, step)
    BY <1>9 DEF Fetch, Reads, Fails, Abandon
  <2>2. mark' = mark /\ UNCHANGED api /\ working' = working /\ pc[p] = "fetch"
    BY <1>9 DEF Fetch, Reads, Fails, Abandon, Emit, api
  <2> QED
    BY <1>1, <2>1, <2>2
<1>10. ASSUME NEW p \in Callers, Decide(p) PROVE Posted'
  <2>1. PICK step \in {"call", "publish"} : goto(p, step)
    BY <1>10 DEF Decide
  <2>2. mark' = mark /\ UNCHANGED api /\ working' = working /\ pc[p] = "decide"
    BY <1>10 DEF Decide, Emit
  <2> QED
    BY <1>1, <2>1, <2>2
<1>11. ASSUME NEW p \in Callers, Publish(p) PROVE Posted'
  <2>1. working' = working
    BY <1>11 DEF Publish
  <2> QED
    BY <1>0, <1>11, <2>1, PublishPosts DEF Posted
<1>12. ASSUME WorkerStores PROVE Posted'
  <2>1. working' = working + 1 /\ working \in Nat
    BY <1>12 DEF WorkerStores, Typed
  <2>2. working' # 0
    BY <2>1
  <2> QED
    BY <2>2 DEF Posted
<1>13. ASSUME NEW p \in Callers, Crash(p) PROVE Posted'
  <2>1. goto(p, "idle") /\ mark' = mark /\ UNCHANGED api /\ working' = working
    BY <1>13 DEF Crash, Abandon, api
  <2> QED
    BY <1>1, <2>1
<1>14. CASE UNCHANGED vars
  BY <1>0, <1>14 DEF vars, call, api, Posted, TakenIsStored
<1> QED
  BY <1>2, <1>3, <1>4, <1>5, <1>6, <1>7, <1>8, <1>9, <1>10, <1>11, <1>12, <1>13, <1>14
     DEF Next, Step

(* What the pure worker's sink stores: its batch goes on, event for event.  *)
LEMMA SinkStores ==
  ASSUME ReadAssumption, LedgerTyped, NEW b \in Seq(Sound), NEW events \in Seq(Sound),
         Copies(ledger, b), TakenIsStored, Ingest(Numbered(Len(b), events))
  PROVE  /\ Copies(ledger', b \o events)
         /\ TakenIsStored'
         /\ HasIntervention => HasIntervention'
         /\ \A i \in 1..Len(events) : Len(b) + i \in DOMAIN ledger' /\ ledger'[Len(b) + i] = events[i]
         /\ (\A i \in 1..Len(events) : events[i].kind # "run_end") => ended' = ended
         /\ Closing(events) => ended' = events[Len(events)].says
<1> DEFINE items == Numbered(Len(b), events)
           t     == b \o events
<1>1. /\ t \in Seq(Sound) /\ Len(b) \in Nat /\ Len(events) \in Nat
      /\ Len(t) = Len(b) + Len(events)
      /\ \A i \in 1..Len(b) : t[i] = b[i]
      /\ \A i \in 1..Len(events) : t[Len(b) + i] = events[i]
      /\ \A i \in 1..Len(t) : i \in 1..Len(b) \/ \E j \in 1..Len(events) : i = Len(b) + j
  BY Joined
<1>2. /\ DOMAIN items = (Len(b) + 1)..(Len(b) + Len(events))
      /\ \A i \in 1..Len(events) : items[Len(b) + i] = events[i]
      /\ DOMAIN ledger' = DOMAIN ledger \cup DOMAIN items
      /\ \A i \in DOMAIN ledger : ledger'[i] = ledger[i]
      /\ \A i \in DOMAIN items \ DOMAIN ledger : ledger'[i] = items[i]
  BY <1>1, IngestParts
<1>3. DOMAIN ledger = 1..Len(b) /\ \A i \in 1..Len(b) : ledger[i] = b[i]
  BY DEF Copies
<1>4. DOMAIN ledger \cap ((Len(b) + 1)..(Len(b) + Len(events))) = {}
  BY <1>1, <1>3
<1> HIDE DEF items, t
<1>5. ASSUME NEW i \in 1..Len(events)
      PROVE  Len(b) + i \in DOMAIN ledger' /\ ledger'[Len(b) + i] = events[i]
  <2>1. Len(b) + i \in DOMAIN items
    BY <1>1, <1>2
  <2>2. Len(b) + i \notin DOMAIN ledger
    BY <1>2, <1>4, <2>1
  <2> QED
    BY <1>2, <2>1, <2>2
<1>6. DOMAIN ledger' = 1..Len(t)
  <2>1. DOMAIN ledger' = (1..Len(b)) \cup ((Len(b) + 1)..(Len(b) + Len(events)))
    BY <1>2, <1>3
  <2> QED
    BY <1>1, <2>1
<1>7. ASSUME NEW i \in 1..Len(t) PROVE ledger'[i] = t[i]
  <2>1. CASE i \in 1..Len(b)
    BY <1>1, <1>2, <1>3, <2>1
  <2>2. ASSUME NEW j \in 1..Len(events), i = Len(b) + j PROVE ledger'[i] = t[i]
    BY <1>1, <1>5, <2>2
  <2> QED
    BY <1>1, <2>1, <2>2
<1>8. Copies(ledger', t)
  BY <1>6, <1>7 DEF Copies
<1>9. TakenIsStored'
  BY <1>1, <1>4, FreeIsStored
<1>10. HasIntervention => HasIntervention'
  BY <1>2 DEF HasIntervention
<1>11. /\ (\A i \in 1..Len(events) : events[i].kind # "run_end") => ended' = ended
       /\ Closing(events) => ended' = events[Len(events)].says
  BY <1>1, <1>4, IngestVerdict DEF Closing
<1> QED
  BY <1>5, <1>8, <1>9, <1>10, <1>11 DEF t

(* A step that leaves the pure worker reading, with its evidence in step.   *)
LEMMA StillReading ==
  ASSUME ReadAssumption, Typed, Printed, ~Buffered, program' = program,
         NEW p \in Callers, pc[p] \in Reading, NEW step \in Reading, goto(p, step),
         calls' = calls, working' = working, ended' = ended,
         Copies(ledger', batch'[p]), TakenIsStored',
         retries'[p] > 0 => HasIntervention',
         \A q \in Callers \ {p} : batch'[q] = batch[q] /\ retries'[q] = retries[q]
  PROVE  Printed'
<1>0. Callers \subseteq AllCallers /\ Callers' = Callers /\ Buffered' = Buffered
  BY Program DEF Typed, Callers, Buffered
<1>1. pc'[p] = step /\ \A q \in Callers \ {p} : pc'[q] = pc[q]
  BY <1>0 DEF goto, Typed
<1>2. pc[p] # "idle" /\ step # "idle" /\ step # "publish"
  BY DEF Reading
<1>3. \A q \in Callers \ {p} : pc[q] = "idle" /\ pc'[q] = "idle"
  BY <1>1, <1>2 DEF Printed
<1>4. ended = "open" /\ calls # 0 /\ working = 0
  BY <1>2 DEF Printed
<1> QED
  BY <1>0, <1>1, <1>2, <1>3, <1>4 DEF Printed, Reading

(* A step that closes the reading: its verdict is the run's.                *)
LEMMA ReadingClosed ==
  ASSUME ReadAssumption, Typed, Shaped, Printed, ~Buffered, program' = program,
         NEW p \in Callers, pc[p] \in Reading, goto(p, "publish"),
         calls' = calls, working' = working,
         NEW events, Closing(events), Emit(p, events)
  PROVE  Printed'
<1>0. /\ Callers \subseteq AllCallers /\ Callers' = Callers /\ Buffered' = Buffered
      /\ batch[p] \in Seq(Sound) /\ LedgerTyped /\ events \in Seq(Sound)
  BY Program DEF Typed, Callers, Buffered, Closing
<1>1. /\ pc'[p] = "publish" /\ batch'[p] = batch[p] \o events
      /\ \A q \in Callers \ {p} : pc'[q] = pc[q]
  BY <1>0 DEF goto, Emit, Typed
<1>2. pc[p] # "idle" /\ "publish" \notin Reading
  BY DEF Reading
<1>3. \A q \in Callers \ {p} : pc[q] = "idle" /\ pc'[q] = "idle"
  BY <1>1, <1>2 DEF Printed
<1>4. calls # 0 /\ working = 0 /\ Copies(ledger, batch[p]) /\ TakenIsStored
  BY <1>2 DEF Printed
<1>5. Ingest(Numbered(Len(batch[p]), events))
  BY DEF Emit
<1>6. /\ Copies(ledger', batch'[p]) /\ TakenIsStored'
      /\ ended' = events[Len(events)].says
  BY <1>0, <1>1, <1>4, <1>5, SinkStores
<1>7. /\ Whole(batch'[p])
      /\ batch'[p][Len(batch'[p])].says = events[Len(events)].says
  <2>1. Opened(batch[p])
    BY DEF Shaped
  <2>2. /\ Whole(batch[p] \o events)
        /\ (batch[p] \o events)[Len(batch[p] \o events)] = events[Len(events)]
    BY <2>1, OpenedClosing
  <2> QED
    BY <1>1, <2>2
<1>8. Proven(ledger', ended')
  BY <1>6, <1>7, WholeIsProven
<1> QED
  BY <1>0, <1>1, <1>2, <1>3, <1>4, <1>6, <1>7, <1>8 DEF Printed, Reading

(* A call that ends without an answer leaves what it stored.                *)
LEMMA ReadingAbandoned ==
  ASSUME ReadAssumption, Typed, Shaped, Printed, ~Buffered, program' = program,
         NEW p \in Callers, pc[p] # "idle", Abandon(p), calls' = calls, working' = working
  PROVE  Printed'
<1>0. /\ Callers \subseteq AllCallers /\ Callers' = Callers /\ Buffered' = Buffered
  BY Program DEF Typed, Callers, Buffered
<1>1. /\ pc'[p] = "idle" /\ \A q \in Callers \ {p} : pc'[q] = pc[q]
      /\ ledger' = ledger /\ told' = told
      /\ ended' = IF ended = "open" THEN "failed" ELSE ended
  BY <1>0 DEF Abandon, goto, Typed
<1>2. \A q \in Callers : pc'[q] = "idle"
  BY <1>1 DEF Printed
<1>3. calls # 0 /\ working = 0 /\ Copies(ledger, batch[p]) /\ TakenIsStored
  BY DEF Printed
<1>4. ended' # "open" /\ ledger' # <<>> => Proven(ledger', ended')
  <2>1. CASE ended # "open"
    BY <1>1, <2>1 DEF Printed
  <2>2. CASE ended = "open" /\ pc[p] \in Reading
    <3>1. Opened(batch[p])
      BY <2>2 DEF Shaped
    <3> QED
      BY <1>1, <1>3, <2>2, <3>1, OpenedIsProven
  <2>3. CASE ended = "open" /\ pc[p] \notin Reading
    <3>1. pc[p] = "publish"
      BY <1>0, <2>3 DEF Shaped, Typed, Steps, Reading
    <3>2. Whole(batch[p]) /\ ended = batch[p][Len(batch[p])].says
      BY <3>1 DEF Shaped, Printed
    <3>3. Len(batch[p]) \in Nat /\ Len(batch[p]) >= 1 /\ batch[p] \in Seq(Sound)
      BY <3>2, LenProperties DEF Whole
    <3>4. batch[p][Len(batch[p])] \in Sound /\ batch[p][Len(batch[p])].kind = "run_end"
      BY <3>2, <3>3, ElementOfSeq DEF Whole
    <3>5. FALSE
      BY <2>3, <3>2, <3>4 DEF Sound
    <3> QED
      BY <3>5
  <2> QED
    BY <2>1, <2>2, <2>3
<1>5. TakenIsStored'
  BY <1>1, <1>3 DEF TakenIsStored
<1> QED
  BY <1>0, <1>2, <1>3, <1>4, <1>5 DEF Printed, Reading

LEMMA PrintedStep ==
  ASSUME ReadAssumption, Typed, Shaped, Printed, [Next]_vars
  PROVE  Printed'
<1>0. /\ program' = program /\ Callers \subseteq AllCallers
      /\ pc \in [AllCallers -> Steps] /\ batch \in [AllCallers -> Seq(Sound)]
      /\ retries \in [AllCallers -> Nat] /\ LedgerTyped
      /\ Callers' = Callers /\ Buffered' = Buffered
  BY TypedStep, Program DEF Typed, Callers, Buffered
<1> SUFFICES ASSUME ~Buffered PROVE Printed'
  BY <1>0 DEF Printed
<1>1. ASSUME NEW p \in Callers, BeginCall(p) PROVE Printed'
  <2>1. calls = 0
    <3>1. calls \in Nat /\ MaxCalls \in Nat /\ MaxCalls <= 1 /\ calls < MaxCalls
      BY <1>1, Program DEF Typed, BeginCall
    <3> QED
      BY <3>1
  <2>2. ledger = <<>> /\ DOMAIN ledger = {} /\ ended = "open" /\ working = 0 /\ TakenIsStored
        /\ \A q \in Callers : pc[q] = "idle"
    BY <2>1 DEF Printed
  <2>3. /\ pc'[p] = "call" /\ \A q \in Callers \ {p} : pc'[q] = pc[q]
        /\ batch'[p] = Prelude /\ retries'[p] = 0 /\ calls' = 1 /\ working' = working
        /\ Ingest(Numbered(0, Prelude))
    BY <1>0, <1>1, <2>1 DEF BeginCall, goto
  <2>4. Opened(Prelude) /\ Prelude \in Seq(Sound) /\ <<>> \in Seq(Sound) /\ Len(<<>>) = 0
    BY StartParts, EmptySeq DEF Opened
  <2>5. Copies(ledger, <<>>)
    BY <2>2 DEF Copies
  <2>6. Copies(ledger', <<>> \o Prelude) /\ TakenIsStored' /\ ended' = ended
    BY <1>0, <2>2, <2>3, <2>4, <2>5, SinkStores DEF Opened
  <2>7. Copies(ledger', batch'[p])
    BY <2>3, <2>4, <2>6, EmptyJoined
  <2>8. working' = 0 /\ calls' # 0 /\ ended' = "open" /\ TakenIsStored'
    BY <2>2, <2>3, <2>6
  <2>9. /\ \A q \in Callers : pc'[q] # "idle" => q = p
        /\ pc'[p] \in Reading /\ pc'[p] # "publish" /\ ~ retries'[p] > 0
    BY <2>2, <2>3 DEF Reading
  <2>10. \A q \in Callers : pc'[q] \in Reading => q = p
    BY <2>9 DEF Reading
  <2> QED
    BY <1>0, <2>7, <2>8, <2>9, <2>10 DEF Printed
<1>2. ASSUME NEW p \in Callers, FindRun(p) PROVE FALSE
  BY <1>2 DEF FindRun, Shaped
<1>3. ASSUME NEW p \in Callers, ReadMark(p) PROVE FALSE
  BY <1>3 DEF ReadMark, Shaped
(* A step within the reading that says something in the middle of it.       *)
<1>4. ASSUME NEW p \in Callers, pc[p] \in Reading, NEW step \in Reading, goto(p, step),
             calls' = calls, working' = working, NEW events, Mid(events), Emit(p, events),
             \A q \in Callers \ {p} : retries'[q] = retries[q],
             retries'[p] > 0 => retries[p] > 0
                                \/ \E i \in 1..Len(events) : /\ events[i].kind = "intervention"
                                                             /\ events[i].says = "retry_once"
      PROVE  Printed'
  <2>1. pc[p] # "idle"
    BY <1>4 DEF Reading
  <2>2. Copies(ledger, batch[p]) /\ TakenIsStored
    BY <2>1 DEF Printed
  <2>3. /\ batch[p] \in Seq(Sound) /\ events \in Seq(Sound)
        /\ batch'[p] = batch[p] \o events /\ \A q \in Callers \ {p} : batch'[q] = batch[q]
        /\ Ingest(Numbered(Len(batch[p]), events))
    BY <1>0, <1>4 DEF Mid, Emit
  <2>4. /\ Copies(ledger', batch'[p]) /\ TakenIsStored' /\ ended' = ended
        /\ HasIntervention => HasIntervention'
        /\ \A i \in 1..Len(events) :
             Len(batch[p]) + i \in DOMAIN ledger' /\ ledger'[Len(batch[p]) + i] = events[i]
    BY <1>0, <1>4, <2>2, <2>3, SinkStores DEF Mid
  <2>5. retries'[p] > 0 => HasIntervention'
    BY <1>4, <2>4 DEF HasIntervention, Printed
  <2> QED
    BY <1>0, <1>4, <2>3, <2>4, <2>5, StillReading
<1>5. ASSUME NEW p \in Callers, IssueCall(p) PROVE Printed'
  <2>1. reserved[StoreOf(p)] + 1 \in Nat
    <3>1. reserved \in [Stores -> Nat] /\ program \in Programs
      BY DEF Typed
    <3>2. StoreOf(p) \in Stores
      BY <3>1, Program
    <3> QED
      BY <3>1, <3>2
  <2>2. Mid(<<CallEv(Claimed, reserved[StoreOf(p)] + 1)>>)
    BY <2>1, MidParts
  <2>3. /\ pc[p] = "call" /\ goto(p, "reserve") /\ calls' = calls /\ working' = working
        /\ retries' = retries /\ Emit(p, <<CallEv(Claimed, reserved[StoreOf(p)] + 1)>>)
    BY <1>5 DEF IssueCall
  <2> QED
    BY <1>4, <2>2, <2>3 DEF Reading
(* A step within the reading that says nothing.                             *)
<1>6. ASSUME NEW p \in Callers, pc[p] \in Reading, NEW step \in Reading, goto(p, step),
             calls' = calls, working' = working, batch' = batch, retries' = retries, UNCHANGED api
      PROVE  Printed'
  <2>1. pc[p] # "idle"
    BY <1>6 DEF Reading
  <2>2. ledger' = ledger /\ ended' = ended /\ told' = told
    BY <1>6 DEF api
  <2>3. Copies(ledger', batch'[p]) /\ TakenIsStored' /\ (retries'[p] > 0 => HasIntervention')
    BY <1>6, <2>1, <2>2 DEF Printed, TakenIsStored, HasIntervention
  <2> QED
    BY <1>0, <1>6, <2>2, <2>3, StillReading
<1>7. ASSUME NEW p \in Callers, CountAttempts(p) PROVE Printed'
  BY <1>6, <1>7 DEF CountAttempts, Reading
<1>8. ASSUME NEW p \in Callers, AppendAttempt(p) PROVE Printed'
  BY <1>6, <1>8 DEF AppendAttempt, Reading
<1>9. ASSUME NEW p \in Callers, pc[p] = "fetch", NEW f \in Failures, Fails(p, f),
             calls' = calls, working' = working, retries' = retries
      PROVE  Printed'
  <2>1. Mid(<<Ev("tool_result", f.truth, "failed"), Ev("incident", f.truth, "")>>)
    BY MidParts DEF Failures
  <2>2. goto(p, "decide") /\ Emit(p, <<Ev("tool_result", f.truth, "failed"), Ev("incident", f.truth, "")>>)
    BY <1>9 DEF Fails
  <2> QED
    BY <1>4, <1>9, <2>1, <2>2 DEF Reading
<1>10. ASSUME NEW p \in Callers, InjectFault(p) PROVE Printed'
  <2>1. [truth |-> "controlled_fault", retryable |-> TRUE] \in Failures
    BY DEF Failures, Truths
  <2> QED
    BY <1>9, <1>10, <2>1 DEF InjectFault
<1>11. ASSUME NEW p \in Callers, Fetch(p) PROVE Printed'
  <2>1. pc[p] = "fetch" /\ calls' = calls /\ working' = working /\ retries' = retries
    BY <1>11 DEF Fetch
  <2>2. CASE Reads(p)
    <3>1. goto(p, "publish") /\ Emit(p, <<Ev("tool_result", Claimed, "ok")>> \o Close("succeeded"))
      BY <2>2 DEF Reads
    <3> QED
      BY <1>0, <2>1, <3>1, ReadsParts, ReadingClosed DEF Reading
  <2>3. ASSUME NEW again \in BOOLEAN, Fails(p, [truth |-> "live", retryable |-> again])
        PROVE  Printed'
    <3>1. [truth |-> "live", retryable |-> again] \in Failures
      BY DEF Failures, Truths
    <3> QED
      BY <1>9, <2>1, <2>3, <3>1
  <2>4. CASE Abandon(p)
    BY <1>0, <2>1, <2>4, ReadingAbandoned
  <2> QED
    BY <1>11, <2>2, <2>3, <2>4 DEF Fetch
<1>12. ASSUME NEW p \in Callers, Decide(p) PROVE Printed'
  <2> DEFINE outcome == decide(failure[p], retries[p])
             asked   == <<Ev("intervention", Claimed, outcome)>>
  <2>1. outcome \in {"retry_once", "refuse_not_retryable", "refuse_budget_exhausted"}
    BY DEF decide
  <2> HIDE DEF outcome
  <2>2. pc[p] = "decide" /\ calls' = calls /\ working' = working
    BY <1>12 DEF Decide
  <2>3. CASE outcome = "retry_once"
    <3>1. Emit(p, asked) /\ goto(p, "call") /\ retries' = [retries EXCEPT ![p] = @ + 1]
      BY <1>12, <2>3 DEF Decide, outcome
    <3>2. Mid(asked)
      BY <2>1, MidParts
    <3>3. Len(asked) = 1 /\ asked[1].kind = "intervention" /\ asked[1].says = "retry_once"
      BY <2>3 DEF Ev
    <3>4. \A q \in Callers \ {p} : retries'[q] = retries[q]
      BY <1>0, <3>1
    <3>5. 1 \in 1..Len(asked)
      BY <3>3
    <3> HIDE DEF asked
    <3> QED
      BY <1>4, <2>2, <3>1, <3>2, <3>3, <3>4, <3>5 DEF Reading
  <2>4. CASE outcome # "retry_once"
    <3>1. Emit(p, asked \o Close("failed")) /\ goto(p, "publish")
      BY <1>12, <2>4 DEF Decide, outcome
    <3>2. Closing(asked \o Close("failed"))
      BY <2>1, <2>4, ReadsParts
    <3> QED
      BY <1>0, <2>2, <3>1, <3>2, ReadingClosed DEF Reading
  <2> QED
    BY <2>3, <2>4
<1>13. ASSUME NEW p \in Callers, Publish(p) PROVE Printed'
  <2>1. /\ pc[p] = "publish" /\ pc'[p] = "idle" /\ \A q \in Callers \ {p} : pc'[q] = pc[q]
        /\ calls' = calls /\ working' = working
        /\ ledger' = ledger /\ ended' = ended /\ told' = told
    BY <1>0, <1>13 DEF Publish, goto, api
  <2>2. \A q \in Callers : pc'[q] = "idle"
    BY <2>1 DEF Printed
  <2>3. TakenIsStored' /\ calls # 0 /\ working = 0
    BY <2>1 DEF Printed, TakenIsStored
  <2> QED
    BY <1>0, <2>1, <2>2, <2>3 DEF Printed, Reading
<1>14. ASSUME WorkerStores PROVE FALSE
  <2>1. working < WorkerEvents /\ working \in Nat /\ WorkerEvents = 0
    BY <1>14, Program DEF WorkerStores, Typed
  <2> QED
    BY <2>1
<1>15. ASSUME NEW p \in Callers, Crash(p) PROVE Printed'
  BY <1>0, <1>15, ReadingAbandoned DEF Crash
<1>16. CASE UNCHANGED vars
  <2>1. /\ pc' = pc /\ batch' = batch /\ retries' = retries /\ ledger' = ledger /\ ended' = ended
        /\ told' = told /\ working' = working /\ calls' = calls
    BY <1>16 DEF vars, call, api
  <2> QED
    BY <1>0, <2>1 DEF Printed, TakenIsStored, HasIntervention
<1> QED
  BY <1>1, <1>2, <1>3, <1>5, <1>7, <1>8, <1>10, <1>11, <1>12, <1>13, <1>14, <1>15, <1>16
     DEF Next, Step

LEMMA EvidenceInit ==
  ASSUME ReadAssumption, Init
  PROVE  Shaped /\ Posted /\ Printed
<1>1. /\ \A p \in Callers : p \in AllCallers /\ pc[p] = "idle"
  BY Program DEF Init
<1>2. ledger = <<>> /\ ended = "open" /\ told = {} /\ working = 0 /\ calls = 0
  BY DEF Init
<1>3. TakenIsStored
  BY <1>2 DEF TakenIsStored
<1> QED
  BY <1>1, <1>2, <1>3 DEF Shaped, Posted, Printed, Reading

LEMMA EvidenceHolds ==
  ASSUME ReadAssumption
  PROVE  Spec => [](Typed /\ Shaped /\ Posted /\ Printed)
<1>1. Init => Shaped /\ Posted /\ Printed
  BY EvidenceInit
<1>2. Typed /\ Shaped /\ Posted /\ Printed /\ [Next]_vars => (Shaped /\ Posted /\ Printed)'
  BY ShapedStep, PostedStep, PrintedStep
<1> QED
  BY <1>1, <1>2, ReadTypes, PTL DEF Spec

(* The evidence of a run no worker writes to beside the readers is one       *)
(* reading, whole: it starts at 1 and has no gap, what the API answered for  *)
(* is in it, and once the run has ended its end is last and says how, a      *)
(* success over a read that gave facts (handle_call's publish, the ingest    *)
(* route, the pure worker's sink).                                           *)
THEOREM EvidenceIsOneReading == ReadAssumption => (Spec => []EvidenceIsWhole)
<1> SUFFICES ASSUME ReadAssumption PROVE Spec => []EvidenceIsWhole
  OBVIOUS
<1>1. Typed /\ Posted /\ Printed => EvidenceIsWhole
  <2> SUFFICES ASSUME Typed, Posted, Printed PROVE EvidenceIsWhole
    OBVIOUS
  <2>1. Buffered \in BOOLEAN
    BY Program DEF Typed
  <2>2. working = 0 =>
          TakenIsStored /\ (ended # "open" /\ ledger # <<>> => Proven(ledger, ended))
    BY <2>1 DEF Posted, Printed
  <2> QED
    BY <2>2 DEF EvidenceIsWhole, Proven, highWaterMark
<1> QED
  BY <1>1, EvidenceHolds, PTL

(* Whatever the pure worker dies of, a second attempt was announced on the   *)
(* record before it was made (run_dependency_onboarding, RecoveryPolicy).    *)
THEOREM InterventionComesFirst == ReadAssumption => (Spec => []InterventionFirst)
<1> SUFFICES ASSUME ReadAssumption PROVE Spec => []InterventionFirst
  OBVIOUS
<1>1. Printed => InterventionFirst
  BY DEF Printed, InterventionFirst, Reading
<1> QED
  BY <1>1, EvidenceHolds, PTL
=============================================================================
