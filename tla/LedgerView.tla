----------------------------- MODULE LedgerView -----------------------------
(***************************************************************************)
(* What readers of the run ledger are promised: each run has a latest      *)
(* version, replaced by the next one written; an event, once visible under *)
(* its sequence, is never replaced and never disappears.                   *)
(***************************************************************************)
CONSTANTS Runs, Versions, Events
VARIABLES latest, stored

ViewInit ==
  /\ latest \in [Runs -> {"none"}]
  /\ \A r \in Runs : \A s \in DOMAIN stored[r] : stored[r][s] = "none"

Replace(r, v) ==
  /\ latest' = [latest EXCEPT ![r] = v]
  /\ UNCHANGED stored

Reveal(r, s, e) ==
  /\ stored[r][s] = "none"
  /\ stored' = [stored EXCEPT ![r][s] = e]
  /\ UNCHANGED latest

ViewNext ==
  \E r \in Runs :
    \/ \E v \in Versions : Replace(r, v)
    \/ \E s \in DOMAIN stored[r] : \E e \in Events : Reveal(r, s, e)

ViewSpec == ViewInit /\ [][ViewNext]_<<latest, stored>>
=============================================================================
