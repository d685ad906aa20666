---------------------------- MODULE EffectLedger ----------------------------
(***************************************************************************)
(* What the ledger of business effects promises, whatever attempts, calls, *)
(* exceptions and restarts there are: an effect is made at most once, it   *)
(* is put in evidence only after it was made, its result is recorded only  *)
(* after that, and neither evidence nor result is ever taken back.         *)
(* BusinessEffects implements it.                                          *)
(***************************************************************************)
EXTENDS Integers

CONSTANT Effect

VARIABLES
  made,      \* how often the mutation of an effect was committed
  shown,     \* effects that database_changes shows
  recorded   \* effects whose ledger row holds a result

ledgerVars == <<made, shown, recorded>>

Init == made = [e \in Effect |-> 0] /\ shown = {} /\ recorded = {}

Make(e) ==
  /\ made[e] = 0
  /\ made' = [made EXCEPT ![e] = 1]
  /\ UNCHANGED <<shown, recorded>>

Show(e) ==
  /\ made[e] = 1
  /\ shown' = shown \cup {e}
  /\ UNCHANGED <<made, recorded>>

Record(e) ==
  /\ e \in shown
  /\ recorded' = recorded \cup {e}
  /\ UNCHANGED <<made, shown>>

Next == \E e \in Effect : Make(e) \/ Show(e) \/ Record(e)

Spec == Init /\ [][Next]_ledgerVars
=============================================================================
