------------------------------- MODULE OnceOnly -------------------------------
(***************************************************************************)
(* What an idempotency key promises: whatever it stands for happens at most *)
(* once, together with the record that it was done, however often it is     *)
(* asked for.                                                               *)
(***************************************************************************)
CONSTANTS
  Keys,
  Targets         \* what a key can have an effect on

VARIABLES
  done,           \* keys with a receipt
  effects         \* key -> the targets it has changed

Init == done = {} /\ effects = [k \in Keys |-> {}]

\* Some keys find their work already done: they get a receipt and change nothing.
Perform(k) ==
  /\ k \notin done
  /\ done' = done \cup {k}
  /\ \E changed \in {{}} \cup {{x} : x \in Targets} :
       effects' = [effects EXCEPT ![k] = changed]

Next == \E k \in Keys : Perform(k)

Spec == Init /\ [][Next]_<<done, effects>>
=============================================================================
