------------------------- MODULE PositionLifecycle -------------------------
(***************************************************************************)
(* What the backtester and the live engine both promise of the position of *)
(* a symbol: there is one at a time, it is never reversed without being    *)
(* closed, and Cooldown bars pass between a close and the next entry.      *)
(* Bars are counted at their close: an entry decided on a bar's close and  *)
(* executed at the next bar's open still belongs to the first.             *)
(***************************************************************************)
EXTENDS Integers

CONSTANT Cooldown  \* risk.cooldown_bars

VARIABLES
  side,  \* -1 short, 0 flat, 1 long
  rest   \* bars since the last close, saturating at Cooldown

Init == side = 0 /\ rest = Cooldown

Enter == side = 0 /\ rest = Cooldown /\ side' \in {-1, 1} /\ UNCHANGED rest

Exit == side # 0 /\ side' = 0 /\ rest' = 0

Bar == rest' = (IF rest < Cooldown THEN rest + 1 ELSE rest) /\ UNCHANGED side

\* The process starts again: it remembers nothing.
Restart == side' = 0 /\ rest' = Cooldown

Next == Enter \/ Exit \/ Bar \/ Restart

Spec == Init /\ [][Next]_<<side, rest>>
=============================================================================
