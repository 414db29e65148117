---------------------------- MODULE SaleProceeds ----------------------------
(***************************************************************************)
(* What the after-sale services promise about the money of a sale: the     *)
(* seller's net is owed to him once, it is made available once, and the    *)
(* buyer is repaid at most once and never more than he paid.               *)
(*                                                                         *)
(* "funds" is what the seller owns, on hold or available; a repayment may  *)
(* take it below zero, which is then his debt.                             *)
(***************************************************************************)
EXTENDS Integers

CONSTANTS Orders,   \* orders of one seller
          Total,    \* what the buyer paid for one
          Net       \* what is left of it for the seller

VARIABLES sold,      \* orders whose sale was captured
          settled,   \* orders whose net was made available
          repaid,    \* what the buyer got back for an order
          funds

Init == /\ sold = {}
        /\ settled = {}
        /\ repaid = [o \in Orders |-> 0]
        /\ funds = 0

(* The closing transaction captures the buyer's held funds.                *)
Capture(o) ==
  /\ o \notin sold
  /\ sold' = sold \union {o}
  /\ funds' = funds + Net
  /\ UNCHANGED <<settled, repaid>>

(* What was on hold becomes available: the seller's funds stay the same.   *)
Settle(o) ==
  /\ o \in sold \ settled
  /\ settled' = settled \union {o}
  /\ UNCHANGED <<sold, repaid, funds>>

Repay(o, amount) ==
  /\ o \in sold
  /\ repaid[o] = 0
  /\ repaid' = [repaid EXCEPT ![o] = amount]
  /\ funds' = funds - amount
  /\ UNCHANGED <<sold, settled>>

Next == \E o \in Orders :
          \/ Capture(o)
          \/ Settle(o)
          \/ \E amount \in 1..Total : Repay(o, amount)

Spec == Init /\ [][Next]_<<sold, settled, repaid, funds>>
=============================================================================
