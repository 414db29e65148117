--------------------------- MODULE MCAuctionHouse ---------------------------
(***************************************************************************)
(* Small instances of AuctionHouse.                                        *)
(***************************************************************************)
EXTENDS AuctionHouse

(* Two auctions are running: user 3 has outbid user 2 in the first, whose  *)
(* hold was released, and user 2 leads the second.                         *)
TwoRunning(first, second) ==
  /\ first # second
  /\ auction = [a \in Auctions |->
       [status |-> "ACTIVE", price |-> IF a = first THEN 30 ELSE 20, startsAt |-> 0,
        endsAt |-> IF a = first THEN 1 ELSE 2]]
  /\ bids = [a \in Auctions |->
       IF a = first THEN <<[bidder |-> 2, amount |-> 20], [bidder |-> 3, amount |-> 30]>>
       ELSE <<[bidder |-> 2, amount |-> 20]>>]
  /\ balance = [u \in Users |-> CASE u = 2 -> OpeningBalance - 20 [] u = 3 -> OpeningBalance - 30
                                  [] OTHER -> OpeningBalance]
  /\ held = [u \in Users |-> [a \in Auctions |->
       CASE u = 2 /\ a = second -> 20 [] u = 3 /\ a = first -> 30 [] OTHER -> 0]]
  /\ orders = [a \in Auctions |-> NoOrder]
  /\ pending = [u \in Users |-> 0]
  /\ request = [r \in Requests |-> [pc |-> "idle"]]
  /\ job = [s \in Schedulers |-> [pc |-> "idle"]]
  /\ panel = [pc |-> "idle"]
  /\ seller = [pc |-> "idle"]
  /\ lock = Nobody /\ now = 0 /\ faults = 0

TwoRunningSpec ==
  (\E first, second \in Auctions : TwoRunning(first, second)) /\ [][Next]_vars
=============================================================================
