----------------------------- MODULE MCWalletTx -----------------------------
(***************************************************************************)
(* Small instances of WalletTx, and the properties its runs check.         *)
(*                                                                         *)
(* The runs start in the middle of the marketplace's life: user 1 has      *)
(* deposited twice, been outbid, and holds the second bid of a sale of     *)
(* user 2, who has no wallet yet; or the sale is captured and user 2 waits *)
(* for the settlement.  Both ledgers have five entries, so that MaxEntries *)
(* leaves the same calls to each; from there every pair of calls overlaps. *)
(***************************************************************************)
EXTENDS WalletTx, SequencesExt

Symmetry == Permutations(Workers)

Opened == [NoRow EXCEPT !.exists = TRUE, !.active = TRUE]

HeldFor(a) ==
  /\ wallet = [u \in Users |->
       IF u = 1 THEN [Opened EXCEPT !.balance = a, !.held = a] ELSE NoRow]
  /\ ledger = [u \in Users |->
       IF u = 1 THEN <<Entry("DEPOSIT", a, 0, a), Entry("DEPOSIT", a, a, 2 * a),
                      Entry("HOLD_BID", a, 2 * a, a), Entry("RELEASE_BID", a, a, 2 * a),
                      Entry("HOLD_BID", a, 2 * a, a)>>
       ELSE <<>>]

SoldFor(a, pct) ==
  /\ wallet = [u \in Users |->
       CASE u = 1 -> [Opened EXCEPT !.balance = a]
         [] u = 2 -> [Opened EXCEPT !.pending = Net(a, pct)]
         [] OTHER -> NoRow]
  /\ ledger = [u \in Users |->
       CASE u = 1 -> <<Entry("DEPOSIT", 2 * a, 0, 2 * a), Entry("HOLD_BID", a, 2 * a, a),
                      Entry("DEBIT_ORDER", a, a, a)>>
         [] u = 2 -> <<Entry("CREDIT_SALE", a, 0, 0), Entry("FEE_PLATFORM", Fee(a, pct), 0, 0)>>
         [] OTHER -> <<>>]

AroundSale ==
  /\ \E a \in Amounts : HeldFor(a) \/ \E pct \in FeePercents : SoldFor(a, pct)
  /\ tx = [w \in Workers |-> Idle]
  /\ seen = [w \in Workers |-> [u \in Users |-> NoRow]]
  /\ lockedBy = [r \in Rows |-> Nobody]

MCSpec == AroundSale /\ [][TxNext]_allVars
=============================================================================
