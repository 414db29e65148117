----------------------------- MODULE WalletMath -----------------------------
(***************************************************************************)
(* The rows and the arithmetic of the wallet module of the API             *)
(* (src/api/src/modules/wallet, schema.prisma models Wallet and Ledger and *)
(* the WalletCalculation class of @ironloot/core).                         *)
(*                                                                         *)
(* Amounts are whole cents: every money column is DECIMAL(n, 2).  User ids *)
(* are naturals because the code sorts them; nothing else is done to them. *)
(***************************************************************************)
EXTENDS Integers, Sequences

CONSTANTS Users,        \* user ids; the code orders rows by them
          Amounts,      \* the amounts, in cents, that callers ask for
          FeePercents   \* the commission rates in force

ASSUME UsersAssumption   == Users \subseteq Nat
ASSUME AmountsAssumption == Amounts \subseteq Nat \ {0}
ASSUME FeesAssumption    == FeePercents \subseteq 0..100

(* A row of "wallets"; "exists" says whether the row has been inserted.    *)
WalletRow == [exists : BOOLEAN, active : BOOLEAN,
              balance : Int, held : Int, pending : Int]

NoRow == [exists |-> FALSE, active |-> FALSE,
          balance |-> 0, held |-> 0, pending |-> 0]

(* Fault: the insert leaves out the column PT-071 added.                   *)
EnsuredWithoutPending(row, isActive) ==
  IF row.exists THEN row
  ELSE [exists |-> TRUE, active |-> isActive, balance |-> 0, held |-> 0]

(* INSERT ... ON CONFLICT DO NOTHING: an existing row is left as it is.    *)
Ensured(row, isActive) ==
  IF row.exists THEN row ELSE [NoRow EXCEPT !.exists = TRUE, !.active = isActive]

(* Entry types.  ADJUSTMENT is split by the referenceType the code writes: *)
(* WITHDRAWAL_REFUND and DISPUTE_REVERSAL.                                 *)
EntryTypes == {"DEPOSIT", "WITHDRAWAL", "WITHDRAWAL_REFUND", "HOLD_BID",
               "RELEASE_BID", "DEBIT_ORDER", "CREDIT_SALE", "FEE_PLATFORM",
               "SETTLEMENT_RELEASE", "DISPUTE_REVERSAL", "REFUND"}

LedgerEntry == [type : EntryTypes, amount : Nat, before : Int, after : Int]

Entry(type, amount, before, after) ==
  [type |-> type, amount |-> amount, before |-> before, after |-> after]

(* A DECIMAL(n, 2) column rounds half away from zero when it is written.   *)
RoundCents(hundredths) == (hundredths + 50) \div 100

(* The commission, and what is left of the sale, as the columns keep them. *)
Fee(amount, pct) == RoundCents(amount * pct)
Net(amount, pct) == RoundCents(amount * (100 - pct))

(* What a reversed sale takes from the holdback; the rest is taken from    *)
(* the seller's balance, below zero if it must.                            *)
FromPending(row, amount) == IF row.pending <= amount THEN row.pending ELSE amount
=============================================================================
