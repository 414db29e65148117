------------------------------- MODULE Wallet -------------------------------
(***************************************************************************)
(* What WalletService promises: every operation on wallets is one atomic   *)
(* step that moves money and writes the ledger together.                   *)
(*                                                                         *)
(* Each operation takes "seen", the rows its transaction read, and writes  *)
(* absolute values computed from them, as the code does.  In this module   *)
(* an operation sees the current rows; WalletTx is the row-lock protocol   *)
(* that makes that true.                                                   *)
(***************************************************************************)
EXTENDS WalletMath, FiniteSets, Functions

VARIABLES wallet,   \* table "wallets": one row per user
          ledger    \* table "ledger": the entries of each user's wallet

vars == <<wallet, ledger>>

Init == /\ wallet = [u \in Users |-> NoRow]
        /\ ledger = [u \in Users |-> <<>>]

(* The one ledger entry most operations write: balance before and after.   *)
Book(type, seen, u, amount, after) ==
  ledger' = [ledger EXCEPT ![u] = Append(@, Entry(type, amount, seen[u].balance, after))]

(* asegurarMonedero: the first visit, deposit, sale or refund inserts it.  *)
Ensure(u, isActive) ==
  /\ wallet' = [wallet EXCEPT ![u] = Ensured(@, isActive)]
  /\ UNCHANGED ledger

(* Fault: the balance is not checked.                                      *)
WithdrawUnchecked(seen, u, a) ==
  /\ seen[u].exists
  /\ wallet' = [wallet EXCEPT ![u].balance = seen[u].balance - a]
  /\ Book("WITHDRAWAL", seen, u, a, seen[u].balance - a)

Deposit(seen, u, a) ==
  /\ seen[u].exists
  /\ wallet' = [wallet EXCEPT ![u].balance = seen[u].balance + a, ![u].active = TRUE]
  /\ Book("DEPOSIT", seen, u, a, seen[u].balance + a)

Withdraw(seen, u, a) ==
  /\ seen[u].exists
  /\ seen[u].balance >= a
  /\ wallet' = [wallet EXCEPT ![u].balance = seen[u].balance - a]
  /\ Book("WITHDRAWAL", seen, u, a, seen[u].balance - a)

RefundWithdrawal(seen, u, a) ==
  /\ seen[u].exists
  /\ wallet' = [wallet EXCEPT ![u].balance = seen[u].balance + a]
  /\ Book("WITHDRAWAL_REFUND", seen, u, a, seen[u].balance + a)

(* Fault: more may be released than is held.                               *)
ReleaseFundsUnchecked(seen, u, a) ==
  /\ seen[u].exists
  /\ wallet' = [wallet EXCEPT ![u].balance = seen[u].balance + a,
                              ![u].held = seen[u].held - a]
  /\ Book("RELEASE_BID", seen, u, a, seen[u].balance + a)

HoldFunds(seen, u, a) ==
  /\ seen[u].exists
  /\ seen[u].active
  /\ seen[u].balance >= a
  /\ wallet' = [wallet EXCEPT ![u].balance = seen[u].balance - a,
                              ![u].held = seen[u].held + a]
  /\ Book("HOLD_BID", seen, u, a, seen[u].balance - a)

ReleaseFunds(seen, u, a) ==
  /\ seen[u].exists
  /\ seen[u].held >= a
  /\ wallet' = [wallet EXCEPT ![u].balance = seen[u].balance + a,
                              ![u].held = seen[u].held - a]
  /\ Book("RELEASE_BID", seen, u, a, seen[u].balance + a)

(* Fault: the seller is credited and the buyer's hold is left in place.    *)
CaptureKeepsHold(seen, buyer, seller, a, pct) ==
  /\ seen[buyer].exists
  /\ seen[seller].exists
  /\ seen[buyer].held >= a
  /\ wallet' = [wallet EXCEPT ![seller].pending = seen[seller].pending + Net(a, pct),
                              ![seller].active = TRUE]
  /\ LET paid == seen[buyer].balance
         sold == seen[seller].balance
     IN  ledger' = [ledger EXCEPT
           ![buyer]  = Append(@, Entry("DEBIT_ORDER", a, paid, paid)),
           ![seller] = Append(Append(@, Entry("CREDIT_SALE", a, sold, sold)),
                              Entry("FEE_PLATFORM", Fee(a, pct), sold, sold))]

(* The buyer's hold is spent, the net goes to the seller's holdback.       *)
(* Neither available balance moves; all three entries repeat it.           *)
CaptureHeldFunds(seen, buyer, seller, a, pct) ==
  /\ seen[buyer].exists
  /\ seen[seller].exists
  /\ seen[buyer].held >= a
  /\ wallet' = [wallet EXCEPT ![buyer].held = seen[buyer].held - a,
                              ![seller].pending = seen[seller].pending + Net(a, pct),
                              ![seller].active = TRUE]
  /\ LET paid == seen[buyer].balance
         sold == seen[seller].balance
     IN  ledger' = [ledger EXCEPT
           ![buyer]  = Append(@, Entry("DEBIT_ORDER", a, paid, paid)),
           ![seller] = Append(Append(@, Entry("CREDIT_SALE", a, sold, sold)),
                              Entry("FEE_PLATFORM", Fee(a, pct), sold, sold))]

(* Holdback first, then the balance, which may become a debt.              *)
ReversarVenta(seen, buyer, seller, a) ==
  /\ seen[buyer].exists
  /\ seen[seller].exists
  /\ LET kept == FromPending(seen[seller], a)
         owed == seen[seller].balance - (a - kept)
         back == seen[buyer].balance + a
     IN  /\ wallet' = [wallet EXCEPT ![seller].balance = owed,
                                     ![seller].pending = seen[seller].pending - kept,
                                     ![buyer].balance = back,
                                     ![buyer].active = TRUE]
         /\ ledger' = [ledger EXCEPT
              ![seller] = Append(@, Entry("DISPUTE_REVERSAL", a, seen[seller].balance, owed)),
              ![buyer]  = Append(@, Entry("REFUND", a, seen[buyer].balance, back))]

(* With too little in the holdback the code returns without an error.      *)
ReleaseSettlement(seen, u, a) ==
  /\ seen[u].exists
  /\ \/ /\ seen[u].pending < a
        /\ UNCHANGED vars
     \/ /\ seen[u].pending >= a
        /\ wallet' = [wallet EXCEPT ![u].balance = seen[u].balance + a,
                                    ![u].pending = seen[u].pending - a,
                                    ![u].active = TRUE]
        /\ Book("SETTLEMENT_RELEASE", seen, u, a, seen[u].balance + a)

OneWalletStep(u, a) ==
  \/ Deposit(wallet, u, a)
  \/ Withdraw(wallet, u, a)
  \/ RefundWithdrawal(wallet, u, a)
  \/ HoldFunds(wallet, u, a)
  \/ ReleaseFunds(wallet, u, a)
  \/ ReleaseSettlement(wallet, u, a)

TwoWalletStep(buyer, seller, a) ==
  \/ \E pct \in FeePercents : CaptureHeldFunds(wallet, buyer, seller, a, pct)
  \/ ReversarVenta(wallet, buyer, seller, a)

Next ==
  \/ \E u \in Users, isActive \in BOOLEAN : Ensure(u, isActive)
  \/ \E u \in Users, a \in Amounts : OneWalletStep(u, a)
  \/ \E buyer, seller \in Users, a \in Amounts :
       buyer # seller /\ TwoWalletStep(buyer, seller, a)

Spec == Init /\ [][Next]_vars

-----------------------------------------------------------------------------
(* Every row and every entry is well formed.                               *)
TypeOK ==
  /\ wallet \in [Users -> WalletRow]
  /\ ledger \in [Users -> Seq(LedgerEntry)]

(* Held and pending money is never negative, whatever is released, spent   *)
(* or reversed, and a wallet that was never created holds nothing.         *)
FundsNeverNegative ==
  \A u \in Users : /\ wallet[u].held >= 0
                   /\ wallet[u].pending >= 0
                   /\ ~wallet[u].exists => wallet[u] = NoRow

(* The ledger of a wallet is a chain: each entry starts at the balance the *)
(* one before it left, the first at zero, and the last one left the        *)
(* balance the row has.  This is the contradiction PT-146 measured (ledger *)
(* 600, wallet 100) stated as an invariant.                                *)
Chained(entries, balance) ==
  IF entries = <<>> THEN balance = 0
  ELSE /\ entries[1].before = 0
       /\ \A i \in 1..Len(entries) - 1 : entries[i + 1].before = entries[i].after
       /\ entries[Len(entries)].after = balance

LedgerChain == \A u \in Users : Chained(ledger[u], wallet[u].balance)

(* The ledger accounts for every cent of a wallet: what it has, available, *)
(* held and pending, is what was booked in less what was booked out, and   *)
(* what it holds is what was held and neither released nor spent.  The one *)
(* exception is rounding: a commission with half a cent rounds up and so   *)
(* does the net of the same sale, a cent more per sale at most.            *)
Incoming == {"DEPOSIT", "WITHDRAWAL_REFUND", "REFUND", "CREDIT_SALE"}
Outgoing == {"WITHDRAWAL", "DEBIT_ORDER", "FEE_PLATFORM", "DISPUTE_REVERSAL"}

Total(row) == row.balance + row.held + row.pending

Booked(entries, types) ==
  SumFunction([i \in DOMAIN entries |->
                 IF entries[i].type \in types THEN entries[i].amount ELSE 0])

Sales(entries) ==
  Cardinality({i \in DOMAIN entries : entries[i].type = "CREDIT_SALE"})

Accounted(row, entries) ==
  /\ Total(row) - (Booked(entries, Incoming) - Booked(entries, Outgoing))
       \in 0..Sales(entries)
  /\ row.held = Booked(entries, {"HOLD_BID"}) - Booked(entries, {"RELEASE_BID", "DEBIT_ORDER"})

FundsBooked == \A u \in Users : Accounted(wallet[u], ledger[u])

(* Only the reversal of a sale may push a balance below zero: no           *)
(* withdrawal, hold or capture ever spends money the wallet does not have. *)
DebtOnlyFromReversal ==
  [][\A u \in Users :
       wallet'[u].balance < 0 /\ wallet'[u].balance < wallet[u].balance
         => ledger'[u][Len(ledger'[u])].type = "DISPUTE_REVERSAL"]_vars
=============================================================================
