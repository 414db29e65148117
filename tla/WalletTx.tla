------------------------------ MODULE WalletTx ------------------------------
(***************************************************************************)
(* WalletService as it runs: API workers, each inside a PostgreSQL         *)
(* transaction (READ COMMITTED), that lock wallet rows with SELECT ... FOR *)
(* UPDATE, read them, and write absolute values computed from what they    *)
(* read.  The module shows that this implements the atomic operations of   *)
(* module Wallet, over the same two tables, and which waits the lock order *)
(* does and does not rule out.                                             *)
(*                                                                         *)
(* Two operations run inside a caller's transaction that also writes the   *)
(* sale's row of "orders": the settlement job after the wallet, the refund *)
(* before it.  OrderRow stands for that row; of it only the lock matters.  *)
(***************************************************************************)
EXTENDS Wallet, FiniteSetsExt

CONSTANTS Workers,      \* connections of the API's pool
          Nobody,       \* the holder of a free lock
          OrderRow,     \* the row of "orders" of one sale
          MaxEntries    \* bound: once the ledger has as many, no more calls

ASSUME WorkersAssumption  == Nobody \notin Workers /\ OrderRow \notin Nat
ASSUME EntriesAssumption  == MaxEntries \in Nat

VARIABLES tx,       \* per worker: the call it runs and how far it is
          seen,     \* per worker: the wallet rows its transaction has read
          lockedBy  \* per row: the worker whose transaction locked it

txVars == <<tx, seen, lockedBy>>
allVars == <<vars, txVars>>

Rows == Users \cup {OrderRow}

(* A call.  Calls on one wallet have other = user and pct = 0.             *)
OneWalletKinds == {"deposit", "withdraw", "refundWithdrawal",
                   "hold", "release", "settle"}
Kinds == OneWalletKinds \cup {"capture", "reverse"}

Call == [kind : Kinds, user : Users, other : Users, amount : Amounts, pct : 0..100]

Calls ==
  {c \in Call :
     \/ c.kind \in OneWalletKinds /\ c.other = c.user /\ c.pct = 0
     \/ c.kind = "capture" /\ c.other # c.user /\ c.pct \in FeePercents
     \/ c.kind = "reverse" /\ c.other # c.user /\ c.pct = 0}

Wallets(c) == {c.user, c.other}

(* Whom asegurarMonedero is called for, in order, before any row is        *)
(* locked: the owner, the seller of a captured sale, both parties of a     *)
(* reversed one.                                                           *)
EnsurePlan(c) ==
  CASE c.kind = "deposit" -> <<c.user>>
    [] c.kind = "capture" -> <<c.other>>
    [] c.kind = "reverse" -> <<c.user, c.other>>
    [] OTHER -> <<>>

(* Fault: an operation on one wallet reads without FOR UPDATE.             *)
LockPlanUnlocked(c) ==
  IF c.kind \in OneWalletKinds THEN <<>>
  ELSE <<IF c.user <= c.other THEN c.user ELSE c.other,
         IF c.user <= c.other THEN c.other ELSE c.user>>

(* Fault: the two wallets are locked buyer first, seller second.           *)
LockPlanUnsorted(c) ==
  IF c.kind \in OneWalletKinds THEN <<c.user>> ELSE <<c.user, c.other>>

(* The rows a transaction locks and the order it asks for them in.  Two    *)
(* wallets are sorted by user id; the order row is locked by the caller's  *)
(* own UPDATE, before a reversal and after a settlement.                   *)
LockPlan(c) ==
  LET lower == IF c.user <= c.other THEN c.user ELSE c.other
      upper == IF c.user <= c.other THEN c.other ELSE c.user
  IN  CASE c.kind = "settle"  -> <<c.user, OrderRow>>
        [] c.kind = "capture" -> <<lower, upper>>
        [] c.kind = "reverse" -> <<OrderRow, lower, upper>>
        [] OTHER              -> <<c.user>>

(* "n" counts the statements done in the phase: wallets ensured, or rows   *)
(* locked.                                                                 *)
Idle == [pc |-> "idle"]
Phases == {"ensure", "lock", "write"}
TxState == {Idle} \cup [pc : Phases, call : Calls, n : 0..3]

TxInit == /\ Init
          /\ tx = [w \in Workers |-> Idle]
          /\ seen = [w \in Workers |-> [u \in Users |-> NoRow]]
          /\ lockedBy = [r \in Rows |-> Nobody]

(* A sale is captured only for a buyer whose bid was held, so the buyer's  *)
(* wallet is there; it is settled or reversed only once captured.          *)
Callable(c) ==
  /\ c.kind = "capture" => wallet[c.user].exists
  /\ c.kind \in {"settle", "reverse"} => Sales(ledger[c.other]) > 0
  /\ MapThenSumSet(LAMBDA u : Len(ledger[u]), Users) < MaxEntries

Begin(w) ==
  /\ tx[w] = Idle
  /\ \E c \in Calls :
       /\ Callable(c)
       /\ tx' = [tx EXCEPT ![w] =
                   [pc |-> IF EnsurePlan(c) = <<>> THEN "lock" ELSE "ensure",
                    call |-> c, n |-> 0]]
  /\ UNCHANGED <<vars, seen, lockedBy>>

(* One createMany ... skipDuplicates, committed on its own; after the last *)
(* one the transaction starts.                                             *)
EnsureWallet(w) ==
  /\ tx[w].pc = "ensure"
  /\ LET plan == EnsurePlan(tx[w].call)
     IN  /\ Ensure(plan[tx[w].n + 1], TRUE)
         /\ tx' = IF tx[w].n + 1 = Len(plan)
                  THEN [tx EXCEPT ![w].pc = "lock", ![w].n = 0]
                  ELSE [tx EXCEPT ![w].n = @ + 1]
  /\ UNCHANGED <<seen, lockedBy>>

(* getWallet, on any visit to the wallet's pages: the same statement alone.*)
GetWallet(u) ==
  /\ Ensure(u, FALSE)
  /\ UNCHANGED txVars

Wanted(w) == LockPlan(tx[w].call)[tx[w].n + 1]

Waiting(w) ==
  /\ tx[w].pc = "lock"
  /\ tx[w].n < Len(LockPlan(tx[w].call))

(* SELECT ... FOR UPDATE (or the UPDATE of the order row): blocks while    *)
(* another transaction holds the row.                                      *)
LockRow(w) ==
  /\ Waiting(w)
  /\ lockedBy[Wanted(w)] = Nobody
  /\ Wanted(w) \in Users => wallet[Wanted(w)].exists
  /\ lockedBy' = [lockedBy EXCEPT ![Wanted(w)] = w]
  /\ tx' = [tx EXCEPT ![w].n = @ + 1]
  /\ UNCHANGED <<vars, seen>>

(* Fault: the rows are read while the transaction still waits for them.    *)
ReadRowsEarly(w) ==
  /\ tx[w].pc = "lock"
  /\ seen' = [seen EXCEPT ![w] =
                [u \in Users |-> IF u \in Wallets(tx[w].call) THEN wallet[u] ELSE NoRow]]
  /\ tx' = [tx EXCEPT ![w].pc = "write"]
  /\ UNCHANGED <<vars, lockedBy>>

ReadRows(w) ==
  /\ tx[w].pc = "lock"
  /\ ~Waiting(w)
  /\ seen' = [seen EXCEPT ![w] =
                [u \in Users |-> IF u \in Wallets(tx[w].call) THEN wallet[u] ELSE NoRow]]
  /\ tx' = [tx EXCEPT ![w].pc = "write"]
  /\ UNCHANGED <<vars, lockedBy>>

(* The transaction ends, one way or the other: its locks go with it.       *)
End(w) ==
  /\ tx' = [tx EXCEPT ![w] = Idle]
  /\ seen' = [seen EXCEPT ![w] = [u \in Users |-> NoRow]]
  /\ lockedBy' = [r \in Rows |-> IF lockedBy[r] = w THEN Nobody ELSE lockedBy[r]]

(* What the call writes, computed from the rows the transaction read.      *)
Write(c, rows) ==
  \/ c.kind = "deposit" /\ Deposit(rows, c.user, c.amount)
  \/ c.kind = "withdraw" /\ Withdraw(rows, c.user, c.amount)
  \/ c.kind = "refundWithdrawal" /\ RefundWithdrawal(rows, c.user, c.amount)
  \/ c.kind = "hold" /\ HoldFunds(rows, c.user, c.amount)
  \/ c.kind = "release" /\ ReleaseFunds(rows, c.user, c.amount)
  \/ c.kind = "settle" /\ ReleaseSettlement(rows, c.user, c.amount)
  \/ c.kind = "capture"
     /\ CaptureHeldFunds(rows, c.user, c.other, c.amount, c.pct)
  \/ c.kind = "reverse" /\ ReversarVenta(rows, c.user, c.other, c.amount)

Commit(w) ==
  /\ tx[w].pc = "write"
  /\ Write(tx[w].call, seen[w])
  /\ End(w)

(* A guard that throws, a missing row, a lost connection, a crash or a     *)
(* deadlock that PostgreSQL breaks: nothing of the transaction remains.    *)
Rollback(w) ==
  /\ tx[w] # Idle
  /\ End(w)
  /\ UNCHANGED vars

WorkerStep(w) ==
  \/ Begin(w)
  \/ EnsureWallet(w)
  \/ LockRow(w)
  \/ ReadRows(w)
  \/ Commit(w)
  \/ Rollback(w)

TxNext == \/ \E w \in Workers : WorkerStep(w)
          \/ \E u \in Users : GetWallet(u)

TxSpec == TxInit /\ [][TxNext]_allVars

-----------------------------------------------------------------------------
(* Workers, their reads and the locks are well formed, and so are the rows.*)
TxTypeOK ==
  /\ TypeOK
  /\ tx \in [Workers -> TxState]
  /\ seen \in [Workers -> [Users -> WalletRow]]
  /\ lockedBy \in [Rows -> Workers \cup {Nobody}]

(* When a transaction writes, the rows it read are still the rows of the   *)
(* table: the balanceBefore of its entries is authoritative (PT-146).      *)
SnapshotCurrent ==
  \A w \in Workers : tx[w].pc = "write" =>
    \A u \in Wallets(tx[w].call) : seen[w][u] = wallet[u]

(* A transaction waiting for a wallet holds only wallets of smaller ids,   *)
(* so no set of transactions can wait for each other's wallets             *)
(* (bloquearDosMonederos).                                                 *)
WalletsLockedInOrder ==
  \A w \in Workers : Waiting(w) =>
    \A u \in Users : lockedBy[u] = w /\ Wanted(w) \in Users => u < Wanted(w)

(* Every step of the lock protocol is one atomic wallet operation, or      *)
(* changes neither wallets nor ledger.                                     *)
Implements == [][Next]_vars
=============================================================================
