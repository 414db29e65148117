---------------------------- MODULE WalletProofs ----------------------------
(***************************************************************************)
(* Proofs about the wallets, for every set of users, of amounts, of        *)
(* commission rates and of concurrent calls: first the atomic operations   *)
(* of module Wallet, then the row-lock protocol that implements them.      *)
(***************************************************************************)
EXTENDS WalletTx, SumProofs

(* Rounding to a cent, of an amount in hundredths of a cent, yields a      *)
(* natural and is off by at most half a cent.                              *)
LEMMA RoundCentsType ==
  ASSUME NEW n \in Nat
  PROVE  /\ RoundCents(n) \in Nat
         /\ n - 50 <= 100 * RoundCents(n)
         /\ 100 * RoundCents(n) <= n + 50
BY DEF RoundCents

LEMMA ProductNat ==
  ASSUME NEW a \in Nat, NEW p \in 0..100
  PROVE  /\ a * p \in Nat
         /\ a * (100 - p) \in Nat
         /\ a * p + a * (100 - p) = 100 * a
<1>1. a * p \in Nat
  BY SMT
<1>2. a * (100 - p) = 100 * a - a * p
  BY SMT
<1>3. 100 - p \in Nat
  BY SMT
<1>4. a * (100 - p) \in Nat
  BY <1>3, SMT
<1> QED
  BY <1>1, <1>2, <1>4, SMT

(* The commission and the net of a sale never lose money and never create  *)
(* more than the one cent of a commission that ends in half a cent.        *)
THEOREM CommissionSplit ==
  ASSUME NEW a \in Nat, NEW p \in 0..100
  PROVE  /\ Fee(a, p) \in Nat
         /\ Net(a, p) \in Nat
         /\ Fee(a, p) + Net(a, p) \in {a, a + 1}
<1> DEFINE x == a * p
           y == a * (100 - p)
<1>1. x \in Nat /\ y \in Nat /\ x + y = 100 * a
  BY ProductNat
<1> HIDE DEF x, y
<1>2. RoundCents(x) + RoundCents(y) \in {a, a + 1}
  BY <1>1 DEF RoundCents
<1>3. RoundCents(x) \in Nat /\ RoundCents(y) \in Nat
  BY <1>1, RoundCentsType
<1> QED
  BY <1>2, <1>3 DEF Fee, Net, x, y

-----------------------------------------------------------------------------
(* One entry that starts where the chain ends carries the chain on.        *)
LEMMA ChainAppend ==
  ASSUME NEW entries \in Seq(LedgerEntry), NEW balance \in Int,
         Chained(entries, balance),
         NEW type \in EntryTypes, NEW amount \in Nat, NEW after \in Int
  PROVE  LET longer == Append(entries, Entry(type, amount, balance, after))
         IN  longer \in Seq(LedgerEntry) /\ Chained(longer, after)
<1> DEFINE e == Entry(type, amount, balance, after)
           longer == Append(entries, e)
<1>1. e \in LedgerEntry /\ e.before = balance /\ e.after = after
  BY DEF Entry, LedgerEntry
<1> HIDE DEF e
<1>2. longer \in Seq(LedgerEntry) /\ Len(longer) = Len(entries) + 1 /\ Len(entries) \in Nat
  BY <1>1
<1>3. longer[Len(longer)] = e
  BY <1>1, <1>2
<1>4. \A i \in 1..Len(entries) : longer[i] = entries[i]
  BY <1>1, <1>2
<1>5. longer # <<>>
  <2> HIDE DEF longer
  <2> QED
    BY <1>2
<1>6. longer[1].before = 0
  <2>1. CASE entries = <<>>
    BY <2>1, <1>1, <1>3 DEF Chained
  <2>2. CASE entries # <<>>
    BY <2>2, <1>4 DEF Chained
  <2> QED
    BY <2>1, <2>2
<1>7. ASSUME NEW i \in 1..Len(longer) - 1
      PROVE  longer[i + 1].before = longer[i].after
  <2>1. CASE i = Len(entries)
    <3>1. entries # <<>> /\ entries[Len(entries)].after = balance
      BY <2>1, <1>2 DEF Chained
    <3> QED
      BY <3>1, <2>1, <1>1, <1>2, <1>3, <1>4
  <2>2. CASE i < Len(entries)
    <3>1. entries # <<>> /\ i \in 1..Len(entries) - 1 /\ i + 1 \in 1..Len(entries)
      BY <2>2, <1>2
    <3> QED
      BY <3>1, <1>4 DEF Chained
  <2> QED
    BY <2>1, <2>2, <1>2
<1>8. Chained(longer, after)
  BY <1>1, <1>3, <1>5, <1>6, <1>7 DEF Chained
<1> QED
  BY <1>2, <1>8 DEF e

(* The wallets and ledgers that the operations keep: well formed, without  *)
(* negative holds, and chained.                                            *)
Sound == TypeOK /\ FundsNeverNegative /\ LedgerChain

LEMMA NoRowType ==
  /\ NoRow \in WalletRow
  /\ ~NoRow.exists
  /\ NoRow.balance = 0 /\ NoRow.held = 0 /\ NoRow.pending = 0
BY DEF NoRow, WalletRow

LEMMA InitSound == Init => Sound
<1> SUFFICES ASSUME Init PROVE Sound
  OBVIOUS
<1> USE NoRowType DEF Init
<1>1. TypeOK
  BY DEF TypeOK
<1>2. FundsNeverNegative
  <2> SUFFICES ASSUME NEW u \in Users
               PROVE  /\ wallet[u].held >= 0
                      /\ wallet[u].pending >= 0
                      /\ wallet[u] = NoRow
    BY DEF FundsNeverNegative
  <2>1. wallet[u] = NoRow
    OBVIOUS
  <2> QED
    BY <2>1, 0 >= 0
<1>3. LedgerChain
  BY DEF LedgerChain, Chained
<1> QED
  BY <1>1, <1>2, <1>3 DEF Sound

LEMMA EnsureSound ==
  ASSUME Sound, NEW u \in Users, NEW isActive \in BOOLEAN, Ensure(u, isActive)
  PROVE  Sound'
<1> USE DEF Sound
<1> DEFINE row == Ensured(wallet[u], isActive)
<1>1. wallet[u] \in WalletRow /\ (~wallet[u].exists => wallet[u] = NoRow)
  BY DEF TypeOK, FundsNeverNegative
<1>2. /\ row \in WalletRow /\ row.exists
      /\ row.balance = wallet[u].balance
      /\ row.held = wallet[u].held
      /\ row.pending = wallet[u].pending
  <2>1. CASE wallet[u].exists
    BY <2>1, <1>1 DEF Ensured
  <2>2. CASE ~wallet[u].exists
    BY <2>2, <1>1 DEF Ensured, NoRow, WalletRow
  <2> QED
    BY <2>1, <2>2
<1>3. wallet' = [wallet EXCEPT ![u] = row] /\ ledger' = ledger
  BY DEF Ensure
<1> HIDE DEF row
<1>4. TypeOK'
  BY <1>2, <1>3 DEF TypeOK
<1>5. FundsNeverNegative'
  BY <1>2, <1>3 DEF FundsNeverNegative, TypeOK
<1>6. LedgerChain'
  BY <1>2, <1>3 DEF LedgerChain, TypeOK
<1> QED
  BY <1>4, <1>5, <1>6

(* An operation on one wallet that moves the row from balance to after and *)
(* books it with one entry, without touching who exists.                   *)
LEMMA OneEntrySound ==
  ASSUME Sound, NEW u \in Users, NEW a \in Nat, NEW type \in EntryTypes,
         wallet[u].exists,
         NEW row \in WalletRow, row.exists, row.held >= 0, row.pending >= 0,
         wallet' = [wallet EXCEPT ![u] = row],
         ledger' = [ledger EXCEPT ![u] =
                      Append(@, Entry(type, a, wallet[u].balance, row.balance))]
  PROVE  Sound'
<1> USE DEF Sound
<1>1. /\ ledger[u] \in Seq(LedgerEntry)
      /\ Chained(ledger[u], wallet[u].balance)
      /\ wallet[u].balance \in Int /\ row.balance \in Int
  BY DEF TypeOK, LedgerChain, WalletRow
<1>2. /\ ledger'[u] \in Seq(LedgerEntry)
      /\ Chained(ledger'[u], row.balance)
  BY <1>1, ChainAppend DEF TypeOK
<1>3. TypeOK'
  BY <1>2 DEF TypeOK
<1>4. FundsNeverNegative'
  BY DEF FundsNeverNegative, TypeOK
<1>5. LedgerChain'
  BY <1>2 DEF LedgerChain, TypeOK
<1> QED
  BY <1>3, <1>4, <1>5

LEMMA OneWalletSound ==
  ASSUME Sound, NEW u \in Users, NEW a \in Amounts, OneWalletStep(u, a)
  PROVE  Sound'
<1> USE AmountsAssumption
<1>1. /\ a \in Nat /\ a > 0
      /\ wallet \in [Users -> WalletRow] /\ wallet[u] \in WalletRow
      /\ wallet[u].balance \in Int
      /\ wallet[u].held \in Int /\ wallet[u].held >= 0
      /\ wallet[u].pending \in Int /\ wallet[u].pending >= 0
      /\ wallet[u].balance + a \in Int /\ wallet[u].balance - a \in Int
      /\ wallet[u].held + a \in Int /\ wallet[u].held - a \in Int
      /\ wallet[u].pending - a \in Int
  BY DEF Sound, TypeOK, FundsNeverNegative, WalletRow
<1> DEFINE old == wallet[u]
<1>2. CASE Deposit(wallet, u, a)
  <2> DEFINE row == [old EXCEPT !.balance = old.balance + a, !.active = TRUE]
  <2>0. row \in WalletRow
    BY <1>1, Zenon DEF WalletRow
  <2>1. /\ row.exists = old.exists /\ row.balance = old.balance + a
        /\ row.held = old.held /\ row.pending = old.pending
    BY <1>1 DEF WalletRow
  <2>2. wallet' = [wallet EXCEPT ![u] = row]
    BY <1>1, <1>2 DEF Deposit, WalletRow
  <2> QED
    BY <1>1, <1>2, <2>0, <2>1, <2>2, OneEntrySound DEF Deposit, Book, EntryTypes
<1>3. CASE Withdraw(wallet, u, a)
  <2> DEFINE row == [old EXCEPT !.balance = old.balance - a]
  <2>0. row \in WalletRow
    BY <1>1, Zenon DEF WalletRow
  <2>1. /\ row.exists = old.exists /\ row.balance = old.balance - a
        /\ row.held = old.held /\ row.pending = old.pending
    BY <1>1 DEF WalletRow
  <2>2. wallet' = [wallet EXCEPT ![u] = row]
    BY <1>1, <1>3 DEF Withdraw, WalletRow
  <2> QED
    BY <1>1, <1>3, <2>0, <2>1, <2>2, OneEntrySound DEF Withdraw, Book, EntryTypes
<1>4. CASE RefundWithdrawal(wallet, u, a)
  <2> DEFINE row == [old EXCEPT !.balance = old.balance + a]
  <2>0. row \in WalletRow
    BY <1>1, Zenon DEF WalletRow
  <2>1. /\ row.exists = old.exists /\ row.balance = old.balance + a
        /\ row.held = old.held /\ row.pending = old.pending
    BY <1>1 DEF WalletRow
  <2>2. wallet' = [wallet EXCEPT ![u] = row]
    BY <1>1, <1>4 DEF RefundWithdrawal, WalletRow
  <2> QED
    BY <1>1, <1>4, <2>0, <2>1, <2>2, OneEntrySound DEF RefundWithdrawal, Book, EntryTypes
<1>5. CASE HoldFunds(wallet, u, a)
  <2> DEFINE row == [old EXCEPT !.balance = old.balance - a, !.held = old.held + a]
  <2>0. row \in WalletRow
    BY <1>1, Zenon DEF WalletRow
  <2>1. /\ row.exists = old.exists /\ row.balance = old.balance - a
        /\ row.held = old.held + a /\ row.pending = old.pending
    BY <1>1 DEF WalletRow
  <2>2. wallet' = [wallet EXCEPT ![u] = row]
    BY <1>1, <1>5 DEF HoldFunds, WalletRow
  <2>3. /\ row.exists /\ wallet[u].exists /\ row.held >= 0 /\ row.pending >= 0
        /\ "HOLD_BID" \in EntryTypes
    BY <1>1, <1>5, <2>1 DEF HoldFunds, EntryTypes
  <2>4. ledger' = [ledger EXCEPT ![u] =
                     Append(@, Entry("HOLD_BID", a, wallet[u].balance, row.balance))]
    BY <1>5, <2>1 DEF HoldFunds, Book
  <2> HIDE DEF row
  <2> QED
    BY <1>1, <2>0, <2>2, <2>3, <2>4, OneEntrySound
<1>6. CASE ReleaseFunds(wallet, u, a)
  <2> DEFINE row == [old EXCEPT !.balance = old.balance + a, !.held = old.held - a]
  <2>0. row \in WalletRow
    BY <1>1, Zenon DEF WalletRow
  <2>1. /\ row.exists = old.exists /\ row.balance = old.balance + a
        /\ row.held = old.held - a /\ row.pending = old.pending
    BY <1>1 DEF WalletRow
  <2>2. wallet' = [wallet EXCEPT ![u] = row]
    BY <1>1, <1>6 DEF ReleaseFunds, WalletRow
  <2>3. row.held >= 0
    BY <1>1, <1>6, <2>1 DEF ReleaseFunds
  <2> QED
    BY <1>1, <1>6, <2>0, <2>1, <2>2, <2>3, OneEntrySound DEF ReleaseFunds, Book, EntryTypes
<1>7. CASE ReleaseSettlement(wallet, u, a)
  <2> DEFINE row == [old EXCEPT !.balance = old.balance + a, !.pending = old.pending - a,
                                !.active = TRUE]
  <2>1. CASE old.pending < a
    <3>1. UNCHANGED vars
      BY <1>1, <1>7, <2>1 DEF ReleaseSettlement
    <3> QED
      BY <3>1 DEF vars, Sound, TypeOK, FundsNeverNegative, LedgerChain
  <2>2. CASE old.pending >= a
    <3>0. row \in WalletRow
      BY <1>1, Zenon DEF WalletRow
    <3>1. /\ row.exists = old.exists /\ row.balance = old.balance + a
          /\ row.held = old.held /\ row.pending = old.pending - a
      BY <1>1 DEF WalletRow
    <3>2. wallet' = [wallet EXCEPT ![u] = row]
      BY <1>1, <1>7, <2>2 DEF ReleaseSettlement, WalletRow
    <3>3. /\ row.exists /\ wallet[u].exists /\ row.held >= 0 /\ row.pending >= 0
          /\ "SETTLEMENT_RELEASE" \in EntryTypes
      BY <1>1, <1>7, <2>2, <3>1 DEF ReleaseSettlement, EntryTypes
    <3>4. ledger' = [ledger EXCEPT ![u] =
                       Append(@, Entry("SETTLEMENT_RELEASE", a, wallet[u].balance, row.balance))]
      BY <1>1, <1>7, <2>2, <3>1 DEF ReleaseSettlement, Book
    <3> HIDE DEF row
    <3> QED
      BY <1>1, <3>0, <3>2, <3>3, <3>4, OneEntrySound
  <2> QED
    BY <1>1, <2>1, <2>2
<1> QED
  BY <1>2, <1>3, <1>4, <1>5, <1>6, <1>7 DEF OneWalletStep

(* The rows and books of two different wallets, each kept sound.           *)
LEMMA TwoWalletsSound ==
  ASSUME Sound, NEW b \in Users, NEW s \in Users, b # s,
         NEW rb \in WalletRow, rb.exists, rb.held >= 0, rb.pending >= 0,
         NEW rs \in WalletRow, rs.exists, rs.held >= 0, rs.pending >= 0,
         NEW lb \in Seq(LedgerEntry), Chained(lb, rb.balance),
         NEW ls \in Seq(LedgerEntry), Chained(ls, rs.balance),
         wallet' = [wallet EXCEPT ![b] = rb, ![s] = rs],
         ledger' = [ledger EXCEPT ![b] = lb, ![s] = ls]
  PROVE  Sound'
<1> USE DEF Sound
<1>1. TypeOK'
  BY DEF TypeOK
<1>2. \A v \in Users : /\ wallet'[v] = IF v = b THEN rb ELSE IF v = s THEN rs ELSE wallet[v]
                       /\ ledger'[v] = IF v = b THEN lb ELSE IF v = s THEN ls ELSE ledger[v]
  BY DEF TypeOK
<1>3. ASSUME NEW v \in Users
      PROVE  /\ wallet'[v].held >= 0
             /\ wallet'[v].pending >= 0
             /\ ~wallet'[v].exists => wallet'[v] = NoRow
             /\ Chained(ledger'[v], wallet'[v].balance)
  <2>1. CASE v = b
    BY <1>2, <2>1
  <2>2. CASE v # b /\ v = s
    BY <1>2, <2>2
  <2>3. CASE v # b /\ v # s
    BY <1>2, <2>3 DEF FundsNeverNegative, LedgerChain
  <2> QED
    BY <2>1, <2>2, <2>3
<1>4. FundsNeverNegative' /\ LedgerChain'
  BY <1>3 DEF FundsNeverNegative, LedgerChain
<1> QED
  BY <1>1, <1>4

LEMMA CaptureSound ==
  ASSUME Sound, NEW b \in Users, NEW s \in Users, b # s, NEW a \in Amounts,
         NEW pct \in FeePercents, CaptureHeldFunds(wallet, b, s, a, pct)
  PROVE  Sound'
<1> USE AmountsAssumption, FeesAssumption
<1>1. /\ a \in Nat /\ pct \in 0..100
      /\ wallet \in [Users -> WalletRow] /\ wallet[b] \in WalletRow /\ wallet[s] \in WalletRow
      /\ ledger \in [Users -> Seq(LedgerEntry)]
      /\ wallet[b].balance \in Int /\ wallet[s].balance \in Int
      /\ wallet[b].held \in Int /\ wallet[b].held >= a /\ wallet[b].held - a \in Int
      /\ wallet[s].pending \in Int /\ wallet[s].pending >= 0
      /\ wallet[s].held >= 0 /\ wallet[b].pending >= 0
      /\ wallet[b].exists /\ wallet[s].exists
  BY DEF Sound, TypeOK, FundsNeverNegative, WalletRow, CaptureHeldFunds
<1>2. Net(a, pct) \in Nat /\ Fee(a, pct) \in Nat
  BY <1>1, CommissionSplit
<1> DEFINE net == Net(a, pct)
           fee == Fee(a, pct)
           rb == [wallet[b] EXCEPT !.held = wallet[b].held - a]
           rs == [wallet[s] EXCEPT !.pending = wallet[s].pending + net, !.active = TRUE]
           paid == wallet[b].balance
           sold == wallet[s].balance
           lb == Append(ledger[b], Entry("DEBIT_ORDER", a, paid, paid))
           credit == Append(ledger[s], Entry("CREDIT_SALE", a, sold, sold))
           ls == Append(credit, Entry("FEE_PLATFORM", fee, sold, sold))
<1>3. wallet[s].pending + net \in Int /\ wallet[s].pending + net >= 0
  BY <1>1, <1>2
<1> HIDE DEF net, fee
<1>4. rb \in WalletRow /\ rs \in WalletRow
  BY <1>1, <1>3, Zenon DEF WalletRow
<1>5. /\ rb.exists /\ rb.held >= 0 /\ rb.pending >= 0 /\ rb.balance = paid
      /\ rs.exists /\ rs.held >= 0 /\ rs.pending >= 0 /\ rs.balance = sold
  BY <1>1, <1>3 DEF WalletRow
<1>6. lb \in Seq(LedgerEntry) /\ Chained(lb, paid)
  BY <1>1, ChainAppend DEF Sound, LedgerChain, EntryTypes
<1>7. credit \in Seq(LedgerEntry) /\ Chained(credit, sold)
  BY <1>1, ChainAppend DEF Sound, LedgerChain, EntryTypes
<1>8. ls \in Seq(LedgerEntry) /\ Chained(ls, sold)
  <2> HIDE DEF credit
  <2> QED
    BY <1>1, <1>2, <1>7, ChainAppend DEF EntryTypes, fee
<1>9. wallet' = [wallet EXCEPT ![b] = rb, ![s] = rs]
  BY <1>1 DEF CaptureHeldFunds, net, WalletRow
<1>10. ledger' = [ledger EXCEPT ![b] = lb, ![s] = ls]
  BY <1>1 DEF CaptureHeldFunds, fee
<1> HIDE DEF rb, rs, lb, ls
<1> QED
  BY <1>4, <1>5, <1>6, <1>8, <1>9, <1>10, TwoWalletsSound

LEMMA ReversalSound ==
  ASSUME Sound, NEW b \in Users, NEW s \in Users, b # s, NEW a \in Amounts,
         ReversarVenta(wallet, b, s, a)
  PROVE  Sound'
<1> USE AmountsAssumption
<1> DEFINE kept == FromPending(wallet[s], a)
           owed == wallet[s].balance - (a - kept)
           back == wallet[b].balance + a
           rb == [wallet[b] EXCEPT !.balance = back, !.active = TRUE]
           rs == [wallet[s] EXCEPT !.balance = owed, !.pending = wallet[s].pending - kept]
           lb == Append(ledger[b], Entry("REFUND", a, wallet[b].balance, back))
           ls == Append(ledger[s], Entry("DISPUTE_REVERSAL", a, wallet[s].balance, owed))
<1>1. /\ a \in Nat
      /\ wallet \in [Users -> WalletRow] /\ wallet[b] \in WalletRow /\ wallet[s] \in WalletRow
      /\ ledger \in [Users -> Seq(LedgerEntry)]
      /\ wallet[b].balance \in Int /\ wallet[s].balance \in Int
      /\ wallet[s].pending \in Int /\ wallet[s].pending >= 0
      /\ wallet[b].held >= 0 /\ wallet[s].held >= 0 /\ wallet[b].pending >= 0
      /\ wallet[b].exists /\ wallet[s].exists
  BY DEF Sound, TypeOK, FundsNeverNegative, WalletRow, ReversarVenta
<1>2. kept \in Int /\ kept <= wallet[s].pending
  BY <1>1 DEF FromPending
<1>3. owed \in Int /\ back \in Int /\ wallet[s].pending - kept \in Int /\ wallet[s].pending - kept >= 0
  BY <1>1, <1>2
<1>8. wallet' = [wallet EXCEPT ![s].balance = owed, ![s].pending = wallet[s].pending - kept,
                               ![b].balance = back, ![b].active = TRUE]
  BY DEF ReversarVenta
<1>10. ledger' = [ledger EXCEPT ![b] = lb, ![s] = ls]
  BY <1>1 DEF ReversarVenta
<1> HIDE DEF kept, owed, back
<1>9. wallet' = [wallet EXCEPT ![b] = rb, ![s] = rs]
  <2> DEFINE w == [wallet EXCEPT ![s] = rs]
  <2>1. w = [wallet EXCEPT ![s].balance = owed, ![s].pending = wallet[s].pending - kept]
    BY <1>1
  <2>2. wallet' = [w EXCEPT ![b].balance = back, ![b].active = TRUE]
    BY <1>8, <2>1
  <2>3. w[b] = wallet[b] /\ DOMAIN w = Users
    BY <1>1
  <2> HIDE DEF w
  <2>4. wallet' = [w EXCEPT ![b] = rb]
    BY <2>2, <2>3
  <2> QED
    BY <1>1, <2>4 DEF w
<1>4. rb \in WalletRow /\ rs \in WalletRow
  BY <1>1, <1>3, Zenon DEF WalletRow
<1>5. /\ rb.exists /\ rb.held >= 0 /\ rb.pending >= 0 /\ rb.balance = back
      /\ rs.exists /\ rs.held >= 0 /\ rs.pending >= 0 /\ rs.balance = owed
  BY <1>1, <1>3 DEF WalletRow
<1>6. lb \in Seq(LedgerEntry) /\ Chained(lb, back)
  BY <1>1, <1>3, ChainAppend DEF Sound, LedgerChain, EntryTypes
<1>7. ls \in Seq(LedgerEntry) /\ Chained(ls, owed)
  BY <1>1, <1>3, ChainAppend DEF Sound, LedgerChain, EntryTypes
<1> HIDE DEF rb, rs, lb, ls
<1> QED
  BY <1>1, <1>4, <1>5, <1>6, <1>7, <1>9, <1>10, TwoWalletsSound

LEMMA NextSound == Sound /\ [Next]_vars => Sound'
<1> SUFFICES ASSUME Sound, [Next]_vars PROVE Sound'
  OBVIOUS
<1>1. CASE \E u \in Users, isActive \in BOOLEAN : Ensure(u, isActive)
  BY <1>1, EnsureSound
<1>2. CASE \E u \in Users, a \in Amounts : OneWalletStep(u, a)
  BY <1>2, OneWalletSound
<1>3. CASE \E b, s \in Users, a \in Amounts : b # s /\ TwoWalletStep(b, s, a)
  BY <1>3, CaptureSound, ReversalSound DEF TwoWalletStep
<1>4. CASE UNCHANGED vars
  BY <1>4 DEF vars, Sound, TypeOK, FundsNeverNegative, LedgerChain
<1> QED
  BY <1>1, <1>2, <1>3, <1>4 DEF Next

-----------------------------------------------------------------------------
(* For every set of users, amounts and rates: wallets and ledger stay well *)
(* formed, held and pending money never goes negative, and the ledger of   *)
(* each wallet is a chain that ends at its balance.                        *)
THEOREM WalletSafety == Spec => [](TypeOK /\ FundsNeverNegative /\ LedgerChain)
<1>1. Spec => []Sound
  BY InitSound, NextSound, PTL DEF Spec
<1>2. Sound => TypeOK /\ FundsNeverNegative /\ LedgerChain
  BY DEF Sound
<1> QED
  BY <1>1, <1>2, PTL

(* What DebtOnlyFromReversal asks of one step.                             *)
NoNewDebt ==
  \A u \in Users :
    wallet'[u].balance < 0 /\ wallet'[u].balance < wallet[u].balance
      => ledger'[u][Len(ledger'[u])].type = "DISPUTE_REVERSAL"

LEMMA OneWalletNoNewDebt ==
  ASSUME Sound, NEW u \in Users, NEW a \in Amounts, OneWalletStep(u, a)
  PROVE  NoNewDebt
<1>1. /\ a \in Nat /\ wallet \in [Users -> WalletRow] /\ wallet[u].balance \in Int
      /\ wallet[u] \in WalletRow
  BY AmountsAssumption DEF Sound, TypeOK, WalletRow
<1>2. \A v \in Users : v # u => wallet'[v] = wallet[v] \/ wallet'[v].balance = wallet[v].balance
  BY <1>1 DEF OneWalletStep, Deposit, Withdraw, RefundWithdrawal, HoldFunds, ReleaseFunds,
              ReleaseSettlement, vars
<1>3. wallet'[u].balance >= 0 \/ wallet'[u].balance >= wallet[u].balance
  <2>1. CASE Deposit(wallet, u, a) \/ RefundWithdrawal(wallet, u, a) \/ ReleaseFunds(wallet, u, a)
    BY <1>1, <2>1 DEF Deposit, RefundWithdrawal, ReleaseFunds, WalletRow
  <2>2. CASE Withdraw(wallet, u, a) \/ HoldFunds(wallet, u, a)
    BY <1>1, <2>2 DEF Withdraw, HoldFunds, WalletRow
  <2>3. CASE ReleaseSettlement(wallet, u, a)
    BY <1>1, <2>3 DEF ReleaseSettlement, WalletRow, vars
  <2> QED
    BY <2>1, <2>2, <2>3 DEF OneWalletStep
<1>4. \A v \in Users : wallet[v].balance \in Int
  BY <1>1 DEF WalletRow
<1>5. wallet'[u].balance \in Int
  BY OneWalletSound DEF Sound, TypeOK, WalletRow
<1> QED
  BY <1>2, <1>3, <1>4, <1>5 DEF NoNewDebt

LEMMA TwoWalletNoNewDebt ==
  ASSUME Sound, NEW b \in Users, NEW s \in Users, b # s, NEW a \in Amounts,
         TwoWalletStep(b, s, a)
  PROVE  NoNewDebt
<1>1. /\ a \in Nat /\ wallet \in [Users -> WalletRow] /\ ledger \in [Users -> Seq(LedgerEntry)]
      /\ \A v \in Users : wallet[v].balance \in Int
  BY AmountsAssumption DEF Sound, TypeOK, WalletRow
<1>2. ASSUME NEW pct \in FeePercents, CaptureHeldFunds(wallet, b, s, a, pct)
      PROVE  NoNewDebt
  <2>1. \A v \in Users : wallet'[v].balance = wallet[v].balance
    BY <1>1, <1>2 DEF CaptureHeldFunds, WalletRow
  <2> QED
    BY <1>1, <2>1 DEF NoNewDebt
<1>3. CASE ReversarVenta(wallet, b, s, a)
  <2>1. wallet'[b].balance = wallet[b].balance + a
    BY <1>1, <1>3 DEF ReversarVenta, WalletRow
  <2>2. \A v \in Users : v # b /\ v # s => wallet'[v] = wallet[v]
    BY <1>1, <1>3 DEF ReversarVenta
  <2> DEFINE e == Entry("DISPUTE_REVERSAL", a, wallet[s].balance,
                        wallet[s].balance - (a - FromPending(wallet[s], a)))
  <2>3. ledger'[s] = Append(ledger[s], e)
    BY <1>1, <1>3 DEF ReversarVenta
  <2>4. e.type = "DISPUTE_REVERSAL"
    BY DEF Entry
  <2> HIDE DEF e
  <2>5. ledger'[s][Len(ledger'[s])] = e
    <3>1. ledger'[s] \in Seq(LedgerEntry) /\ ledger[s] \in Seq(LedgerEntry)
      BY <1>1, <1>3, ReversalSound DEF Sound, TypeOK
    <3>2. e \in LedgerEntry
      <4>1. FromPending(wallet[s], a) \in Int /\ wallet[s].balance \in Int
        BY <1>1 DEF FromPending, WalletRow
      <4> QED
        BY <1>1, <4>1 DEF e, Entry, LedgerEntry, EntryTypes
    <3> QED
      BY <2>3, <3>1, <3>2
  <2>6. \A v \in Users : v # s => ~(wallet'[v].balance < wallet[v].balance)
    <3>1. wallet[b].balance \in Int /\ ~(wallet[b].balance + a < wallet[b].balance)
      BY <1>1
    <3>2. \A v \in Users : ~(wallet[v].balance < wallet[v].balance)
      <4>1. \A x \in Int : ~(x < x)
        OBVIOUS
      <4> QED
        BY <1>1, <4>1, Zenon
    <3> QED
      BY <2>1, <2>2, <3>1, <3>2, Zenon
  <2>7. ledger'[s][Len(ledger'[s])].type = "DISPUTE_REVERSAL"
    BY <2>4, <2>5
  <2> QED
    BY <2>6, <2>7 DEF NoNewDebt
<1> QED
  BY <1>2, <1>3 DEF TwoWalletStep

(* Whatever the calls, only the reversal of a sale takes a balance below   *)
(* zero.                                                                   *)
THEOREM DebtSafety == Spec => DebtOnlyFromReversal
<1>1. Sound /\ [Next]_vars => [NoNewDebt]_vars
  <2> SUFFICES ASSUME Sound, Next PROVE NoNewDebt \/ UNCHANGED vars
    OBVIOUS
  <2>1. CASE \E u \in Users, isActive \in BOOLEAN : Ensure(u, isActive)
    <3>1. \A v \in Users : wallet'[v].balance = wallet[v].balance
      BY <2>1 DEF Sound, TypeOK, FundsNeverNegative, Ensure, Ensured, NoRow, WalletRow
    <3>2. \A v \in Users : wallet[v].balance \in Int
      BY DEF Sound, TypeOK, WalletRow
    <3>3. \A v \in Users : ~(wallet'[v].balance < wallet[v].balance)
      BY <3>1, <3>2
    <3> QED
      BY <3>3 DEF NoNewDebt
  <2>2. CASE \E u \in Users, a \in Amounts : OneWalletStep(u, a)
    BY <2>2, OneWalletNoNewDebt
  <2>3. CASE \E b, s \in Users, a \in Amounts : b # s /\ TwoWalletStep(b, s, a)
    BY <2>3, TwoWalletNoNewDebt
  <2> QED
    BY <2>1, <2>2, <2>3 DEF Next
<1>2. Spec => []Sound
  BY InitSound, NextSound, PTL DEF Spec
<1>3. [NoNewDebt]_vars => [\A u \in Users :
       wallet'[u].balance < 0 /\ wallet'[u].balance < wallet[u].balance
         => ledger'[u][Len(ledger'[u])].type = "DISPUTE_REVERSAL"]_vars
  BY DEF NoNewDebt
<1> QED
  BY <1>1, <1>2, <1>3, PTL DEF Spec, DebtOnlyFromReversal
-----------------------------------------------------------------------------
(* What one more entry books.                                              *)
LEMMA BookedAppend ==
  ASSUME NEW entries \in Seq(LedgerEntry), NEW e \in LedgerEntry, NEW types
  PROVE  /\ Booked(entries, types) \in Int
         /\ Booked(Append(entries, e), types)
              = Booked(entries, types) + (IF e.type \in types THEN e.amount ELSE 0)
<1> DEFINE longer == Append(entries, e)
           n == Len(entries)
           Value(s) == [i \in DOMAIN s |-> IF s[i].type \in types THEN s[i].amount ELSE 0]
<1>1. /\ n \in Nat /\ DOMAIN entries = 1..n
      /\ longer \in Seq(LedgerEntry) /\ DOMAIN longer = 1..(n + 1)
      /\ longer[n + 1] = e /\ \A i \in 1..n : longer[i] = entries[i]
  OBVIOUS
<1>2. IsFiniteSet(1..n) /\ IsFiniteSet(1..(n + 1))
  <2> HIDE DEF n
  <2>1. 1 \in Int /\ n \in Int /\ n + 1 \in Int
    BY <1>1
  <2> QED  BY <2>1, FS_Interval
<1>3. /\ \A i \in 1..n : Value(entries)[i] \in Int /\ Value(longer)[i] = Value(entries)[i]
      /\ Value(longer)[n + 1] = IF e.type \in types THEN e.amount ELSE 0
      /\ Value(longer)[n + 1] \in Int
  <2>0. \A i \in 1..Len(entries) : entries[i] \in LedgerEntry
    OBVIOUS
  <2>1. \A i \in 1..n : entries[i].amount \in Int
    BY <2>0 DEF LedgerEntry
  <2>2. e.amount \in Int /\ n + 1 \in 1..(n + 1) /\ \A i \in 1..n : i \in 1..(n + 1)
    BY <1>1 DEF LedgerEntry
  <2> HIDE DEF n, longer
  <2> QED  BY <1>1, <2>1, <2>2
<1>4. /\ Booked(entries, types) = SumFunctionOnSet(Value(entries), 1..n)
      /\ Booked(longer, types) = SumFunctionOnSet(Value(longer), 1..(n + 1))
  BY <1>1 DEF Booked, SumFunction, SumFunctionOnSet
<1>5. n + 1 \in 1..(n + 1) /\ (1..(n + 1)) \ {n + 1} = 1..n
  BY <1>1
<1>6. \A i \in 1..(n + 1) : Value(longer)[i] \in Int
  <2>1. \A i \in 1..(n + 1) : i \in 1..n \/ i = n + 1
    BY <1>1
  <2> QED  BY <1>3, <2>1
<1> HIDE DEF longer, n, Value
<1>7. SumFunctionOnSet(Value(longer), 1..(n + 1))
        = Value(longer)[n + 1] + SumFunctionOnSet(Value(longer), 1..n)
  <2> DEFINE S == 1..(n + 1)
             h == Value(longer)
  <2>1. IsFiniteSet(S) /\ n + 1 \in S /\ (\A i \in S : h[i] \in Int) /\ S \ {n + 1} = 1..n
    BY <1>2, <1>5, <1>6
  <2> HIDE DEF S, h
  <2>2. SumFunctionOnSet(h, S) = h[n + 1] + SumFunctionOnSet(h, S \ {n + 1})
    BY <2>1, SumRemove
  <2> QED  BY <2>1, <2>2 DEF S, h
<1>8. /\ SumFunctionOnSet(Value(longer), 1..n) = SumFunctionOnSet(Value(entries), 1..n)
      /\ SumFunctionOnSet(Value(entries), 1..n) \in Int
  BY <1>2, <1>3, SumSame, SumInt
<1> QED
  BY <1>3, <1>4, <1>7, <1>8 DEF longer

LEMMA SalesAppend ==
  ASSUME NEW entries \in Seq(LedgerEntry), NEW e \in LedgerEntry
  PROVE  /\ Sales(entries) \in Nat
         /\ Sales(Append(entries, e))
              = IF e.type = "CREDIT_SALE" THEN Sales(entries) + 1 ELSE Sales(entries)
<1> DEFINE longer == Append(entries, e)
           n == Len(entries)
           Of(s) == {i \in DOMAIN s : s[i].type = "CREDIT_SALE"}
<1>1. /\ n \in Nat /\ DOMAIN entries = 1..n
      /\ DOMAIN longer = 1..(n + 1) /\ DOMAIN longer = 1..n \cup {n + 1} /\ n + 1 \notin 1..n
      /\ longer[n + 1] = e /\ \A i \in 1..n : longer[i] = entries[i]
  OBVIOUS
<1>2. IsFiniteSet(Of(entries)) /\ n + 1 \notin Of(entries)
  <2>1. IsFiniteSet(1..n) /\ Of(entries) \subseteq 1..n
    BY <1>1, FS_Interval
  <2> QED  BY <1>1, <2>1, FS_Subset
<1>3. Of(longer) = IF e.type = "CREDIT_SALE" THEN Of(entries) \cup {n + 1} ELSE Of(entries)
  BY <1>1
<1> HIDE DEF n, Of
<1>4. /\ Cardinality(Of(entries)) \in Nat
      /\ Cardinality(Of(entries) \cup {n + 1}) = Cardinality(Of(entries)) + 1
  BY <1>2, FS_CardinalityType, FS_AddElement
<1> QED
  BY <1>3, <1>4 DEF Sales, Of

(* What an entry says of the money the wallet has in all, and of the part  *)
(* it holds; the credit of a sale may carry a cent of rounding.            *)
Moves(row, after, e) ==
  /\ IF e.type = "CREDIT_SALE" THEN Total(after) - Total(row) \in {e.amount, e.amount + 1}
     ELSE Total(after) = Total(row) + (IF e.type \in Incoming THEN e.amount ELSE 0)
                                    - (IF e.type \in Outgoing THEN e.amount ELSE 0)
  /\ after.held = row.held + (IF e.type = "HOLD_BID" THEN e.amount ELSE 0)
                           - (IF e.type \in {"RELEASE_BID", "DEBIT_ORDER"} THEN e.amount ELSE 0)

LEMMA AccountedAppend ==
  ASSUME NEW entries \in Seq(LedgerEntry), NEW e \in LedgerEntry,
         NEW row \in WalletRow, NEW after \in WalletRow,
         Accounted(row, entries), Moves(row, after, e)
  PROVE  Accounted(after, Append(entries, e))
<1> DEFINE longer == Append(entries, e)
           came == Booked(entries, Incoming)
           went == Booked(entries, Outgoing)
           got  == Booked(entries, {"HOLD_BID"})
           gone == Booked(entries, {"RELEASE_BID", "DEBIT_ORDER"})
<1>1. /\ came \in Int /\ went \in Int /\ got \in Int /\ gone \in Int /\ Sales(entries) \in Nat
      /\ Booked(longer, Incoming) = came + (IF e.type \in Incoming THEN e.amount ELSE 0)
      /\ Booked(longer, Outgoing) = went + (IF e.type \in Outgoing THEN e.amount ELSE 0)
      /\ Booked(longer, {"HOLD_BID"}) = got + (IF e.type \in {"HOLD_BID"} THEN e.amount ELSE 0)
      /\ Booked(longer, {"RELEASE_BID", "DEBIT_ORDER"})
           = gone + (IF e.type \in {"RELEASE_BID", "DEBIT_ORDER"} THEN e.amount ELSE 0)
      /\ Sales(longer) = IF e.type = "CREDIT_SALE" THEN Sales(entries) + 1 ELSE Sales(entries)
  BY BookedAppend, SalesAppend
<1>2. /\ Total(row) - (came - went) \in 0..Sales(entries)
      /\ row.held = got - gone
  BY Zenon DEF Accounted
<1>3. /\ e.amount \in Nat /\ Total(row) \in Int /\ Total(after) \in Int
      /\ row.held \in Int /\ after.held \in Int
  BY DEF LedgerEntry, WalletRow, Total
<1> DEFINE moreIn == IF e.type \in Incoming THEN e.amount ELSE 0
           moreOut == IF e.type \in Outgoing THEN e.amount ELSE 0
<1>4. e.type = "CREDIT_SALE" => moreIn = e.amount /\ moreOut = 0
  BY DEF Incoming, Outgoing
<1>5. moreIn \in Nat /\ moreOut \in Nat
  BY <1>3
<1> HIDE DEF longer, came, went, got, gone
<1>6. Total(after) - (Booked(longer, Incoming) - Booked(longer, Outgoing)) \in 0..Sales(longer)
  <2>1. CASE e.type = "CREDIT_SALE"
    <3>1. Total(after) - Total(row) \in {e.amount, e.amount + 1}
      BY <2>1 DEF Moves
    <3>2. /\ Booked(longer, Incoming) = came + e.amount
          /\ Booked(longer, Outgoing) = went
          /\ Sales(longer) = Sales(entries) + 1
      BY <1>1, <1>4, <2>1
    <3>3. ASSUME NEW t \in Int, NEW k \in Nat, t - (came - went) \in 0..k,
                 NEW u \in {t + e.amount, t + (e.amount + 1)}
          PROVE  u - ((came + e.amount) - went) \in 0..(k + 1)
      <4>1. PICK d \in {0, 1} : u = (t + e.amount) + d
        BY <1>3, <3>3
      <4>0. came \in Int /\ went \in Int /\ e.amount \in Int /\ d \in Int
        BY <1>1, <1>3
      <4>2. u - ((came + e.amount) - went) = (t - (came - went)) + d
        BY <4>0, <4>1
      <4>3. ASSUME NEW j \in 0..k  PROVE j + d \in 0..(k + 1)
        BY <4>1
      <4> QED  BY <3>3, <4>2, <4>3
    <3>4. Total(after) \in {Total(row) + e.amount, Total(row) + (e.amount + 1)}
      BY <1>3, <3>1
    <3>5. Sales(entries) \in Nat /\ Total(row) \in Int
      BY <1>1, <1>3
    <3>6. Total(after) - ((came + e.amount) - went) \in 0..(Sales(entries) + 1)
      BY <1>2, <3>3, <3>4, <3>5
    <3> QED  BY <3>2, <3>6
  <2>2. CASE e.type # "CREDIT_SALE"
    <3>1. Total(after) = Total(row) + moreIn - moreOut
      BY <2>2 DEF Moves
    <3>2. /\ Booked(longer, Incoming) = came + moreIn
          /\ Booked(longer, Outgoing) = went + moreOut
          /\ Sales(longer) = Sales(entries)
      BY <1>1, <2>2
    <3> HIDE DEF moreIn, moreOut
    <3>3. ASSUME NEW t \in Int, NEW k, t - (came - went) \in 0..k
          PROVE  ((t + moreIn) - moreOut) - ((came + moreIn) - (went + moreOut)) \in 0..k
      <4>0. came \in Int /\ went \in Int /\ moreIn \in Int /\ moreOut \in Int
        BY <1>1, <1>5
      <4>1. ((t + moreIn) - moreOut) - ((came + moreIn) - (went + moreOut)) = t - (came - went)
        BY <4>0
      <4> QED  BY <3>3, <4>1
    <3>4. Total(after) = (Total(row) + moreIn) - moreOut
      BY <1>3, <1>5, <3>1
    <3> QED  BY <1>2, <1>3, <3>2, <3>3, <3>4
  <2> QED  BY <2>1, <2>2
<1>7. after.held = Booked(longer, {"HOLD_BID"}) - Booked(longer, {"RELEASE_BID", "DEBIT_ORDER"})
  <2> DEFINE more == IF e.type = "HOLD_BID" THEN e.amount ELSE 0
             less == IF e.type \in {"RELEASE_BID", "DEBIT_ORDER"} THEN e.amount ELSE 0
  <2>1. after.held = row.held + more - less
    BY Zenon DEF Moves
  <2>2. Booked(longer, {"HOLD_BID"}) = got + more
    BY <1>1
  <2>3. Booked(longer, {"RELEASE_BID", "DEBIT_ORDER"}) = gone + less
    BY <1>1
  <2>4. more \in Int /\ less \in Int /\ got \in Int /\ gone \in Int
    BY <1>1, <1>3
  <2> HIDE DEF more, less
  <2> QED  BY <1>2, <2>1, <2>2, <2>3, <2>4
<1> QED
  BY <1>6, <1>7, Zenon DEF Accounted, longer

(* An operation that gives a wallet a new row and books it with one entry. *)
LEMMA OneEntryBooked ==
  ASSUME Sound, FundsBooked, NEW u \in Users, NEW a \in Nat, NEW type \in EntryTypes,
         NEW row \in WalletRow,
         Moves(wallet[u], row, Entry(type, a, wallet[u].balance, row.balance)),
         wallet' = [wallet EXCEPT ![u] = row],
         ledger' = [ledger EXCEPT ![u] =
                      Append(@, Entry(type, a, wallet[u].balance, row.balance))]
  PROVE  FundsBooked'
<1> DEFINE e == Entry(type, a, wallet[u].balance, row.balance)
<1>1. /\ wallet \in [Users -> WalletRow] /\ wallet[u] \in WalletRow
      /\ ledger \in [Users -> Seq(LedgerEntry)] /\ ledger[u] \in Seq(LedgerEntry)
  BY DEF Sound, TypeOK
<1>2. e \in LedgerEntry
  BY <1>1 DEF Entry, LedgerEntry, WalletRow
<1> HIDE DEF e
<1>3. Accounted(row, Append(ledger[u], e))
  BY <1>1, <1>2, AccountedAppend DEF FundsBooked, e
<1>4. \A v \in Users : /\ wallet'[v] = IF v = u THEN row ELSE wallet[v]
                       /\ ledger'[v] = IF v = u THEN Append(ledger[u], e) ELSE ledger[v]
  BY <1>1 DEF e
<1>5. ASSUME NEW v \in Users  PROVE Accounted(wallet'[v], ledger'[v])
  BY <1>3, <1>4 DEF FundsBooked
<1> QED
  BY <1>5 DEF FundsBooked

LEMMA EnsureBooked ==
  ASSUME Sound, FundsBooked, NEW u \in Users, NEW isActive \in BOOLEAN, Ensure(u, isActive)
  PROVE  FundsBooked'
<1> DEFINE row == Ensured(wallet[u], isActive)
<1>1. /\ wallet \in [Users -> WalletRow] /\ wallet[u] \in WalletRow
      /\ ~wallet[u].exists => wallet[u] = NoRow
  BY DEF Sound, TypeOK, FundsNeverNegative
<1>2. Total(row) = Total(wallet[u]) /\ row.held = wallet[u].held
  <2>1. CASE wallet[u].exists
    BY <2>1 DEF Ensured
  <2>2. CASE ~wallet[u].exists
    BY <1>1, <2>2 DEF Ensured, NoRow, Total
  <2> QED  BY <2>1, <2>2
<1>3. \A v \in Users : wallet'[v] = (IF v = u THEN row ELSE wallet[v]) /\ ledger'[v] = ledger[v]
  BY <1>1 DEF Ensure
<1> HIDE DEF row
<1>4. \A v \in Users : Total(wallet'[v]) = Total(wallet[v]) /\ wallet'[v].held = wallet[v].held
  BY <1>2, <1>3
<1>5. ASSUME NEW v \in Users  PROVE Accounted(wallet'[v], ledger'[v])
  BY <1>3, <1>4, Zenon DEF FundsBooked, Accounted
<1> QED
  BY <1>5 DEF FundsBooked

(* What Moves asks of each kind of entry.                                  *)
LEMMA MovesFacts ==
  ASSUME NEW row \in WalletRow, NEW after \in WalletRow,
         NEW type \in EntryTypes, NEW a \in Nat, NEW before, NEW left
  PROVE  LET e == Entry(type, a, before, left) IN
         /\ /\ type \in {"DEPOSIT", "WITHDRAWAL_REFUND", "REFUND"}
            /\ Total(after) = Total(row) + a /\ after.held = row.held
            => Moves(row, after, e)
         /\ /\ type \in {"WITHDRAWAL", "FEE_PLATFORM", "DISPUTE_REVERSAL"}
            /\ Total(after) = Total(row) - a /\ after.held = row.held
            => Moves(row, after, e)
         /\ /\ type = "HOLD_BID"
            /\ Total(after) = Total(row) /\ after.held = row.held + a
            => Moves(row, after, e)
         /\ /\ type = "RELEASE_BID"
            /\ Total(after) = Total(row) /\ after.held = row.held - a
            => Moves(row, after, e)
         /\ /\ type = "DEBIT_ORDER"
            /\ Total(after) = Total(row) - a /\ after.held = row.held - a
            => Moves(row, after, e)
         /\ /\ type = "SETTLEMENT_RELEASE"
            /\ Total(after) = Total(row) /\ after.held = row.held
            => Moves(row, after, e)
         /\ /\ type = "CREDIT_SALE"
            /\ Total(after) - Total(row) \in {a, a + 1} /\ after.held = row.held
            => Moves(row, after, e)
<1> DEFINE e == Entry(type, a, before, left)
<1>1. e.type = type /\ e.amount = a
  BY DEF Entry
<1>2. /\ Total(row) \in Int /\ Total(after) \in Int
      /\ row.held \in Int /\ after.held \in Int
  BY DEF Total, WalletRow
<1> HIDE DEF e
<1>3. CASE type \in {"DEPOSIT", "WITHDRAWAL_REFUND", "REFUND"}
  BY <1>1, <1>2, <1>3 DEF Moves, Incoming, Outgoing, e
<1>4. CASE type \in {"WITHDRAWAL", "FEE_PLATFORM", "DISPUTE_REVERSAL"}
  BY <1>1, <1>2, <1>4 DEF Moves, Incoming, Outgoing, e
<1>5. CASE type \in {"HOLD_BID", "RELEASE_BID", "DEBIT_ORDER"}
  BY <1>1, <1>2, <1>5 DEF Moves, Incoming, Outgoing, e
<1>6. CASE type \in {"SETTLEMENT_RELEASE", "CREDIT_SALE"}
  BY <1>1, <1>2, <1>6 DEF Moves, Incoming, Outgoing, e
<1> QED
  BY <1>3, <1>4, <1>5, <1>6 DEF EntryTypes, e

LEMMA OneWalletBooked ==
  ASSUME Sound, FundsBooked, NEW u \in Users, NEW a \in Amounts, OneWalletStep(u, a)
  PROVE  FundsBooked'
<1> USE AmountsAssumption
<1> DEFINE old == wallet[u]
<1>1. /\ a \in Nat /\ wallet \in [Users -> WalletRow] /\ old \in WalletRow
      /\ old.balance \in Int /\ old.held \in Int /\ old.pending \in Int
  BY DEF Sound, TypeOK, WalletRow
<1>2. /\ old.balance + a \in Int /\ old.balance - a \in Int
      /\ old.held + a \in Int /\ old.held - a \in Int
      /\ old.pending - a \in Int
  BY <1>1
<1>3. ASSUME NEW type \in EntryTypes, NEW row \in WalletRow,
             wallet' = [wallet EXCEPT ![u] = row],
             ledger' = [ledger EXCEPT ![u] =
                          Append(@, Entry(type, a, old.balance, row.balance))],
             \/ /\ type \in {"DEPOSIT", "WITHDRAWAL_REFUND"}
                /\ row.balance = old.balance + a /\ row.held = old.held
                /\ row.pending = old.pending
             \/ /\ type = "WITHDRAWAL"
                /\ row.balance = old.balance - a /\ row.held = old.held
                /\ row.pending = old.pending
             \/ /\ type = "HOLD_BID"
                /\ row.balance = old.balance - a /\ row.held = old.held + a
                /\ row.pending = old.pending
             \/ /\ type = "RELEASE_BID"
                /\ row.balance = old.balance + a /\ row.held = old.held - a
                /\ row.pending = old.pending
             \/ /\ type = "SETTLEMENT_RELEASE"
                /\ row.balance = old.balance + a /\ row.held = old.held
                /\ row.pending = old.pending - a
      PROVE  FundsBooked'
  <2> HIDE DEF old
  <2>0. row.balance \in Int /\ row.held \in Int /\ row.pending \in Int
    BY DEF WalletRow
  <2>1. Moves(old, row, Entry(type, a, old.balance, row.balance))
    <3>1. CASE type \in {"DEPOSIT", "WITHDRAWAL_REFUND"}
      <4>1. Total(row) = Total(old) + a /\ row.held = old.held
        BY <1>1, <1>3, <3>1 DEF Total
      <4> QED  BY <1>1, <1>3, <3>1, <4>1, MovesFacts
    <3>2. CASE type = "WITHDRAWAL"
      <4>1. Total(row) = Total(old) - a /\ row.held = old.held
        BY <1>1, <1>3, <3>2 DEF Total
      <4> QED  BY <1>1, <1>3, <3>2, <4>1, MovesFacts
    <3>3. CASE type = "HOLD_BID"
      <4>1. Total(row) = Total(old) /\ row.held = old.held + a
        BY <1>1, <1>3, <3>3 DEF Total
      <4> QED  BY <1>1, <1>3, <3>3, <4>1, MovesFacts
    <3>4. CASE type = "RELEASE_BID"
      <4>1. Total(row) = Total(old) /\ row.held = old.held - a
        BY <1>1, <1>3, <3>4 DEF Total
      <4> QED  BY <1>1, <1>3, <3>4, <4>1, MovesFacts
    <3>5. CASE type = "SETTLEMENT_RELEASE"
      <4>1. Total(row) = Total(old) /\ row.held = old.held
        BY <1>1, <1>3, <3>5 DEF Total
      <4> QED  BY <1>1, <1>3, <3>5, <4>1, MovesFacts
    <3> QED  BY <1>3, <3>1, <3>2, <3>3, <3>4, <3>5
  <2> QED
    BY <1>1, <1>3, <2>1, OneEntryBooked DEF old
<1>4. CASE Deposit(wallet, u, a)
  <2> DEFINE row == [old EXCEPT !.balance = old.balance + a, !.active = TRUE]
  <2>1. row \in WalletRow
    BY <1>1, <1>2, Zenon DEF WalletRow
  <2>2. row.balance = old.balance + a /\ row.held = old.held /\ row.pending = old.pending
    BY <1>1 DEF WalletRow
  <2>3. wallet' = [wallet EXCEPT ![u] = row]
    BY <1>1, <1>4 DEF Deposit, WalletRow
  <2>4. ledger' = [ledger EXCEPT ![u] = Append(@, Entry("DEPOSIT", a, old.balance, row.balance))]
    BY <1>1, <1>4, <2>2 DEF Deposit, Book
  <2> HIDE DEF row, old
  <2> QED
    BY <1>3, <2>1, <2>2, <2>3, <2>4 DEF EntryTypes
<1>5. CASE Withdraw(wallet, u, a)
  <2> DEFINE row == [old EXCEPT !.balance = old.balance - a]
  <2>1. row \in WalletRow
    BY <1>1, <1>2, Zenon DEF WalletRow
  <2>2. row.balance = old.balance - a /\ row.held = old.held /\ row.pending = old.pending
    BY <1>1 DEF WalletRow
  <2>3. wallet' = [wallet EXCEPT ![u] = row]
    BY <1>1, <1>5 DEF Withdraw, WalletRow
  <2>4. ledger' = [ledger EXCEPT ![u] = Append(@, Entry("WITHDRAWAL", a, old.balance, row.balance))]
    BY <1>1, <1>5, <2>2 DEF Withdraw, Book
  <2> HIDE DEF row, old
  <2> QED
    BY <1>3, <2>1, <2>2, <2>3, <2>4 DEF EntryTypes
<1>6. CASE RefundWithdrawal(wallet, u, a)
  <2> DEFINE row == [old EXCEPT !.balance = old.balance + a]
  <2>1. row \in WalletRow
    BY <1>1, <1>2, Zenon DEF WalletRow
  <2>2. row.balance = old.balance + a /\ row.held = old.held /\ row.pending = old.pending
    BY <1>1 DEF WalletRow
  <2>3. wallet' = [wallet EXCEPT ![u] = row]
    BY <1>1, <1>6 DEF RefundWithdrawal, WalletRow
  <2>4. ledger' = [ledger EXCEPT ![u] = Append(@, Entry("WITHDRAWAL_REFUND", a, old.balance, row.balance))]
    BY <1>1, <1>6, <2>2 DEF RefundWithdrawal, Book
  <2> HIDE DEF row, old
  <2> QED
    BY <1>3, <2>1, <2>2, <2>3, <2>4 DEF EntryTypes
<1>7. CASE HoldFunds(wallet, u, a)
  <2> DEFINE row == [old EXCEPT !.balance = old.balance - a, !.held = old.held + a]
  <2>1. row \in WalletRow
    BY <1>1, <1>2, Zenon DEF WalletRow
  <2>2. row.balance = old.balance - a /\ row.held = old.held + a /\ row.pending = old.pending
    BY <1>1 DEF WalletRow
  <2>3. wallet' = [wallet EXCEPT ![u] = row]
    BY <1>1, <1>7 DEF HoldFunds, WalletRow
  <2>4. ledger' = [ledger EXCEPT ![u] = Append(@, Entry("HOLD_BID", a, old.balance, row.balance))]
    BY <1>1, <1>7, <2>2 DEF HoldFunds, Book
  <2> HIDE DEF row, old
  <2> QED
    BY <1>3, <2>1, <2>2, <2>3, <2>4 DEF EntryTypes
<1>8. CASE ReleaseFunds(wallet, u, a)
  <2> DEFINE row == [old EXCEPT !.balance = old.balance + a, !.held = old.held - a]
  <2>1. row \in WalletRow
    BY <1>1, <1>2, Zenon DEF WalletRow
  <2>2. row.balance = old.balance + a /\ row.held = old.held - a /\ row.pending = old.pending
    BY <1>1 DEF WalletRow
  <2>3. wallet' = [wallet EXCEPT ![u] = row]
    BY <1>1, <1>8 DEF ReleaseFunds, WalletRow
  <2>4. ledger' = [ledger EXCEPT ![u] = Append(@, Entry("RELEASE_BID", a, old.balance, row.balance))]
    BY <1>1, <1>8, <2>2 DEF ReleaseFunds, Book
  <2> HIDE DEF row, old
  <2> QED
    BY <1>3, <2>1, <2>2, <2>3, <2>4 DEF EntryTypes
<1>9. CASE ReleaseSettlement(wallet, u, a)
  <2>1. CASE UNCHANGED vars
    BY <2>1 DEF vars, FundsBooked
  <2>2. CASE ~UNCHANGED vars
    <3> DEFINE row == [old EXCEPT !.balance = old.balance + a, !.pending = old.pending - a,
                               !.active = TRUE]
    <3>1. row \in WalletRow
      BY <1>1, <1>2, Zenon DEF WalletRow
    <3>2. row.balance = old.balance + a /\ row.held = old.held /\ row.pending = old.pending - a
      BY <1>1 DEF WalletRow
    <3>3. wallet' = [wallet EXCEPT ![u] = row]
      BY <1>1, <1>9, <2>2 DEF ReleaseSettlement, WalletRow
    <3>4. ledger' = [ledger EXCEPT ![u] = Append(@, Entry("SETTLEMENT_RELEASE", a, old.balance, row.balance))]
      BY <1>1, <1>9, <2>2, <3>2 DEF ReleaseSettlement, Book
    <3> HIDE DEF row, old
    <3> QED
      BY <1>3, <3>1, <3>2, <3>3, <3>4 DEF EntryTypes
  <2> QED
    BY <2>1, <2>2
<1> QED
  BY <1>4, <1>5, <1>6, <1>7, <1>8, <1>9 DEF OneWalletStep

(* Two wallets, each with its row and its entries, accounted for.          *)
LEMMA TwoWalletsBooked ==
  ASSUME Sound, FundsBooked, NEW b \in Users, NEW s \in Users, b # s,
         NEW rb, NEW rs, NEW lb, NEW ls, Accounted(rb, lb), Accounted(rs, ls),
         wallet' = [wallet EXCEPT ![b] = rb, ![s] = rs],
         ledger' = [ledger EXCEPT ![b] = lb, ![s] = ls]
  PROVE  FundsBooked'
<1>1. \A v \in Users : /\ wallet'[v] = IF v = b THEN rb ELSE IF v = s THEN rs ELSE wallet[v]
                       /\ ledger'[v] = IF v = b THEN lb ELSE IF v = s THEN ls ELSE ledger[v]
  BY DEF Sound, TypeOK
<1>2. ASSUME NEW v \in Users  PROVE Accounted(wallet'[v], ledger'[v])
  BY <1>1 DEF FundsBooked
<1> QED
  BY <1>2 DEF FundsBooked

LEMMA CaptureBooked ==
  ASSUME Sound, FundsBooked, NEW b \in Users, NEW s \in Users, b # s, NEW a \in Amounts,
         NEW pct \in FeePercents, CaptureHeldFunds(wallet, b, s, a, pct)
  PROVE  FundsBooked'
<1> USE AmountsAssumption, FeesAssumption
<1> DEFINE net == Net(a, pct)
           fee == Fee(a, pct)
           paid == wallet[b].balance
           sold == wallet[s].balance
           rb == [wallet[b] EXCEPT !.held = wallet[b].held - a]
           rs == [wallet[s] EXCEPT !.pending = wallet[s].pending + net, !.active = TRUE]
           rc == [rs EXCEPT !.pending = wallet[s].pending + net + fee]
           debit == Entry("DEBIT_ORDER", a, paid, paid)
           credit == Entry("CREDIT_SALE", a, sold, sold)
           charge == Entry("FEE_PLATFORM", fee, sold, sold)
           ls == Append(ledger[s], credit)
<1>1. /\ a \in Nat /\ pct \in 0..100
      /\ wallet \in [Users -> WalletRow] /\ wallet[b] \in WalletRow /\ wallet[s] \in WalletRow
      /\ ledger \in [Users -> Seq(LedgerEntry)]
      /\ ledger[b] \in Seq(LedgerEntry) /\ ledger[s] \in Seq(LedgerEntry)
      /\ wallet[b].balance \in Int /\ wallet[b].held \in Int /\ wallet[b].pending \in Int
      /\ wallet[s].balance \in Int /\ wallet[s].held \in Int /\ wallet[s].pending \in Int
      /\ Accounted(wallet[b], ledger[b]) /\ Accounted(wallet[s], ledger[s])
  BY DEF Sound, TypeOK, WalletRow, FundsBooked
<1>2. net \in Nat /\ fee \in Nat /\ net + fee \in {a, a + 1}
  <2>1. net \in Nat /\ fee \in Nat /\ fee + net \in {a, a + 1}
    BY <1>1, CommissionSplit
  <2> HIDE DEF net, fee
  <2> QED  BY <2>1
<1>3. wallet' = [wallet EXCEPT ![b] = rb, ![s] = rs]
  BY <1>1 DEF CaptureHeldFunds, net, WalletRow
<1>4. ledger' = [ledger EXCEPT ![b] = Append(ledger[b], debit), ![s] = Append(ls, charge)]
  BY <1>1 DEF CaptureHeldFunds, fee
<1> HIDE DEF net, fee
<1>5. /\ wallet[b].held - a \in Int /\ wallet[s].pending + net \in Int
      /\ wallet[s].pending + net + fee \in Int
  <2>1. /\ wallet[b].held \in Int /\ wallet[s].pending \in Int
        /\ a \in Int /\ net \in Int /\ fee \in Int
    BY <1>1, <1>2
  <2> QED  BY <2>1
<1>6. rb \in WalletRow /\ rs \in WalletRow /\ rc \in WalletRow
  BY <1>1, <1>5, Zenon DEF WalletRow
<1>7. debit \in LedgerEntry /\ credit \in LedgerEntry /\ charge \in LedgerEntry
  BY <1>1, <1>2 DEF Entry, LedgerEntry, EntryTypes
<1>8. /\ Total(rb) = Total(wallet[b]) - a /\ rb.held = wallet[b].held - a
      /\ Total(rc) - Total(wallet[s]) \in {a, a + 1} /\ rc.held = wallet[s].held
      /\ Total(rs) = Total(rc) - fee /\ rs.held = rc.held
  <2>1. /\ rb.balance = wallet[b].balance /\ rb.held = wallet[b].held - a
        /\ rb.pending = wallet[b].pending
    BY <1>1 DEF WalletRow
  <2>2. /\ rs.balance = sold /\ rs.held = wallet[s].held /\ rs.pending = wallet[s].pending + net
        /\ rc.balance = sold /\ rc.held = wallet[s].held
        /\ rc.pending = wallet[s].pending + net + fee
    BY <1>1 DEF WalletRow
  <2>0. /\ paid \in Int /\ wallet[b].held \in Int /\ wallet[b].pending \in Int
        /\ sold \in Int /\ wallet[s].held \in Int /\ wallet[s].pending \in Int
        /\ a \in Int /\ net \in Int /\ fee \in Int
    BY <1>1, <1>2
  <2> HIDE DEF rb, rs, rc
  <2>3. Total(rb) = Total(wallet[b]) - a
    BY <2>0, <2>1 DEF Total
  <2>4. Total(rc) = Total(wallet[s]) + (net + fee)
    BY <2>0, <2>2 DEF Total
  <2>5. Total(rs) = Total(rc) - fee
    BY <2>0, <2>2 DEF Total
  <2>6. Total(wallet[s]) \in Int
    BY <1>1 DEF Total
  <2>7. Total(rc) - Total(wallet[s]) = net + fee
    BY <1>2, <2>4, <2>6
  <2> QED  BY <1>2, <2>1, <2>2, <2>3, <2>5, <2>7
<1> HIDE DEF rb, rs, rc
<1>9. Accounted(rb, Append(ledger[b], debit))
  <2>1. Moves(wallet[b], rb, debit)
    BY <1>1, <1>6, <1>8, MovesFacts DEF EntryTypes
  <2> HIDE DEF debit
  <2> QED  BY <1>1, <1>6, <1>7, <2>1, AccountedAppend
<1>10. Accounted(rc, ls) /\ ls \in Seq(LedgerEntry)
  <2>1. Moves(wallet[s], rc, credit)
    BY <1>1, <1>6, <1>8, MovesFacts DEF EntryTypes
  <2> HIDE DEF credit
  <2> QED  BY <1>1, <1>6, <1>7, <2>1, AccountedAppend
<1>11. Accounted(rs, Append(ls, charge))
  <2>1. Moves(rc, rs, charge)
    BY <1>1, <1>2, <1>6, <1>8, MovesFacts DEF EntryTypes
  <2> HIDE DEF charge, ls
  <2> QED  BY <1>6, <1>7, <1>10, <2>1, AccountedAppend
<1> HIDE DEF debit, charge, ls
<1> QED
  BY <1>3, <1>4, <1>9, <1>11, TwoWalletsBooked

LEMMA ReversalBooked ==
  ASSUME Sound, FundsBooked, NEW b \in Users, NEW s \in Users, b # s, NEW a \in Amounts,
         ReversarVenta(wallet, b, s, a)
  PROVE  FundsBooked'
<1> USE AmountsAssumption
<1> DEFINE kept == FromPending(wallet[s], a)
           owed == wallet[s].balance - (a - kept)
           back == wallet[b].balance + a
           rb == [wallet[b] EXCEPT !.balance = back, !.active = TRUE]
           rs == [wallet[s] EXCEPT !.balance = owed, !.pending = wallet[s].pending - kept]
           refund == Entry("REFUND", a, wallet[b].balance, back)
           taken == Entry("DISPUTE_REVERSAL", a, wallet[s].balance, owed)
<1>1. /\ a \in Nat
      /\ wallet \in [Users -> WalletRow] /\ wallet[b] \in WalletRow /\ wallet[s] \in WalletRow
      /\ ledger \in [Users -> Seq(LedgerEntry)]
      /\ ledger[b] \in Seq(LedgerEntry) /\ ledger[s] \in Seq(LedgerEntry)
      /\ wallet[b].balance \in Int /\ wallet[b].held \in Int /\ wallet[b].pending \in Int
      /\ wallet[s].balance \in Int /\ wallet[s].held \in Int /\ wallet[s].pending \in Int
      /\ Accounted(wallet[b], ledger[b]) /\ Accounted(wallet[s], ledger[s])
  BY DEF Sound, TypeOK, WalletRow, FundsBooked
<1>2. kept \in Int /\ owed \in Int /\ back \in Int /\ wallet[s].pending - kept \in Int
  <2>1. kept \in Int
    BY <1>1 DEF FromPending
  <2> HIDE DEF kept
  <2> QED  BY <1>1, <2>1
<1>3. wallet' = [wallet EXCEPT ![s].balance = owed, ![s].pending = wallet[s].pending - kept,
                               ![b].balance = back, ![b].active = TRUE]
  BY DEF ReversarVenta
<1>4. ledger' = [ledger EXCEPT ![b] = Append(ledger[b], refund), ![s] = Append(ledger[s], taken)]
  BY <1>1 DEF ReversarVenta
<1>5. owed = wallet[s].balance - (a - kept) /\ back = wallet[b].balance + a
  OBVIOUS
<1> HIDE DEF kept, owed, back
<1>6. wallet' = [wallet EXCEPT ![b] = rb, ![s] = rs]
  <2> DEFINE w == [wallet EXCEPT ![s] = rs]
  <2>1. w = [wallet EXCEPT ![s].balance = owed, ![s].pending = wallet[s].pending - kept]
    BY <1>1
  <2>2. wallet' = [w EXCEPT ![b].balance = back, ![b].active = TRUE]
    BY <1>3, <2>1
  <2>3. w[b] = wallet[b] /\ DOMAIN w = Users
    BY <1>1
  <2> HIDE DEF w
  <2>4. wallet' = [w EXCEPT ![b] = rb]
    BY <2>2, <2>3
  <2> QED
    BY <1>1, <2>4 DEF w
<1>7. rb \in WalletRow /\ rs \in WalletRow
  BY <1>1, <1>2, Zenon DEF WalletRow
<1>8. refund \in LedgerEntry /\ taken \in LedgerEntry
  BY <1>1, <1>2 DEF Entry, LedgerEntry, EntryTypes
<1>9. /\ Total(rb) = Total(wallet[b]) + a /\ rb.held = wallet[b].held
      /\ Total(rs) = Total(wallet[s]) - a /\ rs.held = wallet[s].held
  <2>1. /\ rb.balance = back /\ rb.held = wallet[b].held /\ rb.pending = wallet[b].pending
        /\ rs.balance = owed /\ rs.held = wallet[s].held /\ rs.pending = wallet[s].pending - kept
    BY <1>1 DEF WalletRow
  <2> HIDE DEF rb, rs
  <2>2. Total(rb) = Total(wallet[b]) + a
    <3>1. /\ wallet[b].balance \in Int /\ wallet[b].held \in Int /\ wallet[b].pending \in Int
          /\ a \in Int
      BY <1>1
    <3> QED  BY <1>5, <2>1, <3>1 DEF Total
  <2>3. Total(rs) = Total(wallet[s]) - a
    <3>1. ASSUME NEW x \in Int, NEW y \in Int, NEW z \in Int
          PROVE  (x - (a - kept)) + y + (z - kept) = (x + y + z) - a
      BY <1>1, <1>2
    <3>2. rs.balance + rs.held + rs.pending
            = (wallet[s].balance - (a - kept)) + wallet[s].held + (wallet[s].pending - kept)
      BY <1>5, <2>1
    <3>3. wallet[s].balance \in Int /\ wallet[s].held \in Int /\ wallet[s].pending \in Int
      BY <1>1
    <3>4. (wallet[s].balance - (a - kept)) + wallet[s].held + (wallet[s].pending - kept)
            = (wallet[s].balance + wallet[s].held + wallet[s].pending) - a
      BY <3>1, <3>3
    <3> QED  BY <3>2, <3>4, Zenon DEF Total
  <2> QED  BY <2>1, <2>2, <2>3
<1> HIDE DEF rb, rs
<1>10. Accounted(rb, Append(ledger[b], refund))
  <2>1. Moves(wallet[b], rb, refund)
    BY <1>1, <1>7, <1>9, MovesFacts DEF EntryTypes
  <2> HIDE DEF refund
  <2> QED  BY <1>1, <1>7, <1>8, <2>1, AccountedAppend
<1>11. Accounted(rs, Append(ledger[s], taken))
  <2>1. Moves(wallet[s], rs, taken)
    BY <1>1, <1>7, <1>9, MovesFacts DEF EntryTypes
  <2> HIDE DEF taken
  <2> QED  BY <1>1, <1>7, <1>8, <2>1, AccountedAppend
<1> HIDE DEF refund, taken
<1> QED
  BY <1>4, <1>6, <1>10, <1>11, TwoWalletsBooked

LEMMA InitBooked == Init => FundsBooked
<1> SUFFICES ASSUME Init, NEW u \in Users  PROVE Accounted(wallet[u], ledger[u])
  BY DEF FundsBooked
<1>1. wallet[u] = NoRow /\ ledger[u] = <<>> /\ DOMAIN ledger[u] = {}
  BY DEF Init
<1>2. \A types : Booked(<<>>, types) = 0
  <2> SUFFICES ASSUME NEW types  PROVE Booked(<<>>, types) = 0
    OBVIOUS
  <2> DEFINE h == [i \in DOMAIN <<>> |-> IF <<>>[i].type \in types THEN <<>>[i].amount ELSE 0]
  <2>1. DOMAIN h = {}
    <3>1. DOMAIN h = DOMAIN <<>>
      BY Zenon
    <3>2. DOMAIN <<>> = {}
      OBVIOUS
    <3> QED  BY <3>1, <3>2
  <2>2. Booked(<<>>, types) = SumFunctionOnSet(h, DOMAIN h)
    BY Zenon DEF Booked, SumFunction, SumFunctionOnSet
  <2> HIDE DEF h
  <2> QED  BY <2>1, <2>2, SumEmpty
<1>3. Sales(<<>>) = 0
  <2>1. {i \in DOMAIN <<>> : <<>>[i].type = "CREDIT_SALE"} = {}
    OBVIOUS
  <2> QED  BY <2>1, FS_EmptySet DEF Sales
<1>4. Total(NoRow) = 0 /\ NoRow.held = 0
  BY DEF NoRow, Total
<1>5. Booked(<<>>, Incoming) = 0 /\ Booked(<<>>, Outgoing) = 0
      /\ Booked(<<>>, {"HOLD_BID"}) = 0 /\ Booked(<<>>, {"RELEASE_BID", "DEBIT_ORDER"}) = 0
  BY <1>2
<1> QED
  BY <1>1, <1>3, <1>4, <1>5, 0 - (0 - 0) \in 0..0, 0 = 0 - 0 DEF Accounted

LEMMA NextBooked == Sound /\ FundsBooked /\ [Next]_vars => FundsBooked'
<1> SUFFICES ASSUME Sound, FundsBooked, [Next]_vars PROVE FundsBooked'
  OBVIOUS
<1>1. CASE \E u \in Users, isActive \in BOOLEAN : Ensure(u, isActive)
  BY <1>1, EnsureBooked
<1>2. CASE \E u \in Users, a \in Amounts : OneWalletStep(u, a)
  BY <1>2, OneWalletBooked
<1>3. CASE \E b, s \in Users, a \in Amounts : b # s /\ TwoWalletStep(b, s, a)
  BY <1>3, CaptureBooked, ReversalBooked DEF TwoWalletStep
<1>4. CASE UNCHANGED vars
  BY <1>4 DEF vars, FundsBooked
<1> QED
  BY <1>1, <1>2, <1>3, <1>4 DEF Next

(* The ledger accounts for every cent: whatever the calls, what a wallet   *)
(* has in all is what was booked in less what was booked out, a cent of    *)
(* rounding per sale apart, and what it holds is what was held and neither *)
(* released nor spent.                                                     *)
THEOREM EveryCentBooked == Spec => []FundsBooked
<1>1. Spec => []Sound
  BY InitSound, NextSound, PTL DEF Spec
<1> QED
  BY <1>1, InitBooked, NextBooked, PTL DEF Spec

-----------------------------------------------------------------------------
(* From here on, the row-lock protocol of WalletService: it implements the *)
(* atomic operations, for any users, workers and amounts.                  *)


(* What the lock plan of a call is: rows of the tables, both wallets among *)
(* them, and wallets in the order of their ids.                            *)
LEMMA PlanFacts ==
  ASSUME NEW c \in Calls
  PROVE  /\ Len(LockPlan(c)) \in 1..3
         /\ \A i \in 1..Len(LockPlan(c)) : LockPlan(c)[i] \in Rows
         /\ \A u \in Wallets(c) :
              \E i \in 1..Len(LockPlan(c)) : LockPlan(c)[i] = u
         /\ \A i, j \in 1..Len(LockPlan(c)) :
              i < j /\ LockPlan(c)[i] \in Users /\ LockPlan(c)[j] \in Users
                => LockPlan(c)[i] < LockPlan(c)[j]
<1>1. /\ c.user \in Users /\ c.other \in Users
      /\ c.user \in Nat /\ c.other \in Nat
      /\ c.kind \in OneWalletKinds => c.other = c.user
      /\ c.kind \notin OneWalletKinds => c.other # c.user /\ c.kind \in {"capture", "reverse"}
  BY UsersAssumption DEF Calls, Call, OneWalletKinds
<1>2. OrderRow \notin Users /\ OrderRow \in Rows /\ Users \subseteq Rows
  BY UsersAssumption, WorkersAssumption DEF Rows
<1> DEFINE lower == IF c.user <= c.other THEN c.user ELSE c.other
           upper == IF c.user <= c.other THEN c.other ELSE c.user
<1>3. CASE c.kind = "settle"
  <2>1. LockPlan(c) = <<c.user, OrderRow>>
    BY <1>3 DEF LockPlan
  <2> QED
    BY <1>1, <1>2, <1>3, <2>1 DEF Wallets, OneWalletKinds
<1>4. /\ c.user # c.other => lower < upper
      /\ lower \in Users /\ upper \in Users
      /\ \A u \in {c.user, c.other} : u = lower \/ u = upper
  BY <1>1
<1>5. CASE c.kind = "capture"
  <2>1. LockPlan(c) = <<lower, upper>>
    BY <1>5 DEF LockPlan
  <2>2. lower < upper
    BY <1>1, <1>4, <1>5 DEF OneWalletKinds
  <2> HIDE DEF lower, upper
  <2> QED
    BY <1>2, <1>4, <2>1, <2>2 DEF Wallets
<1>6. CASE c.kind = "reverse"
  <2>1. LockPlan(c) = <<OrderRow, lower, upper>>
    BY <1>6 DEF LockPlan
  <2>2. lower < upper
    BY <1>1, <1>4, <1>6 DEF OneWalletKinds
  <2> HIDE DEF lower, upper
  <2> QED
    BY <1>2, <1>4, <2>1, <2>2 DEF Wallets
<1>7. CASE c.kind \in OneWalletKinds \ {"settle"}
  <2>1. LockPlan(c) = <<c.user>>
    BY <1>7 DEF LockPlan, OneWalletKinds
  <2> QED
    BY <1>1, <1>2, <1>7, <2>1 DEF Wallets
<1> QED
  BY <1>1, <1>3, <1>5, <1>6, <1>7

LEMMA EnsureFacts ==
  ASSUME NEW c \in Calls
  PROVE  /\ Len(EnsurePlan(c)) \in 0..2
         /\ EnsurePlan(c) = <<>> <=> Len(EnsurePlan(c)) = 0
         /\ \A i \in 1..Len(EnsurePlan(c)) : EnsurePlan(c)[i] \in Users
<1>1. c.user \in Users /\ c.other \in Users
  BY DEF Calls, Call
<1> QED
  BY <1>1 DEF EnsurePlan

-----------------------------------------------------------------------------
(* The invariant of the protocol.  A worker has locked the rows of its     *)
(* plan it has come to, and no other; a locked wallet exists.              *)
Held(w, r) == lockedBy[r] = w

Reached(w) ==
  CASE tx[w].pc = "lock"  -> {LockPlan(tx[w].call)[i] : i \in 1..tx[w].n}
    [] tx[w].pc = "write" -> {LockPlan(tx[w].call)[i] : i \in 1..Len(LockPlan(tx[w].call))}
    [] OTHER              -> {}

Progress ==
  \A w \in Workers :
    /\ tx[w].pc = "ensure" => tx[w].n < Len(EnsurePlan(tx[w].call))
    /\ tx[w].pc = "lock"   => tx[w].n <= Len(LockPlan(tx[w].call))

LocksFollowPlan == \A w \in Workers, r \in Rows : Held(w, r) <=> r \in Reached(w)

LockedExist == \A u \in Users : lockedBy[u] # Nobody => wallet[u].exists

TxShape ==
  /\ tx \in [Workers -> TxState]
  /\ seen \in [Workers -> [Users -> WalletRow]]
  /\ lockedBy \in [Rows -> Workers \cup {Nobody}]

Protocol ==
  /\ Sound
  /\ TxShape
  /\ Progress
  /\ LocksFollowPlan
  /\ LockedExist
  /\ SnapshotCurrent

(* What a transaction writes it writes in its own wallets, and it never    *)
(* deletes a row.                                                          *)
LEMMA WriteFrame ==
  ASSUME TypeOK, NEW c \in Calls, NEW rows, Write(c, rows)
  PROVE  /\ \A u \in Users \ Wallets(c) : wallet'[u] = wallet[u]
         /\ \A u \in Users : wallet[u].exists => wallet'[u].exists
<1>1. wallet \in [Users -> WalletRow]
  BY DEF TypeOK
<1>2. c.user \in Users /\ c.other \in Users
  BY DEF Calls, Call
<1>3. CASE Deposit(rows, c.user, c.amount)
  BY <1>1, <1>2, <1>3 DEF Deposit, Wallets, WalletRow
<1>4. CASE Withdraw(rows, c.user, c.amount)
  BY <1>1, <1>2, <1>4 DEF Withdraw, Wallets, WalletRow
<1>5. CASE RefundWithdrawal(rows, c.user, c.amount)
  BY <1>1, <1>2, <1>5 DEF RefundWithdrawal, Wallets, WalletRow
<1>6. CASE HoldFunds(rows, c.user, c.amount)
  BY <1>1, <1>2, <1>6 DEF HoldFunds, Wallets, WalletRow
<1>7. CASE ReleaseFunds(rows, c.user, c.amount)
  BY <1>1, <1>2, <1>7 DEF ReleaseFunds, Wallets, WalletRow
<1>8. CASE ReleaseSettlement(rows, c.user, c.amount)
  BY <1>1, <1>2, <1>8 DEF ReleaseSettlement, vars, Wallets, WalletRow
<1>9. CASE CaptureHeldFunds(rows, c.user, c.other, c.amount, c.pct)
  <2>1. PICK held, pending :
          wallet' = [wallet EXCEPT ![c.user].held = held, ![c.other].pending = pending,
                                   ![c.other].active = TRUE]
    BY <1>9 DEF CaptureHeldFunds
  <2>2. \A u \in Users : u # c.user /\ u # c.other => wallet'[u] = wallet[u]
    BY <1>1, <1>2, <2>1
  <2>3. \A u \in Users : wallet'[u].exists = wallet[u].exists
    BY <1>1, <1>2, <2>1 DEF WalletRow
  <2> QED
    BY <2>2, <2>3 DEF Wallets
<1>10. CASE ReversarVenta(rows, c.user, c.other, c.amount)
  <2>1. PICK owed, pending, back :
          wallet' = [wallet EXCEPT ![c.other].balance = owed, ![c.other].pending = pending,
                                   ![c.user].balance = back, ![c.user].active = TRUE]
    BY <1>10 DEF ReversarVenta
  <2>2. \A u \in Users : u # c.user /\ u # c.other => wallet'[u] = wallet[u]
    BY <1>1, <1>2, <2>1
  <2>3. \A u \in Users : wallet'[u].exists = wallet[u].exists
    BY <1>1, <1>2, <2>1 DEF WalletRow
  <2> QED
    BY <2>2, <2>3 DEF Wallets
<1> QED
  BY <1>3, <1>4, <1>5, <1>6, <1>7, <1>8, <1>9, <1>10 DEF Write

(* Computed from the current row, an operation on one wallet is atomic.     *)
LEMMA SameRow ==
  ASSUME NEW rows, NEW u, NEW a, rows[u] = wallet[u]
  PROVE  /\ Deposit(rows, u, a) => Deposit(wallet, u, a)
         /\ Withdraw(rows, u, a) => Withdraw(wallet, u, a)
         /\ RefundWithdrawal(rows, u, a) => RefundWithdrawal(wallet, u, a)
         /\ HoldFunds(rows, u, a) => HoldFunds(wallet, u, a)
         /\ ReleaseFunds(rows, u, a) => ReleaseFunds(wallet, u, a)
         /\ ReleaseSettlement(rows, u, a) => ReleaseSettlement(wallet, u, a)
<1>1. \A type, after : Book(type, rows, u, a, after) => Book(type, wallet, u, a, after)
  BY DEF Book
<1> QED
  BY <1>1 DEF Deposit, Withdraw, RefundWithdrawal, HoldFunds, ReleaseFunds, ReleaseSettlement

(* Computed from the current rows of its own wallets, it is one of the     *)
(* atomic operations.                                                      *)
LEMMA WriteIsAtomic ==
  ASSUME NEW c \in Calls, NEW rows, Write(c, rows),
         \A u \in Wallets(c) : rows[u] = wallet[u]
  PROVE  Next
<1>1. /\ c.user \in Users /\ c.other \in Users /\ c.amount \in Amounts
      /\ c.kind = "capture" => c.pct \in FeePercents
      /\ c.kind \in {"capture", "reverse"} => c.user # c.other
  BY DEF Calls, Call, OneWalletKinds
<1>2. rows[c.user] = wallet[c.user] /\ rows[c.other] = wallet[c.other]
  BY DEF Wallets
<1>3. \/ OneWalletStep(c.user, c.amount)
      \/ c.user # c.other /\ TwoWalletStep(c.user, c.other, c.amount)
  <2>1. CASE c.kind \in OneWalletKinds
    <3>1. OneWalletStep(c.user, c.amount)
      BY <1>2, <2>1, SameRow DEF Write, OneWalletStep, OneWalletKinds
    <3> QED
      BY <3>1
  <2>7. CASE c.kind = "capture" /\ CaptureHeldFunds(rows, c.user, c.other, c.amount, c.pct)
    BY <1>1, <1>2, <2>7 DEF TwoWalletStep, CaptureHeldFunds
  <2>8. CASE c.kind = "reverse" /\ ReversarVenta(rows, c.user, c.other, c.amount)
    BY <1>1, <1>2, <2>8 DEF TwoWalletStep, ReversarVenta
  <2> QED
    BY <2>1, <2>7, <2>8 DEF Write, OneWalletKinds
<1> QED
  BY <1>1, <1>3 DEF Next

-----------------------------------------------------------------------------
(* A worker that is not idle runs a call of the API.                       *)
LEMMA Running ==
  ASSUME TxShape, NEW w \in Workers, tx[w].pc # "idle"
  PROVE  /\ tx[w] \in [pc : Phases, call : Calls, n : 0..3]
         /\ tx[w].call \in Calls
         /\ tx[w].n \in 0..3
         /\ tx[w].pc \in Phases
<1>1. tx[w] \in TxState
  BY DEF TxShape
<1>2. tx[w] # Idle
  BY DEF Idle
<1> QED
  BY <1>1, <1>2 DEF TxState

LEMMA StepIsAtomic ==
  ASSUME Protocol, TxNext
  PROVE  [Next]_vars
<1>1. ASSUME NEW w \in Workers, Begin(w) \/ LockRow(w) \/ ReadRows(w) \/ Rollback(w)
      PROVE  UNCHANGED vars
  BY <1>1 DEF Begin, LockRow, ReadRows, Rollback
<1>2. ASSUME NEW w \in Workers, EnsureWallet(w)
      PROVE  Next
  <2>1. tx[w].pc = "ensure" /\ tx[w].call \in Calls /\ tx[w].n \in 0..3
    BY <1>2, Running DEF EnsureWallet, Protocol
  <2>2. EnsurePlan(tx[w].call)[tx[w].n + 1] \in Users
    <3>1. tx[w].n + 1 \in 1..Len(EnsurePlan(tx[w].call))
      BY <2>1, EnsureFacts DEF Protocol, Progress
    <3> QED
      BY <2>1, <3>1, EnsureFacts
  <2>3. Ensure(EnsurePlan(tx[w].call)[tx[w].n + 1], TRUE)
    BY <1>2 DEF EnsureWallet
  <2> QED
    BY <2>2, <2>3 DEF Next
<1>3. ASSUME NEW w \in Workers, Commit(w)
      PROVE  Next
  <2>1. tx[w].pc = "write" /\ tx[w].call \in Calls /\ Write(tx[w].call, seen[w])
    BY <1>3, Running DEF Commit, Protocol
  <2>2. \A u \in Wallets(tx[w].call) : seen[w][u] = wallet[u]
    BY <2>1 DEF Protocol, SnapshotCurrent
  <2> QED
    BY <2>1, <2>2, WriteIsAtomic
<1>4. ASSUME NEW u \in Users, GetWallet(u)
      PROVE  Next
  BY <1>4 DEF GetWallet, Next
<1> QED
  BY <1>1, <1>2, <1>3, <1>4 DEF TxNext, WorkerStep

LEMMA TxInitProtocol == TxInit => Protocol
<1> SUFFICES ASSUME TxInit PROVE Protocol
  OBVIOUS
<1>1. Sound
  BY InitSound DEF TxInit
<1>2. \A w \in Workers : tx[w].pc = "idle"
  BY DEF TxInit, Idle
<1>3. TxShape
  BY NoRowType DEF TxInit, TxShape, TxState
<1>4. \A r \in Rows : lockedBy[r] = Nobody
  BY DEF TxInit
<1>5. Progress /\ SnapshotCurrent /\ LockedExist
  BY <1>2, <1>4 DEF Progress, SnapshotCurrent, LockedExist, Rows
<1>6. LocksFollowPlan
  BY <1>2, <1>4, WorkersAssumption DEF LocksFollowPlan, Held, Reached
<1> QED
  BY <1>1, <1>3, <1>5, <1>6 DEF Protocol

(* How a running transaction's record moves on.                            *)
LEMMA Advance ==
  ASSUME NEW t \in [pc : Phases, call : Calls, n : 0..3]
  PROVE  /\ [t EXCEPT !.pc = "lock", !.n = 0] \in [pc : Phases, call : Calls, n : 0..3]
         /\ [t EXCEPT !.pc = "write"] \in [pc : Phases, call : Calls, n : 0..3]
         /\ \A m \in 0..3 : t.n < m =>
              /\ [t EXCEPT !.n = t.n + 1] \in [pc : Phases, call : Calls, n : 0..3]
              /\ t.n + 1 <= m
<1>1. /\ t.pc \in Phases /\ t.call \in Calls /\ t.n \in 0..3
      /\ "lock" \in Phases /\ "write" \in Phases
  BY DEF Phases
<1>2. \A m \in 0..3 : t.n < m => t.n + 1 \in 0..3 /\ t.n + 1 <= m
  BY <1>1
<1>3. \A p \in Phases, m \in 0..3 :
        [pc |-> p, call |-> t.call, n |-> m] \in [pc : Phases, call : Calls, n : 0..3]
  BY <1>1
<1>4. [t EXCEPT !.pc = "lock", !.n = 0] \in [pc : Phases, call : Calls, n : 0..3]
  <2> DEFINE q == [t EXCEPT !.pc = "lock"]
  <2>1. q \in [pc : Phases, call : Calls, n : 0..3]
    BY <1>1
  <2>2. [t EXCEPT !.pc = "lock", !.n = 0] = [q EXCEPT !.n = 0]
    OBVIOUS
  <2> HIDE DEF q
  <2>3. [q EXCEPT !.n = 0] \in [pc : Phases, call : Calls, n : 0..3]
    BY <2>1
  <2> QED
    BY <2>2, <2>3
<1>5. [t EXCEPT !.pc = "write"] = [pc |-> "write", call |-> t.call, n |-> t.n]
  OBVIOUS
<1>6. [t EXCEPT !.n = t.n + 1] = [pc |-> t.pc, call |-> t.call, n |-> t.n + 1]
  OBVIOUS
<1> QED
  BY <1>1, <1>2, <1>3, <1>4, <1>5, <1>6

(* Each step keeps workers, reads and locks well formed.                   *)
LEMMA ShapeStep ==
  ASSUME Protocol, TxNext
  PROVE  TxShape'
<1>1. /\ tx \in [Workers -> TxState]
      /\ seen \in [Workers -> [Users -> WalletRow]]
      /\ lockedBy \in [Rows -> Workers \cup {Nobody}]
      /\ wallet \in [Users -> WalletRow]
  BY DEF Protocol, TxShape, Sound, TypeOK
<1>2. Idle \in TxState /\ NoRow \in WalletRow
  BY NoRowType DEF TxState
<1> DEFINE Active == [pc : Phases, call : Calls, n : 0..3]
<1>3. Active \subseteq TxState
  BY DEF TxState
<1>4. ASSUME NEW w \in Workers, NEW t \in TxState, tx' = [tx EXCEPT ![w] = t]
      PROVE  tx' \in [Workers -> TxState]
  BY <1>1, <1>4
<1>5. ASSUME NEW w \in Workers, Begin(w)
      PROVE  TxShape'
  <2>1. PICK c \in Calls : tx' = [tx EXCEPT ![w] =
            [pc |-> IF EnsurePlan(c) = <<>> THEN "lock" ELSE "ensure", call |-> c, n |-> 0]]
    BY <1>5 DEF Begin
  <2>2. [pc |-> IF EnsurePlan(c) = <<>> THEN "lock" ELSE "ensure", call |-> c, n |-> 0] \in Active
    BY DEF Phases
  <2>3. tx' \in [Workers -> TxState]
    BY <1>1, <1>3, <2>1, <2>2
  <2> QED
    BY <1>1, <1>5, <2>3 DEF Begin, txVars, TxShape
<1>6. ASSUME NEW w \in Workers, EnsureWallet(w)
      PROVE  TxShape'
  <2>1. tx[w] \in Active /\ tx[w].n \in 0..3 /\ tx[w].call \in Calls /\ tx[w].pc = "ensure"
    BY <1>6, Running DEF EnsureWallet, Protocol
  <2>2. tx[w].n < Len(EnsurePlan(tx[w].call)) /\ Len(EnsurePlan(tx[w].call)) \in 0..2
    BY <2>1, EnsureFacts DEF Protocol, Progress
  <2>3. [tx[w] EXCEPT !.pc = "lock", !.n = 0] \in Active
    BY <2>1, Advance
  <2>4. [tx[w] EXCEPT !.n = tx[w].n + 1] \in Active
    <3>1. Len(EnsurePlan(tx[w].call)) \in 0..3 /\ tx[w].n < Len(EnsurePlan(tx[w].call))
      BY <2>2
    <3> QED
      BY <2>1, <3>1, Advance
  <2> HIDE DEF Active
  <2>6. \/ tx' = [tx EXCEPT ![w] = [tx[w] EXCEPT !.pc = "lock", !.n = 0]]
        \/ tx' = [tx EXCEPT ![w] = [tx[w] EXCEPT !.n = tx[w].n + 1]]
    <3>1. CASE tx[w].n + 1 = Len(EnsurePlan(tx[w].call))
      BY <1>6, <3>1 DEF EnsureWallet
    <3>2. CASE tx[w].n + 1 # Len(EnsurePlan(tx[w].call))
      BY <1>6, <3>2 DEF EnsureWallet
    <3> QED
      BY <3>1, <3>2
  <2>7. tx' \in [Workers -> TxState]
    BY <1>1, <1>3, <2>3, <2>4, <2>6
  <2> QED
    BY <1>1, <1>6, <2>7 DEF EnsureWallet, TxShape
<1>7. ASSUME NEW w \in Workers, LockRow(w)
      PROVE  TxShape'
  <2>1. tx[w] \in Active /\ tx[w].n \in 0..3 /\ tx[w].call \in Calls /\ tx[w].pc = "lock"
    BY <1>7, Running DEF LockRow, Waiting, Protocol
  <2>2. tx[w].n < Len(LockPlan(tx[w].call)) /\ Len(LockPlan(tx[w].call)) \in 1..3
    BY <1>7, <2>1, PlanFacts DEF LockRow, Waiting
  <2>3. [tx[w] EXCEPT !.n = tx[w].n + 1] \in Active
    <3>1. Len(LockPlan(tx[w].call)) \in 0..3 /\ tx[w].n < Len(LockPlan(tx[w].call))
      BY <2>2
    <3> QED
      BY <2>1, <3>1, Advance
  <2>4. tx' = [tx EXCEPT ![w] = [tx[w] EXCEPT !.n = tx[w].n + 1]]
    BY <1>7 DEF LockRow
  <2>5. tx' \in [Workers -> TxState]
    BY <1>1, <1>3, <2>3, <2>4
  <2> QED
    BY <1>1, <1>7, <2>5 DEF LockRow, TxShape
<1>8. ASSUME NEW w \in Workers, ReadRows(w)
      PROVE  TxShape'
  <2>1. tx[w] \in Active /\ tx[w].pc = "lock"
    BY <1>8, Running DEF ReadRows, Protocol
  <2>2. [tx[w] EXCEPT !.pc = "write"] \in Active
    BY <2>1 DEF Phases
  <2>3. tx' = [tx EXCEPT ![w] = [tx[w] EXCEPT !.pc = "write"]]
    BY <1>8 DEF ReadRows
  <2>4. tx' \in [Workers -> TxState]
    BY <1>1, <1>3, <2>2, <2>3
  <2>5. seen' \in [Workers -> [Users -> WalletRow]]
    BY <1>1, <1>2, <1>8 DEF ReadRows
  <2> QED
    BY <1>1, <1>8, <2>4, <2>5 DEF ReadRows, TxShape
<1>9. ASSUME NEW w \in Workers, End(w)
      PROVE  TxShape'
  <2>1. tx' \in [Workers -> TxState] /\ seen' \in [Workers -> [Users -> WalletRow]]
    BY <1>1, <1>2, <1>9 DEF End
  <2>2. lockedBy' \in [Rows -> Workers \cup {Nobody}]
    BY <1>1, <1>9 DEF End
  <2> QED
    BY <2>1, <2>2 DEF TxShape
<1>10. ASSUME NEW u \in Users, GetWallet(u)
       PROVE  TxShape'
  BY <1>1, <1>10 DEF GetWallet, txVars, TxShape
<1> QED
  BY <1>5, <1>6, <1>7, <1>8, <1>9, <1>10 DEF TxNext, WorkerStep, Commit, Rollback

(* A step of one worker leaves the transactions and locks of the others.   *)
LEMMA Others ==
  ASSUME Protocol, NEW w \in Workers, WorkerStep(w), NEW v \in Workers, v # w
  PROVE  /\ tx'[v] = tx[v] /\ seen'[v] = seen[v]
         /\ \A r \in Rows : Held(v, r)' <=> Held(v, r)
         /\ Reached(v)' = Reached(v)
<1>1. /\ tx \in [Workers -> TxState]
      /\ seen \in [Workers -> [Users -> WalletRow]]
      /\ lockedBy \in [Rows -> Workers \cup {Nobody}]
      /\ v # Nobody
  BY WorkersAssumption DEF Protocol, TxShape
<1>2. tx'[v] = tx[v] /\ seen'[v] = seen[v]
  <2>1. CASE Begin(w)
    BY <1>1, <2>1 DEF Begin
  <2>2. CASE EnsureWallet(w)
    BY <1>1, <2>2 DEF EnsureWallet
  <2>3. CASE LockRow(w)
    BY <1>1, <2>3 DEF LockRow
  <2>4. CASE ReadRows(w)
    BY <1>1, <2>4 DEF ReadRows
  <2>5. CASE End(w)
    BY <1>1, <2>5 DEF End
  <2> QED
    BY <2>1, <2>2, <2>3, <2>4, <2>5 DEF WorkerStep, Commit, Rollback
<1>3. \A r \in Rows : lockedBy'[r] = v <=> lockedBy[r] = v
  <2>1. CASE UNCHANGED lockedBy
    BY <2>1
  <2>2. CASE LockRow(w)
    BY <1>1, <2>2 DEF LockRow
  <2>3. CASE End(w)
    BY <1>1, <2>3 DEF End
  <2> QED
    BY <2>1, <2>2, <2>3 DEF WorkerStep, Begin, EnsureWallet, ReadRows, Commit, Rollback
<1> QED
  BY <1>2, <1>3 DEF Held, Reached

(* What a step makes of its worker's own transaction.                      *)
LEMMA Own ==
  ASSUME Protocol, NEW w \in Workers, WorkerStep(w)
  PROVE  \/ /\ Begin(w) \/ EnsureWallet(w)
            /\ tx[w].pc \in {"idle", "ensure"}
            /\ \/ tx'[w].pc = "ensure" /\ tx'[w].n < Len(EnsurePlan(tx'[w].call))
               \/ tx'[w].pc = "lock" /\ tx'[w].n = 0 /\ tx'[w].call \in Calls
         \/ /\ LockRow(w)
            /\ tx[w].pc = "lock" /\ tx[w].n < Len(LockPlan(tx[w].call))
            /\ tx'[w].pc = "lock" /\ tx'[w].n = tx[w].n + 1 /\ tx'[w].call = tx[w].call
         \/ /\ ReadRows(w)
            /\ tx[w].pc = "lock" /\ tx[w].n = Len(LockPlan(tx[w].call))
            /\ tx'[w].pc = "write" /\ tx'[w].call = tx[w].call
         \/ (Commit(w) \/ Rollback(w)) /\ tx'[w].pc = "idle"
<1>1. tx \in [Workers -> TxState]
  BY DEF Protocol, TxShape
<1>2. CASE Begin(w)
  <2>1. PICK c \in Calls : tx' = [tx EXCEPT ![w] =
            [pc |-> IF EnsurePlan(c) = <<>> THEN "lock" ELSE "ensure", call |-> c, n |-> 0]]
    BY <1>2 DEF Begin
  <2>2. /\ tx'[w].pc = IF EnsurePlan(c) = <<>> THEN "lock" ELSE "ensure"
        /\ tx'[w].call = c /\ tx'[w].n = 0
    BY <1>1, <2>1
  <2>3. tx[w].pc = "idle"
    BY <1>2 DEF Begin, Idle
  <2>4. EnsurePlan(c) # <<>> => 0 < Len(EnsurePlan(c))
    BY EnsureFacts
  <2> QED
    BY <1>2, <2>2, <2>3, <2>4
<1>3. CASE EnsureWallet(w)
  <2>1. /\ tx[w].pc = "ensure" /\ tx[w] \in [pc : Phases, call : Calls, n : 0..3]
        /\ tx[w].call \in Calls /\ tx[w].n \in 0..3
    BY <1>3, Running DEF EnsureWallet, Protocol
  <2>2. tx[w].n < Len(EnsurePlan(tx[w].call)) /\ Len(EnsurePlan(tx[w].call)) \in 0..2
    BY <2>1, EnsureFacts DEF Protocol, Progress
  <2>3. CASE tx[w].n + 1 = Len(EnsurePlan(tx[w].call))
    <3>1. tx' = [tx EXCEPT ![w].pc = "lock", ![w].n = 0]
      BY <1>3, <2>3 DEF EnsureWallet
    <3>2. tx'[w].pc = "lock" /\ tx'[w].n = 0 /\ tx'[w].call = tx[w].call
      BY <1>1, <2>1, <3>1
    <3> QED
      BY <1>3, <2>1, <3>2
  <2>4. CASE tx[w].n + 1 # Len(EnsurePlan(tx[w].call))
    <3>1. tx' = [tx EXCEPT ![w].n = @ + 1]
      BY <1>3, <2>4 DEF EnsureWallet
    <3>2. tx'[w].pc = "ensure" /\ tx'[w].n = tx[w].n + 1 /\ tx'[w].call = tx[w].call
      BY <1>1, <2>1, <3>1
    <3>3. tx[w].n + 1 < Len(EnsurePlan(tx[w].call))
      BY <2>1, <2>2, <2>4
    <3> QED
      BY <1>3, <2>1, <3>2, <3>3
  <2> QED
    BY <2>3, <2>4
<1>4. CASE LockRow(w)
  <2>1. tx[w].pc = "lock" /\ tx[w] \in [pc : Phases, call : Calls, n : 0..3]
    BY <1>4, Running DEF LockRow, Waiting, Protocol
  <2>2. tx'[w].pc = "lock" /\ tx'[w].n = tx[w].n + 1 /\ tx'[w].call = tx[w].call
    BY <1>1, <1>4, <2>1 DEF LockRow
  <2> QED
    BY <1>4, <2>1, <2>2 DEF LockRow, Waiting
<1>5. CASE ReadRows(w)
  <2>1. /\ tx[w].pc = "lock" /\ tx[w] \in [pc : Phases, call : Calls, n : 0..3]
        /\ tx[w].call \in Calls /\ tx[w].n \in 0..3
    BY <1>5, Running DEF ReadRows, Protocol
  <2>2. tx'[w].pc = "write" /\ tx'[w].call = tx[w].call
    BY <1>1, <1>5, <2>1 DEF ReadRows
  <2>3. Len(LockPlan(tx[w].call)) \in 1..3 /\ tx[w].n <= Len(LockPlan(tx[w].call))
    BY <2>1, PlanFacts DEF Protocol, Progress
  <2>4. ~(tx[w].n < Len(LockPlan(tx[w].call)))
    BY <1>5, <2>1 DEF ReadRows, Waiting
  <2>5. tx[w].n = Len(LockPlan(tx[w].call))
    BY <2>1, <2>3, <2>4
  <2> QED
    BY <1>5, <2>1, <2>2, <2>5
<1>6. CASE Commit(w) \/ Rollback(w)
  <2>1. tx'[w] = Idle
    BY <1>1, <1>6 DEF Commit, Rollback, End
  <2> QED
    BY <1>6, <2>1 DEF Idle
<1> QED
  BY <1>2, <1>3, <1>4, <1>5, <1>6 DEF WorkerStep

LEMMA ProgressStep ==
  ASSUME Protocol, TxNext
  PROVE  Progress'
<1>1. ASSUME NEW w \in Workers, WorkerStep(w)
      PROVE  Progress'
  <2>1. ASSUME NEW v \in Workers, v # w
        PROVE  /\ tx'[v].pc = "ensure" => tx'[v].n < Len(EnsurePlan(tx'[v].call))
               /\ tx'[v].pc = "lock"   => tx'[v].n <= Len(LockPlan(tx'[v].call))
    BY <1>1, <2>1, Others DEF Protocol, Progress
  <2>2. tx'[w].pc = "ensure" => tx'[w].n < Len(EnsurePlan(tx'[w].call))
    BY <1>1, Own
  <2>3. tx'[w].pc = "lock" => tx'[w].n <= Len(LockPlan(tx'[w].call))
    <3>1. CASE tx'[w].n = 0 /\ tx'[w].call \in Calls
      BY <3>1, PlanFacts
    <3>2. CASE /\ tx[w].pc = "lock" /\ tx[w].n < Len(LockPlan(tx[w].call))
               /\ tx'[w].n = tx[w].n + 1 /\ tx'[w].call = tx[w].call
      <4>1. tx[w].call \in Calls /\ tx[w].n \in 0..3
        BY <3>2, Running DEF Protocol
      <4>2. Len(LockPlan(tx[w].call)) \in 1..3
        BY <4>1, PlanFacts
      <4> QED
        BY <3>2, <4>1, <4>2
    <3> QED
      BY <1>1, <3>1, <3>2, Own
  <2> QED
    BY <2>1, <2>2, <2>3 DEF Progress
<1>2. ASSUME NEW u \in Users, GetWallet(u)
      PROVE  Progress'
  BY <1>2 DEF GetWallet, txVars, Protocol, Progress
<1> QED
  BY <1>1, <1>2 DEF TxNext

LEMMA LocksStep ==
  ASSUME Protocol, TxNext
  PROVE  LocksFollowPlan'
<1>1. ASSUME NEW w \in Workers, WorkerStep(w)
      PROVE  LocksFollowPlan'
  <2>1. ASSUME NEW v \in Workers, v # w, NEW r \in Rows
        PROVE  Held(v, r)' <=> r \in Reached(v)'
    BY <1>1, <2>1, Others DEF Protocol, LocksFollowPlan
  <2>2. ASSUME NEW r \in Rows
        PROVE  Held(w, r)' <=> r \in Reached(w)'
    <3>1. Held(w, r) <=> r \in Reached(w)
      BY DEF Protocol, LocksFollowPlan
    <3>2. CASE /\ Begin(w) \/ EnsureWallet(w)
               /\ tx[w].pc \in {"idle", "ensure"}
               /\ tx'[w].pc = "ensure" \/ (tx'[w].pc = "lock" /\ tx'[w].n = 0)
      <4>1. Reached(w) = {} /\ Reached(w)' = {}
        BY <3>2 DEF Reached
      <4>2. lockedBy' = lockedBy
        BY <3>2 DEF Begin, EnsureWallet
      <4> QED
        BY <3>1, <4>1, <4>2 DEF Held
    <3>3. CASE /\ LockRow(w)
               /\ tx[w].pc = "lock" /\ tx[w].n < Len(LockPlan(tx[w].call))
               /\ tx'[w].pc = "lock" /\ tx'[w].n = tx[w].n + 1 /\ tx'[w].call = tx[w].call
      <4>1. tx[w].call \in Calls /\ tx[w].n \in 0..3
        BY <3>3, Running DEF Protocol
      <4>2. Reached(w)' = Reached(w) \cup {Wanted(w)}
        <5>1. 1..(tx[w].n + 1) = 1..tx[w].n \cup {tx[w].n + 1}
          BY <4>1
        <5> QED
          BY <3>3, <5>1 DEF Reached, Wanted
      <4>3. lockedBy' = [lockedBy EXCEPT ![Wanted(w)] = w] /\ lockedBy \in [Rows -> Workers \cup {Nobody}]
        BY <3>3 DEF LockRow, Protocol, TxShape
      <4>4. lockedBy'[r] = IF r = Wanted(w) THEN w ELSE lockedBy[r]
        BY <4>3
      <4>5. Held(w, r)' <=> r = Wanted(w) \/ Held(w, r)
        BY <4>4 DEF Held
      <4> QED
        BY <3>1, <4>2, <4>5
    <3>4. CASE /\ ReadRows(w)
               /\ tx[w].pc = "lock" /\ tx[w].n = Len(LockPlan(tx[w].call))
               /\ tx'[w].pc = "write" /\ tx'[w].call = tx[w].call
      <4>1. Reached(w)' = Reached(w)
        BY <3>4 DEF Reached
      <4>2. lockedBy' = lockedBy
        BY <3>4 DEF ReadRows
      <4> QED
        BY <3>1, <4>1, <4>2 DEF Held
    <3>5. CASE (Commit(w) \/ Rollback(w)) /\ tx'[w].pc = "idle"
      <4>1. Reached(w)' = {}
        BY <3>5 DEF Reached
      <4>2. lockedBy'[r] # w
        BY <3>5, WorkersAssumption DEF Commit, Rollback, End
      <4> QED
        BY <4>1, <4>2 DEF Held
    <3> QED
      BY <1>1, <3>2, <3>3, <3>4, <3>5, Own
  <2> QED
    BY <2>1, <2>2 DEF LocksFollowPlan
<1>2. ASSUME NEW u \in Users, GetWallet(u)
      PROVE  LocksFollowPlan'
  BY <1>2 DEF GetWallet, txVars, Protocol, LocksFollowPlan, Held, Reached
<1> QED
  BY <1>1, <1>2 DEF TxNext

(* No step deletes a wallet; a committed one writes its own wallets only,  *)
(* and any other step leaves the wallets that exist alone.                 *)
LEMMA WalletsKept ==
  ASSUME Protocol, TxNext
  PROVE  \A u \in Users : wallet[u].exists =>
           /\ wallet'[u].exists
           /\ \/ wallet'[u] = wallet[u]
              \/ \E w \in Workers : /\ Commit(w)
                                    /\ u \in Wallets(tx[w].call)
<1>1. wallet \in [Users -> WalletRow] /\ TypeOK
  BY DEF Protocol, Sound, TypeOK
<1>2. ASSUME NEW v, NEW isActive, Ensure(v, isActive)
      PROVE  \A u \in Users : wallet[u].exists => wallet'[u] = wallet[u]
  BY <1>1, <1>2 DEF Ensure, Ensured
<1>3. ASSUME NEW w \in Workers, EnsureWallet(w)
      PROVE  \A u \in Users : wallet[u].exists => wallet'[u] = wallet[u]
  BY <1>2, <1>3 DEF EnsureWallet
<1>4. ASSUME NEW u \in Users, GetWallet(u)
      PROVE  \A v \in Users : wallet[v].exists => wallet'[v] = wallet[v]
  BY <1>2, <1>4 DEF GetWallet
<1>5. ASSUME NEW w \in Workers, Begin(w) \/ LockRow(w) \/ ReadRows(w) \/ Rollback(w)
      PROVE  UNCHANGED wallet
  BY <1>5 DEF Begin, LockRow, ReadRows, Rollback, vars
<1>6. ASSUME NEW w \in Workers, Commit(w)
      PROVE  /\ \A u \in Users \ Wallets(tx[w].call) : wallet'[u] = wallet[u]
             /\ \A u \in Users : wallet[u].exists => wallet'[u].exists
  <2>1. tx[w].call \in Calls /\ Write(tx[w].call, seen[w])
    BY <1>6, Running DEF Commit, Protocol
  <2> QED
    BY <1>1, <2>1, WriteFrame
<1> QED
  BY <1>3, <1>4, <1>5, <1>6 DEF TxNext, WorkerStep

LEMMA LockedExistStep ==
  ASSUME Protocol, TxNext
  PROVE  LockedExist'
<1>1. \A u \in Users : wallet[u].exists => wallet'[u].exists
  BY WalletsKept
<1>2. /\ lockedBy \in [Rows -> Workers \cup {Nobody}] /\ Users \subseteq Rows
      /\ \A u \in Users : lockedBy[u] # Nobody => wallet[u].exists
  BY DEF Protocol, TxShape, LockedExist, Rows
<1>3. CASE UNCHANGED lockedBy
  BY <1>1, <1>2, <1>3 DEF LockedExist
<1>4. ASSUME NEW w \in Workers, LockRow(w)
      PROVE  LockedExist'
  BY <1>2, <1>4 DEF LockRow, LockedExist, vars
<1>5. ASSUME NEW w \in Workers, End(w)
      PROVE  LockedExist'
  <2>1. \A u \in Users : lockedBy'[u] # Nobody => lockedBy[u] # Nobody
    BY <1>2, <1>5 DEF End
  <2> QED
    BY <1>1, <1>2, <2>1 DEF LockedExist
<1> QED
  BY <1>3, <1>4, <1>5
  DEF TxNext, WorkerStep, Begin, EnsureWallet, ReadRows, Commit, Rollback, GetWallet, txVars

(* A wallet that a writing transaction has read is locked by it, so no     *)
(* other transaction writes it before.                                     *)
LEMMA WritersHold ==
  ASSUME Protocol, NEW w \in Workers, tx[w].pc = "write", NEW u \in Wallets(tx[w].call)
  PROVE  u \in Users /\ lockedBy[u] = w /\ wallet[u].exists
<1>1. tx[w].call \in Calls
  BY Running DEF Protocol
<1>2. u \in Users /\ Users \subseteq Rows
  BY <1>1 DEF Wallets, Calls, Call, Rows
<1>3. u \in Reached(w)
  BY <1>1, PlanFacts DEF Reached
<1>4. lockedBy[u] = w
  BY <1>2, <1>3 DEF Protocol, LocksFollowPlan, Held
<1> QED
  BY <1>2, <1>4, WorkersAssumption DEF Protocol, LockedExist

LEMMA SnapshotStep ==
  ASSUME Protocol, TxNext
  PROVE  SnapshotCurrent'
<1>1. ASSUME NEW v \in Workers, tx[v].pc = "write", NEW u \in Wallets(tx[v].call), ~Commit(v)
      PROVE  wallet'[u] = wallet[u]
  <2>1. u \in Users /\ lockedBy[u] = v /\ wallet[u].exists
    BY <1>1, WritersHold
  <2>2. ASSUME NEW w \in Workers, Commit(w), u \in Wallets(tx[w].call)
        PROVE  FALSE
    <3>1. tx[w].pc = "write"
      BY <2>2 DEF Commit
    <3>2. lockedBy[u] = w
      BY <2>2, <3>1, WritersHold
    <3> QED
      BY <1>1, <2>1, <2>2, <3>2
  <2> QED
    BY <2>1, <2>2, WalletsKept
<1>2. ASSUME NEW w \in Workers, WorkerStep(w)
      PROVE  SnapshotCurrent'
  <2>1. ASSUME NEW v \in Workers, v # w, tx'[v].pc = "write", NEW u \in Wallets(tx'[v].call)
        PROVE  seen'[v][u] = wallet'[u]
    <3>1. tx'[v] = tx[v] /\ seen'[v] = seen[v]
      BY <1>2, <2>1, Others
    <3>2. seen[v][u] = wallet[u]
      BY <2>1, <3>1 DEF Protocol, SnapshotCurrent
    <3>3. ~Commit(v)
      <4>1. ASSUME Commit(v) PROVE FALSE
        <5>1. tx'[v].pc = "idle"
          BY <4>1 DEF Commit, End, Idle, Protocol, TxShape
        <5> QED
          BY <2>1, <5>1
      <4> QED
        BY <4>1
    <3> QED
      BY <1>1, <2>1, <3>1, <3>2, <3>3
  <2>2. ASSUME tx'[w].pc = "write", NEW u \in Wallets(tx'[w].call)
        PROVE  seen'[w][u] = wallet'[u]
    <3>1. ReadRows(w) /\ tx[w].pc = "lock" /\ tx'[w].call = tx[w].call
      BY <1>2, <2>2, Own
    <3>2. u \in Users
      BY <2>2, <3>1, Running DEF Protocol, Wallets, Calls, Call
    <3> QED
      BY <2>2, <3>1, <3>2 DEF ReadRows, vars, Protocol, TxShape
  <2> QED
    BY <2>1, <2>2 DEF SnapshotCurrent
<1>3. ASSUME NEW x \in Users, GetWallet(x)
      PROVE  SnapshotCurrent'
  <2>1. tx' = tx /\ seen' = seen
    BY <1>3 DEF GetWallet, txVars
  <2>2. ASSUME NEW v \in Workers, tx[v].pc = "write", NEW u \in Wallets(tx[v].call)
        PROVE  wallet'[u] = wallet[u]
    <3>1. u \in Users /\ wallet[u].exists /\ wallet \in [Users -> WalletRow]
      BY <2>2, WritersHold DEF Protocol, Sound, TypeOK
    <3> QED
      BY <1>3, <3>1 DEF GetWallet, Ensure, Ensured
  <2> QED
    BY <2>1, <2>2 DEF SnapshotCurrent, Protocol
<1> QED
  BY <1>2, <1>3 DEF TxNext

LEMMA ProtocolStep == Protocol /\ [TxNext]_allVars => Protocol'
<1> SUFFICES ASSUME Protocol, [TxNext]_allVars PROVE Protocol'
  OBVIOUS
<1>1. CASE TxNext
  <2>1. Sound'
    BY <1>1, StepIsAtomic, NextSound DEF Protocol
  <2> QED
    BY <1>1, <2>1, ShapeStep, ProgressStep, LocksStep, LockedExistStep, SnapshotStep
    DEF Protocol
<1>2. CASE UNCHANGED allVars
  BY <1>2 DEF allVars, vars, txVars, Protocol, Sound, TypeOK, FundsNeverNegative, LedgerChain,
              TxShape, Progress, LocksFollowPlan, Held, Reached, LockedExist, SnapshotCurrent
<1> QED
  BY <1>1, <1>2

LEMMA ProtocolHolds == TxSpec => []Protocol
BY TxInitProtocol, ProtocolStep, PTL DEF TxSpec

-----------------------------------------------------------------------------
(* Workers, their reads, the locks and both tables stay well formed,       *)
(* whatever calls overlap, and in particular no record of a transaction    *)
(* asks for a row its lock plan does not have.                             *)
THEOREM TxTypes == TxSpec => []TxTypeOK
<1>1. Protocol => TxTypeOK
  BY DEF Protocol, Sound, TxShape, TxTypeOK
<1> QED
  BY <1>1, ProtocolHolds, PTL

(* When a transaction writes, the rows it read are still the rows of the   *)
(* table: SELECT ... FOR UPDATE makes balanceBefore authoritative (PT-146) *)
(* for any number of workers, and although getWallet inserts rows without  *)
(* a lock.                                                                 *)
THEOREM SnapshotSafety == TxSpec => []SnapshotCurrent
<1>1. Protocol => SnapshotCurrent
  BY DEF Protocol
<1> QED
  BY <1>1, ProtocolHolds, PTL

(* A transaction that waits for a wallet holds only wallets of smaller     *)
(* ids, so wallets alone can never deadlock (bloquearDosMonederos).        *)
THEOREM LockOrder == TxSpec => []WalletsLockedInOrder
<1>1. ASSUME Protocol PROVE WalletsLockedInOrder
  <2> SUFFICES ASSUME NEW w \in Workers, Waiting(w), NEW u \in Users,
                      lockedBy[u] = w, Wanted(w) \in Users
               PROVE  u < Wanted(w)
    BY DEF WalletsLockedInOrder
  <2>1. tx[w].pc = "lock" /\ tx[w].call \in Calls /\ tx[w].n \in 0..3
    BY <1>1, Running DEF Waiting, Protocol
  <2>2. tx[w].n < Len(LockPlan(tx[w].call)) /\ Len(LockPlan(tx[w].call)) \in 1..3
    BY <2>1, PlanFacts DEF Waiting
  <2>3. u \in Reached(w)
    BY <1>1 DEF Protocol, LocksFollowPlan, Held, Rows
  <2>4. PICK i \in 1..tx[w].n : u = LockPlan(tx[w].call)[i]
    BY <2>1, <2>3 DEF Reached
  <2>5. /\ i \in 1..Len(LockPlan(tx[w].call)) /\ tx[w].n + 1 \in 1..Len(LockPlan(tx[w].call))
        /\ i < tx[w].n + 1
    BY <2>1, <2>2
  <2> QED
    BY <2>1, <2>4, <2>5, PlanFacts DEF Wanted
<1> QED
  BY <1>1, ProtocolHolds, PTL

(* Every step of the lock protocol is one atomic wallet operation, or      *)
(* changes neither wallets nor ledger: WalletService, run by any number of *)
(* workers, implements module Wallet.                                      *)
THEOREM ProtocolImplements == TxSpec => Implements
<1>1. Protocol /\ [TxNext]_allVars => [Next]_vars
  BY StepIsAtomic DEF allVars, vars
<1> QED
  BY <1>1, ProtocolHolds, PTL DEF TxSpec, Implements

(* From empty tables on, a behaviour of the concurrent WalletService is a  *)
(* behaviour of the atomic one.                                            *)
THEOREM ProtocolRefines == TxSpec => Spec
<1>1. TxInit => Init
  BY DEF TxInit
<1> QED
  BY <1>1, ProtocolImplements, PTL DEF TxSpec, Spec, Implements

(* So what holds of the atomic operations holds of the concurrent service. *)
(* No interleaving takes a hold or a holdback below zero, and a wallet     *)
(* that was never created holds nothing.                                   *)
THEOREM ConcurrentFunds == TxSpec => []FundsNeverNegative
BY ProtocolRefines, WalletSafety, PTL

(* No interleaving breaks the chain of a ledger, and none leaves a debt    *)
(* that a reversed sale did not make.                                      *)
THEOREM ConcurrentLedger == TxSpec => []LedgerChain /\ DebtOnlyFromReversal
BY ProtocolRefines, WalletSafety, DebtSafety, PTL

(* Nor does any interleaving lose track of a cent.                         *)
THEOREM ConcurrentBooks == TxSpec => []FundsBooked
BY ProtocolRefines, EveryCentBooked, PTL
=============================================================================
