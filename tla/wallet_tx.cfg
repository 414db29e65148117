SPECIFICATION MCSpec
CONSTANTS
  Users = {1, 2}
  Amounts = {5}
  FeePercents = {10}
  Workers = {w1, w2}
  OrderRow = OrderRow
  MaxEntries = 8
  Nobody = Nobody
INVARIANTS TxTypeOK SnapshotCurrent WalletsLockedInOrder  FundsNeverNegative 
PROPERTIES Implements DebtOnlyFromReversal
SYMMETRY Symmetry
