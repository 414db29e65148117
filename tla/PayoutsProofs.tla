--------------------------- MODULE PayoutsProofs ---------------------------
(***************************************************************************)
(* Proofs about the verification of payout accounts, on its own, and about *)
(* withdrawals, for every set of accounts, of requests and of amounts.     *)
(***************************************************************************)
EXTENDS Payouts, FiniteSetTheorems, TLAPS

(* The hypothesis of some of the theorems: requests of this kind do not    *)
(* overlap.                                                                *)
OneAtATime(S) == \A x, y \in S : x = y

Row == [status : VerificationStatuses, attempts : Nat, late : BOOLEAN]

(* What a request of the seller does next; the verification it is about.   *)
Deciding == [op : {"expire", "verify"}, account : Accounts, i : Nat]
Missing == [op : {"miss"}, account : Accounts, i : Nat, attempts : Nat]
Charging ==      [op : {"charge"}, account : PayPal, i : Nat]
            \cup [op : {"note"}, account : PayPal, i : Nat, to : {"SENT", "FAILED"}]
Asking == [op : {"add paypal", "start", "prove"}, account : Accounts]
CallState == {Idle} \cup Asking \cup Charging \cup Deciding \cup Missing

Indexed == {"charge", "note", "expire", "verify", "miss"}
Confirming == {"expire", "verify", "miss"}

MarkState == {Idle} \cup [op : {"sent"}, account : Accounts, i : Nat]

VerTyped ==
  /\ account \in [Accounts -> [registered : BOOLEAN, verified : BOOLEAN]]
  /\ verification \in [Accounts -> Seq(Row)]
  /\ \A m \in Accounts : Len(verification[m]) <= MaxVerifications
  /\ calls \in [Callers -> CallState]
  /\ \A c \in Callers :
       calls[c].op \in Indexed => calls[c].i \in DOMAIN verification[calls[c].account]
  /\ marks \in [Panels -> MarkState]
  /\ \A p \in Panels :
       marks[p] # Idle => marks[p].i \in DOMAIN verification[marks[p].account]
  /\ moved \in [Accounts -> SUBSET Nat]
  /\ \A m \in Accounts : moved[m] \subseteq DOMAIN verification[m]
  /\ misses \in [Accounts -> [1..MaxVerifications -> Nat]]

LEMMA VerConstants ==
  PayPal \subseteq Accounts /\ MaxAttempts \in Nat \ {0} /\ MaxVerifications \in Nat \ {0}
BY VerificationAssumption

LEMMA CallFacts ==
  ASSUME VerTyped, NEW c \in Callers
  PROVE  /\ calls[c] \in CallState
         /\ calls[c] # Idle => calls[c].account \in Accounts
         /\ calls[c].op \in {"charge", "note"} => calls[c] \in Charging
         /\ calls[c].op \in {"expire", "verify"} => calls[c] \in Deciding
         /\ calls[c].op = "miss" => calls[c] \in Missing
         /\ calls[c].op \in Indexed =>
              calls[c].account \in Accounts /\ calls[c].i \in DOMAIN verification[calls[c].account]
<1>1. calls[c] \in CallState
  BY DEF VerTyped
<1>2. calls[c].op \in Indexed => calls[c] \in Charging \cup Deciding \cup Missing
  <2>1. CASE calls[c] = Idle
    BY <2>1 DEF Idle, Indexed
  <2>2. CASE calls[c] \in Asking
    BY <2>2 DEF Asking, Indexed
  <2> QED  BY <1>1, <2>1, <2>2 DEF CallState
<1>3. calls[c] # Idle => calls[c].account \in Accounts
  BY <1>1, VerConstants DEF CallState, Asking, Charging, Deciding, Missing
<1>4. calls[c].op \in Indexed => calls[c].account \in Accounts
  BY <1>2, VerConstants DEF Charging, Deciding, Missing
<1>5. calls[c].op \in {"charge", "note"} => calls[c] \in Charging
  BY <1>2 DEF Indexed, Deciding, Missing
<1>6. calls[c].op \in {"expire", "verify"} => calls[c] \in Deciding
  BY <1>2 DEF Indexed, Charging, Missing
<1>7. calls[c].op = "miss" => calls[c] \in Missing
  BY <1>2 DEF Indexed, Charging, Deciding
<1>8. calls[c].op \in Indexed => calls[c].i \in DOMAIN verification[calls[c].account]
  BY DEF VerTyped
<1> QED  BY <1>1, <1>3, <1>4, <1>5, <1>6, <1>7, <1>8

LEMMA MarkFacts ==
  ASSUME VerTyped, NEW p \in Panels, marks[p] # Idle
  PROVE  /\ marks[p] \in [op : {"sent"}, account : Accounts, i : Nat]
         /\ marks[p].account \in Accounts
         /\ marks[p].i \in DOMAIN verification[marks[p].account]
BY DEF VerTyped, MarkState

LEMMA RowFacts ==
  ASSUME VerTyped, NEW m \in Accounts
  PROVE  /\ verification[m] \in Seq(Row) /\ Len(verification[m]) \in 0..MaxVerifications
         /\ DOMAIN verification[m] = 1..Len(verification[m])
         /\ \A i \in DOMAIN verification[m] :
              i \in 1..MaxVerifications /\ verification[m][i] \in Row
<1>1. verification[m] \in Seq(Row)
  BY DEF VerTyped
<1>2. Len(verification[m]) \in 0..MaxVerifications
  BY <1>1, VerConstants DEF VerTyped
<1> QED  BY <1>1, <1>2, VerConstants

-----------------------------------------------------------------------------
(* How a step changes the verifications: it writes one row, or adds one to *)
(* an account that has none open.                                          *)
Writes(m, i, row) ==
  verification' = [verification EXCEPT ![m] = [verification[m] EXCEPT ![i] = row]]

Opens(m) ==
  /\ Len(verification[m]) < MaxVerifications
  /\ \A i \in DOMAIN verification[m] : ~Open(verification[m][i])
  /\ verification' = [verification EXCEPT ![m] = Append(verification[m], New)]

Noted(c) == [verification[calls[c].account][calls[c].i] EXCEPT !.status = calls[c].to]
Expired(c) == [verification[calls[c].account][calls[c].i] EXCEPT !.status = "EXPIRED"]
Verified(c) == [verification[calls[c].account][calls[c].i] EXCEPT !.status = "VERIFIED"]
Missed(c) ==
  [verification[calls[c].account][calls[c].i] EXCEPT
     !.attempts = calls[c].attempts,
     !.status = IF Blocks(calls[c].attempts) THEN "BLOCKED" ELSE @]
Marked(p) == [verification[marks[p].account][marks[p].i] EXCEPT !.status = "SENT", !.late = FALSE]
Late(m, i) == [verification[m][i] EXCEPT !.late = TRUE]

LEMMA RowWritten ==
  ASSUME VerTyped, NEW m \in Accounts, NEW i \in DOMAIN verification[m], NEW row \in Row,
         Writes(m, i, row)
  PROVE  /\ verification' \in [Accounts -> Seq(Row)]
         /\ \A a \in Accounts : /\ Len(verification'[a]) = Len(verification[a])
                                /\ DOMAIN verification'[a] = DOMAIN verification[a]
         /\ verification'[m][i] = row
         /\ \A a \in Accounts : \A j \in DOMAIN verification[a] :
              a # m \/ j # i => verification'[a][j] = verification[a][j]
<1>1. verification \in [Accounts -> Seq(Row)]
  BY DEF VerTyped
<1> DEFINE rows == [verification[m] EXCEPT ![i] = row]
<1>2. rows \in Seq(Row) /\ Len(rows) = Len(verification[m]) /\ rows[i] = row
  BY <1>1
<1>3. \A j \in DOMAIN verification[m] \ {i} : rows[j] = verification[m][j]
  BY <1>1
<1>4. verification' = [verification EXCEPT ![m] = rows]
  BY DEF Writes
<1> HIDE DEF rows
<1>5. verification'[m] = rows /\ \A a \in Accounts \ {m} : verification'[a] = verification[a]
  BY <1>1, <1>4
<1>6. verification' \in [Accounts -> Seq(Row)]
  BY <1>1, <1>2, <1>4
<1>7. \A a \in Accounts : Len(verification'[a]) = Len(verification[a])
  BY <1>2, <1>5
<1>8. \A a \in Accounts : DOMAIN verification'[a] = DOMAIN verification[a]
  <2>1. \A s \in Seq(Row) : DOMAIN s = 1..Len(s)
    OBVIOUS
  <2> QED  BY <1>1, <1>6, <1>7, <2>1
<1> QED  BY <1>2, <1>3, <1>5, <1>6, <1>7, <1>8

LEMMA RowOpened ==
  ASSUME VerTyped, NEW m \in Accounts, Opens(m)
  PROVE  /\ verification' \in [Accounts -> Seq(Row)]
         /\ \A a \in Accounts : /\ Len(verification'[a]) <= MaxVerifications
                                /\ DOMAIN verification[a] \subseteq DOMAIN verification'[a]
         /\ DOMAIN verification'[m] = DOMAIN verification[m] \cup {Len(verification[m]) + 1}
         /\ Len(verification[m]) + 1 \in 1..MaxVerifications
         /\ Len(verification[m]) + 1 \notin DOMAIN verification[m]
         /\ verification'[m][Len(verification[m]) + 1] = New
         /\ \A a \in Accounts \ {m} : verification'[a] = verification[a]
         /\ \A a \in Accounts : \A j \in DOMAIN verification[a] :
              verification'[a][j] = verification[a][j]
<1>1. verification \in [Accounts -> Seq(Row)] /\ New \in Row
  BY DEF VerTyped, New, Row, VerificationStatuses
<1> DEFINE rows == Append(verification[m], New)
           n == Len(verification[m])
<1>2. n \in Nat /\ DOMAIN verification[m] = 1..n /\ n < MaxVerifications
  BY RowFacts DEF Opens
<1>3. /\ rows \in Seq(Row) /\ Len(rows) = n + 1 /\ DOMAIN rows = 1..n + 1 /\ rows[n + 1] = New
      /\ \A j \in 1..n : rows[j] = verification[m][j]
  BY <1>1
<1>4. verification' = [verification EXCEPT ![m] = rows]
  BY DEF Opens
<1> HIDE DEF rows
<1>5. verification'[m] = rows /\ \A a \in Accounts \ {m} : verification'[a] = verification[a]
  BY <1>1, <1>4
<1>6. verification' \in [Accounts -> Seq(Row)]
  BY <1>1, <1>3, <1>4
<1>7. DOMAIN rows = DOMAIN verification[m] \cup {n + 1} /\ n + 1 \notin DOMAIN verification[m]
  BY <1>2, <1>3
<1>8. n + 1 \in 1..MaxVerifications /\ n + 1 <= MaxVerifications
  BY <1>2, VerConstants
<1> HIDE DEF n
<1>9. \A a \in Accounts : Len(verification'[a]) <= MaxVerifications
  <2>1. Len(verification'[m]) <= MaxVerifications
    BY <1>3, <1>5, <1>8
  <2> QED  BY <1>5, <2>1 DEF VerTyped
<1>10. \A a \in Accounts : \A j \in DOMAIN verification[a] :
         verification'[a][j] = verification[a][j]
  BY <1>2, <1>3, <1>5
<1> QED  BY <1>3, <1>5, <1>6, <1>7, <1>8, <1>9, <1>10 DEF n

(* What each action writes.                                                *)
LEMMA Rewritten ==
  ASSUME VerTyped, NEW m \in Accounts, NEW i \in DOMAIN verification[m]
  PROVE  /\ \A s \in VerificationStatuses :
              /\ [verification EXCEPT ![m][i].status = s] =
                   [verification EXCEPT ![m] = [verification[m] EXCEPT
                     ![i] = [verification[m][i] EXCEPT !.status = s]]]
              /\ [verification[m][i] EXCEPT !.status = s] \in Row
<1>1. verification \in [Accounts -> Seq(Row)] /\ verification[m][i] \in Row
  BY RowFacts DEF VerTyped
<1> QED  BY <1>1 DEF Row

LEMMA NoteWrites ==
  ASSUME VerTyped, NEW c \in Callers, NoteCharge(c)
  PROVE  Writes(calls[c].account, calls[c].i, Noted(c)) /\ Noted(c) \in Row
<1>1. calls[c] \in Charging /\ calls[c].op = "note"
  BY CallFacts DEF NoteCharge
<1>2. calls[c].to \in VerificationStatuses
  BY <1>1 DEF Charging, VerificationStatuses
<1>3. calls[c].account \in Accounts /\ calls[c].i \in DOMAIN verification[calls[c].account]
  BY <1>1, CallFacts DEF Indexed
<1> QED  BY <1>2, <1>3, Rewritten DEF NoteCharge, Writes, Noted

LEMMA ExpireWrites ==
  ASSUME VerTyped, NEW c \in Callers, Expire(c)
  PROVE  Writes(calls[c].account, calls[c].i, Expired(c)) /\ Expired(c) \in Row
<1>1. calls[c].account \in Accounts /\ calls[c].i \in DOMAIN verification[calls[c].account]
  BY CallFacts DEF Expire, Indexed
<1>2. "EXPIRED" \in VerificationStatuses
  BY DEF VerificationStatuses
<1> QED  BY <1>1, <1>2, Rewritten DEF Expire, Writes, Expired

LEMMA VerifyWrites ==
  ASSUME VerTyped, NEW c \in Callers, Verify(c)
  PROVE  Writes(calls[c].account, calls[c].i, Verified(c)) /\ Verified(c) \in Row
<1>1. calls[c].account \in Accounts /\ calls[c].i \in DOMAIN verification[calls[c].account]
  BY CallFacts DEF Verify, Indexed
<1>2. "VERIFIED" \in VerificationStatuses
  BY DEF VerificationStatuses
<1> QED  BY <1>1, <1>2, Rewritten DEF Verify, Writes, Verified

LEMMA MissWrites ==
  ASSUME VerTyped, NEW c \in Callers, Miss(c)
  PROVE  Writes(calls[c].account, calls[c].i, Missed(c)) /\ Missed(c) \in Row
<1>1. calls[c].account \in Accounts /\ calls[c].i \in DOMAIN verification[calls[c].account]
  BY CallFacts DEF Miss, Indexed
<1>2. calls[c].attempts \in Nat
  BY CallFacts DEF Miss, Missing
<1>3. verification[calls[c].account][calls[c].i] \in Row
  BY <1>1, RowFacts
<1>4. Missed(c) \in Row
  BY <1>2, <1>3 DEF Missed, Row, VerificationStatuses
<1>5. Writes(calls[c].account, calls[c].i, Missed(c))
  <2>1. verification \in [Accounts -> Seq(Row)]
    BY DEF VerTyped
  <2> QED  BY <1>1, <1>3, <2>1 DEF Miss, Writes, Missed, Row
<1> QED  BY <1>4, <1>5

LEMMA MarkUnderWay ==
  ASSUME NEW p \in Panels, MarkSent(p)
  PROVE  marks[p] # Idle
<1>1. marks[p].op = "sent"
  BY Zenon DEF MarkSent
<1>2. Idle.op = "idle"
  BY DEF Idle
<1> QED  BY <1>1, <1>2

LEMMA MarkWrites ==
  ASSUME VerTyped, NEW p \in Panels, MarkSent(p)
  PROVE  /\ marks[p].account \in Accounts
         /\ marks[p].i \in DOMAIN verification[marks[p].account]
         /\ Writes(marks[p].account, marks[p].i, Marked(p)) /\ Marked(p) \in Row
<1>1. marks[p] # Idle
  BY MarkUnderWay
<1>2. marks[p].account \in Accounts /\ marks[p].i \in DOMAIN verification[marks[p].account]
  BY <1>1, MarkFacts
<1>3. verification[marks[p].account][marks[p].i] \in Row
  BY <1>2, RowFacts
<1>4. Marked(p) \in Row
  BY <1>3 DEF Marked, Row, VerificationStatuses
<1>5. Writes(marks[p].account, marks[p].i, Marked(p))
  <2>1. verification \in [Accounts -> Seq(Row)]
    BY DEF VerTyped
  <2> QED  BY <1>2, <1>3, <2>1 DEF MarkSent, Writes, Marked, Row
<1> QED  BY <1>2, <1>4, <1>5

LEMMA DeadlineWrites ==
  ASSUME VerTyped, NEW m \in Accounts, NEW i \in DOMAIN verification[m], DeadlinePasses(m, i)
  PROVE  Writes(m, i, Late(m, i)) /\ Late(m, i) \in Row
<1>1. verification[m][i] \in Row /\ verification \in [Accounts -> Seq(Row)]
  BY RowFacts DEF VerTyped
<1> QED  BY <1>1 DEF DeadlinePasses, Writes, Late, Row

LEMMA OpenWrites ==
  ASSUME VerTyped, NEW c \in Callers, OpenVerification(c)
  PROVE  /\ calls[c].account \in Accounts
         /\ UNCHANGED verification \/ Opens(calls[c].account)
<1>1. calls[c].account \in Accounts
  BY CallFacts DEF OpenVerification, Idle
<1>2. CASE \E i \in DOMAIN verification[calls[c].account] :
             Open(verification[calls[c].account][i])
  BY <1>1, <1>2 DEF OpenVerification
<1>3. CASE \A i \in DOMAIN verification[calls[c].account] :
             ~Open(verification[calls[c].account][i])
  BY <1>1, <1>3 DEF OpenVerification, Opens
<1> QED  BY <1>1, <1>2, <1>3

-----------------------------------------------------------------------------
(* Types.                                                                  *)
LEMMA VerificationStep ==
  ASSUME VerTyped, VerNext(TRUE)
  PROVE  /\ verification' \in [Accounts -> Seq(Row)]
         /\ \A m \in Accounts : /\ Len(verification'[m]) <= MaxVerifications
                                /\ DOMAIN verification[m] \subseteq DOMAIN verification'[m]
                                /\ Opens(m) \/ DOMAIN verification'[m] = DOMAIN verification[m]
<1> DEFINE Fine ==
             /\ verification' \in [Accounts -> Seq(Row)]
             /\ \A m \in Accounts : /\ Len(verification'[m]) <= MaxVerifications
                                    /\ DOMAIN verification[m] \subseteq DOMAIN verification'[m]
                                    /\ Opens(m) \/ DOMAIN verification'[m] = DOMAIN verification[m]
<1>1. ASSUME UNCHANGED verification  PROVE Fine
  BY <1>1 DEF VerTyped
<1>2. ASSUME NEW m \in Accounts, NEW i \in DOMAIN verification[m], NEW row, row \in Row,
             Writes(m, i, row)
      PROVE  Fine
  <2>1. \A a \in Accounts : Len(verification[a]) <= MaxVerifications
    BY DEF VerTyped
  <2> QED  BY <1>2, <2>1, RowWritten
<1>3. ASSUME NEW c \in Callers, OpenVerification(c)  PROVE Fine
  <2>1. CASE UNCHANGED verification
    BY <1>1, <2>1
  <2>2. CASE Opens(calls[c].account)
    BY <1>3, <2>2, OpenWrites, RowOpened
  <2> QED  BY <1>3, <2>1, <2>2, OpenWrites
<1>4. ASSUME NEW c \in Callers, NoteCharge(c) \/ Expire(c) \/ Verify(c) \/ Miss(c)  PROVE Fine
  <2>1. calls[c].op \in Indexed
    BY <1>4 DEF NoteCharge, Expire, Verify, Miss, Indexed
  <2>2. calls[c].account \in Accounts /\ calls[c].i \in DOMAIN verification[calls[c].account]
    BY <2>1, CallFacts
  <2> HIDE DEF Fine
  <2> QED  BY <1>2, <1>4, <2>2, NoteWrites, ExpireWrites, VerifyWrites, MissWrites
<1>5. ASSUME NEW p \in Panels, MarkSent(p)  PROVE Fine
  <2> HIDE DEF Fine
  <2> QED  BY <1>2, <1>5, MarkWrites
<1>6. ASSUME NEW m \in Accounts, NEW i \in DOMAIN verification[m], DeadlinePasses(m, i)
      PROVE  Fine
  <2> HIDE DEF Fine
  <2> QED  BY <1>2, <1>6, DeadlineWrites
<1>7. ASSUME NEW c \in Callers, AddPaypalAccount(c) \/ Charge(c) \/ Prove(c) \/ CallDies(c)
      PROVE  Fine
  BY <1>1, <1>7 DEF AddPaypalAccount, Charge, Prove, CallDies
<1>8. ASSUME NEW c \in Callers, NEW m \in Accounts,
             \/ AskPaypalAccount(c, m) \/ AskStart(c, m, TRUE) \/ AddBankAccount(m)
             \/ \E code \in {0} \cup moved[m] : AskConfirm(c, m, code)
             \/ \E i \in DOMAIN verification[m], p \in Panels : AskSent(p, m, i)
      PROVE  Fine
  BY <1>1, <1>8 DEF AskPaypalAccount, AskStart, AddBankAccount, AskConfirm, AskSent
<1>9. ASSUME NEW m \in Accounts,
             \/ AddBankAccount(m)
             \/ \E i \in DOMAIN verification[m], p \in Panels : AskSent(p, m, i)
      PROVE  Fine
  BY <1>1, <1>9 DEF AddBankAccount, AskSent
<1> HIDE DEF Fine
<1>10. Fine
  BY <1>3, <1>4, <1>5, <1>6, <1>7, <1>8, <1>9 DEF VerNext
<1> QED  BY <1>10 DEF Fine

LEMMA CallStep ==
  ASSUME VerTyped, VerNext(TRUE)
  PROVE  /\ calls' \in [Callers -> CallState]
         /\ \A c \in Callers :
              calls'[c].op \in Indexed => calls'[c].i \in DOMAIN verification'[calls'[c].account]
<1> DEFINE Well(r) == /\ r \in CallState
                      /\ r.op \in Indexed => r.i \in DOMAIN verification'[r.account]
           Fine == calls' \in [Callers -> CallState] /\ \A c \in Callers : Well(calls'[c])
<1>0. ASSUME NEW c \in Callers  PROVE Well(calls[c])
  BY CallFacts, VerificationStep
<1>1. ASSUME UNCHANGED calls  PROVE Fine
  BY <1>0, <1>1 DEF VerTyped
<1>2. ASSUME NEW c \in Callers, NEW r, Well(r), Continue(c, r)  PROVE Fine
  BY <1>0, <1>2 DEF Continue, VerTyped
<1>3. Well(Idle)
  BY DEF Idle, CallState, Indexed
<1>4. ASSUME NEW r \in Asking  PROVE Well(r)
  BY DEF Asking, CallState, Indexed
<1>5. ASSUME NEW r \in Charging \cup Deciding \cup Missing, r.i \in DOMAIN verification[r.account],
             r.account \in Accounts
      PROVE  Well(r)
  BY <1>5, VerificationStep DEF CallState
<1> HIDE DEF Well, Fine
<1>6. ASSUME NEW c \in Callers,
             \/ AddPaypalAccount(c) \/ NoteCharge(c) \/ Expire(c) \/ Miss(c) \/ Prove(c)
             \/ CallDies(c)
      PROVE  Fine
  BY <1>2, <1>3, <1>6 DEF AddPaypalAccount, NoteCharge, Expire, Miss, Prove, CallDies
<1>7. ASSUME NEW c \in Callers, NEW m \in Accounts, AskPaypalAccount(c, m) \/ AskStart(c, m, TRUE)
      PROVE  Fine
  <2>1. PICK op \in {"add paypal", "start"} : Continue(c, [op |-> op, account |-> m])
    BY <1>7 DEF AskPaypalAccount, AskStart
  <2>2. [op |-> op, account |-> m] \in Asking
    BY DEF Asking
  <2> QED  BY <1>2, <1>4, <2>1, <2>2
<1>8. ASSUME NEW c \in Callers, OpenVerification(c)  PROVE Fine
  <2> DEFINE m == calls[c].account
             n == Len(verification[m]) + 1
  <2>1. m \in Accounts
    BY <1>8, OpenWrites
  <2>2. CASE Continue(c, Idle)
    BY <1>2, <1>3, <2>2
  <2>3. CASE /\ ~\E i \in DOMAIN verification[m] : Open(verification[m][i])
             /\ m \in PayPal /\ Continue(c, [op |-> "charge", account |-> m, i |-> n])
    <3>1. Opens(m)
      BY <1>8, <2>3 DEF OpenVerification, Opens
    <3>2. n \in DOMAIN verification'[m] /\ n \in Nat
      BY <2>1, <3>1, RowOpened
    <3>3. [op |-> "charge", account |-> m, i |-> n] \in Charging
      BY <2>3, <3>2 DEF Charging
    <3>4. Well([op |-> "charge", account |-> m, i |-> n])
      BY <3>2, <3>3 DEF Well, CallState
    <3> QED  BY <1>2, <2>3, <3>4
  <2>4. \/ Continue(c, Idle)
        \/ /\ ~\E i \in DOMAIN verification[m] : Open(verification[m][i])
           /\ m \in PayPal /\ Continue(c, [op |-> "charge", account |-> m, i |-> n])
    BY <1>8 DEF OpenVerification
  <2> QED  BY <2>2, <2>3, <2>4
<1>9. ASSUME NEW c \in Callers, Charge(c)  PROVE Fine
  <2>1. PICK to \in {"SENT", "FAILED"} : Continue(c, Note(calls[c], to))
    BY <1>9 DEF Charge
  <2>2. /\ calls[c] \in Charging /\ calls[c].account \in Accounts
        /\ calls[c].i \in DOMAIN verification[calls[c].account]
    BY <1>9, CallFacts DEF Charge, Indexed
  <2>3. Note(calls[c], to) \in Charging
    BY <2>2 DEF Note, Charging
  <2>4. Note(calls[c], to).i = calls[c].i /\ Note(calls[c], to).account = calls[c].account
    BY DEF Note
  <2> QED  BY <1>2, <1>5, <2>1, <2>2, <2>3, <2>4
<1>10. ASSUME NEW c \in Callers, NEW m \in Accounts, NEW code, AskConfirm(c, m, code)
       PROVE  Fine
  <2>1. /\ Decision(m, code) \in Deciding \cup Missing
        /\ Decision(m, code).i \in DOMAIN verification[m] /\ Decision(m, code).account = m
    <3>1. Len(verification[m]) \in DOMAIN verification[m] /\ Len(verification[m]) \in Nat
      BY <1>10, RowFacts DEF AskConfirm
    <3>2. verification[m][Len(verification[m])] \in Row
      BY <3>1, RowFacts
    <3> QED  BY <3>1, <3>2 DEF Decision, Deciding, Missing, Row
  <2> QED  BY <1>2, <1>5, <1>10, <2>1 DEF AskConfirm
<1>11. ASSUME NEW c \in Callers, Verify(c)  PROVE Fine
  <2>1. calls[c].account \in Accounts
    BY <1>11, CallFacts DEF Verify, Indexed
  <2>2. [op |-> "prove", account |-> calls[c].account] \in Asking
    BY <2>1 DEF Asking
  <2> QED  BY <1>2, <1>4, <1>11, <2>2 DEF Verify
<1>12. ASSUME \/ \E m \in Accounts : \/ AddBankAccount(m)
                                     \/ \E i \in DOMAIN verification[m] :
                                          \/ DeadlinePasses(m, i)
                                          \/ \E p \in Panels : AskSent(p, m, i)
              \/ \E p \in Panels : MarkSent(p)
       PROVE  Fine
  BY <1>1, <1>12 DEF AddBankAccount, DeadlinePasses, AskSent, MarkSent
<1>13. Fine
  BY <1>6, <1>7, <1>8, <1>9, <1>10, <1>11, <1>12 DEF VerNext
<1> QED  BY <1>13 DEF Fine, Well

LEMMA MarkStep ==
  ASSUME VerTyped, VerNext(TRUE)
  PROVE  /\ marks' \in [Panels -> MarkState]
         /\ \A p \in Panels :
              marks'[p] # Idle => marks'[p].i \in DOMAIN verification'[marks'[p].account]
<1> DEFINE Well(r) == /\ r \in MarkState
                      /\ r # Idle => r.i \in DOMAIN verification'[r.account]
           Fine == marks' \in [Panels -> MarkState] /\ \A p \in Panels : Well(marks'[p])
<1>0. ASSUME NEW p \in Panels  PROVE Well(marks[p])
  <2>1. CASE marks[p] = Idle
    BY <2>1 DEF MarkState
  <2>2. CASE marks[p] # Idle
    BY <2>2, MarkFacts, VerificationStep DEF MarkState
  <2> QED  BY <2>1, <2>2
<1>1. ASSUME UNCHANGED marks  PROVE Fine
  BY <1>0, <1>1 DEF VerTyped
<1>2. ASSUME NEW p \in Panels, NEW r, Well(r), marks' = [marks EXCEPT ![p] = r]  PROVE Fine
  BY <1>0, <1>2 DEF VerTyped
<1>3. Well(Idle)
  BY DEF MarkState
<1>4. ASSUME NEW p \in Panels, MarkSent(p)  PROVE Fine
  <2> HIDE DEF Well, Fine
  <2> QED  BY <1>2, <1>3, <1>4 DEF MarkSent
<1>5. ASSUME NEW m \in Accounts, NEW i \in DOMAIN verification[m], NEW p \in Panels, AskSent(p, m, i)
      PROVE  Fine
  <2>1. i \in DOMAIN verification'[m] /\ i \in Nat
    BY <1>5, VerificationStep, RowFacts
  <2>2. Well([op |-> "sent", account |-> m, i |-> i])
    BY <2>1 DEF MarkState
  <2> HIDE DEF Well, Fine
  <2> QED  BY <1>2, <1>5, <2>2 DEF AskSent
<1>6. ASSUME NEW c \in Callers,
             \/ AddPaypalAccount(c) \/ OpenVerification(c) \/ Charge(c) \/ NoteCharge(c)
             \/ Expire(c) \/ Miss(c) \/ Verify(c) \/ Prove(c) \/ CallDies(c)
      PROVE  Fine
  BY <1>1, <1>6 DEF AddPaypalAccount, OpenVerification, Charge, NoteCharge, Expire, Miss, Verify,
     Prove, CallDies
<1>7. ASSUME \E m \in Accounts :
               \/ AddBankAccount(m)
               \/ \E i \in DOMAIN verification[m] : DeadlinePasses(m, i)
               \/ \E c \in Callers :
                    \/ AskPaypalAccount(c, m) \/ AskStart(c, m, TRUE)
                    \/ \E code \in {0} \cup moved[m] : AskConfirm(c, m, code)
      PROVE  Fine
  BY <1>1, <1>7 DEF AddBankAccount, DeadlinePasses, AskPaypalAccount, AskStart, AskConfirm
<1> HIDE DEF Fine
<1>8. Fine
  BY <1>4, <1>5, <1>6, <1>7 DEF VerNext
<1> QED  BY <1>8 DEF Fine

LEMMA HistoryStep ==
  ASSUME VerTyped, VerNext(TRUE)
  PROVE  /\ moved' \in [Accounts -> SUBSET Nat]
         /\ \A m \in Accounts : moved'[m] \subseteq DOMAIN verification'[m]
         /\ misses' \in [Accounts -> [1..MaxVerifications -> Nat]]
         /\ account' \in [Accounts -> [registered : BOOLEAN, verified : BOOLEAN]]
<1>1. /\ moved \in [Accounts -> SUBSET Nat] /\ misses \in [Accounts -> [1..MaxVerifications -> Nat]]
      /\ account \in [Accounts -> [registered : BOOLEAN, verified : BOOLEAN]]
      /\ \A m \in Accounts : moved[m] \subseteq DOMAIN verification'[m]
  BY VerificationStep DEF VerTyped
<1>2. ASSUME NEW m \in Accounts, NEW i \in DOMAIN verification[m],
             moved' = [moved EXCEPT ![m] = @ \cup {i}]
      PROVE  /\ moved' \in [Accounts -> SUBSET Nat]
             /\ \A a \in Accounts : moved'[a] \subseteq DOMAIN verification'[a]
  <2>1. i \in DOMAIN verification'[m] /\ i \in Nat
    BY VerificationStep, RowFacts
  <2> QED  BY <1>1, <1>2, <2>1
<1>3. ASSUME NEW c \in Callers, Charge(c)
      PROVE  /\ moved' \in [Accounts -> SUBSET Nat] /\ UNCHANGED <<misses, account>>
             /\ \A a \in Accounts : moved'[a] \subseteq DOMAIN verification'[a]
  <2>1. calls[c].account \in Accounts /\ calls[c].i \in DOMAIN verification[calls[c].account]
    BY <1>3, CallFacts DEF Charge, Indexed
  <2> QED  BY <1>1, <1>2, <1>3, <2>1 DEF Charge
<1>4. ASSUME NEW m \in Accounts, NEW i \in DOMAIN verification[m], NEW p \in Panels, AskSent(p, m, i)
      PROVE  /\ moved' \in [Accounts -> SUBSET Nat] /\ UNCHANGED <<misses, account>>
             /\ \A a \in Accounts : moved'[a] \subseteq DOMAIN verification'[a]
  BY <1>2, <1>4 DEF AskSent
<1>5. ASSUME NEW c \in Callers, Miss(c)
      PROVE  misses' \in [Accounts -> [1..MaxVerifications -> Nat]] /\ UNCHANGED <<moved, account>>
  <2>1. calls[c].account \in Accounts /\ calls[c].i \in DOMAIN verification[calls[c].account]
    BY <1>5, CallFacts DEF Miss, Indexed
  <2>2. calls[c].i \in 1..MaxVerifications
    BY <2>1, RowFacts
  <2> DEFINE counts == misses[calls[c].account]
             q == [counts EXCEPT ![calls[c].i] = @ + 1]
  <2>3. counts \in [1..MaxVerifications -> Nat]
    BY <1>1, <2>1
  <2>4. misses' = [misses EXCEPT ![calls[c].account] = q]
    BY <1>5 DEF Miss
  <2>5. UNCHANGED <<moved, account>>
    BY <1>5 DEF Miss
  <2> HIDE DEF counts
  <2>6. q \in [1..MaxVerifications -> Nat]
    BY <2>2, <2>3
  <2> HIDE DEF q
  <2> QED  BY <1>1, <2>1, <2>4, <2>5, <2>6
<1>6. ASSUME NEW m \in Accounts,
             \/ account' = [account EXCEPT ![m].registered = TRUE]
             \/ account' = [account EXCEPT ![m].verified = TRUE]
      PROVE  account' \in [Accounts -> [registered : BOOLEAN, verified : BOOLEAN]]
  BY <1>1, <1>6
<1>7. ASSUME NEW c \in Callers, AddPaypalAccount(c) \/ Prove(c)
      PROVE  /\ account' \in [Accounts -> [registered : BOOLEAN, verified : BOOLEAN]]
             /\ UNCHANGED <<moved, misses>>
  <2>1. calls[c].op \in {"add paypal", "prove"}
    BY <1>7 DEF AddPaypalAccount, Prove
  <2>0. calls[c] # Idle
    <3>1. Idle.op = "idle"
      BY DEF Idle
    <3> QED  BY <2>1, <3>1
  <2>2. calls[c].account \in Accounts
    BY <2>0, CallFacts
  <2> QED  BY <1>6, <1>7, <2>2 DEF AddPaypalAccount, Prove
<1>8. ASSUME NEW m \in Accounts, AddBankAccount(m)
      PROVE  /\ account' \in [Accounts -> [registered : BOOLEAN, verified : BOOLEAN]]
             /\ UNCHANGED <<moved, misses>>
  BY <1>6, <1>8 DEF AddBankAccount
<1>9. ASSUME \/ \E c \in Callers : \/ OpenVerification(c) \/ NoteCharge(c) \/ Expire(c)
                                   \/ Verify(c) \/ CallDies(c)
             \/ \E p \in Panels : MarkSent(p)
             \/ \E m \in Accounts :
                  \/ \E i \in DOMAIN verification[m] : DeadlinePasses(m, i)
                  \/ \E c \in Callers :
                       \/ AskPaypalAccount(c, m) \/ AskStart(c, m, TRUE)
                       \/ \E code \in {0} \cup moved[m] : AskConfirm(c, m, code)
      PROVE  UNCHANGED <<moved, misses, account>>
  BY <1>9 DEF OpenVerification, NoteCharge, Expire, Verify, CallDies, MarkSent, DeadlinePasses,
     AskPaypalAccount, AskStart, AskConfirm
<1>10. \/ UNCHANGED moved
       \/ /\ moved' \in [Accounts -> SUBSET Nat]
          /\ \A a \in Accounts : moved'[a] \subseteq DOMAIN verification'[a]
  BY <1>3, <1>4, <1>5, <1>7, <1>8, <1>9 DEF VerNext
<1>11. UNCHANGED misses \/ misses' \in [Accounts -> [1..MaxVerifications -> Nat]]
  BY <1>3, <1>4, <1>5, <1>7, <1>8, <1>9 DEF VerNext
<1>12. \/ UNCHANGED account
       \/ account' \in [Accounts -> [registered : BOOLEAN, verified : BOOLEAN]]
  BY <1>3, <1>4, <1>5, <1>7, <1>8, <1>9 DEF VerNext
<1> QED  BY <1>1, <1>10, <1>11, <1>12

LEMMA VerTypedStep == ASSUME VerTyped, VerNext(TRUE)  PROVE VerTyped'
BY VerificationStep, CallStep, MarkStep, HistoryStep DEF VerTyped

LEMMA VerTypedStutter == ASSUME VerTyped, UNCHANGED verVars  PROVE VerTyped'
BY DEF VerTyped, verVars

LEMMA VerTypedInit == VerInit => VerTyped
<1> SUFFICES ASSUME VerInit PROVE VerTyped
  OBVIOUS
<1>1. verification \in [Accounts -> Seq(Row)] /\ \A m \in Accounts : verification[m] = <<>>
  BY DEF VerInit
<1>2. calls \in [Callers -> CallState] /\ \A c \in Callers : calls[c].op \notin Indexed
  BY DEF VerInit, CallState, Idle, Indexed
<1>3. marks \in [Panels -> MarkState] /\ \A p \in Panels : marks[p] = Idle
  BY DEF VerInit, MarkState
<1>4. /\ account \in [Accounts -> [registered : BOOLEAN, verified : BOOLEAN]]
      /\ moved \in [Accounts -> SUBSET Nat] /\ \A m \in Accounts : moved[m] = {}
      /\ misses \in [Accounts -> [1..MaxVerifications -> Nat]]
  BY DEF VerInit, NoAccount
<1>5. \A m \in Accounts : Len(verification[m]) <= MaxVerifications
  BY <1>1, VerConstants
<1> QED  BY <1>1, <1>2, <1>3, <1>4, <1>5 DEF VerTyped

LEMMA VerTypes == VerTyped => VerTypeOK
<1> SUFFICES ASSUME VerTyped PROVE VerTypeOK
  OBVIOUS
<1>1. \A m \in Accounts : verification[m] \in Seq(Row) /\ moved[m] \subseteq 1..Len(verification[m])
  BY RowFacts DEF VerTyped
<1>2. \A c \in Callers : calls[c] = Idle \/ calls[c].account \in Accounts
  BY CallFacts
<1>3. \A p \in Panels : marks[p] = Idle \/ marks[p].account \in Accounts
  BY MarkFacts
<1> QED  BY <1>1, <1>2, <1>3 DEF VerTyped, VerTypeOK, Row

(* Whatever requests of sellers and of the panel overlap, verifications    *)
(* keep their types, and only those that exist have sent money.            *)
THEOREM VerificationTypes == VerSpec => []VerTypeOK
<1>1. VerTyped /\ [VerNext(TRUE)]_verVars => VerTyped'
  BY VerTypedStep, VerTypedStutter
<1> QED  BY <1>1, VerTypedInit, VerTypes, PTL DEF VerSpec

-----------------------------------------------------------------------------
(* One verification of a CLABE at a time: what is being confirmed was      *)
(* sent, what the panel is sending is still waiting for it.                *)
Clabes == Accounts \ PayPal

ConfirmsSent ==
  \A c \in Callers :
    calls[c].op \in Confirming /\ calls[c].account \in Clabes =>
      verification[calls[c].account][calls[c].i].status # "PENDING"

MarksPending ==
  \A p \in Panels :
    marks[p] # Idle /\ marks[p].account \in Clabes =>
      verification[marks[p].account][marks[p].i].status = "PENDING"

OneOpen ==
  \A m \in Clabes : \A i, j \in DOMAIN verification[m] :
    Open(verification[m][i]) /\ Open(verification[m][j]) => i = j

OneSound == VerTyped /\ ConfirmsSent /\ MarksPending /\ OneOpen

(* What becomes of the status of a verification of a CLABE.                *)
Stays(m, i) == verification'[m][i].status = verification[m][i].status

Closes(m, i) ==
  /\ verification[m][i].status # "PENDING"
  /\ \E c \in Callers :
       /\ calls[c].account = m /\ calls[c].i = i
       /\ \/ Expire(c) /\ verification'[m][i].status = "EXPIRED"
          \/ Verify(c) /\ verification'[m][i].status = "VERIFIED"
          \/ Miss(c) /\ verification'[m][i].status = "BLOCKED"

Sends(m, i) ==
  /\ verification[m][i].status = "PENDING"
  /\ verification'[m][i].status = "SENT"
  /\ \E p \in Panels : MarkSent(p) /\ marks[p].account = m /\ marks[p].i = i

LEMMA StatusStep ==
  ASSUME OneSound, VerNext(TRUE), NEW m \in Clabes, NEW i \in DOMAIN verification[m]
  PROVE  Stays(m, i) \/ Closes(m, i) \/ Sends(m, i)
<1> DEFINE Fine == Stays(m, i) \/ Closes(m, i) \/ Sends(m, i)
<1>0. VerTyped /\ m \in Accounts /\ verification[m][i] \in Row
  BY RowFacts DEF OneSound, Clabes
<1>1. ASSUME UNCHANGED verification  PROVE Fine
  BY <1>1 DEF Stays
<1>2. ASSUME NEW a \in Accounts, NEW j \in DOMAIN verification[a], NEW row, row \in Row,
             Writes(a, j, row), a = m /\ j = i => row.status = verification[m][i].status
      PROVE  Fine
  <2>1. CASE a = m /\ j = i
    BY <1>0, <1>2, <2>1, RowWritten DEF Stays
  <2>2. CASE a # m \/ j # i
    BY <1>0, <1>2, <2>2, RowWritten DEF Stays
  <2> QED  BY <2>1, <2>2
<1>3. ASSUME NEW c \in Callers, OpenVerification(c)  PROVE Fine
  <2>1. CASE Opens(calls[c].account)
    BY <1>0, <1>3, <2>1, OpenWrites, RowOpened DEF Stays
  <2> QED  BY <1>0, <1>1, <1>3, <2>1, OpenWrites
<1> HIDE DEF Fine
<1>4. ASSUME NEW c \in Callers, NoteCharge(c)  PROVE Fine
  <2>1. calls[c].account \in PayPal /\ calls[c].account \in Accounts
        /\ calls[c].i \in DOMAIN verification[calls[c].account]
    BY <1>0, <1>4, CallFacts DEF NoteCharge, Indexed, Charging
  <2>2. calls[c].account # m
    BY <2>1 DEF Clabes
  <2> QED  BY <1>0, <1>2, <1>4, <2>1, <2>2, NoteWrites
<1>5. ASSUME NEW c \in Callers, Expire(c) \/ Verify(c) \/ Miss(c)  PROVE Fine
  <2>1. calls[c].op \in Confirming /\ calls[c].op \in Indexed
    BY <1>5 DEF Expire, Verify, Miss, Confirming, Indexed
  <2>2. calls[c].account \in Accounts /\ calls[c].i \in DOMAIN verification[calls[c].account]
    BY <1>0, <2>1, CallFacts
  <2>3. calls[c].account = m /\ calls[c].i = i => verification[m][i].status # "PENDING"
    BY <2>1 DEF OneSound, ConfirmsSent
  <2>4. verification[calls[c].account][calls[c].i] \in Row
    BY <1>0, <2>2, RowFacts
  <2>5. /\ Expired(c).status = "EXPIRED" /\ Verified(c).status = "VERIFIED"
        /\ Missed(c).status \in {verification[calls[c].account][calls[c].i].status, "BLOCKED"}
    BY <2>4 DEF Expired, Verified, Missed, Row
  <2>6. ASSUME NEW row, row \in Row, Writes(calls[c].account, calls[c].i, row),
               calls[c].account = m /\ calls[c].i = i /\ verification'[m][i] = row => Fine
        PROVE  Fine
    BY <1>0, <1>2, <2>2, <2>6, RowWritten
  <2>7. CASE Expire(c)
    BY <1>0, <2>3, <2>5, <2>6, <2>7, ExpireWrites DEF Fine, Closes
  <2>8. CASE Verify(c)
    BY <1>0, <2>3, <2>5, <2>6, <2>8, VerifyWrites DEF Fine, Closes
  <2>9. CASE Miss(c)
    BY <1>0, <2>3, <2>5, <2>6, <2>9, MissWrites DEF Fine, Closes, Stays
  <2> QED  BY <1>5, <2>7, <2>8, <2>9
<1>6. ASSUME NEW p \in Panels, MarkSent(p)  PROVE Fine
  <2>1. /\ marks[p].account \in Accounts /\ marks[p].i \in DOMAIN verification[marks[p].account]
        /\ Writes(marks[p].account, marks[p].i, Marked(p)) /\ Marked(p) \in Row
    BY <1>0, <1>6, MarkWrites
  <2>2. CASE marks[p].account = m /\ marks[p].i = i
    <3>1. marks[p] # Idle
      BY <1>6, MarkUnderWay
    <3>2. verification[m][i].status = "PENDING"
      BY <2>2, <3>1 DEF OneSound, MarksPending
    <3>3. Marked(p).status = "SENT"
      BY <1>0, <2>2 DEF Marked, Row
    <3>4. verification'[m][i] = Marked(p)
      BY <1>0, <2>1, <2>2, RowWritten
    <3> QED  BY <1>6, <2>2, <3>2, <3>3, <3>4 DEF Fine, Sends
  <2> QED  BY <1>2, <2>1, <2>2
<1>7. ASSUME NEW a \in Accounts, NEW j \in DOMAIN verification[a], DeadlinePasses(a, j)  PROVE Fine
  <2>1. Late(a, j).status = verification[a][j].status
    BY <1>0, RowFacts DEF Late, Row
  <2> QED  BY <1>0, <1>2, <1>7, <2>1, DeadlineWrites
<1>8. ASSUME \/ \E c \in Callers :
                  AddPaypalAccount(c) \/ Charge(c) \/ Prove(c) \/ CallDies(c)
             \/ \E a \in Accounts :
                  \/ AddBankAccount(a)
                  \/ \E j \in DOMAIN verification[a], p \in Panels : AskSent(p, a, j)
                  \/ \E c \in Callers :
                       \/ AskPaypalAccount(c, a) \/ AskStart(c, a, TRUE)
                       \/ \E code \in {0} \cup moved[a] : AskConfirm(c, a, code)
      PROVE  Fine
  BY <1>1, <1>8 DEF AddPaypalAccount, Charge, Prove, CallDies, AddBankAccount, AskSent,
     AskPaypalAccount, AskStart, AskConfirm
<1>9. Fine
  BY <1>3, <1>4, <1>5, <1>6, <1>7, <1>8 DEF VerNext
<1> QED  BY <1>9 DEF Fine

LEMMA NewConfirmations ==
  ASSUME VerTyped, VerNext(TRUE), NEW c \in Callers, calls'[c].op \in Confirming
  PROVE  \/ calls'[c] = calls[c]
         \/ \E m \in Accounts : \E code \in {0} \cup moved[m] : AskConfirm(c, m, code)
<1> DEFINE Fine == \/ calls'[c] = calls[c]
                   \/ \E m \in Accounts : \E code \in {0} \cup moved[m] : AskConfirm(c, m, code)
<1>1. ASSUME UNCHANGED calls  PROVE Fine
  BY <1>1
<1>2. ASSUME NEW d \in Callers, NEW r, r.op \notin Confirming, Continue(d, r)  PROVE Fine
  <2>1. c # d
    BY <1>2 DEF Continue, VerTyped
  <2> QED  BY <1>2, <2>1 DEF Continue, VerTyped
<1> HIDE DEF Fine
<1>3. Idle.op \notin Confirming
  BY DEF Idle, Confirming
<1>4. ASSUME NEW d \in Callers,
             \/ AddPaypalAccount(d) \/ NoteCharge(d) \/ Expire(d) \/ Miss(d) \/ Prove(d)
             \/ CallDies(d)
      PROVE  Fine
  BY <1>2, <1>3, <1>4 DEF AddPaypalAccount, NoteCharge, Expire, Miss, Prove, CallDies
<1>5. ASSUME NEW d \in Callers, NEW m \in Accounts, AskPaypalAccount(d, m) \/ AskStart(d, m, TRUE)
      PROVE  Fine
  <2>1. PICK op \in {"add paypal", "start"} : Continue(d, [op |-> op, account |-> m])
    BY <1>5 DEF AskPaypalAccount, AskStart
  <2> QED  BY <1>2, <2>1 DEF Confirming
<1>6. ASSUME NEW d \in Callers, OpenVerification(d)  PROVE Fine
  <2>1. PICK r : Continue(d, r) /\ (r = Idle \/ r.op = "charge")
    BY <1>6 DEF OpenVerification
  <2>2. r.op \notin Confirming
    BY <1>3, <2>1 DEF Confirming
  <2> QED  BY <1>2, <2>1, <2>2
<1>7. ASSUME NEW d \in Callers, Charge(d)  PROVE Fine
  <2>1. PICK to \in {"SENT", "FAILED"} : Continue(d, Note(calls[d], to))
    BY <1>7 DEF Charge
  <2>2. Note(calls[d], to).op \notin Confirming
    BY DEF Note, Confirming
  <2> QED  BY <1>2, <2>1, <2>2
<1>8. ASSUME NEW d \in Callers, Verify(d)  PROVE Fine
  <2>1. [op |-> "prove", account |-> calls[d].account].op \notin Confirming
    BY DEF Confirming
  <2> QED  BY <1>2, <1>8, <2>1 DEF Verify
<1>9. ASSUME NEW d \in Callers, NEW m \in Accounts, NEW code \in {0} \cup moved[m],
             AskConfirm(d, m, code)
      PROVE  Fine
  <2>1. CASE c = d
    BY <1>9, <2>1 DEF Fine
  <2>2. CASE c # d
    BY <1>9, <2>2 DEF Fine, AskConfirm, Continue, VerTyped
  <2> QED  BY <2>1, <2>2
<1>10. ASSUME \/ \E m \in Accounts : \/ AddBankAccount(m)
                                     \/ \E i \in DOMAIN verification[m] :
                                          \/ DeadlinePasses(m, i)
                                          \/ \E p \in Panels : AskSent(p, m, i)
              \/ \E p \in Panels : MarkSent(p)
       PROVE  Fine
  BY <1>1, <1>10 DEF AddBankAccount, DeadlinePasses, AskSent, MarkSent
<1>11. Fine
  BY <1>4, <1>5, <1>6, <1>7, <1>8, <1>9, <1>10 DEF VerNext
<1> QED  BY <1>11 DEF Fine

LEMMA NewMarks ==
  ASSUME VerTyped, VerNext(TRUE), NEW p \in Panels, marks'[p] # Idle
  PROVE  \/ marks'[p] = marks[p] /\ ~MarkSent(p)
         \/ \E m \in Accounts : \E i \in DOMAIN verification[m] :
              AskSent(p, m, i) /\ marks'[p] = [op |-> "sent", account |-> m, i |-> i]
<1> DEFINE Fine ==
             \/ marks'[p] = marks[p] /\ ~MarkSent(p)
             \/ \E m \in Accounts : \E i \in DOMAIN verification[m] :
                  AskSent(p, m, i) /\ marks'[p] = [op |-> "sent", account |-> m, i |-> i]
<1>0. ~MarkSent(p)
  <2>1. MarkSent(p) => marks'[p] = Idle
    BY DEF MarkSent, VerTyped
  <2> QED  BY <2>1
<1>1. ASSUME UNCHANGED marks  PROVE Fine
  BY <1>0, <1>1
<1>2. ASSUME NEW q \in Panels, NEW r, marks' = [marks EXCEPT ![q] = r], q # p  PROVE Fine
  BY <1>0, <1>2 DEF VerTyped
<1>3. ASSUME NEW q \in Panels, MarkSent(q)  PROVE Fine
  <2> HIDE DEF Fine
  <2> QED  BY <1>0, <1>2, <1>3 DEF MarkSent
<1>4. ASSUME NEW q \in Panels, NEW m \in Accounts, NEW i \in DOMAIN verification[m], AskSent(q, m, i)
      PROVE  Fine
  <2>1. CASE q = p
    BY <1>4, <2>1 DEF AskSent, VerTyped
  <2>2. CASE q # p
    <3> HIDE DEF Fine
    <3> QED  BY <1>2, <1>4, <2>2 DEF AskSent
  <2> QED  BY <2>1, <2>2
<1>5. ASSUME NEW c \in Callers,
             \/ AddPaypalAccount(c) \/ OpenVerification(c) \/ Charge(c) \/ NoteCharge(c)
             \/ Expire(c) \/ Miss(c) \/ Verify(c) \/ Prove(c) \/ CallDies(c)
      PROVE  Fine
  BY <1>1, <1>5 DEF AddPaypalAccount, OpenVerification, Charge, NoteCharge, Expire, Miss, Verify,
     Prove, CallDies
<1>6. ASSUME \E m \in Accounts :
               \/ AddBankAccount(m)
               \/ \E i \in DOMAIN verification[m] : DeadlinePasses(m, i)
               \/ \E c \in Callers :
                    \/ AskPaypalAccount(c, m) \/ AskStart(c, m, TRUE)
                    \/ \E code \in {0} \cup moved[m] : AskConfirm(c, m, code)
      PROVE  Fine
  BY <1>1, <1>6 DEF AddBankAccount, DeadlinePasses, AskPaypalAccount, AskStart, AskConfirm
<1> HIDE DEF Fine
<1>7. Fine
  BY <1>3, <1>4, <1>5, <1>6 DEF VerNext
<1> QED  BY <1>7 DEF Fine

(* What a confirmation read, and what it is about.                         *)
LEMMA Confirmed ==
  ASSUME VerTyped, NEW c \in Callers, NEW m \in Accounts, NEW code, AskConfirm(c, m, code)
  PROVE  /\ calls'[c] = Decision(m, code) /\ UNCHANGED <<verification, misses, marks>>
         /\ calls'[c].account = m /\ calls'[c].i = Len(verification[m])
         /\ Len(verification[m]) \in DOMAIN verification[m]
         /\ verification[m][Len(verification[m])].status \notin {"PENDING", "BLOCKED"}
         /\ calls'[c].op = "miss" =>
              calls'[c].attempts = verification[m][Len(verification[m])].attempts + 1
<1>1. calls'[c] = Decision(m, code)
  BY DEF AskConfirm, Continue, VerTyped
<1>2. /\ Decision(m, code).account = m /\ Decision(m, code).i = Len(verification[m])
      /\ Decision(m, code).op = "miss" =>
           Decision(m, code).attempts = verification[m][Len(verification[m])].attempts + 1
  <2>1. Len(verification[m]) \in DOMAIN verification[m]
    BY RowFacts DEF AskConfirm
  <2>2. verification[m][Len(verification[m])] \in Row
    BY <2>1, RowFacts
  <2> QED  BY <2>2 DEF Decision, Row
<1>3. Len(verification[m]) \in DOMAIN verification[m]
  BY RowFacts DEF AskConfirm
<1> QED  BY <1>1, <1>2, <1>3 DEF AskConfirm

LEMMA OneSoundStep ==
  ASSUME OneSound, VerNext(TRUE), OneAtATime(Panels)
  PROVE  OneSound'
<1>0. VerTyped /\ VerTyped'
  BY VerTypedStep DEF OneSound
<1>1. ASSUME NEW c \in Callers, calls'[c].op \in Confirming, calls'[c].account \in Clabes
      PROVE  verification'[calls'[c].account][calls'[c].i].status # "PENDING"
  <2>1. CASE calls'[c] = calls[c]
    <3> DEFINE m == calls[c].account
               i == calls[c].i
    <3>1. m \in Clabes /\ i \in DOMAIN verification[m]
      BY <1>0, <1>1, <2>1, CallFacts DEF Confirming, Indexed
    <3>2. verification[m][i].status # "PENDING"
      BY <1>1, <2>1 DEF OneSound, ConfirmsSent
    <3> HIDE DEF m, i
    <3>3. verification'[m][i].status # "PENDING"
      BY <3>1, <3>2, StatusStep DEF Stays, Closes, Sends
    <3> QED  BY <2>1, <3>3 DEF m, i
  <2>2. ASSUME NEW m \in Accounts, NEW code \in {0} \cup moved[m], AskConfirm(c, m, code)
        PROVE  verification'[calls'[c].account][calls'[c].i].status # "PENDING"
    BY <1>0, <2>2, Confirmed
  <2> QED  BY <1>0, <1>1, <2>1, <2>2, NewConfirmations
<1>2. ASSUME NEW p \in Panels, marks'[p] # Idle, marks'[p].account \in Clabes
      PROVE  verification'[marks'[p].account][marks'[p].i].status = "PENDING"
  <2>1. CASE marks'[p] = marks[p] /\ ~MarkSent(p)
    <3> DEFINE m == marks[p].account
               i == marks[p].i
    <3>1. m \in Clabes /\ i \in DOMAIN verification[m] /\ verification[m][i].status = "PENDING"
      BY <1>0, <1>2, <2>1, MarkFacts DEF OneSound, MarksPending
    <3>2. ~Sends(m, i)
      BY <2>1 DEF Sends, OneAtATime
    <3> HIDE DEF m, i
    <3>3. verification'[m][i].status = "PENDING"
      BY <3>1, <3>2, StatusStep DEF Stays, Closes
    <3> QED  BY <2>1, <3>3 DEF m, i
  <2>2. ASSUME NEW m \in Accounts, NEW i \in DOMAIN verification[m], AskSent(p, m, i),
               marks'[p] = [op |-> "sent", account |-> m, i |-> i]
        PROVE  verification'[marks'[p].account][marks'[p].i].status = "PENDING"
    BY <2>2 DEF AskSent
  <2> QED  BY <1>0, <1>2, <2>1, <2>2, NewMarks
<1>3. ASSUME NEW m \in Clabes, NEW i \in DOMAIN verification'[m], NEW j \in DOMAIN verification'[m],
             Open(verification'[m][i]), Open(verification'[m][j])
      PROVE  i = j
  <2>0. m \in Accounts
    BY DEF Clabes
  <2>1. CASE Opens(m)
    <3>1. \A k \in DOMAIN verification[m] : ~Open(verification'[m][k])
      BY <1>0, <2>0, <2>1, RowOpened DEF Opens
    <3> QED  BY <1>0, <1>3, <2>0, <2>1, <3>1, RowOpened
  <2>2. CASE DOMAIN verification'[m] = DOMAIN verification[m]
    <3>1. \A k \in DOMAIN verification[m] :
            Open(verification'[m][k]) => Open(verification[m][k])
      BY StatusStep DEF Stays, Closes, Sends, Open
    <3> QED  BY <1>3, <2>2, <3>1 DEF OneSound, OneOpen
  <2> QED  BY <1>0, <2>0, <2>1, <2>2, VerificationStep
<1>4. ConfirmsSent' /\ MarksPending'
  BY <1>1, <1>2 DEF ConfirmsSent, MarksPending
<1>5. OneOpen'
  BY <1>3 DEF OneOpen, Open
<1> QED  BY <1>0, <1>4, <1>5 DEF OneSound

LEMMA OneSoundInit == VerInit => OneSound
<1> SUFFICES ASSUME VerInit PROVE OneSound
  OBVIOUS
<1>1. VerTyped
  BY VerTypedInit
<1>2. \A c \in Callers : calls[c].op \notin Confirming
  BY DEF VerInit, Idle, Confirming
<1>3. \A p \in Panels : marks[p] = Idle
  BY DEF VerInit
<1>4. \A m \in Accounts : DOMAIN verification[m] = {}
  <2>1. \A m \in Accounts : verification[m] = <<>>
    BY DEF VerInit
  <2> QED  BY <2>1
<1> QED  BY <1>1, <1>2, <1>3, <1>4 DEF OneSound, ConfirmsSent, MarksPending, OneOpen, Clabes

LEMMA AtMostOne == ASSUME NEW S, \A x, y \in S : x = y  PROVE Cardinality(S) <= 1
<1>1. CASE S = {}
  BY <1>1, FS_EmptySet
<1>2. ASSUME NEW x \in S  PROVE Cardinality(S) <= 1
  <2>1. S = {x}
    BY <1>2
  <2> QED  BY <2>1, FS_Singleton
<1> QED  BY <1>1, <1>2

(* PT-145: however the seller's requests overlap, at most one verification *)
(* of a CLABE is under way, as long as the panel marks one at a time.      *)
THEOREM OneVerification ==
  ASSUME OneAtATime(Panels)
  PROVE  VerSpec => []OneOpenVerification
<1>1. OneSound /\ [VerNext(TRUE)]_verVars => OneSound'
  <2>1. ASSUME OneSound, UNCHANGED verVars  PROVE OneSound'
    <3>1. VerTyped'
      BY <2>1, VerTypedStutter DEF OneSound
    <3> QED  BY <2>1, <3>1 DEF OneSound, ConfirmsSent, MarksPending, OneOpen, Open, verVars
  <2> QED  BY <2>1, OneSoundStep
<1>2. OneSound => OneOpenVerification
  <2>1. ASSUME OneSound, NEW m \in Clabes
        PROVE  Cardinality({i \in DOMAIN verification[m] : Open(verification[m][i])}) <= 1
    BY <2>1, AtMostOne DEF OneSound, OneOpen
  <2> QED  BY <2>1 DEF OneOpenVerification, Clabes
<1> QED  BY <1>1, <1>2, OneSoundInit, PTL DEF VerSpec

-----------------------------------------------------------------------------
(* The attempts that are noted are those that were made.                   *)
ConfirmsAllowed ==
  \A c \in Callers :
    calls[c].op \in Confirming /\ calls[c].account \in Clabes =>
      LET row == verification[calls[c].account][calls[c].i] IN
        /\ row.status # "BLOCKED"
        /\ calls[c].op = "miss" => calls[c].attempts = row.attempts + 1

AttemptsNoted ==
  \A m \in Clabes :
    /\ \A i \in DOMAIN verification[m] :
         /\ misses[m][i] = verification[m][i].attempts
         /\ misses[m][i] <= MaxAttempts
         /\ verification[m][i].status # "BLOCKED" => misses[m][i] < MaxAttempts
    /\ \A i \in (1..MaxVerifications) \ DOMAIN verification[m] : misses[m][i] = 0

CapSound == OneSound /\ ConfirmsAllowed /\ AttemptsNoted

(* How a step counts the attempts: all but Miss leave them alone.          *)
Misses(c, m, i) == Miss(c) /\ calls[c].account = m /\ calls[c].i = i

LEMMA AttemptsStep ==
  ASSUME VerTyped, VerNext(TRUE), NEW m \in Accounts, NEW i \in DOMAIN verification[m]
  PROVE  \/ /\ verification'[m][i].attempts = verification[m][i].attempts
            /\ misses'[m][i] = misses[m][i]
         \/ \E c \in Callers :
              /\ Misses(c, m, i)
              /\ verification'[m][i] = Missed(c)
              /\ misses'[m][i] = misses[m][i] + 1
<1> DEFINE Same == /\ verification'[m][i].attempts = verification[m][i].attempts
                   /\ misses'[m][i] = misses[m][i]
           Counted == \E c \in Callers : /\ Misses(c, m, i)
                                         /\ verification'[m][i] = Missed(c)
                                         /\ misses'[m][i] = misses[m][i] + 1
           Fine == Same \/ Counted
<1>1. ASSUME UNCHANGED <<verification, misses>>  PROVE Fine
  BY <1>1
<1>2. ASSUME NEW a \in Accounts, NEW j \in DOMAIN verification[a], NEW row, row \in Row,
             Writes(a, j, row), row.attempts = verification[a][j].attempts, UNCHANGED misses
      PROVE  Fine
  <2>1. verification'[m][i].attempts = verification[m][i].attempts
    BY <1>2, RowWritten
  <2> QED  BY <1>2, <2>1
<1>3. ASSUME NEW c \in Callers, OpenVerification(c)  PROVE Fine
  <2>1. UNCHANGED misses
    BY <1>3 DEF OpenVerification
  <2>2. verification'[m][i] = verification[m][i]
    BY <1>3, OpenWrites, RowOpened
  <2> QED  BY <2>1, <2>2
<1>4. ASSUME NEW c \in Callers, Miss(c)  PROVE Fine
  <2> DEFINE a == calls[c].account
             j == calls[c].i
  <2>1. a \in Accounts /\ j \in DOMAIN verification[a]
    BY <1>4, CallFacts DEF Miss, Indexed
  <2>2. Writes(a, j, Missed(c)) /\ Missed(c) \in Row
    BY <1>4, MissWrites
  <2>3. /\ misses[a] \in [1..MaxVerifications -> Nat] /\ j \in 1..MaxVerifications
        /\ misses[m] \in [1..MaxVerifications -> Nat]
    BY <2>1, RowFacts DEF VerTyped
  <2>4. misses' = [misses EXCEPT ![a] = [misses[a] EXCEPT ![j] = misses[a][j] + 1]]
    BY <1>4 DEF Miss
  <2> HIDE DEF a, j
  <2>5. CASE a = m /\ j = i
    <3>1. verification'[m][i] = Missed(c)
      BY <2>1, <2>2, <2>5, RowWritten
    <3>2. misses'[m][i] = misses[m][i] + 1
      BY <2>3, <2>4, <2>5 DEF VerTyped
    <3>3. Misses(c, m, i)
      BY <1>4, <2>5 DEF Misses, a, j
    <3> QED  BY <3>1, <3>2, <3>3
  <2>6. CASE a # m \/ j # i
    <3>1. verification'[m][i] = verification[m][i]
      BY <2>1, <2>2, <2>6, RowWritten
    <3>2. misses'[a] = [misses[a] EXCEPT ![j] = misses[a][j] + 1]
      BY <2>1, <2>4 DEF VerTyped
    <3>3. m # a => misses'[m] = misses[m]
      BY <2>1, <2>4 DEF VerTyped
    <3>4. i \in 1..MaxVerifications
      BY RowFacts
    <3>5. CASE a = m
      <4>1. [misses[m] EXCEPT ![j] = misses[m][j] + 1][i] = misses[m][i]
        BY <2>3, <2>6, <3>4, <3>5
      <4> QED  BY <3>1, <3>2, <3>5, <4>1
    <3>6. CASE a # m
      BY <3>1, <3>3, <3>6
    <3> QED  BY <3>5, <3>6
  <2> QED  BY <2>5, <2>6
<1> HIDE DEF Fine
<1>5. ASSUME NEW c \in Callers, NoteCharge(c) \/ Expire(c) \/ Verify(c)  PROVE Fine
  <2>1. calls[c].op \in Indexed /\ UNCHANGED misses
    BY <1>5 DEF NoteCharge, Expire, Verify, Indexed
  <2>2. calls[c].account \in Accounts /\ calls[c].i \in DOMAIN verification[calls[c].account]
    BY <2>1, CallFacts
  <2>3. verification[calls[c].account][calls[c].i] \in Row
    BY <2>2, RowFacts
  <2>4. /\ Noted(c).attempts = verification[calls[c].account][calls[c].i].attempts
        /\ Expired(c).attempts = verification[calls[c].account][calls[c].i].attempts
        /\ Verified(c).attempts = verification[calls[c].account][calls[c].i].attempts
    BY <2>3 DEF Noted, Expired, Verified, Row
  <2> QED  BY <1>2, <1>5, <2>1, <2>2, <2>4, NoteWrites, ExpireWrites, VerifyWrites
<1>6. ASSUME NEW p \in Panels, MarkSent(p)  PROVE Fine
  <2>1. /\ marks[p].account \in Accounts /\ marks[p].i \in DOMAIN verification[marks[p].account]
        /\ Writes(marks[p].account, marks[p].i, Marked(p)) /\ Marked(p) \in Row
    BY <1>6, MarkWrites
  <2>2. verification[marks[p].account][marks[p].i] \in Row
    BY <2>1, RowFacts
  <2>3. Marked(p).attempts = verification[marks[p].account][marks[p].i].attempts
    BY <2>2 DEF Marked, Row
  <2> QED  BY <1>2, <1>6, <2>1, <2>3 DEF MarkSent
<1>7. ASSUME NEW a \in Accounts, NEW j \in DOMAIN verification[a], DeadlinePasses(a, j)  PROVE Fine
  <2>1. Late(a, j).attempts = verification[a][j].attempts
    BY RowFacts DEF Late, Row
  <2> QED  BY <1>2, <1>7, <2>1, DeadlineWrites DEF DeadlinePasses
<1>8. ASSUME \/ \E c \in Callers :
                  AddPaypalAccount(c) \/ Charge(c) \/ Prove(c) \/ CallDies(c)
             \/ \E a \in Accounts :
                  \/ AddBankAccount(a)
                  \/ \E j \in DOMAIN verification[a], p \in Panels : AskSent(p, a, j)
                  \/ \E c \in Callers :
                       \/ AskPaypalAccount(c, a) \/ AskStart(c, a, TRUE)
                       \/ \E code \in {0} \cup moved[a] : AskConfirm(c, a, code)
      PROVE  Fine
  BY <1>1, <1>8 DEF AddPaypalAccount, Charge, Prove, CallDies, AddBankAccount, AskSent,
     AskPaypalAccount, AskStart, AskConfirm
<1>9. Fine
  BY <1>3, <1>4, <1>5, <1>6, <1>7, <1>8 DEF VerNext
<1> QED  BY <1>9 DEF Fine

(* A count that was 0 stays 0 where there is no verification.              *)
LEMMA NoMisses ==
  ASSUME VerTyped, VerNext(TRUE), NEW m \in Accounts,
         NEW i \in (1..MaxVerifications) \ DOMAIN verification[m]
  PROVE  misses'[m][i] = misses[m][i]
<1>1. ASSUME NEW c \in Callers, Miss(c)  PROVE misses'[m][i] = misses[m][i]
  <2> DEFINE a == calls[c].account
             j == calls[c].i
  <2>1. a \in Accounts /\ j \in DOMAIN verification[a]
    BY <1>1, CallFacts DEF Miss, Indexed
  <2>2. /\ misses[a] \in [1..MaxVerifications -> Nat] /\ j \in 1..MaxVerifications
        /\ misses[m] \in [1..MaxVerifications -> Nat]
    BY <2>1, RowFacts DEF VerTyped
  <2>3. misses' = [misses EXCEPT ![a] = [misses[a] EXCEPT ![j] = misses[a][j] + 1]]
    BY <1>1 DEF Miss
  <2>4. a # m \/ j # i
    BY <2>1
  <2> HIDE DEF a, j
  <2> QED  BY <2>2, <2>3, <2>4 DEF VerTyped
<1>2. ASSUME \/ \E c \in Callers :
                  \/ AddPaypalAccount(c) \/ OpenVerification(c) \/ Charge(c) \/ NoteCharge(c)
                  \/ Expire(c) \/ Verify(c) \/ Prove(c) \/ CallDies(c)
             \/ \E p \in Panels : MarkSent(p)
             \/ \E a \in Accounts :
                  \/ AddBankAccount(a)
                  \/ \E j \in DOMAIN verification[a] :
                       DeadlinePasses(a, j) \/ \E p \in Panels : AskSent(p, a, j)
                  \/ \E c \in Callers :
                       \/ AskPaypalAccount(c, a) \/ AskStart(c, a, TRUE)
                       \/ \E code \in {0} \cup moved[a] : AskConfirm(c, a, code)
      PROVE  UNCHANGED misses
  BY <1>2 DEF AddPaypalAccount, OpenVerification, Charge, NoteCharge, Expire, Verify, Prove,
     CallDies, MarkSent, AddBankAccount, DeadlinePasses, AskSent, AskPaypalAccount, AskStart,
     AskConfirm
<1> QED  BY <1>1, <1>2 DEF VerNext

LEMMA CapSoundStep ==
  ASSUME CapSound, VerNext(TRUE), OneAtATime(Panels), OneAtATime(Callers)
  PROVE  CapSound'
<1>0. VerTyped /\ VerTyped' /\ OneSound /\ OneSound'
  BY OneSoundStep DEF CapSound, OneSound
<1>1. ASSUME NEW c \in Callers, NEW m \in Clabes, NEW i \in DOMAIN verification[m], Misses(c, m, i)
      PROVE  /\ verification[m][i].status # "BLOCKED"
             /\ Missed(c).attempts = verification[m][i].attempts + 1
             /\ Missed(c).status # "BLOCKED" => Missed(c).attempts < MaxAttempts
  <2>1. /\ calls[c].op \in Confirming /\ calls[c].op = "miss"
        /\ calls[c].account = m /\ calls[c].i = i
    BY <1>1 DEF Misses, Miss, Confirming
  <2>2. verification[m][i].status # "BLOCKED" /\ calls[c].attempts = verification[m][i].attempts + 1
    BY <2>1 DEF CapSound, ConfirmsAllowed
  <2>3. verification[m][i] \in Row /\ m \in Accounts
    BY <1>0, RowFacts DEF Clabes
  <2>4. /\ Missed(c).attempts = calls[c].attempts
        /\ Blocks(calls[c].attempts) => Missed(c).status = "BLOCKED"
    BY <2>1, <2>3 DEF Missed, Row
  <2>5. Blocks(calls[c].attempts) \/ calls[c].attempts < MaxAttempts
    BY <2>2, <2>3, VerConstants DEF Blocks, Row
  <2> QED  BY <2>2, <2>4, <2>5
<1>2. ASSUME NEW c \in Callers, calls'[c].op \in Confirming, calls'[c].account \in Clabes
      PROVE  LET row == verification'[calls'[c].account][calls'[c].i] IN
               /\ row.status # "BLOCKED"
               /\ calls'[c].op = "miss" => calls'[c].attempts = row.attempts + 1
  <2>1. CASE calls'[c] = calls[c]
    <3>1. PICK m, i : m = calls[c].account /\ i = calls[c].i
      OBVIOUS
    <3>2. m \in Clabes /\ i \in DOMAIN verification[m] /\ m \in Accounts
      BY <1>0, <1>2, <2>1, <3>1, CallFacts DEF Confirming, Indexed
    <3>3. /\ verification[m][i].status # "BLOCKED"
          /\ calls[c].op = "miss" => calls[c].attempts = verification[m][i].attempts + 1
      BY <1>2, <2>1, <3>1 DEF CapSound, ConfirmsAllowed
    <3>4. ASSUME NEW d \in Callers, Expire(d) \/ Verify(d) \/ Miss(d)  PROVE FALSE
      <4>1. d = c
        BY DEF OneAtATime
      <4>2. PICK q : /\ calls' = [calls EXCEPT ![c] = q]
                     /\ q = Idle \/ q = [op |-> "prove", account |-> calls[c].account]
        BY <3>4, <4>1 DEF Expire, Verify, Miss, Continue
      <4>3. calls'[c] = q
        BY <1>0, <4>2 DEF VerTyped
      <4>4. q.op \in {"idle", "prove"}
        BY <4>2 DEF Idle
      <4> QED  BY <1>2, <4>3, <4>4 DEF Confirming
    <3>5. verification'[m][i].status # "BLOCKED"
      BY <3>2, <3>3, <3>4, <1>0, StatusStep DEF Stays, Closes, Sends
    <3>6. verification'[m][i].attempts = verification[m][i].attempts
      BY <3>2, <3>4, <1>0, AttemptsStep DEF Misses
    <3> QED  BY <2>1, <3>1, <3>3, <3>5, <3>6
  <2>2. ASSUME NEW m \in Accounts, NEW code \in {0} \cup moved[m], AskConfirm(c, m, code)
        PROVE  LET row == verification'[calls'[c].account][calls'[c].i] IN
                 /\ row.status # "BLOCKED"
                 /\ calls'[c].op = "miss" => calls'[c].attempts = row.attempts + 1
    BY <1>0, <2>2, Confirmed
  <2> QED  BY <1>0, <1>2, <2>1, <2>2, NewConfirmations
<1>3. ASSUME NEW m \in Clabes, NEW i \in DOMAIN verification[m]
      PROVE  /\ misses'[m][i] = verification'[m][i].attempts
             /\ misses'[m][i] <= MaxAttempts
             /\ verification'[m][i].status # "BLOCKED" => misses'[m][i] < MaxAttempts
  <2>1. /\ misses[m][i] = verification[m][i].attempts /\ misses[m][i] <= MaxAttempts
        /\ verification[m][i].status # "BLOCKED" => misses[m][i] < MaxAttempts
        /\ verification[m][i].attempts \in Nat /\ m \in Accounts
    <3>1. verification[m][i] \in Row /\ m \in Accounts
      BY <1>0, RowFacts DEF Clabes
    <3>2. verification[m][i].attempts \in Nat
      BY <3>1 DEF Row
    <3> QED  BY <3>1, <3>2 DEF CapSound, AttemptsNoted
  <2>2. CASE /\ verification'[m][i].attempts = verification[m][i].attempts
             /\ misses'[m][i] = misses[m][i]
    <3>1. ASSUME verification[m][i].status = "BLOCKED"
          PROVE  verification'[m][i].status = "BLOCKED"
      <4>1. ASSUME NEW c \in Callers, calls[c].account = m, calls[c].i = i
            PROVE  ~Expire(c) /\ ~Verify(c)
        BY <3>1, <4>1 DEF Expire, Verify, Confirming, CapSound, ConfirmsAllowed
      <4> QED  BY <1>0, <3>1, <4>1, StatusStep DEF Stays, Closes, Sends
    <3> QED  BY <2>1, <2>2, <3>1
  <2>3. ASSUME NEW c \in Callers, Misses(c, m, i), verification'[m][i] = Missed(c),
               misses'[m][i] = misses[m][i] + 1
        PROVE  /\ misses'[m][i] = verification'[m][i].attempts
               /\ misses'[m][i] <= MaxAttempts
               /\ verification'[m][i].status # "BLOCKED" => misses'[m][i] < MaxAttempts
    BY <1>1, <2>1, <2>3, VerConstants
  <2> QED  BY <1>0, <2>1, <2>2, <2>3, AttemptsStep
<1>4. ASSUME NEW m \in Clabes
      PROVE  /\ \A i \in DOMAIN verification'[m] :
                  /\ misses'[m][i] = verification'[m][i].attempts
                  /\ misses'[m][i] <= MaxAttempts
                  /\ verification'[m][i].status # "BLOCKED" => misses'[m][i] < MaxAttempts
             /\ \A i \in (1..MaxVerifications) \ DOMAIN verification'[m] : misses'[m][i] = 0
  <2>1. m \in Accounts
    BY DEF Clabes
  <2>2. \A i \in (1..MaxVerifications) \ DOMAIN verification[m] : misses'[m][i] = 0
    BY <1>0, <2>1, NoMisses DEF CapSound, AttemptsNoted
  <2>3. CASE DOMAIN verification'[m] = DOMAIN verification[m]
    BY <1>3, <2>2, <2>3
  <2>4. CASE Opens(m)
    <3>1. PICK n : n = Len(verification[m]) + 1
      OBVIOUS
    <3>2. /\ DOMAIN verification'[m] = DOMAIN verification[m] \cup {n}
          /\ n \in (1..MaxVerifications) \ DOMAIN verification[m]
          /\ verification'[m][n] = New
      BY <1>0, <2>1, <2>4, <3>1, RowOpened
    <3>3. misses'[m][n] = 0 /\ New.attempts = 0 /\ 0 < MaxAttempts
      BY <2>2, <3>2, VerConstants DEF New
    <3>4. /\ misses'[m][n] = verification'[m][n].attempts
          /\ misses'[m][n] <= MaxAttempts
          /\ verification'[m][n].status # "BLOCKED" => misses'[m][n] < MaxAttempts
      BY <3>2, <3>3, VerConstants
    <3> QED  BY <1>3, <2>2, <3>2, <3>4
  <2> QED  BY <1>0, <2>1, <2>3, <2>4, VerificationStep
<1>5. ConfirmsAllowed'
  BY <1>2 DEF ConfirmsAllowed
<1>6. AttemptsNoted'
  BY <1>4 DEF AttemptsNoted
<1> QED  BY <1>0, <1>5, <1>6 DEF CapSound

LEMMA CapSoundInit == VerInit => CapSound
<1> SUFFICES ASSUME VerInit PROVE CapSound
  OBVIOUS
<1>1. OneSound
  BY OneSoundInit
<1>2. \A c \in Callers : calls[c].op \notin Confirming
  BY DEF VerInit, Idle, Confirming
<1>3. \A m \in Accounts : DOMAIN verification[m] = {}
  <2>1. \A m \in Accounts : verification[m] = <<>>
    BY DEF VerInit
  <2> QED  BY <2>1
<1>4. \A m \in Accounts : \A i \in 1..MaxVerifications : misses[m][i] = 0
  BY DEF VerInit
<1> QED  BY <1>1, <1>2, <1>3, <1>4 DEF CapSound, ConfirmsAllowed, AttemptsNoted, Clabes

(* A verification of a CLABE is never answered wrongly more often than     *)
(* MAX_INTENTOS allows, however wrong codes alternate with deadlines, new  *)
(* verifications, deaths and the panel's marks, as long as the seller      *)
(* confirms and the panel marks one at a time: what they write was         *)
(* computed from what they read.                                           *)
THEOREM AttemptsCap ==
  ASSUME OneAtATime(Panels), OneAtATime(Callers)
  PROVE  VerSpec => []AttemptsCapped
<1>1. CapSound /\ [VerNext(TRUE)]_verVars => CapSound'
  <2>1. ASSUME CapSound, UNCHANGED verVars  PROVE CapSound'
    <3>1. VerTyped'
      BY <2>1, VerTypedStutter DEF CapSound, OneSound
    <3> QED  BY <2>1, <3>1 DEF CapSound, ConfirmsAllowed, AttemptsNoted,
                 OneSound, ConfirmsSent, MarksPending, OneOpen, Open, verVars
  <2> QED  BY <2>1, CapSoundStep
<1>2. CapSound => AttemptsCapped
  <2>1. ASSUME CapSound, NEW m \in Clabes, NEW i \in 1..MaxVerifications
        PROVE  misses[m][i] <= MaxAttempts
    BY <2>1, VerConstants DEF CapSound, AttemptsNoted
  <2> QED  BY <2>1 DEF AttemptsCapped, Clabes
<1> QED  BY <1>1, <1>2, CapSoundInit, PTL DEF VerSpec

-----------------------------------------------------------------------------
(* Withdrawals.  The verification of accounts goes on as it does alone.    *)
LEMMA StepsVerify == [Next]_vars => [VerNext(TRUE)]_verVars
<1>1. VerNext(balance >= Fee) => VerNext(TRUE)
  BY DEF VerNext, AskStart
<1>2. ASSUME PayNext  PROVE UNCHANGED verVars
  BY <1>2 DEF PayNext, Submit, Review, BalanceMoves, DayPasses, AskWithdrawal, CreateRequest,
     Reserve, SellerDies, ReadRequest, Approve, MarkPaid, WriteStatus, RefundWithdrawal, Reject,
     AdminDies, verVars
<1> QED  BY <1>1, <1>2 DEF Next, vars

(* A seller's accounts are verified the same way, whatever withdrawals do. *)
THEOREM VerificationUnaffected == Spec => VerSpec
<1>1. Init => VerInit
  BY DEF Init
<1> QED  BY <1>1, StepsVerify, PTL DEF Spec, VerSpec

WithdrawalRow == [status : WithdrawalStatuses \cup {"none"}, amount : Amounts \cup {0}]
Verdicts == {"PENDING", "APPROVED", "REJECTED", "CORRECTION_NEEDED"}

AskState ==
  {Idle} \cup [op : {"create"}, amount : Amounts] \cup [op : {"reserve"}, request : Requests]

DecideState ==
  {Idle} \cup [op : {"approve", "reject", "pay", "rejected"}, request : Requests]

(* A request that is reserved for, or decided about, exists.               *)
PayTyped ==
  /\ VerTyped
  /\ balance \in Nat /\ withdrawn \in Nat
  /\ kyc \in Seq(Verdicts)
  /\ withdrawal \in [Requests -> WithdrawalRow]
  /\ \A w \in Requests : withdrawal[w].status = "none" => withdrawal[w] = NoRequest
  /\ asking \in [Sellers -> AskState]
  /\ \A s \in Sellers :
       asking[s].op = "reserve" => withdrawal[asking[s].request].status # "none"
  /\ deciding \in [Admins -> DecideState]
  /\ \A d \in Admins : deciding[d] # Idle => withdrawal[deciding[d].request].status # "none"
  /\ deaths \in 0..MaxDeaths
  /\ paid \subseteq Requests /\ torn \subseteq Requests
  /\ returned \in [Requests -> Nat]

LEMMA PayConstants ==
  /\ \A x \in Amounts : x \in Nat /\ x > 0
  /\ DailyLimit \in Nat /\ MaxDeaths \in Nat /\ MaxBalance \in Nat
BY PayoutsAssumption

LEMMA AskFacts ==
  ASSUME PayTyped, NEW s \in Sellers
  PROVE  /\ asking[s] \in AskState
         /\ asking[s].op = "create" => asking[s].amount \in Amounts
         /\ asking[s].op = "reserve" =>
              /\ asking[s].request \in Requests
              /\ withdrawal[asking[s].request].status # "none"
              /\ withdrawal[asking[s].request].amount \in Nat
<1>1. asking[s] \in AskState
  BY DEF PayTyped
<1>2. asking[s].op = "create" => asking[s].amount \in Amounts
  BY <1>1 DEF AskState, Idle
<1>3. asking[s].op = "reserve" => asking[s].request \in Requests
  BY <1>1 DEF AskState, Idle
<1>4. \A w \in Requests : withdrawal[w].amount \in Nat
  BY PayConstants DEF PayTyped, WithdrawalRow
<1> QED  BY <1>1, <1>2, <1>3, <1>4 DEF PayTyped

LEMMA DecideFacts ==
  ASSUME PayTyped, NEW d \in Admins, deciding[d].op # "idle"
  PROVE  /\ deciding[d] \in [op : {"approve", "reject", "pay", "rejected"}, request : Requests]
         /\ deciding[d].request \in Requests
         /\ withdrawal[deciding[d].request] \in WithdrawalRow
         /\ withdrawal[deciding[d].request].amount \in Nat
         /\ withdrawal[deciding[d].request].status # "none"
<1>1. deciding[d] # Idle
  BY DEF Idle
<1>2. deciding[d] \in [op : {"approve", "reject", "pay", "rejected"}, request : Requests]
  BY <1>1 DEF PayTyped, DecideState
<1>3. \A w \in Requests : withdrawal[w] \in WithdrawalRow /\ withdrawal[w].amount \in Nat
  BY PayConstants DEF PayTyped, WithdrawalRow
<1> QED  BY <1>1, <1>2, <1>3 DEF PayTyped

(* The status that is written.                                             *)
LEMMA StatusWritten ==
  ASSUME PayTyped, NEW d \in Admins, deciding[d].op # "idle", NEW status \in WithdrawalStatuses,
         WriteStatus(d, status)
  PROVE  /\ withdrawal' \in [Requests -> WithdrawalRow]
         /\ \A w \in Requests : withdrawal'[w].amount = withdrawal[w].amount
         /\ withdrawal'[deciding[d].request].status = status
         /\ \A w \in Requests \ {deciding[d].request} : withdrawal'[w] = withdrawal[w]
         /\ deciding' = [deciding EXCEPT ![d] = Idle]
<1>1. withdrawal \in [Requests -> WithdrawalRow] /\ deciding[d].request \in Requests
  BY DecideFacts DEF PayTyped
<1>2. PICK w : w = deciding[d].request
  OBVIOUS
<1>3. withdrawal' = [withdrawal EXCEPT ![w] = [withdrawal[w] EXCEPT !.status = status]]
  BY <1>2 DEF WriteStatus
<1>4. [withdrawal[w] EXCEPT !.status = status] \in WithdrawalRow
  BY <1>1, <1>2 DEF WithdrawalRow
<1>5. /\ [withdrawal[w] EXCEPT !.status = status].amount = withdrawal[w].amount
      /\ [withdrawal[w] EXCEPT !.status = status].status = status
  BY <1>1, <1>2 DEF WithdrawalRow
<1> QED  BY <1>1, <1>2, <1>3, <1>4, <1>5 DEF WriteStatus, Decide

(* The three writes of the panel.                                          *)
Verdict(d) == \/ Approve(d) \/ MarkPaid(d) \/ Reject(d)

LEMMA VerdictFacts ==
  ASSUME PayTyped, NEW d \in Admins, Verdict(d)
  PROVE  /\ deciding[d].op \in {"approve", "pay", "rejected"}
         /\ \E status \in {"APPROVED", "PAID", "REJECTED"} :
              /\ WriteStatus(d, status)
              /\ status = "APPROVED" <=> deciding[d].op = "approve"
              /\ status = "PAID" <=> deciding[d].op = "pay"
              /\ status = "REJECTED" <=> deciding[d].op = "rejected"
BY DEF Verdict, Approve, MarkPaid, Reject

(* The steps that leave the table of withdrawals alone.                    *)
LEMMA Others ==
  ASSUME [Next]_vars
  PROVE  \/ UNCHANGED withdrawal
         \/ \E s \in Sellers, w \in Requests : CreateRequest(s, w)
         \/ \E d \in Admins : Verdict(d)
<1>1. ASSUME \/ Submit \/ DayPasses
             \/ \E i \in DOMAIN kyc, v \in {"APPROVED", "REJECTED", "CORRECTION_NEEDED"} :
                  Review(i, v)
             \/ \E to \in 0..MaxBalance : BalanceMoves(to)
             \/ \E s \in Sellers :
                  \/ \E amount \in Amounts, m \in Accounts : AskWithdrawal(s, amount, m)
                  \/ Reserve(s) \/ SellerDies(s)
             \/ \E d \in Admins :
                  \/ \E w \in Requests, v \in {"approve", "reject", "pay"} : ReadRequest(d, w, v)
                  \/ RefundWithdrawal(d) \/ AdminDies(d)
      PROVE  UNCHANGED withdrawal
  BY <1>1 DEF Submit, DayPasses, Review, BalanceMoves, AskWithdrawal, Reserve, SellerDies,
     ReadRequest, RefundWithdrawal, AdminDies
<1>2. ASSUME UNCHANGED payVars \/ UNCHANGED vars  PROVE UNCHANGED withdrawal
  BY <1>2 DEF vars, payVars
<1> QED  BY <1>1, <1>2 DEF Next, PayNext, Verdict

LEMMA WithdrawalStep ==
  ASSUME PayTyped, [Next]_vars
  PROVE  /\ withdrawal' \in [Requests -> WithdrawalRow]
         /\ \A w \in Requests : withdrawal'[w].status = "none" => withdrawal'[w] = NoRequest
         /\ \A w \in Requests : withdrawal[w].status # "none" =>
              withdrawal'[w].status # "none" /\ withdrawal'[w].amount = withdrawal[w].amount
<1> DEFINE Fine ==
             /\ withdrawal' \in [Requests -> WithdrawalRow]
             /\ \A w \in Requests : withdrawal'[w].status = "none" => withdrawal'[w] = NoRequest
             /\ \A w \in Requests : withdrawal[w].status # "none" =>
                  withdrawal'[w].status # "none" /\ withdrawal'[w].amount = withdrawal[w].amount
<1>0. /\ withdrawal \in [Requests -> WithdrawalRow]
      /\ \A w \in Requests : withdrawal[w].status = "none" => withdrawal[w] = NoRequest
  BY DEF PayTyped
<1>1. ASSUME UNCHANGED withdrawal  PROVE Fine
  BY <1>0, <1>1
<1>2. ASSUME NEW s \in Sellers, NEW w \in Requests, CreateRequest(s, w)  PROVE Fine
  <2> DEFINE row == [status |-> "REQUESTED", amount |-> asking[s].amount]
  <2>1. asking[s].amount \in Amounts /\ withdrawal[w].status = "none"
    BY <1>2, AskFacts DEF CreateRequest, NoRequest
  <2>2. row \in WithdrawalRow /\ row.status # "none"
    BY <2>1 DEF WithdrawalRow, WithdrawalStatuses
  <2>3. withdrawal' = [withdrawal EXCEPT ![w] = row]
    BY <1>2 DEF CreateRequest
  <2> HIDE DEF row
  <2> QED  BY <1>0, <2>1, <2>2, <2>3
<1>3. ASSUME NEW d \in Admins, Verdict(d)  PROVE Fine
  <2>1. PICK status \in {"APPROVED", "PAID", "REJECTED"} : WriteStatus(d, status)
    BY <1>3, VerdictFacts
  <2>2. deciding[d].op # "idle" /\ status \in WithdrawalStatuses /\ status # "none"
    BY <1>3, VerdictFacts DEF WithdrawalStatuses
  <2> QED  BY <1>0, <2>1, <2>2, StatusWritten
<1> HIDE DEF Fine
<1>4. Fine
  BY <1>1, <1>2, <1>3, Others
<1> QED  BY <1>4 DEF Fine

(* A withdrawal that is being asked for.                                   *)
AskWell(r) ==
  /\ r \in AskState
  /\ r.op = "reserve" => withdrawal'[r.request].status # "none"

LEMMA AskStep ==
  ASSUME PayTyped, [Next]_vars
  PROVE  asking' \in [Sellers -> AskState] /\ \A s \in Sellers : AskWell(asking'[s])
<1> DEFINE Fine == asking' \in [Sellers -> AskState] /\ \A s \in Sellers : AskWell(asking'[s])
<1>0. asking \in [Sellers -> AskState] /\ \A s \in Sellers : AskWell(asking[s])
  BY AskFacts, WithdrawalStep DEF PayTyped, AskWell
<1>1. ASSUME UNCHANGED asking  PROVE Fine
  BY <1>0, <1>1
<1>2. ASSUME NEW s \in Sellers, NEW r, r \in AskState, AskWell(r), Ask(s, r)  PROVE Fine
  BY <1>0, <1>2 DEF Ask
<1>3. Idle \in AskState /\ AskWell(Idle)
  BY DEF AskState, AskWell, Idle
<1> HIDE DEF Fine
<1>4. ASSUME NEW s \in Sellers, Reserve(s) \/ SellerDies(s)  PROVE Fine
  BY <1>2, <1>3, <1>4 DEF Reserve, SellerDies
<1>5. ASSUME NEW s \in Sellers, NEW amount \in Amounts, NEW m \in Accounts,
             AskWithdrawal(s, amount, m)
      PROVE  Fine
  <2>1. [op |-> "create", amount |-> amount] \in AskState
        /\ AskWell([op |-> "create", amount |-> amount])
    BY DEF AskState, AskWell
  <2> QED  BY <1>2, <1>5, <2>1 DEF AskWithdrawal
<1>6. ASSUME NEW s \in Sellers, NEW w \in Requests, CreateRequest(s, w)  PROVE Fine
  <2>1. withdrawal'[w].status = "REQUESTED"
    BY <1>6 DEF CreateRequest, PayTyped
  <2>2. [op |-> "reserve", request |-> w] \in AskState
        /\ AskWell([op |-> "reserve", request |-> w])
    BY <2>1 DEF AskState, AskWell
  <2> QED  BY <1>2, <1>6, <2>2 DEF CreateRequest
<1>7. ASSUME \/ Submit \/ DayPasses
             \/ \E i \in DOMAIN kyc, v \in {"APPROVED", "REJECTED", "CORRECTION_NEEDED"} :
                  Review(i, v)
             \/ \E to \in 0..MaxBalance : BalanceMoves(to)
             \/ \E d \in Admins :
                  \/ \E w \in Requests, v \in {"approve", "reject", "pay"} : ReadRequest(d, w, v)
                  \/ Approve(d) \/ MarkPaid(d) \/ RefundWithdrawal(d) \/ Reject(d) \/ AdminDies(d)
             \/ UNCHANGED payVars \/ UNCHANGED vars
      PROVE  Fine
  BY <1>1, <1>7 DEF Submit, DayPasses, Review, BalanceMoves, ReadRequest, Approve, MarkPaid,
     WriteStatus, RefundWithdrawal, Reject, AdminDies, vars, payVars
<1>8. Fine
  BY <1>4, <1>5, <1>6, <1>7 DEF Next, PayNext
<1> QED  BY <1>8 DEF Fine

(* A decision that is being made.                                          *)
DecideWell(r) ==
  /\ r \in DecideState
  /\ r # Idle => withdrawal'[r.request].status # "none"

LEMMA DecideStep ==
  ASSUME PayTyped, [Next]_vars
  PROVE  deciding' \in [Admins -> DecideState] /\ \A d \in Admins : DecideWell(deciding'[d])
<1> DEFINE Fine == deciding' \in [Admins -> DecideState]
                   /\ \A d \in Admins : DecideWell(deciding'[d])
<1>0. deciding \in [Admins -> DecideState] /\ \A d \in Admins : DecideWell(deciding[d])
  <2>1. ASSUME NEW d \in Admins  PROVE DecideWell(deciding[d])
    <3>1. CASE deciding[d] = Idle
      BY <3>1 DEF DecideWell, DecideState
    <3>2. CASE deciding[d] # Idle
      <4>1. deciding[d] \in [op : {"approve", "reject", "pay", "rejected"}, request : Requests]
        BY <3>2 DEF PayTyped, DecideState
      <4> QED  BY <3>2, <4>1, WithdrawalStep DEF PayTyped, DecideWell, DecideState
    <3> QED  BY <3>1, <3>2
  <2> QED  BY <2>1 DEF PayTyped
<1>1. ASSUME UNCHANGED deciding  PROVE Fine
  BY <1>0, <1>1
<1>2. ASSUME NEW d \in Admins, NEW r, r \in DecideState, DecideWell(r), Decide(d, r)  PROVE Fine
  BY <1>0, <1>2 DEF Decide
<1>3. Idle \in DecideState /\ DecideWell(Idle)
  BY DEF DecideState, DecideWell
<1>4. ASSUME NEW op \in {"approve", "reject", "pay", "rejected"}, NEW w \in Requests,
             withdrawal[w].status # "none"
      PROVE  [op |-> op, request |-> w] \in DecideState /\ DecideWell([op |-> op, request |-> w])
  BY <1>4, WithdrawalStep DEF DecideState, DecideWell
<1> HIDE DEF Fine
<1>5. ASSUME NEW d \in Admins, Approve(d) \/ MarkPaid(d) \/ Reject(d) \/ AdminDies(d)  PROVE Fine
  BY <1>2, <1>3, <1>5 DEF Approve, MarkPaid, Reject, AdminDies, WriteStatus
<1>6. ASSUME NEW d \in Admins, NEW w \in Requests, NEW v \in {"approve", "reject", "pay"},
             ReadRequest(d, w, v)
      PROVE  Fine
  <2>1. withdrawal[w].status # "none"
    BY <1>6 DEF ReadRequest, PayTyped
  <2>2. Decide(d, [op |-> v, request |-> w])
    BY <1>6 DEF ReadRequest
  <2> QED  BY <1>2, <1>4, <2>1, <2>2
<1>7. ASSUME NEW d \in Admins, RefundWithdrawal(d)  PROVE Fine
  <2>1. deciding[d].request \in Requests /\ withdrawal[deciding[d].request].status # "none"
    BY <1>7, DecideFacts DEF RefundWithdrawal
  <2>2. Decide(d, [op |-> "rejected", request |-> deciding[d].request])
    BY <1>7 DEF RefundWithdrawal
  <2> QED  BY <1>2, <1>4, <2>1, <2>2
<1>8. ASSUME \/ Submit \/ DayPasses
             \/ \E i \in DOMAIN kyc, v \in {"APPROVED", "REJECTED", "CORRECTION_NEEDED"} :
                  Review(i, v)
             \/ \E to \in 0..MaxBalance : BalanceMoves(to)
             \/ \E s \in Sellers :
                  \/ \E amount \in Amounts, m \in Accounts : AskWithdrawal(s, amount, m)
                  \/ \E w \in Requests : CreateRequest(s, w)
                  \/ Reserve(s) \/ SellerDies(s)
             \/ UNCHANGED payVars \/ UNCHANGED vars
      PROVE  Fine
  BY <1>1, <1>8 DEF Submit, DayPasses, Review, BalanceMoves, AskWithdrawal, CreateRequest,
     Reserve, SellerDies, vars, payVars
<1>9. Fine
  BY <1>5, <1>6, <1>7, <1>8 DEF Next, PayNext
<1> QED  BY <1>9 DEF Fine

LEMMA MoneyStep ==
  ASSUME PayTyped, [Next]_vars
  PROVE  balance' \in Nat /\ withdrawn' \in Nat /\ returned' \in [Requests -> Nat]
<1> DEFINE Fine == balance' \in Nat /\ withdrawn' \in Nat /\ returned' \in [Requests -> Nat]
<1>0. balance \in Nat /\ withdrawn \in Nat /\ returned \in [Requests -> Nat]
  BY DEF PayTyped
<1>1. ASSUME UNCHANGED <<balance, withdrawn, returned>>  PROVE Fine
  BY <1>0, <1>1
<1>2. ASSUME NEW s \in Sellers, Reserve(s)  PROVE Fine
  <2>1. withdrawal[asking[s].request].amount \in Nat
    BY <1>2, AskFacts DEF Reserve
  <2> QED  BY <1>0, <1>2, <2>1 DEF Reserve
<1>3. ASSUME NEW d \in Admins, RefundWithdrawal(d)  PROVE Fine
  <2>1. deciding[d].request \in Requests /\ withdrawal[deciding[d].request].amount \in Nat
    BY <1>3, DecideFacts DEF RefundWithdrawal
  <2>2. returned' = [returned EXCEPT ![deciding[d].request] = returned[deciding[d].request] + 1]
    BY <1>3 DEF RefundWithdrawal
  <2>3. returned' \in [Requests -> Nat]
    BY <1>0, <2>1, <2>2
  <2> QED  BY <1>0, <1>3, <2>1, <2>3 DEF RefundWithdrawal
<1>4. ASSUME NEW to \in 0..MaxBalance, BalanceMoves(to)  PROVE Fine
  BY <1>0, <1>4, PayConstants DEF BalanceMoves
<1>5. ASSUME DayPasses  PROVE Fine
  BY <1>0, <1>5 DEF DayPasses
<1>6. ASSUME \/ Submit
             \/ \E i \in DOMAIN kyc, v \in {"APPROVED", "REJECTED", "CORRECTION_NEEDED"} :
                  Review(i, v)
             \/ \E s \in Sellers :
                  \/ \E amount \in Amounts, m \in Accounts : AskWithdrawal(s, amount, m)
                  \/ \E w \in Requests : CreateRequest(s, w)
                  \/ SellerDies(s)
             \/ \E d \in Admins :
                  \/ \E w \in Requests, v \in {"approve", "reject", "pay"} : ReadRequest(d, w, v)
                  \/ Approve(d) \/ MarkPaid(d) \/ Reject(d) \/ AdminDies(d)
             \/ UNCHANGED payVars \/ UNCHANGED vars
      PROVE  Fine
  BY <1>1, <1>6 DEF Submit, Review, AskWithdrawal, CreateRequest, SellerDies, ReadRequest, Approve,
     MarkPaid, WriteStatus, Reject, AdminDies, vars, payVars
<1> HIDE DEF Fine
<1>7. Fine
  BY <1>2, <1>3, <1>4, <1>5, <1>6 DEF Next, PayNext
<1> QED  BY <1>7 DEF Fine

LEMMA RecordStep ==
  ASSUME PayTyped, [Next]_vars
  PROVE  /\ kyc' \in Seq(Verdicts) /\ deaths' \in 0..MaxDeaths
         /\ paid' \subseteq Requests /\ torn' \subseteq Requests
<1> DEFINE Fine == /\ kyc' \in Seq(Verdicts) /\ deaths' \in 0..MaxDeaths
                   /\ paid' \subseteq Requests /\ torn' \subseteq Requests
<1>0. /\ kyc \in Seq(Verdicts) /\ deaths \in 0..MaxDeaths
      /\ paid \subseteq Requests /\ torn \subseteq Requests
  BY DEF PayTyped
<1>1. ASSUME UNCHANGED <<kyc, deaths, paid, torn>>  PROVE Fine
  BY <1>0, <1>1
<1>2. ASSUME Submit  PROVE Fine
  <2>1. Append(kyc, "PENDING") \in Seq(Verdicts)
    BY <1>0 DEF Verdicts
  <2> QED  BY <1>0, <1>2, <2>1 DEF Submit
<1>3. ASSUME NEW i \in DOMAIN kyc, NEW v \in {"APPROVED", "REJECTED", "CORRECTION_NEEDED"},
             Review(i, v)
      PROVE  Fine
  <2>1. [kyc EXCEPT ![i] = v] \in Seq(Verdicts)
    BY <1>0 DEF Verdicts
  <2> QED  BY <1>0, <1>3, <2>1 DEF Review
<1>4. ASSUME deaths < MaxDeaths  PROVE deaths + 1 \in 0..MaxDeaths
  BY <1>0, <1>4, PayConstants
<1>5. ASSUME NEW s \in Sellers, SellerDies(s)  PROVE Fine
  BY <1>0, <1>4, <1>5 DEF SellerDies
<1>6. ASSUME NEW d \in Admins, AdminDies(d)  PROVE Fine
  <2>1. deciding[d].op = "rejected" => deciding[d].request \in Requests
    BY DecideFacts
  <2> QED  BY <1>0, <1>4, <1>6, <2>1 DEF AdminDies
<1>7. ASSUME NEW d \in Admins, Verdict(d)  PROVE Fine
  <2>1. deciding[d].request \in Requests
    BY <1>7, VerdictFacts, DecideFacts
  <2>2. paid' \subseteq paid \cup {deciding[d].request} /\ UNCHANGED <<kyc, deaths, torn>>
    BY <1>7 DEF Verdict, Approve, MarkPaid, Reject, WriteStatus
  <2> QED  BY <1>0, <2>1, <2>2
<1>8. ASSUME \/ DayPasses
             \/ \E to \in 0..MaxBalance : BalanceMoves(to)
             \/ \E s \in Sellers :
                  \/ \E amount \in Amounts, m \in Accounts : AskWithdrawal(s, amount, m)
                  \/ \E w \in Requests : CreateRequest(s, w)
                  \/ Reserve(s)
             \/ \E d \in Admins :
                  \/ \E w \in Requests, v \in {"approve", "reject", "pay"} : ReadRequest(d, w, v)
                  \/ RefundWithdrawal(d)
             \/ UNCHANGED payVars \/ UNCHANGED vars
      PROVE  Fine
  BY <1>1, <1>8 DEF DayPasses, BalanceMoves, AskWithdrawal, CreateRequest, Reserve, ReadRequest,
     RefundWithdrawal, vars, payVars
<1> HIDE DEF Fine
<1>9. Fine
  BY <1>2, <1>3, <1>5, <1>6, <1>7, <1>8 DEF Next, PayNext, Verdict
<1> QED  BY <1>9 DEF Fine

LEMMA PayTypedStep == ASSUME PayTyped, [Next]_vars  PROVE PayTyped'
<1>1. VerTyped'
  BY StepsVerify, VerTypedStep, VerTypedStutter DEF PayTyped
<1>2. /\ withdrawal' \in [Requests -> WithdrawalRow]
      /\ \A w \in Requests : withdrawal'[w].status = "none" => withdrawal'[w] = NoRequest
  BY WithdrawalStep
<1>3. /\ asking' \in [Sellers -> AskState]
      /\ \A s \in Sellers :
           asking'[s].op = "reserve" => withdrawal'[asking'[s].request].status # "none"
  BY AskStep DEF AskWell
<1>4. /\ deciding' \in [Admins -> DecideState]
      /\ \A d \in Admins : deciding'[d] # Idle => withdrawal'[deciding'[d].request].status # "none"
  BY DecideStep DEF DecideWell
<1> QED  BY <1>1, <1>2, <1>3, <1>4, MoneyStep, RecordStep DEF PayTyped

LEMMA PayTypedInit == Init => PayTyped
<1> SUFFICES ASSUME Init PROVE PayTyped
  OBVIOUS
<1>1. VerTyped
  BY VerTypedInit DEF Init
<1>2. /\ withdrawal \in [Requests -> WithdrawalRow]
      /\ \A w \in Requests : withdrawal[w] = NoRequest
  BY DEF Init, NoRequest, WithdrawalRow
<1>3. asking \in [Sellers -> AskState] /\ \A s \in Sellers : asking[s].op # "reserve"
  BY DEF Init, AskState, Idle
<1>4. deciding \in [Admins -> DecideState] /\ \A d \in Admins : deciding[d] = Idle
  BY DEF Init, DecideState
<1>5. balance \in Nat /\ withdrawn \in Nat /\ deaths \in 0..MaxDeaths
  BY PayConstants DEF Init
<1>6. kyc \in Seq(Verdicts) /\ paid \subseteq Requests /\ torn \subseteq Requests
      /\ returned \in [Requests -> Nat]
  BY DEF Init
<1> QED  BY <1>1, <1>2, <1>3, <1>4, <1>5, <1>6 DEF PayTyped

(* Whatever decisions of the panel and requests of the seller overlap and  *)
(* whoever dies, the balance never becomes negative, a decision is about a *)
(* request there is, and all rows keep their types.                        *)
THEOREM PayoutTypes == Spec => []TypeOK
<1>1. PayTyped => TypeOK
  <2> SUFFICES ASSUME PayTyped PROVE TypeOK
    OBVIOUS
  <2>1. VerTypeOK
    BY VerTypes DEF PayTyped
  <2>2. \A s \in Sellers : asking[s] = Idle \/ asking[s].op \in {"create", "reserve"}
    BY AskFacts DEF AskState
  <2>3. \A d \in Admins : deciding[d] = Idle \/ withdrawal[deciding[d].request] # NoRequest
    BY DEF PayTyped, NoRequest
  <2> QED  BY <2>1, <2>2, <2>3 DEF PayTyped, TypeOK, WithdrawalRow, Verdicts
<1> QED  BY <1>1, PayTypedInit, PayTypedStep, PTL DEF Spec

-----------------------------------------------------------------------------
(* The daily limit: with one request of the seller at a time, what was     *)
(* looked at is still so when the money is taken.                          *)
LimitKept ==
  /\ withdrawn <= DailyLimit
  /\ \A s \in Sellers :
       /\ asking[s].op = "create" => withdrawn + asking[s].amount <= DailyLimit
       /\ asking[s].op = "reserve" =>
            withdrawn + withdrawal[asking[s].request].amount <= DailyLimit

LEMMA LimitStep ==
  ASSUME PayTyped, LimitKept, OneAtATime(Sellers), [Next]_vars
  PROVE  LimitKept'
<1> DEFINE Fine ==
             /\ withdrawn' <= DailyLimit
             /\ \A s \in Sellers :
                  /\ asking'[s].op = "create" => withdrawn' + asking'[s].amount <= DailyLimit
                  /\ asking'[s].op = "reserve" =>
                       withdrawn' + withdrawal'[asking'[s].request].amount <= DailyLimit
<1>0. /\ withdrawn \in Nat /\ withdrawn <= DailyLimit /\ DailyLimit \in Nat
      /\ asking \in [Sellers -> AskState]
  BY PayConstants DEF PayTyped, LimitKept
<1>1. ASSUME NEW s \in Sellers
      PROVE  /\ asking[s].op = "create" =>
                  /\ asking[s].amount \in Nat
                  /\ withdrawn + asking[s].amount <= DailyLimit
             /\ asking[s].op = "reserve" =>
                  /\ withdrawal[asking[s].request].amount \in Nat
                  /\ withdrawn + withdrawal[asking[s].request].amount <= DailyLimit
                  /\ withdrawal'[asking[s].request].amount = withdrawal[asking[s].request].amount
  BY AskFacts, WithdrawalStep, PayConstants DEF LimitKept
<1>2. ASSUME UNCHANGED asking, withdrawn' \in {0, withdrawn}  PROVE Fine
  BY <1>0, <1>1, <1>2
<1>3. ASSUME NEW s \in Sellers, NEW r, Ask(s, r), r.op \notin {"create", "reserve"},
             withdrawn' <= DailyLimit
      PROVE  Fine
  <2>1. \A q \in Sellers : asking'[q] = r
    BY <1>0, <1>3 DEF Ask, OneAtATime
  <2> QED  BY <1>3, <2>1
<1>4. ASSUME NEW s \in Sellers, Reserve(s)  PROVE Fine
  <2>1. Ask(s, Idle) /\ Idle.op \notin {"create", "reserve"}
    BY <1>4 DEF Reserve, Idle
  <2>2. withdrawn' <= DailyLimit
    BY <1>0, <1>1, <1>4 DEF Reserve
  <2> HIDE DEF Fine
  <2> QED  BY <1>3, <2>1, <2>2
<1>5. ASSUME NEW s \in Sellers, SellerDies(s)  PROVE Fine
  <2>1. Ask(s, Idle) /\ Idle.op \notin {"create", "reserve"} /\ withdrawn' <= DailyLimit
    BY <1>0, <1>5 DEF SellerDies, Idle
  <2> HIDE DEF Fine
  <2> QED  BY <1>3, <2>1
<1>6. ASSUME NEW s \in Sellers, NEW amount \in Amounts, NEW m \in Accounts,
             AskWithdrawal(s, amount, m)
      PROVE  Fine
  <2>1. withdrawn + amount <= DailyLimit /\ withdrawn' = withdrawn
    BY <1>6 DEF AskWithdrawal, WithinLimit
  <2>2. \A q \in Sellers : asking'[q] = [op |-> "create", amount |-> amount]
    BY <1>0, <1>6 DEF AskWithdrawal, Ask, OneAtATime
  <2> QED  BY <1>0, <2>1, <2>2
<1>7. ASSUME NEW s \in Sellers, NEW w \in Requests, CreateRequest(s, w)  PROVE Fine
  <2>1. withdrawn + asking[s].amount <= DailyLimit /\ withdrawn' = withdrawn
    BY <1>1, <1>7 DEF CreateRequest
  <2>2. withdrawal'[w].amount = asking[s].amount
    BY <1>7 DEF CreateRequest, PayTyped
  <2>3. \A q \in Sellers : asking'[q] = [op |-> "reserve", request |-> w]
    BY <1>0, <1>7 DEF CreateRequest, Ask, OneAtATime
  <2> QED  BY <1>0, <2>1, <2>2, <2>3
<1>8. ASSUME \/ Submit \/ DayPasses
             \/ \E i \in DOMAIN kyc, v \in {"APPROVED", "REJECTED", "CORRECTION_NEEDED"} :
                  Review(i, v)
             \/ \E to \in 0..MaxBalance : BalanceMoves(to)
             \/ \E d \in Admins :
                  \/ \E w \in Requests, v \in {"approve", "reject", "pay"} : ReadRequest(d, w, v)
                  \/ Approve(d) \/ MarkPaid(d) \/ RefundWithdrawal(d) \/ Reject(d) \/ AdminDies(d)
             \/ UNCHANGED payVars \/ UNCHANGED vars
      PROVE  UNCHANGED asking /\ withdrawn' \in {0, withdrawn}
  BY <1>8 DEF Submit, DayPasses, Review, BalanceMoves, ReadRequest, Approve, MarkPaid,
     WriteStatus, RefundWithdrawal, Reject, AdminDies, vars, payVars
<1> HIDE DEF Fine
<1>9. Fine
  BY <1>2, <1>4, <1>5, <1>6, <1>7, <1>8 DEF Next, PayNext
<1> QED  BY <1>9 DEF Fine, LimitKept

(* No more than WITHDRAWAL_DAILY_LIMIT leaves in a day, although the money *)
(* is taken two steps after the limit was looked at and the panel decides  *)
(* meanwhile, as long as the seller asks for one withdrawal at a time.     *)
THEOREM DailyLimitSafety ==
  ASSUME OneAtATime(Sellers)
  PROVE  Spec => []WithinDailyLimit
<1> DEFINE Kept == PayTyped /\ LimitKept
<1>1. Init => Kept
  <2>1. ASSUME Init  PROVE LimitKept
    <3>1. withdrawn = 0 /\ \A s \in Sellers : asking[s].op = "idle"
      BY <2>1 DEF Init, Idle
    <3> QED  BY <3>1, PayConstants DEF LimitKept
  <2> QED  BY <2>1, PayTypedInit
<1>2. Kept /\ [Next]_vars => Kept'
  BY PayTypedStep, LimitStep
<1>3. Kept => WithinDailyLimit
  BY DEF LimitKept, WithinDailyLimit
<1> HIDE DEF Kept
<1> QED  BY <1>1, <1>2, <1>3, PTL DEF Spec

-----------------------------------------------------------------------------
(* A withdrawal ends once.                                                 *)
Rejected(w) ==
  \/ withdrawal[w].status = "REJECTED"
  \/ \E d \in Admins : deciding[d] = [op |-> "rejected", request |-> w]

(* The decision that was read may still be made.                           *)
MayStill(d) ==
  LET status == withdrawal[deciding[d].request].status
  IN  /\ deciding[d].op = "approve" => status = "REQUESTED"
      /\ deciding[d].op \in {"reject", "rejected"} => status \in {"REQUESTED", "APPROVED"}
      /\ deciding[d].op = "pay" => status = "APPROVED"

EndKept ==
  /\ \A d \in Admins : MayStill(d)
  /\ \A w \in Requests \ torn :
       /\ returned[w] = IF Rejected(w) THEN 1 ELSE 0
       /\ w \in paid => withdrawal[w].status = "PAID" /\ ~Rejected(w)

(* With one decision at a time, it alone tells what is being rejected.     *)
LEMMA RejectedByOne ==
  ASSUME OneAtATime(Admins), NEW d \in Admins, NEW w
  PROVE  Rejected(w) <=> \/ withdrawal[w].status = "REJECTED"
                         \/ deciding[d] = [op |-> "rejected", request |-> w]
BY DEF Rejected, OneAtATime

LEMMA RejectedNext ==
  ASSUME OneAtATime(Admins), NEW d \in Admins, NEW w
  PROVE  Rejected(w)' <=> \/ withdrawal'[w].status = "REJECTED"
                          \/ deciding'[d] = [op |-> "rejected", request |-> w]
BY DEF Rejected, OneAtATime

LEMMA EndStep ==
  ASSUME PayTyped, EndKept, OneAtATime(Admins), [Next]_vars
  PROVE  EndKept'
<1> DEFINE Ended(w) ==
             /\ returned'[w] = IF Rejected(w)' THEN 1 ELSE 0
             /\ w \in paid' => withdrawal'[w].status = "PAID" /\ ~Rejected(w)'
           Still(d) ==
             LET status == withdrawal'[deciding'[d].request].status
             IN  /\ deciding'[d].op = "approve" => status = "REQUESTED"
                 /\ deciding'[d].op \in {"reject", "rejected"} => status \in {"REQUESTED", "APPROVED"}
                 /\ deciding'[d].op = "pay" => status = "APPROVED"
           Fine == /\ \A d \in Admins : Still(d)
                   /\ \A w \in Requests \ torn' : Ended(w)
<1>0. /\ withdrawal \in [Requests -> WithdrawalRow] /\ deciding \in [Admins -> DecideState]
      /\ returned \in [Requests -> Nat]
  BY DEF PayTyped
<1>1. ASSUME UNCHANGED <<withdrawal, deciding, returned, paid, torn>>  PROVE Fine
  BY <1>1 DEF EndKept, MayStill, Rejected
<1>2. ASSUME NEW s \in Sellers, NEW w \in Requests, CreateRequest(s, w)  PROVE Fine
  <2>1. /\ withdrawal[w].status = "none" /\ withdrawal'[w].status = "REQUESTED"
        /\ \A x \in Requests \ {w} : withdrawal'[x] = withdrawal[x]
        /\ UNCHANGED <<deciding, returned, paid, torn>>
    BY <1>0, <1>2 DEF CreateRequest, NoRequest
  <2>2. \A d \in Admins : deciding[d].op # "idle" => deciding[d].request \in Requests \ {w}
    BY <2>1, DecideFacts
  <2>3. \A x \in Requests : Rejected(x)' <=> Rejected(x)
    BY <2>1, <2>2 DEF Rejected
  <2>4. ASSUME NEW d \in Admins  PROVE Still(d)
    BY <2>1, <2>2 DEF EndKept, MayStill
  <2>5. ASSUME NEW x \in Requests \ torn'  PROVE Ended(x)
    BY <2>1, <2>3 DEF EndKept
  <2> QED  BY <2>4, <2>5
<1>3. ASSUME NEW d \in Admins, NEW w \in Requests, NEW v \in {"approve", "reject", "pay"},
             ReadRequest(d, w, v)
      PROVE  Fine
  <2>1. /\ deciding[d].op = "idle" /\ deciding'[d] = [op |-> v, request |-> w]
        /\ MayDecide(v, withdrawal[w].status)
        /\ UNCHANGED <<withdrawal, returned, paid, torn>>
    BY <1>0, <1>3 DEF ReadRequest, Decide, Idle
  <2>2. ASSUME NEW x \in Requests  PROVE Rejected(x)' <=> Rejected(x)
    <3>1. /\ deciding[d] # [op |-> "rejected", request |-> x]
          /\ deciding'[d] # [op |-> "rejected", request |-> x]
      BY <2>1
    <3> QED  BY <2>1, <3>1, RejectedByOne, RejectedNext
  <2>3. \A e \in Admins : e = d
    BY DEF OneAtATime
  <2>4. Still(d)
    <3>1. deciding'[d].op = v /\ deciding'[d].request = w
      BY <2>1
    <3>2. /\ v = "approve" => withdrawal'[w].status = "REQUESTED"
          /\ v = "reject" => withdrawal'[w].status \in {"REQUESTED", "APPROVED"}
          /\ v = "pay" => withdrawal'[w].status = "APPROVED"
      BY <2>1 DEF MayDecide
    <3> QED  BY <3>1, <3>2
  <2>5. ASSUME NEW x \in Requests \ torn'  PROVE Ended(x)
    BY <2>1, <2>2 DEF EndKept
  <2> QED  BY <2>3, <2>4, <2>5
<1>4. ASSUME NEW d \in Admins, Verdict(d)  PROVE Fine
  <2>1. PICK w : w = deciding[d].request
    OBVIOUS
  <2>2. w \in Requests /\ deciding[d].op \in {"approve", "pay", "rejected"}
    BY <1>4, <2>1, VerdictFacts, DecideFacts
  <2>3. PICK status \in {"APPROVED", "PAID", "REJECTED"} :
          /\ WriteStatus(d, status)
          /\ status = "APPROVED" <=> deciding[d].op = "approve"
          /\ status = "PAID" <=> deciding[d].op = "pay"
          /\ status = "REJECTED" <=> deciding[d].op = "rejected"
    BY <1>4, VerdictFacts
  <2>4. /\ withdrawal'[w].status = status /\ deciding'[d].op = "idle"
        /\ \A x \in Requests \ {w} : withdrawal'[x] = withdrawal[x]
    BY <1>0, <2>1, <2>2, <2>3, StatusWritten DEF WithdrawalStatuses, Idle
  <2>5. /\ paid' = IF status = "PAID" THEN paid \cup {w} ELSE paid
        /\ UNCHANGED <<returned, torn>>
    BY <2>1, <2>3 DEF WriteStatus
  <2>6. /\ deciding[d].op = "rejected" <=> deciding[d] = [op |-> "rejected", request |-> w]
        /\ \A x \in Requests \ {w} : deciding[d] # [op |-> "rejected", request |-> x]
    <3>1. deciding[d] \in [op : {"approve", "reject", "pay", "rejected"}, request : Requests]
      BY <2>2, DecideFacts
    <3> QED  BY <2>1, <3>1
  <2>7. /\ deciding[d].op = "approve" => withdrawal[w].status = "REQUESTED"
        /\ deciding[d].op = "rejected" => withdrawal[w].status \in {"REQUESTED", "APPROVED"}
        /\ deciding[d].op = "pay" => withdrawal[w].status = "APPROVED"
    BY <2>1 DEF EndKept, MayStill
  <2>8. \A x \in Requests : Rejected(x)' <=> Rejected(x)
    <3>1. \A x \in Requests : deciding'[d] # [op |-> "rejected", request |-> x]
      BY <2>4
    <3>2. Rejected(w)' <=> Rejected(w)
      BY <2>2, <2>3, <2>4, <2>6, <2>7, <3>1, RejectedByOne, RejectedNext
    <3>3. ASSUME NEW x \in Requests \ {w}  PROVE Rejected(x)' <=> Rejected(x)
      <4>1. /\ withdrawal'[x] = withdrawal[x]
            /\ deciding[d] # [op |-> "rejected", request |-> x]
            /\ deciding'[d] # [op |-> "rejected", request |-> x]
        BY <2>4, <2>6, <3>1
      <4> QED  BY <4>1, RejectedByOne, RejectedNext
    <3> QED  BY <3>2, <3>3
  <2>9. ASSUME NEW x \in Requests \ torn'  PROVE Ended(x)
    <3>1. CASE x = w
      <4>1. returned'[w] = IF Rejected(w)' THEN 1 ELSE 0
        BY <2>5, <2>8, <2>9, <3>1 DEF EndKept
      <4>2. w \notin paid
        BY <2>2, <2>5, <2>7, <2>9, <3>1 DEF EndKept
      <4>3. status = "PAID" => ~Rejected(w)'
        <5>1. deciding'[d] # [op |-> "rejected", request |-> w]
          BY <2>4
        <5>2. status = "PAID" => withdrawal'[w].status # "REJECTED"
          BY <2>4
        <5> QED  BY <5>1, <5>2, RejectedNext
      <4> QED  BY <2>4, <2>5, <3>1, <4>1, <4>2, <4>3
    <3>2. CASE x # w
      BY <2>4, <2>5, <2>8, <2>9, <3>2 DEF EndKept
    <3> QED  BY <3>1, <3>2
  <2>10. \A e \in Admins : Still(e)
    BY <2>4 DEF OneAtATime
  <2> QED  BY <2>9, <2>10
<1>5. ASSUME NEW d \in Admins, RefundWithdrawal(d)  PROVE Fine
  <2>1. PICK w : w = deciding[d].request
    OBVIOUS
  <2>2. w \in Requests /\ deciding[d].op = "reject"
    BY <1>5, <2>1, DecideFacts DEF RefundWithdrawal
  <2>3. /\ deciding'[d] = [op |-> "rejected", request |-> w]
        /\ returned' = [returned EXCEPT ![w] = returned[w] + 1]
        /\ UNCHANGED <<withdrawal, paid, torn>>
    BY <1>0, <1>5, <2>1 DEF RefundWithdrawal, Decide
  <2>4. withdrawal[w].status \in {"REQUESTED", "APPROVED"}
    BY <2>1, <2>2 DEF EndKept, MayStill
  <2>5. ~Rejected(w) /\ Rejected(w)'
    BY <2>2, <2>3, <2>4, RejectedByOne, RejectedNext
  <2>6. ASSUME NEW x \in Requests \ {w}  PROVE Rejected(x)' <=> Rejected(x)
    <3>1. /\ deciding[d] # [op |-> "rejected", request |-> x]
          /\ deciding'[d] # [op |-> "rejected", request |-> x]
      BY <2>2, <2>3
    <3> QED  BY <2>3, <3>1, RejectedByOne, RejectedNext
  <2>7. ASSUME NEW x \in Requests \ torn'  PROVE Ended(x)
    <3>1. CASE x = w
      <4>1. returned[w] = 0 /\ w \notin paid
        BY <2>3, <2>4, <2>5, <2>7, <3>1 DEF EndKept
      <4>2. returned'[w] = 1
        BY <1>0, <2>2, <2>3, <4>1
      <4> QED  BY <2>3, <2>5, <3>1, <4>1, <4>2
    <3>2. CASE x # w
      <4>1. returned'[x] = returned[x]
        BY <1>0, <2>3, <3>2
      <4> QED  BY <2>3, <2>6, <2>7, <3>2, <4>1 DEF EndKept
    <3> QED  BY <3>1, <3>2
  <2>8. \A e \in Admins : Still(e)
    BY <2>3, <2>4 DEF OneAtATime
  <2> QED  BY <2>7, <2>8
<1>6. ASSUME NEW d \in Admins, AdminDies(d)  PROVE Fine
  <2>1. /\ deciding'[d].op = "idle" /\ UNCHANGED <<withdrawal, returned, paid>>
        /\ torn' = IF deciding[d].op = "rejected" THEN torn \cup {deciding[d].request} ELSE torn
    BY <1>0, <1>6 DEF AdminDies, Decide, Idle
  <2>2. ASSUME NEW x \in Requests \ torn'  PROVE Ended(x)
    <3>1. x \notin torn /\ deciding[d] # [op |-> "rejected", request |-> x]
      BY <2>1, <2>2
    <3>2. Rejected(x)' <=> Rejected(x)
      BY <2>1, <3>1, RejectedByOne, RejectedNext
    <3> QED  BY <2>1, <3>1, <3>2 DEF EndKept
  <2>3. \A e \in Admins : Still(e)
    BY <2>1 DEF OneAtATime
  <2> QED  BY <2>2, <2>3
<1>7. ASSUME \/ Submit \/ DayPasses
             \/ \E i \in DOMAIN kyc, v \in {"APPROVED", "REJECTED", "CORRECTION_NEEDED"} :
                  Review(i, v)
             \/ \E to \in 0..MaxBalance : BalanceMoves(to)
             \/ \E s \in Sellers :
                  \/ \E amount \in Amounts, m \in Accounts : AskWithdrawal(s, amount, m)
                  \/ Reserve(s) \/ SellerDies(s)
             \/ UNCHANGED payVars \/ UNCHANGED vars
      PROVE  UNCHANGED <<withdrawal, deciding, returned, paid, torn>>
  BY <1>7 DEF Submit, DayPasses, Review, BalanceMoves, AskWithdrawal, Reserve, SellerDies,
     vars, payVars
<1> HIDE DEF Fine
<1>8. Fine
  BY <1>1, <1>2, <1>3, <1>4, <1>5, <1>6, <1>7 DEF Next, PayNext, Verdict
<1> QED  BY <1>8 DEF Fine, EndKept, MayStill

(* The money of a withdrawal is given back once when it is rejected,       *)
(* and never when it is open or paid, except where a rejection died        *)
(* between the money and the status, as long as the panel decides one      *)
(* request at a time: approve, reject and markPaid write what they decided *)
(* from a row they read before.                                            *)
THEOREM WithdrawalEndsOnce ==
  ASSUME OneAtATime(Admins)
  PROVE  Spec => []EndsOnce
<1> DEFINE Kept == PayTyped /\ EndKept
<1>1. Init => Kept
  <2>1. ASSUME Init  PROVE EndKept
    <3>1. /\ \A d \in Admins : deciding[d].op = "idle"
          /\ \A w \in Requests : withdrawal[w].status = "none" /\ returned[w] = 0
          /\ paid = {}
      BY <2>1 DEF Init, Idle, NoRequest
    <3>2. \A w \in Requests : ~Rejected(w)
      BY <3>1 DEF Rejected
    <3> QED  BY <3>1, <3>2 DEF EndKept, MayStill
  <2> QED  BY <2>1, PayTypedInit
<1>2. Kept /\ [Next]_vars => Kept'
  BY PayTypedStep, EndStep
<1>3. Kept => EndsOnce
  BY DEF EndKept, EndsOnce, Rejected
<1> HIDE DEF Kept
<1> QED  BY <1>1, <1>2, <1>3, PTL DEF Spec
=============================================================================
