--------------------------- MODULE PaymentsProofs ---------------------------
(***************************************************************************)
(* Proofs about the payment cycle, for every set of deposits, of charges,  *)
(* of notifications that overlap and of pollers, and whatever fails.       *)
(***************************************************************************)
EXTENDS Payments, TLAPS

CycleRow == [status : CycleStatus, provider : Providers, canonical : Charges \cup {NoCharge},
             linked : BOOLEAN, noted : BOOLEAN]
Payment == [status : {"pending", "authorized", "approved", "rejected"},
            reference : References, amount : AmountKinds]

Opened(r) == cycle[r] # NoCycle
Used(c) == charge[c] # Unused

(* What handlers and reservations refer to exists: they are made of a row  *)
(* or of a charge that was read, and nothing is ever deleted.              *)
Known ==
  /\ \A c \in Charges : Used(c) => Opened(charge[c].reference)
  /\ \A h \in Handlers : handler[h].pc = "due" => Opened(handler[h].reference)
  /\ \A h \in Handlers : handler[h].pc \in Applying => Used(ChargeOf(h))
  /\ \A c \in processed : Used(c)

Well == TypeOK /\ Known

(* A cycle with a result, and a handler on its way to credit a charge or   *)
(* to open its cycle again.                                                *)
Closed(r) == cycle[r].status \in CycleStatus \ {"REQUESTED"}
Settling(h) ==
  handler[h].pc \in {"settle", "bookSettled", "reserve", "deposit", "unreserve", "reopen"}

LEMMA UsedIsPayment ==
  ASSUME Well, NEW c \in Charges, Used(c)
  PROVE  charge[c] \in Payment /\ charge[c].reference \in References
BY DEF Well, TypeOK, Used, Payment

LEMMA OpenedIsRow ==
  ASSUME Well, NEW r \in References, Opened(r)
  PROVE  cycle[r] \in CycleRow
BY DEF Well, TypeOK, Opened, CycleRow

LEMMA HandlerHasCharge ==
  ASSUME NEW s \in HandlerState, s.pc \in Applying
  PROVE  s \in Response /\ s.charge \in Charges
BY DEF HandlerState, Response, Idle, Applying

LEMMA HandlerHasReference ==
  ASSUME NEW s \in HandlerState, s.pc = "due"
  PROVE  s.reference \in References
BY DEF HandlerState, Response, Idle, Applying

(* What a handler that applies a response works on.                        *)
LEMMA WorkIsKnown ==
  ASSUME Well, NEW h \in Handlers, handler[h].pc \in Applying
  PROVE  /\ handler[h] \in Response
         /\ ChargeOf(h) \in Charges
         /\ Used(ChargeOf(h))
         /\ CycleOf(h) \in References
         /\ Opened(CycleOf(h))
         /\ cycle[CycleOf(h)] \in CycleRow
<1>1. handler[h] \in Response /\ ChargeOf(h) \in Charges
  BY HandlerHasCharge DEF Well, TypeOK, ChargeOf
<1>2. Used(ChargeOf(h))
  BY DEF Well, Known
<1>3. CycleOf(h) \in References
  BY <1>1, <1>2, UsedIsPayment DEF CycleOf
<1>4. Opened(CycleOf(h))
  BY <1>1, <1>2 DEF Well, Known, CycleOf
<1> QED
  BY <1>1, <1>2, <1>3, <1>4, OpenedIsRow

LEMMA DueIsKnown ==
  ASSUME Well, NEW h \in Handlers, handler[h].pc = "due"
  PROVE  /\ handler[h].reference \in References
         /\ cycle[handler[h].reference] \in CycleRow
<1>1. handler[h].reference \in References
  BY HandlerHasReference DEF Well, TypeOK
<1>2. Opened(handler[h].reference)
  BY DEF Well, Known
<1> QED
  BY <1>1, <1>2, OpenedIsRow

(* A handler that goes on keeps its charge; the others do not move.        *)
LEMMA GotoKeepsCharge ==
  ASSUME handler \in [Handlers -> HandlerState],
         NEW h \in Handlers, handler[h].pc \in Applying,
         NEW pc \in Applying, Goto(h, pc)
  PROVE  /\ handler' \in [Handlers -> HandlerState]
         /\ handler'[h].pc = pc
         /\ handler'[h].charge = handler[h].charge
         /\ \A g \in Handlers \ {h} : handler'[g] = handler[g]
<1>1. handler[h] \in Response
  BY HandlerHasCharge
<1>2. handler'[h] = [handler[h] EXCEPT !.pc = pc]
  BY DEF Goto
<1>3. handler'[h] \in Response /\ handler'[h].pc = pc /\ handler'[h].charge = handler[h].charge
  BY <1>1, <1>2 DEF Response
<1>4. \A g \in Handlers \ {h} : handler'[g] = handler[g]
  BY DEF Goto
<1>5. handler' = [g \in Handlers |-> handler'[g]]
  BY DEF Goto
<1>6. \A g \in Handlers : handler'[g] \in HandlerState
  BY <1>3, <1>4 DEF HandlerState
<1> QED
  BY <1>3, <1>4, <1>5, <1>6

LEMMA BranchType ==
  ASSUME NEW h \in Handlers
  PROVE  Branch(h) \in {"idle", "flag", "fail", "anomaly", "settle"}
BY DEF Branch

(* Only a cycle still waiting for its first response is settled.           *)
LEMMA SettleNeedsRequested ==
  ASSUME Well, NEW h \in Handlers, handler[h].pc = "evaluate", Branch(h) = "settle"
  PROVE  cycle[CycleOf(h)].status = "REQUESTED"
<1>1. cycle[CycleOf(h)] \in CycleRow
  BY WorkIsKnown DEF Applying
<1> QED
  BY <1>1 DEF Branch, CycleRow

-----------------------------------------------------------------------------
(* One table after the other: what a step does to the cycles.              *)
LEMMA CycleWritten ==
  ASSUME Well, NEW r \in References, NEW x \in CycleRow, cycle' = [cycle EXCEPT ![r] = x]
  PROVE  /\ cycle' \in [References -> {NoCycle} \cup CycleRow]
         /\ \A q \in References : Opened(q) => Opened(q)'
         /\ \A q \in References : Closed(q) /\ q # r => Closed(q)'
         /\ x.status # "REQUESTED" => Closed(r)'
<1>1. x # NoCycle
  BY DEF CycleRow, CycleStatus, NoCycle
<1>2. cycle \in [References -> {NoCycle} \cup CycleRow]
  BY DEF Well, TypeOK, CycleRow
<1>3. \A q \in References : cycle'[q] = IF q = r THEN x ELSE cycle[q]
  BY <1>2
<1> QED
  BY <1>1, <1>2, <1>3 DEF Opened, Closed, CycleRow

LEMMA CycleStep ==
  ASSUME Well, [Next]_vars
  PROVE  /\ cycle' \in [References -> {NoCycle} \cup CycleRow]
         /\ \A r \in References : Opened(r) => Opened(r)'
         /\ \A r \in References : Closed(r) =>
              \/ Closed(r)'
              \/ \E h \in Handlers : handler[h].pc = "reopen" /\ CycleOf(h) = r
<1> DEFINE Kept ==
      /\ cycle' \in [References -> {NoCycle} \cup CycleRow]
      /\ \A r \in References : Opened(r) => Opened(r)'
      /\ \A r \in References : Closed(r) =>
           \/ Closed(r)'
           \/ \E h \in Handlers : handler[h].pc = "reopen" /\ CycleOf(h) = r
<1>1. ASSUME UNCHANGED cycle PROVE Kept
  BY <1>1 DEF Opened, Closed, Well, TypeOK, CycleRow
<1>2. ASSUME NEW r \in References, NEW p \in Providers, Open(r, p) PROVE Kept
  <2> DEFINE x == [NoCycle EXCEPT !.status = "REQUESTED", !.provider = p]
  <2>1. x \in CycleRow
    BY DEF CycleRow, CycleStatus, NoCycle
  <2>2. cycle' = [cycle EXCEPT ![r] = x] /\ ~Closed(r)
    BY <1>2 DEF Open, Closed, NoCycle, CycleStatus
  <2> QED
    BY <2>1, <2>2, CycleWritten
<1>3. ASSUME NEW r \in References, AttachProviderRef(r) PROVE Kept
  <2>1. cycle[r] \in CycleRow
    BY <1>3, OpenedIsRow DEF AttachProviderRef, Opened, NoCycle
  <2>2. PICK x \in CycleRow : cycle' = [cycle EXCEPT ![r] = x] /\ x.status = cycle[r].status
    <3>1. CASE cycle' = [cycle EXCEPT ![r].linked = TRUE, ![r].noted = TRUE]
      <4> DEFINE x == [cycle[r] EXCEPT !.linked = TRUE, !.noted = TRUE]
      <4>1. x \in CycleRow /\ x.status = cycle[r].status
        BY <2>1 DEF CycleRow
      <4>2. cycle' = [cycle EXCEPT ![r] = x]
        BY <3>1 DEF Well, TypeOK
      <4> QED
        BY <4>1, <4>2
    <3>2. CASE cycle' = [cycle EXCEPT ![r].linked = TRUE]
      <4> DEFINE x == [cycle[r] EXCEPT !.linked = TRUE]
      <4>1. x \in CycleRow /\ x.status = cycle[r].status
        BY <2>1 DEF CycleRow
      <4>2. cycle' = [cycle EXCEPT ![r] = x]
        BY <3>2
      <4> QED
        BY <4>1, <4>2
    <3> QED
      BY <1>3, <3>1, <3>2 DEF AttachProviderRef
  <2> QED
    BY <2>2, CycleWritten DEF Closed
<1>4. ASSUME NEW h \in Handlers, Expire(h) PROVE Kept
  <2> DEFINE r == handler[h].reference
             x == [cycle[r] EXCEPT !.status = "EXPIRED"]
  <2>1. r \in References /\ cycle[r] \in CycleRow
    BY <1>4, DueIsKnown DEF Expire
  <2>2. x \in CycleRow /\ x.status # "REQUESTED"
    BY <2>1 DEF CycleRow, CycleStatus
  <2>3. cycle' = [cycle EXCEPT ![r] = x]
    BY <1>4 DEF Expire
  <2> QED
    BY <2>1, <2>2, <2>3, CycleWritten
<1>5. ASSUME NEW h \in Handlers, FlagAnomaly(h) PROVE Kept
  <2> DEFINE r == CycleOf(h)
             x == [cycle[r] EXCEPT !.status = "ANOMALY"]
  <2>1. r \in References /\ cycle[r] \in CycleRow
    BY <1>5, WorkIsKnown DEF FlagAnomaly, Applying
  <2>2. x \in CycleRow /\ x.status # "REQUESTED"
    BY <2>1 DEF CycleRow, CycleStatus
  <2>3. cycle' = [cycle EXCEPT ![r] = x]
    BY <1>5 DEF FlagAnomaly
  <2> QED
    BY <2>1, <2>2, <2>3, CycleWritten
<1>6. ASSUME NEW h \in Handlers, CloseCycle(h) PROVE Kept
  <2> DEFINE r == CycleOf(h)
             end == IF handler[h].pc = "fail" THEN "FAILED" ELSE "SETTLED"
             x == [cycle[r] EXCEPT !.status = end, !.canonical = ChargeOf(h)]
  <2>1. r \in References /\ cycle[r] \in CycleRow /\ ChargeOf(h) \in Charges
    BY <1>6, WorkIsKnown DEF CloseCycle, Applying
  <2>2. x \in CycleRow /\ x.status # "REQUESTED"
    BY <2>1 DEF CycleRow, CycleStatus
  <2>3. cycle' = [cycle EXCEPT ![r] = x]
    BY <1>6, <2>1 DEF CloseCycle, Well, TypeOK
  <2> QED
    BY <2>1, <2>2, <2>3, CycleWritten
<1>7. ASSUME NEW h \in Handlers, ReopenForRetry(h) PROVE Kept
  <2> DEFINE r == CycleOf(h)
             x == [cycle[r] EXCEPT !.status = "REQUESTED"]
  <2>1. r \in References /\ cycle[r] \in CycleRow /\ handler[h].pc = "reopen"
    BY <1>7, WorkIsKnown DEF ReopenForRetry, Applying
  <2>2. x \in CycleRow
    BY <2>1 DEF CycleRow, CycleStatus
  <2>3. cycle' = [cycle EXCEPT ![r] = x]
    BY <1>7 DEF ReopenForRetry
  <2>4. CycleOf(h) = r /\ h \in Handlers
    OBVIOUS
  <2> QED
    BY <2>1, <2>2, <2>3, <2>4, CycleWritten
<1>8. ASSUME Outside PROVE Kept
  <2>1. \/ \E r \in References, p \in Providers : Open(r, p)
        \/ \E r \in References : AttachProviderRef(r)
        \/ UNCHANGED cycle
    BY <1>8 DEF Outside, DeadlinePasses, PayBegins, PayEnds, CaptureOrder, Purge, tables
  <2> QED
    BY <2>1, <1>1, <1>2, <1>3
<1>9. ASSUME NEW h \in Handlers, Continue(h) PROVE Kept
  <2>1. Expire(h) \/ FlagAnomaly(h) \/ CloseCycle(h) \/ ReopenForRetry(h) \/ UNCHANGED cycle
    BY <1>9 DEF Continue, FindPayment, AskFails, Evaluate, RaiseRefund, WritePaymentRow,
       Reserve, Deposit, DepositFails, Unreserve, tables
  <2> QED
    BY <2>1, <1>1, <1>4, <1>5, <1>6, <1>7
<1>10. CASE \/ \E h \in Webhooks, c \in Charges : Receive(h, c)
            \/ \E h \in Pollers : Poll(h)
            \/ \E h \in Handlers : Dies(h)
            \/ UNCHANGED vars
  <2>1. UNCHANGED cycle
    BY <1>10 DEF Receive, Poll, Due, Dies, vars, tables
  <2> QED
    BY <2>1, <1>1
<1> QED
  BY <1>8, <1>9, <1>10 DEF Next

(* To the gateway's payments: none is forgotten, none changes its deposit. *)
LEMMA ChargeWritten ==
  ASSUME Well, NEW c \in Charges, NEW x \in Payment,
         charge' = [charge EXCEPT ![c] = x],
         Used(c) => x.reference = charge[c].reference,
         Opened(x.reference)
  PROVE  /\ charge' \in [Charges -> {Unused} \cup Payment]
         /\ \A d \in Charges : Used(d) => Used(d)' /\ charge'[d].reference = charge[d].reference
         /\ \A d \in Charges : Used(d)' => Opened(charge'[d].reference)
<1>1. x # Unused
  BY DEF Payment, Unused
<1>2. charge \in [Charges -> {Unused} \cup Payment]
  BY DEF Well, TypeOK, Payment
<1>3. \A d \in Charges : charge'[d] = IF d = c THEN x ELSE charge[d]
  BY <1>2
<1>4. \A d \in Charges : Used(d) => Opened(charge[d].reference)
  BY DEF Well, Known
<1> QED
  BY <1>1, <1>2, <1>3, <1>4 DEF Used

(* What any step but the gateway's own does to the payments.               *)
LEMMA ChargeStep ==
  ASSUME Well, [Next]_vars
  PROVE  /\ charge' \in [Charges -> {Unused} \cup Payment]
         /\ \A c \in Charges : Used(c) => Used(c)' /\ charge'[c].reference = charge[c].reference
         /\ \A c \in Charges : Used(c)' => Opened(charge'[c].reference)
<1> DEFINE Kept ==
      /\ charge' \in [Charges -> {Unused} \cup Payment]
      /\ \A c \in Charges : Used(c) => Used(c)' /\ charge'[c].reference = charge[c].reference
      /\ \A c \in Charges : Used(c)' => Opened(charge'[c].reference)
<1>1. ASSUME UNCHANGED charge PROVE Kept
  BY <1>1 DEF Used, Well, Known, TypeOK, Payment
<1>2. ASSUME NEW c \in Charges, NEW s \in {"authorized", "approved", "rejected"}, Used(c),
             charge' = [charge EXCEPT ![c].status = s]
      PROVE  Kept
  <2> DEFINE x == [charge[c] EXCEPT !.status = s]
  <2>1. charge[c] \in Payment /\ Opened(charge[c].reference)
    BY <1>2, UsedIsPayment DEF Well, Known
  <2>2. x \in Payment /\ x.reference = charge[c].reference
    BY <2>1 DEF Payment
  <2>3. charge' = [charge EXCEPT ![c] = x]
    BY <1>2
  <2> QED
    BY <2>1, <2>2, <2>3, ChargeWritten
<1>3. ASSUME NEW c \in Charges, NEW r \in References, PayBegins(c, r) PROVE Kept
  <2>1. PICK a \in AmountKinds :
          charge' = [charge EXCEPT ![c] = [status |-> "pending", reference |-> r, amount |-> a]]
    BY <1>3 DEF PayBegins
  <2> DEFINE x == [status |-> "pending", reference |-> r, amount |-> a]
  <2>2. x \in Payment /\ x.reference = r
    BY DEF Payment
  <2>3. ~Used(c) /\ Opened(r)
    BY <1>3 DEF PayBegins, Used, Opened, NoCycle
  <2> QED
    BY <2>1, <2>2, <2>3, ChargeWritten
<1>4. ASSUME NEW c \in Charges, PayEnds(c) PROVE Kept
  <2>1. Used(c)
    BY <1>4 DEF PayEnds, Used, Unused
  <2>2. PICK s \in {"authorized", "approved", "rejected"} :
          charge' = [charge EXCEPT ![c].status = s]
    BY <1>4 DEF PayEnds
  <2> QED
    BY <2>1, <2>2, <1>2
<1>5. ASSUME NEW c \in Charges, CaptureOrder(c) PROVE Kept
  <2>1. Used(c) /\ charge' = [charge EXCEPT ![c].status = "approved"]
    BY <1>5 DEF CaptureOrder, Captured, Used, Unused
  <2> QED
    BY <2>1, <1>2
<1>6. ASSUME NEW c \in Charges, charge[c].status \in {"authorized", "approved"},
             charge' = Captured(c)
      PROVE  Kept
  <2>1. Used(c) /\ charge' = [charge EXCEPT ![c].status = "approved"]
    BY <1>6 DEF Captured, Used, Unused
  <2> QED
    BY <2>1, <1>2
<1>7. ASSUME NEW r, NEW c \in Findable(r)
      PROVE  c \in Charges /\ charge[c].status \in {"authorized", "approved"}
  BY <1>7 DEF Findable, FindApprovedByReference, FindOrder
<1>8. ASSUME Outside PROVE Kept
  <2>1. \/ \E c \in Charges, r \in References : PayBegins(c, r)
        \/ \E c \in Charges : PayEnds(c) \/ CaptureOrder(c)
        \/ UNCHANGED charge
    BY <1>8 DEF Outside, Open, AttachProviderRef, DeadlinePasses, Purge, gateway
  <2> QED
    BY <2>1, <1>1, <1>3, <1>4, <1>5
<1>9. ASSUME NEW h \in Handlers, Continue(h) PROVE Kept
  <2>1. \/ \E r : \E c \in Findable(r) : charge' = Captured(c)
        \/ UNCHANGED charge
    BY <1>9 DEF Continue, Expire, FindPayment, AskFails, Evaluate, FlagAnomaly, RaiseRefund,
       CloseCycle, WritePaymentRow, Reserve, Deposit, DepositFails, Unreserve, ReopenForRetry,
       gateway
  <2> QED
    BY <2>1, <1>1, <1>6, <1>7
<1>10. CASE \/ \E h \in Webhooks, c \in Charges : Receive(h, c)
            \/ \E h \in Pollers : Poll(h)
            \/ \E h \in Handlers : Dies(h)
            \/ UNCHANGED vars
  <2>1. UNCHANGED charge
    BY <1>10 DEF Receive, Poll, Due, Dies, vars, gateway
  <2> QED
    BY <2>1, <1>1
<1> QED
  BY <1>8, <1>9, <1>10 DEF Next

(* To the handlers: each step moves one of them, or none.                  *)
Moves(h) ==
  /\ handler' \in [Handlers -> HandlerState]
  /\ \A g \in Handlers \ {h} : handler'[g] = handler[g]
  /\ \/ handler'[h].pc = "idle"
     \/ handler'[h].pc = "due" /\ Opened(handler'[h].reference)
     \/ /\ handler[h].pc \in Applying /\ handler'[h].pc \in Applying
        /\ handler'[h].charge = handler[h].charge
        /\ Settling(h)' => \/ Settling(h)
                           \/ cycle[CycleOf(h)].status = "REQUESTED"
     \/ handler'[h].pc = "evaluate" /\ charge'[handler'[h].charge] # Unused

LEMMA FinishMoves ==
  ASSUME Well, NEW h \in Handlers, Finish(h)
  PROVE  Moves(h)
<1>1. handler \in [Handlers -> HandlerState] /\ Idle \in HandlerState /\ Idle.pc = "idle"
  BY DEF Well, TypeOK, HandlerState, Idle
<1> QED
  BY <1>1 DEF Moves, Finish

LEMMA GotoMoves ==
  ASSUME Well, NEW h \in Handlers, handler[h].pc \in Applying, NEW pc \in Applying, Goto(h, pc),
         Settling(h)' => \/ Settling(h)
                         \/ cycle[CycleOf(h)].status = "REQUESTED"
  PROVE  Moves(h)
<1>1. handler \in [Handlers -> HandlerState]
  BY DEF Well, TypeOK
<1> QED
  BY <1>1, GotoKeepsCharge DEF Moves

LEMMA ContinueMoves ==
  ASSUME Well, NEW h \in Handlers, Continue(h)
  PROVE  Moves(h)
<1>1. CASE Finish(h)
  BY <1>1, FinishMoves
<1>2. CASE FindPayment(h) /\ ~Finish(h)
  <2>1. PICK c \in Findable(handler[h].reference) :
          /\ charge' = Captured(c)
          /\ handler' = [handler EXCEPT ![h] =
               [pc |-> "evaluate", charge |-> c, status |-> "COMPLETED"]]
    BY <1>2 DEF FindPayment, ScheduleNextCheck
  <2>2. c \in Charges
    BY DEF Findable, FindApprovedByReference, FindOrder
  <2> DEFINE s == [pc |-> "evaluate", charge |-> c, status |-> "COMPLETED"]
  <2>3. s \in HandlerState /\ s.pc = "evaluate" /\ s.charge = c
    BY <2>2 DEF HandlerState, Response, Applying
  <2>4. Used(c)'
    <3>1. charge'[c].status = "approved"
      BY <2>1, <2>2, UsedIsPayment DEF Captured, Well, TypeOK, Payment, Unused
    <3> QED
      BY <3>1 DEF Used, Unused
  <2>5. /\ handler' \in [Handlers -> HandlerState]
        /\ handler'[h] = s
        /\ \A g \in Handlers \ {h} : handler'[g] = handler[g]
    BY <2>1, <2>3 DEF Well, TypeOK
  <2> QED
    BY <2>3, <2>4, <2>5 DEF Moves, Used
<1>3. CASE Evaluate(h) /\ ~Finish(h)
  <2>1. handler[h].pc = "evaluate" /\ handler[h].pc \in Applying /\ Goto(h, Branch(h))
    BY <1>3 DEF Evaluate, Applying
  <2>2. Branch(h) \in Applying
    BY <1>3, BranchType DEF Evaluate, Applying
  <2>3. handler'[h].pc = Branch(h)
    BY <2>1, <2>2, GotoKeepsCharge DEF Well, TypeOK
  <2>4. Settling(h)' => cycle[CycleOf(h)].status = "REQUESTED"
    BY <2>1, <2>3, BranchType, SettleNeedsRequested DEF Settling
  <2> QED
    BY <2>1, <2>2, <2>4, GotoMoves
<1>4. CASE FlagAnomaly(h) /\ ~Finish(h)
  <2>1. handler[h].pc \in Applying /\ "refund" \in Applying /\ Goto(h, "refund")
    BY <1>4 DEF FlagAnomaly, Applying
  <2>2. handler'[h].pc = "refund"
    BY <2>1, GotoKeepsCharge DEF Well, TypeOK
  <2> QED
    BY <2>1, <2>2, GotoMoves DEF Settling
<1>5. CASE CloseCycle(h)
  <2>1. handler[h].pc \in Applying
    BY <1>5 DEF CloseCycle, Applying
  <2>2. PICK pc \in {"bookFailed", "bookSettled"} :
          Goto(h, pc) /\ (pc = "bookSettled" => handler[h].pc = "settle")
    BY <1>5 DEF CloseCycle
  <2>3. pc \in Applying
    BY DEF Applying
  <2>4. handler'[h].pc = pc
    BY <2>1, <2>2, <2>3, GotoKeepsCharge DEF Well, TypeOK
  <2> QED
    BY <2>1, <2>2, <2>3, <2>4, GotoMoves DEF Settling
<1>6. CASE (WritePaymentRow(h) /\ ~Finish(h)) \/ (Reserve(h) /\ ~Finish(h))
           \/ DepositFails(h) \/ Unreserve(h)
  <2>1. /\ handler[h].pc \in Applying
        /\ Settling(h)
        /\ \E pc \in Applying : Goto(h, pc)
    BY <1>6 DEF WritePaymentRow, Reserve, DepositFails, Unreserve, Applying, Settling
  <2> QED
    BY <2>1, GotoMoves
<1> QED
  BY <1>1, <1>2, <1>3, <1>4, <1>5, <1>6 DEF Continue, Expire, AskFails, ScheduleNextCheck,
     RaiseRefund, Deposit, ReopenForRetry, Evaluate

LEMMA HandlerStep ==
  ASSUME Well, [Next]_vars
  PROVE  UNCHANGED handler \/ \E h \in Handlers : Moves(h)
<1>1. CASE Outside \/ UNCHANGED vars
  <2>1. UNCHANGED handler
    BY <1>1 DEF Outside, Open, AttachProviderRef, DeadlinePasses, PayBegins, PayEnds,
       CaptureOrder, Purge, vars
  <2> QED
    BY <2>1
<1>2. ASSUME NEW h \in Webhooks, NEW c \in Charges, Receive(h, c)
      PROVE  \E g \in Handlers : Moves(g)
  <2> DEFINE s == [pc |-> "evaluate", charge |-> c, status |-> Confirmation(c)]
  <2>1. s \in HandlerState /\ s.pc = "evaluate" /\ s.charge = c
    BY DEF HandlerState, Response, Applying, Confirmation
  <2>2. h \in Handlers /\ handler' = [handler EXCEPT ![h] = s] /\ Used(c)'
    BY <1>2 DEF Receive, Handlers, Notifiable, gateway, Used
  <2>3. /\ handler' \in [Handlers -> HandlerState]
        /\ handler'[h] = s
        /\ \A g \in Handlers \ {h} : handler'[g] = handler[g]
    BY <2>1, <2>2 DEF Well, TypeOK
  <2>4. Moves(h)
    BY <2>1, <2>2, <2>3 DEF Moves, Used
  <2> QED
    BY <2>2, <2>4
<1>3. ASSUME NEW h \in Pollers, NEW r \in References, Due(h, r)
      PROVE  \E g \in Handlers : Moves(g)
  <2> DEFINE s == [pc |-> "due", reference |-> r]
  <2>1. s \in HandlerState /\ s.pc = "due" /\ s.reference = r
    BY DEF HandlerState
  <2>2. h \in Handlers /\ handler' = [handler EXCEPT ![h] = s] /\ Opened(r)
    BY <1>3 DEF Due, Handlers, Opened, NoCycle
  <2>3. /\ handler' \in [Handlers -> HandlerState]
        /\ handler'[h] = s
        /\ \A g \in Handlers \ {h} : handler'[g] = handler[g]
    BY <2>1, <2>2 DEF Well, TypeOK
  <2>4. Moves(h)
    BY <2>1, <2>2, <2>3 DEF Moves
  <2> QED
    BY <2>2, <2>4
<1>4. ASSUME NEW h \in Handlers, Continue(h) \/ Dies(h) PROVE Moves(h)
  BY <1>4, ContinueMoves, FinishMoves DEF Dies
<1> QED
  BY <1>1, <1>2, <1>3, <1>4 DEF Next, Poll

(* To the remaining tables.                                                *)
RestTyped ==
  /\ row \in [References -> {NoRow} \cup [status : {"FAILED", "COMPLETED"}, charge : Charges]]
  /\ processed \subseteq Charges
  /\ credited \in [Charges -> Nat] /\ refunds \in [Charges -> Nat]
  /\ past \subseteq References
  /\ failures \in 0..MaxFailures /\ crashes \in 0..MaxCrashes

LEMMA RestStep ==
  ASSUME Well, [Next]_vars
  PROVE  RestTyped' /\ \A c \in processed' : Used(c)
<1>1. RestTyped /\ (\A c \in processed : Used(c)) /\ {MaxFailures, MaxCrashes} \subseteq Nat
  BY PaymentsAssumption DEF Well, TypeOK, RestTyped, Known
<1> DEFINE Rest == <<row, processed, credited, refunds, past, failures, crashes>>
           Kept == RestTyped' /\ \A c \in processed' : Used(c)
<1>2. ASSUME UNCHANGED Rest PROVE Kept
  BY <1>1, <1>2 DEF RestTyped
<1>3. ASSUME UNCHANGED <<row, processed, credited, refunds, past>>,
             /\ UNCHANGED failures \/ (failures < MaxFailures /\ failures' = failures + 1)
             /\ UNCHANGED crashes \/ (crashes < MaxCrashes /\ crashes' = crashes + 1)
      PROVE  Kept
  <2>1. failures' \in 0..MaxFailures /\ crashes' \in 0..MaxCrashes
    BY <1>1, <1>3 DEF RestTyped
  <2> QED
    BY <1>1, <1>3, <2>1 DEF RestTyped
<1>4. ASSUME Outside PROVE Kept
  <2>1. CASE \E r \in References : AttachProviderRef(r)
    <3>1. PICK r \in References : AttachProviderRef(r)
      BY <2>1
    <3> QED
      BY <3>1, <1>3 DEF AttachProviderRef, gateway
  <2>2. CASE \E r \in References : DeadlinePasses(r)
    BY <2>2, <1>1 DEF DeadlinePasses, RestTyped, tables
  <2>3. CASE \E c \in Charges : Purge(c)
    BY <2>3, <1>1 DEF Purge, RestTyped, gateway
  <2>4. CASE UNCHANGED Rest
    BY <2>4, <1>2
  <2> QED
    BY <1>4, <2>1, <2>2, <2>3, <2>4 DEF Outside, Open, PayBegins, PayEnds, CaptureOrder, tables,
       gateway
<1>5. ASSUME NEW h \in Handlers, Continue(h) PROVE Kept
  <2>1. CASE RaiseRefund(h)
    <3>1. ChargeOf(h) \in Charges
      BY <2>1, WorkIsKnown DEF RaiseRefund, Applying
    <3> QED
      BY <1>1, <2>1, <3>1 DEF RaiseRefund, RestTyped, gateway
  <2>2. CASE WritePaymentRow(h)
    <3>1. ChargeOf(h) \in Charges
      BY <2>2, WorkIsKnown DEF WritePaymentRow, Applying
    <3> DEFINE x == [status |-> IF handler[h].pc = "bookFailed" THEN "FAILED" ELSE "COMPLETED",
                     charge |-> ChargeOf(h)]
    <3>2. x \in [status : {"FAILED", "COMPLETED"}, charge : Charges]
      BY <3>1
    <3>3. row' = [row EXCEPT ![CycleOf(h)] = x]
      BY <2>2 DEF WritePaymentRow
    <3> HIDE DEF x
    <3>4. row' \in [References -> {NoRow} \cup [status : {"FAILED", "COMPLETED"}, charge : Charges]]
      BY <1>1, <3>2, <3>3 DEF RestTyped
    <3>5. UNCHANGED <<processed, credited, refunds, past, failures, crashes>>
      BY <2>2 DEF WritePaymentRow, gateway
    <3> QED
      BY <1>1, <3>4, <3>5 DEF RestTyped
  <2>3. CASE Reserve(h)
    <3>1. ChargeOf(h) \in Charges /\ Used(ChargeOf(h))
      BY <2>3, WorkIsKnown DEF Reserve, Applying
    <3>2. processed' \subseteq processed \cup {ChargeOf(h)}
      BY <2>3 DEF Reserve
    <3>3. UNCHANGED <<row, credited, refunds, past, failures, crashes>>
      BY <2>3 DEF Reserve, gateway
    <3> QED
      BY <1>1, <3>1, <3>2, <3>3 DEF RestTyped
  <2>4. CASE Deposit(h)
    <3>1. ChargeOf(h) \in Charges
      BY <2>4, WorkIsKnown DEF Deposit, Applying
    <3> QED
      BY <1>1, <2>4, <3>1 DEF Deposit, RestTyped, gateway
  <2>5. CASE Unreserve(h)
    <3>1. processed' \subseteq processed /\ UNCHANGED <<row, credited, refunds, past, failures>>
      BY <2>5 DEF Unreserve, gateway
    <3>2. UNCHANGED crashes \/ (crashes < MaxCrashes /\ crashes' = crashes + 1)
      BY <2>5 DEF Unreserve
    <3>3. crashes' \in 0..MaxCrashes
      BY <1>1, <3>2 DEF RestTyped
    <3> QED
      BY <1>1, <3>1, <3>3 DEF RestTyped
  <2>6. CASE AskFails(h) \/ DepositFails(h)
    BY <2>6, <1>3 DEF AskFails, DepositFails, tables, gateway
  <2>7. CASE UNCHANGED Rest
    BY <2>7, <1>2
  <2> QED
    BY <1>5, <2>1, <2>2, <2>3, <2>4, <2>5, <2>6, <2>7 DEF Continue, Expire, FindPayment, Evaluate,
       FlagAnomaly, CloseCycle, ReopenForRetry, tables, gateway
<1>6. ASSUME NEW h \in Handlers, Dies(h) PROVE Kept
  BY <1>6, <1>3 DEF Dies, tables, gateway
<1>7. CASE \/ \E h \in Webhooks, c \in Charges : Receive(h, c)
           \/ \E h \in Pollers : Poll(h)
           \/ UNCHANGED vars
  <2>1. UNCHANGED Rest
    BY <1>7 DEF Receive, Poll, Due, vars, tables, gateway
  <2> QED
    BY <2>1, <1>2
<1> QED
  BY <1>4, <1>5, <1>6, <1>7 DEF Next

LEMMA InitWell == Init => Well
<1> SUFFICES ASSUME Init PROVE Well
  OBVIOUS
<1>1. Idle \in HandlerState /\ Idle.pc = "idle" /\ "idle" \notin Applying
  BY DEF HandlerState, Idle, Applying
<1>2. TypeOK
  BY <1>1, PaymentsAssumption DEF Init, TypeOK
<1>3. Known
  BY <1>1 DEF Init, Known, Used
<1> QED
  BY <1>2, <1>3 DEF Well

LEMMA NextWell ==
  ASSUME Well, [Next]_vars
  PROVE  Well'
<1>1. handler' \in [Handlers -> HandlerState]
  BY HandlerStep DEF Moves, Well, TypeOK
<1>2. TypeOK'
  BY <1>1, CycleStep, ChargeStep, RestStep DEF RestTyped, TypeOK, CycleRow, Payment
<1>3. \A c \in Charges : Used(c)' => charge'[c] \in Payment /\ charge'[c].reference \in References
  BY ChargeStep DEF Used, Payment
<1>4. \A c \in Charges : Used(c)' => cycle'[charge'[c].reference] # NoCycle
  BY <1>3, CycleStep, ChargeStep DEF Opened
<1>5. \A h \in Handlers : handler'[h].pc = "due" => cycle'[handler'[h].reference] # NoCycle
  <2> SUFFICES ASSUME NEW h \in Handlers, handler'[h].pc = "due"
               PROVE  cycle'[handler'[h].reference] # NoCycle
    OBVIOUS
  <2>1. Opened(handler'[h].reference)
    BY HandlerStep DEF Moves, Applying, Well, Known
  <2>2. handler'[h].reference \in References
    BY <1>1, HandlerHasReference
  <2> QED
    BY <2>1, <2>2, CycleStep DEF Opened
<1>6. \A h \in Handlers : handler'[h].pc \in Applying => charge'[handler'[h].charge] # Unused
  <2> SUFFICES ASSUME NEW h \in Handlers, handler'[h].pc \in Applying
               PROVE  charge'[handler'[h].charge] # Unused
    OBVIOUS
  <2>1. CASE handler[h].pc \in Applying /\ handler'[h].charge = handler[h].charge
    <3>1. ChargeOf(h) \in Charges /\ Used(ChargeOf(h))
      BY <2>1, WorkIsKnown
    <3> QED
      BY <2>1, <3>1, ChargeStep DEF Used, ChargeOf
  <2> QED
    BY <2>1, HandlerStep DEF Moves, Applying
<1>7. \A c \in processed' : Used(c)'
  <2>1. processed' \subseteq Charges
    BY RestStep DEF RestTyped
  <2> QED
    BY <2>1, RestStep, ChargeStep
<1>8. Known'
  BY <1>4, <1>5, <1>6, <1>7 DEF Known, Used, ChargeOf, Opened
<1> QED
  BY <1>2, <1>8 DEF Well

(* Every row, handler and gateway record keeps its type: no response is    *)
(* ever applied to a cycle that does not exist.                            *)
THEOREM PaymentTypes == Spec => []TypeOK
<1>1. Well => TypeOK
  BY DEF Well
<1>2. Well /\ [Next]_vars => Well'
  BY NextWell
<1> QED
  BY <1>1, <1>2, InitWell, PTL DEF Spec

-----------------------------------------------------------------------------
(* A handler that has reserved a charge and neither credited it nor given  *)
(* the reservation back.                                                   *)
Holding(h) == handler[h].pc \in {"deposit", "unreserve"}

(* The cycle of a charge has its result and nobody is settling it: since   *)
(* only a requested cycle is settled, nobody will be.                      *)
Finished(c) ==
  /\ Used(c)
  /\ Closed(charge[c].reference)
  /\ \A h \in Handlers : Settling(h) => CycleOf(h) # charge[c].reference

(* What makes a second credit impossible: a charge being credited is       *)
(* reserved and not yet credited, by one handler only, and a credited one  *)
(* stays reserved, unless its cycle is finished.                           *)
Reservations ==
  /\ Well
  /\ \A h \in Handlers : Holding(h) =>
       ChargeOf(h) \in processed /\ credited[ChargeOf(h)] = 0
  /\ \A g, h \in Handlers :
       Holding(g) /\ Holding(h) /\ ChargeOf(g) = ChargeOf(h) => g = h
  /\ \A c \in Charges :
       credited[c] = 0 \/ (credited[c] = 1 /\ (c \in processed \/ Finished(c)))

(* What every step does, as shown above and next.                          *)
Steady == Well' /\ \A c \in Charges : Finished(c) => Finished(c)'

LEMMA NextSteady ==
  ASSUME Well, [Next]_vars
  PROVE  Steady
<1> SUFFICES ASSUME NEW c \in Charges, Finished(c) PROVE Finished(c)'
  BY NextWell DEF Steady
<1> DEFINE r == charge[c].reference
<1>1. Used(c) /\ r \in References /\ Closed(r)
  BY UsedIsPayment DEF Finished
<1>2. Used(c)' /\ charge'[c].reference = r
  BY <1>1, ChargeStep
<1>3. \A h \in Handlers : handler[h].pc = "reopen" => CycleOf(h) # r
  BY DEF Finished, Settling
<1>4. cycle'[r].status \in CycleStatus \ {"REQUESTED"}
  BY <1>1, <1>3, CycleStep DEF Closed
<1>5. \A h \in Handlers : Settling(h)' => charge'[handler'[h].charge].reference # r
  <2> SUFFICES ASSUME NEW h \in Handlers, Settling(h)'
               PROVE  charge'[handler'[h].charge].reference # r
    OBVIOUS
  <2>1. /\ handler[h].pc \in Applying /\ handler'[h].charge = handler[h].charge
        /\ Settling(h) \/ cycle[CycleOf(h)].status = "REQUESTED"
    BY HandlerStep DEF Moves, Settling, Applying
  <2>2. CycleOf(h) # r
    BY <1>1, <2>1 DEF Finished, Closed
  <2>3. ChargeOf(h) \in Charges /\ Used(ChargeOf(h))
    BY <2>1, WorkIsKnown
  <2> QED
    BY <2>1, <2>2, <2>3, ChargeStep DEF ChargeOf, CycleOf
<1> QED
  BY <1>2, <1>4, <1>5 DEF Finished, CycleOf, ChargeOf, Closed

(* A step of one handler that neither reserves, credits nor releases.      *)
LEMMA QuietStep ==
  ASSUME Reservations, Steady, NEW h \in Handlers, NEW s \in HandlerState,
         s.pc \notin {"deposit", "unreserve"},
         handler' = [handler EXCEPT ![h] = s],
         UNCHANGED <<processed, credited>>
  PROVE  Reservations'
<1>1. handler \in [Handlers -> HandlerState] /\ credited \in [Charges -> Nat]
  BY DEF Reservations, Well, TypeOK
<1>2. \A g \in Handlers : Holding(g)' => g # h /\ handler'[g] = handler[g]
  BY <1>1 DEF Holding
<1>3. \A g \in Handlers : Holding(g)' => Holding(g) /\ ChargeOf(g)' = ChargeOf(g)
  BY <1>2 DEF Holding, ChargeOf
<1> QED
  BY <1>1, <1>3 DEF Reservations, Steady

LEMMA FinishQuiet ==
  ASSUME Reservations, Steady, NEW h \in Handlers, Finish(h), UNCHANGED <<processed, credited>>
  PROVE  Reservations'
<1>1. Idle \in HandlerState /\ Idle.pc \notin {"deposit", "unreserve"}
  BY DEF Idle, HandlerState
<1> QED
  BY <1>1, QuietStep DEF Finish

LEMMA GotoQuiet ==
  ASSUME Reservations, Steady, NEW h \in Handlers, handler[h].pc \in Applying,
         NEW pc \in Applying \ {"deposit", "unreserve"}, Goto(h, pc),
         UNCHANGED <<processed, credited>>
  PROVE  Reservations'
<1> DEFINE s == [handler[h] EXCEPT !.pc = pc]
<1>1. handler[h] \in Response
  BY HandlerHasCharge DEF Reservations, Well, TypeOK
<1>2. s \in Response /\ s.pc = pc
  BY <1>1 DEF Response
<1>3. s \in HandlerState
  BY <1>2 DEF HandlerState
<1>4. handler' = [handler EXCEPT ![h] = s]
  BY DEF Goto
<1> QED
  BY <1>2, <1>3, <1>4, QuietStep

(* The steps that reserve, credit and release.                             *)
LEMMA ReserveStep ==
  ASSUME Reservations, Steady, NEW h \in Handlers, Reserve(h)
  PROVE  Reservations'
<1>1. handler[h].pc \in Applying
  BY DEF Reserve, Applying
<1>2. ChargeOf(h) \in Charges
  BY <1>1, HandlerHasCharge DEF Reservations, Well, TypeOK, ChargeOf
<1>3. CASE Finish(h) /\ UNCHANGED processed
  BY <1>3, FinishQuiet DEF Reserve
<1>4. CASE /\ ChargeOf(h) \notin processed
           /\ Goto(h, "deposit")
           /\ processed' = processed \cup {ChargeOf(h)}
  <2>1. /\ handler' \in [Handlers -> HandlerState]
        /\ handler'[h].pc = "deposit"
        /\ handler'[h].charge = handler[h].charge
        /\ \A g \in Handlers \ {h} : handler'[g] = handler[g]
    BY <1>1, <1>4, GotoKeepsCharge DEF Reservations, Well, TypeOK, Applying
  <2>2. credited' = credited /\ credited[ChargeOf(h)] = 0
    <3>1. ~Finished(ChargeOf(h))
      BY DEF Reserve, Finished, Settling, CycleOf
    <3> QED
      BY <1>2, <1>4, <3>1 DEF Reserve, Reservations
  <2>3. \A g \in Handlers \ {h} : /\ Holding(g)' <=> Holding(g)
                                  /\ ChargeOf(g)' = ChargeOf(g)
    BY <2>1 DEF Holding, ChargeOf
  <2>4. ChargeOf(h)' = ChargeOf(h)
    BY <2>1 DEF ChargeOf
  <2>5. \A g \in Handlers \ {h} : Holding(g) => ChargeOf(g) # ChargeOf(h)
    BY <1>4 DEF Reservations
  <2>6. \A g \in Handlers : Holding(g)' =>
          (ChargeOf(g) \in processed)' /\ (credited[ChargeOf(g)] = 0)'
    BY <1>4, <2>2, <2>3, <2>4 DEF Reservations
  <2>7. \A f, g \in Handlers :
          Holding(f)' /\ Holding(g)' /\ ChargeOf(f)' = ChargeOf(g)' => f = g
    BY <2>3, <2>4, <2>5 DEF Reservations
  <2> QED
    BY <1>2, <1>4, <2>1, <2>2, <2>6, <2>7 DEF Reservations, Steady
<1> QED
  BY <1>3, <1>4 DEF Reserve

LEMMA DepositStep ==
  ASSUME Reservations, Steady, NEW h \in Handlers, Deposit(h)
  PROVE  Reservations'
<1>1. handler[h].pc \in Applying /\ Holding(h)
  BY DEF Deposit, Applying, Holding
<1>2. ChargeOf(h) \in Charges
  BY <1>1, HandlerHasCharge DEF Reservations, Well, TypeOK, ChargeOf
<1>3. /\ handler' \in [Handlers -> HandlerState]
      /\ \A g \in Handlers : Holding(g)' => g # h /\ handler'[g] = handler[g]
  BY DEF Deposit, Finish, Idle, Holding, Reservations, Well, TypeOK, HandlerState
<1>4. \A g \in Handlers : Holding(g)' => /\ Holding(g)
                                         /\ ChargeOf(g)' = ChargeOf(g)
                                         /\ ChargeOf(g) # ChargeOf(h)
  BY <1>1, <1>3 DEF Holding, ChargeOf, Reservations
<1>5. /\ processed' = processed
      /\ ChargeOf(h) \in processed /\ credited[ChargeOf(h)] = 0
      /\ credited' \in [Charges -> Nat]
      /\ credited'[ChargeOf(h)] = 1
      /\ \A c \in Charges : c # ChargeOf(h) => credited'[c] = credited[c]
  BY <1>1, <1>2 DEF Deposit, Reservations, Well, TypeOK
<1>6. \A g \in Handlers : Holding(g)' => ChargeOf(g) \in Charges
  <2> SUFFICES ASSUME NEW g \in Handlers, Holding(g)' PROVE ChargeOf(g) \in Charges
    OBVIOUS
  <2>1. handler[g].pc \in Applying
    BY <1>4 DEF Holding, Applying
  <2> QED
    BY <2>1, HandlerHasCharge DEF Reservations, Well, TypeOK, ChargeOf
<1>7. \A g \in Handlers : Holding(g)' =>
        (ChargeOf(g) \in processed)' /\ (credited[ChargeOf(g)] = 0)'
  BY <1>4, <1>5, <1>6 DEF Reservations
<1>8. \A c \in Charges :
        credited'[c] = 0 \/ (credited'[c] = 1 /\ (c \in processed' \/ Finished(c)'))
  BY <1>5 DEF Reservations, Steady
<1> QED
  BY <1>3, <1>4, <1>5, <1>7, <1>8 DEF Reservations, Steady

LEMMA DepositFailsStep ==
  ASSUME Reservations, Steady, NEW h \in Handlers, DepositFails(h)
  PROVE  Reservations'
<1>1. handler[h].pc \in Applying /\ Holding(h)
  BY DEF DepositFails, Applying, Holding
<1>2. /\ handler' \in [Handlers -> HandlerState]
      /\ handler'[h].charge = handler[h].charge
      /\ \A g \in Handlers \ {h} : handler'[g] = handler[g]
  BY <1>1, GotoKeepsCharge DEF DepositFails, Reservations, Well, TypeOK, Applying
<1>3. \A g \in Handlers : Holding(g)' => Holding(g) /\ ChargeOf(g)' = ChargeOf(g)
  BY <1>1, <1>2 DEF Holding, ChargeOf
<1>4. processed' = processed /\ credited' = credited
  BY DEF DepositFails, tables
<1> QED
  BY <1>2, <1>3, <1>4 DEF Reservations, Steady

(* Only the handler that made a reservation gives it back, and only before *)
(* its charge is credited.                                                 *)
LEMMA UnreserveStep ==
  ASSUME Reservations, Steady, NEW h \in Handlers, Unreserve(h)
  PROVE  Reservations'
<1>1. handler[h].pc \in Applying /\ Holding(h)
  BY DEF Unreserve, Applying, Holding
<1>2. /\ handler' \in [Handlers -> HandlerState]
      /\ handler'[h].pc = "reopen"
      /\ \A g \in Handlers \ {h} : handler'[g] = handler[g]
  BY <1>1, GotoKeepsCharge DEF Unreserve, Reservations, Well, TypeOK, Applying
<1>3. \A g \in Handlers : Holding(g)' => /\ Holding(g)
                                         /\ ChargeOf(g)' = ChargeOf(g)
                                         /\ ChargeOf(g) # ChargeOf(h)
  BY <1>1, <1>2 DEF Holding, ChargeOf, Reservations
<1>4. /\ credited' = credited /\ credited[ChargeOf(h)] = 0
      /\ processed' \subseteq processed
      /\ processed \subseteq processed' \cup {ChargeOf(h)}
  BY <1>1 DEF Unreserve, Reservations
<1>5. \A c \in Charges :
        credited'[c] = 0 \/ (credited'[c] = 1 /\ (c \in processed' \/ Finished(c)'))
  <2> SUFFICES ASSUME NEW c \in Charges, credited'[c] # 0
               PROVE  credited'[c] = 1 /\ (c \in processed' \/ Finished(c)')
    OBVIOUS
  <2>1. credited[c] = 1 /\ c # ChargeOf(h) /\ (c \in processed \/ Finished(c))
    BY <1>4 DEF Reservations
  <2> QED
    BY <1>4, <2>1 DEF Steady
<1> QED
  BY <1>2, <1>3, <1>4, <1>5 DEF Reservations, Steady

-----------------------------------------------------------------------------
LEMMA ContinueStep ==
  ASSUME Reservations, Steady, NEW h \in Handlers, Continue(h)
  PROVE  Reservations'
<1>1. CASE Expire(h)
  BY <1>1, FinishQuiet DEF Expire
<1>2. CASE FindPayment(h)
  <2>1. UNCHANGED <<processed, credited>>
    BY <1>2 DEF FindPayment, tables
  <2>2. CASE Finish(h)
    BY <2>1, <2>2, FinishQuiet
  <2>3. CASE \E c \in Findable(handler[h].reference) :
               handler' = [handler EXCEPT ![h] =
                 [pc |-> "evaluate", charge |-> c, status |-> "COMPLETED"]]
    <3>1. PICK c \in Findable(handler[h].reference) :
            handler' = [handler EXCEPT ![h] =
              [pc |-> "evaluate", charge |-> c, status |-> "COMPLETED"]]
      BY <2>3
    <3> DEFINE s == [pc |-> "evaluate", charge |-> c, status |-> "COMPLETED"]
    <3>2. s \in HandlerState /\ s.pc \notin {"deposit", "unreserve"}
      BY <3>1 DEF Findable, FindApprovedByReference, FindOrder, HandlerState, Response, Applying
    <3> QED
      BY <2>1, <3>1, <3>2, QuietStep
  <2> QED
    BY <1>2, <2>2, <2>3 DEF FindPayment, ScheduleNextCheck
<1>3. CASE Evaluate(h)
  <2>1. handler[h].pc \in Applying /\ UNCHANGED <<processed, credited>>
    BY <1>3 DEF Evaluate, Applying, tables
  <2>2. CASE Finish(h)
    BY <2>1, <2>2, FinishQuiet
  <2>3. CASE Branch(h) # "idle" /\ Goto(h, Branch(h))
    <3>1. Branch(h) \in Applying \ {"deposit", "unreserve"}
      BY <2>3, BranchType DEF Applying
    <3> QED
      BY <2>1, <2>3, <3>1, GotoQuiet
  <2> QED
    BY <1>3, <2>2, <2>3 DEF Evaluate
<1>4. CASE FlagAnomaly(h)
  <2>1. handler[h].pc \in Applying /\ UNCHANGED <<processed, credited>>
    BY <1>4 DEF FlagAnomaly, Applying
  <2> QED
    BY <1>4, <2>1, FinishQuiet, GotoQuiet DEF FlagAnomaly, Applying
<1>5. CASE RaiseRefund(h)
  BY <1>5, FinishQuiet DEF RaiseRefund
<1>6. CASE CloseCycle(h)
  <2>1. handler[h].pc \in Applying /\ UNCHANGED <<processed, credited>>
    BY <1>6 DEF CloseCycle, Applying
  <2>2. PICK pc \in {"bookFailed", "bookSettled"} : Goto(h, pc)
    BY <1>6 DEF CloseCycle
  <2>3. pc \in Applying \ {"deposit", "unreserve"}
    BY DEF Applying
  <2> QED
    BY <2>1, <2>2, <2>3, GotoQuiet
<1>7. CASE WritePaymentRow(h)
  <2>1. handler[h].pc \in Applying /\ UNCHANGED <<processed, credited>>
    BY <1>7 DEF WritePaymentRow, Applying
  <2> QED
    BY <1>7, <2>1, FinishQuiet, GotoQuiet DEF WritePaymentRow, Applying
<1>8. CASE ReopenForRetry(h)
  BY <1>8, FinishQuiet DEF ReopenForRetry
<1>9. CASE AskFails(h)
  BY <1>9, FinishQuiet DEF AskFails, ScheduleNextCheck, tables
<1> QED
  BY <1>1, <1>2, <1>3, <1>4, <1>5, <1>6, <1>7, <1>8, <1>9,
     ReserveStep, DepositStep, DepositFailsStep, UnreserveStep DEF Continue

LEMMA InitReservations == Init => Reservations
<1> SUFFICES ASSUME Init PROVE Reservations
  OBVIOUS
<1>1. \A h \in Handlers : ~Holding(h)
  BY DEF Init, Idle, Holding
<1>2. \A c \in Charges : credited[c] = 0
  BY DEF Init
<1> QED
  BY <1>1, <1>2, InitWell DEF Reservations

(* A purged reservation belongs to a finished cycle.                       *)
LEMMA PurgeStep ==
  ASSUME Reservations, Steady, NEW c \in Charges, Purge(c)
  PROVE  Reservations'
<1>1. UNCHANGED <<handler, credited, charge>> /\ processed' = processed \ {c}
  BY DEF Purge, gateway
<1>2. Finished(c)
  BY DEF Purge, Reservations, Well, Known, Finished, Closed, Settling, WorksOn
<1>3. \A h \in Handlers : Holding(h) => ChargeOf(h) # c
  BY DEF Purge, WorksOn, Holding, CycleOf
<1>4. \A h \in Handlers : /\ Holding(h)' <=> Holding(h)
                          /\ ChargeOf(h)' = ChargeOf(h)
  BY <1>1 DEF Holding, ChargeOf
<1> QED
  BY <1>1, <1>2, <1>3, <1>4 DEF Reservations, Steady

LEMMA NextReservations == Reservations /\ [Next]_vars => Reservations'
<1> SUFFICES ASSUME Reservations, [Next]_vars PROVE Reservations'
  OBVIOUS
<1>0. Steady
  BY NextSteady DEF Reservations
<1>1. CASE UNCHANGED <<handler, processed, credited>>
  BY <1>0, <1>1 DEF Reservations, Steady, Holding, ChargeOf
<1>2. CASE Outside
  <2>1. \/ \E c \in Charges : Purge(c)
        \/ UNCHANGED <<handler, processed, credited>>
    BY <1>2 DEF Outside, Open, AttachProviderRef, DeadlinePasses, PayBegins, PayEnds,
       CaptureOrder, tables
  <2> QED
    BY <1>0, <1>1, <2>1, PurgeStep
<1>3. CASE \E h \in Webhooks, c \in Charges : Receive(h, c)
  <2>1. PICK h \in Webhooks, c \in Charges : Receive(h, c)
    BY <1>3
  <2> DEFINE s == [pc |-> "evaluate", charge |-> c,
                   status |-> IF charge[c].status = "approved" THEN "COMPLETED" ELSE "PENDING"]
  <2>2. h \in Handlers /\ handler' = [handler EXCEPT ![h] = s] /\ UNCHANGED <<processed, credited>>
    BY <2>1 DEF Receive, Notifiable, Confirmation, Handlers, tables
  <2>3. s \in HandlerState /\ s.pc \notin {"deposit", "unreserve"}
    BY DEF HandlerState, Response, Applying
  <2> QED
    BY <1>0, <2>2, <2>3, QuietStep
<1>4. CASE \E h \in Pollers : Poll(h)
  <2>1. PICK h \in Pollers, r \in References : Due(h, r)
    BY <1>4 DEF Poll
  <2> DEFINE s == [pc |-> "due", reference |-> r]
  <2>2. h \in Handlers /\ handler' = [handler EXCEPT ![h] = s] /\ UNCHANGED <<processed, credited>>
    BY <2>1 DEF Due, Handlers, tables
  <2>3. s \in HandlerState /\ s.pc \notin {"deposit", "unreserve"}
    BY DEF HandlerState
  <2> QED
    BY <1>0, <2>2, <2>3, QuietStep
<1>5. ASSUME NEW h \in Handlers, Continue(h) PROVE Reservations'
  BY <1>0, <1>5, ContinueStep
<1>6. ASSUME NEW h \in Handlers, Dies(h) PROVE Reservations'
  BY <1>0, <1>6, FinishQuiet DEF Dies, tables
<1> QED
  BY <1>1, <1>2, <1>3, <1>4, <1>5, <1>6 DEF Next, vars, tables

(* RN-68, however many notifications and polls overlap, whatever fails and *)
(* whenever reservations are purged: no payment is credited twice.         *)
THEOREM CreditSafety == Spec => []CreditedOnce
<1>1. Reservations => CreditedOnce
  BY DEF Reservations, CreditedOnce
<1> QED
  BY <1>1, InitReservations, NextReservations, PTL DEF Spec

-----------------------------------------------------------------------------
(* What the gateway never takes back: an approval, and the amount.         *)
LEMMA ApprovalIsFinal ==
  ASSUME Well, [Next]_vars, NEW c \in Charges, Used(c)
  PROVE  /\ charge'[c].amount = charge[c].amount
         /\ charge[c].status = "approved" => charge'[c].status = "approved"
<1>1. charge[c] \in Payment
  BY UsedIsPayment
<1>2. ASSUME NEW d \in Charges, NEW s, charge' = [charge EXCEPT ![d].status = s],
             charge[d].status = "approved" => s = "approved"
      PROVE  /\ charge'[c].amount = charge[c].amount
             /\ charge[c].status = "approved" => charge'[c].status = "approved"
  BY <1>1, <1>2 DEF Well, TypeOK, Payment
<1>3. CASE UNCHANGED charge
  BY <1>3
<1>4. CASE Outside
  <2>1. ASSUME NEW d \in Charges, NEW r \in References, PayBegins(d, r)
        PROVE  charge'[c] = charge[c]
    BY <2>1 DEF PayBegins, Used
  <2>2. ASSUME NEW d \in Charges, PayEnds(d)
        PROVE  \E s : charge' = [charge EXCEPT ![d].status = s] /\ charge[d].status = "pending"
    BY <2>2 DEF PayEnds
  <2>3. ASSUME NEW d \in Charges, CaptureOrder(d)
        PROVE  charge' = [charge EXCEPT ![d].status = "approved"]
    BY <2>3 DEF CaptureOrder, Captured
  <2> QED
    BY <1>2, <1>3, <1>4, <2>1, <2>2, <2>3
    DEF Outside, Open, AttachProviderRef, DeadlinePasses, Purge, gateway
<1>5. ASSUME NEW h \in Handlers, Continue(h)
      PROVE  UNCHANGED charge \/ \E d \in Charges : charge' = Captured(d)
  <2>1. \/ \E d \in Findable(handler[h].reference) : charge' = Captured(d)
        \/ UNCHANGED charge
    BY <1>5 DEF Continue, Expire, FindPayment, AskFails, Evaluate, FlagAnomaly, RaiseRefund,
       CloseCycle, WritePaymentRow, Reserve, Deposit, DepositFails, Unreserve, ReopenForRetry,
       gateway
  <2> QED
    BY <2>1 DEF Findable, FindApprovedByReference, FindOrder
<1>6. CASE \/ \E h \in Webhooks, d \in Charges : Receive(h, d)
           \/ \E h \in Pollers : Poll(h)
           \/ \E h \in Handlers : Dies(h)
           \/ UNCHANGED vars
  BY <1>3, <1>6 DEF Receive, Poll, Due, Dies, vars, gateway
<1> QED
  BY <1>2, <1>3, <1>4, <1>5, <1>6 DEF Next, Captured

(* How a step moves a handler towards a credit: it comes to hold a positive*)
(* response only of an approved charge, to settle a cycle only with such a *)
(* response that contradicts nothing, and past the reservation only with   *)
(* an amount.                                                              *)
Heeds(h) ==
  \/ handler'[h].pc \notin Applying
  \/ /\ handler'[h].pc = "evaluate"
     /\ handler'[h].charge \in Charges
     /\ handler'[h].status = "COMPLETED" => charge'[handler'[h].charge].status = "approved"
  \/ /\ handler[h].pc \in Applying
     /\ handler'[h].pc # "evaluate"
     /\ handler'[h].charge = handler[h].charge
     /\ Settling(h)' =>
          \/ Settling(h)
          \/ /\ handler[h].pc = "evaluate" /\ handler[h].status = "COMPLETED"
             /\ charge[ChargeOf(h)].amount # "other"
     /\ Holding(h)' => \/ Holding(h)
                       \/ Settling(h) /\ charge[ChargeOf(h)].amount # "missing"

LEMMA SettleIsPositive ==
  ASSUME Well, NEW h \in Handlers, handler[h].pc = "evaluate", Branch(h) = "settle"
  PROVE  handler[h].status = "COMPLETED" /\ charge[ChargeOf(h)].amount # "other"
<1>1. cycle[CycleOf(h)].status = "REQUESTED"
  BY SettleNeedsRequested
<1> QED
  BY <1>1 DEF Branch, Contradicts

LEMMA ContinueHeeds ==
  ASSUME Well, NEW h \in Handlers, Continue(h)
  PROVE  Heeds(h)
<1>1. CASE Finish(h)
  <2>1. handler'[h] = Idle
    BY <1>1 DEF Finish, Well, TypeOK
  <2> QED
    BY <2>1 DEF Heeds, Idle, Applying
<1>2. CASE FindPayment(h) /\ ~Finish(h)
  <2>1. PICK c \in Findable(handler[h].reference) :
          /\ charge' = Captured(c)
          /\ handler' = [handler EXCEPT ![h] =
               [pc |-> "evaluate", charge |-> c, status |-> "COMPLETED"]]
    BY <1>2 DEF FindPayment, ScheduleNextCheck
  <2>2. c \in Charges /\ charge[c] \in Payment
    BY UsedIsPayment DEF Findable, FindApprovedByReference, FindOrder, Used, Unused
  <2>3. charge'[c].status = "approved"
    BY <2>1, <2>2 DEF Captured, Well, TypeOK, Payment
  <2>4. handler'[h] = [pc |-> "evaluate", charge |-> c, status |-> "COMPLETED"]
    BY <2>1 DEF Well, TypeOK
  <2> QED
    BY <2>2, <2>3, <2>4 DEF Heeds
<1>3. ASSUME NEW pc \in Applying \ {"evaluate"}, handler[h].pc \in Applying, Goto(h, pc),
             pc \in {"settle", "bookSettled", "reserve", "deposit", "unreserve", "reopen"} =>
               \/ Settling(h)
               \/ /\ handler[h].pc = "evaluate" /\ handler[h].status = "COMPLETED"
                  /\ charge[ChargeOf(h)].amount # "other",
             pc \in {"deposit", "unreserve"} =>
               \/ Holding(h)
               \/ Settling(h) /\ charge[ChargeOf(h)].amount # "missing"
      PROVE  Heeds(h)
  <2>1. handler'[h].pc = pc /\ handler'[h].charge = handler[h].charge
    BY <1>3, GotoKeepsCharge DEF Well, TypeOK
  <2> QED
    BY <1>3, <2>1 DEF Heeds, Settling, Holding
<1>4. CASE Evaluate(h) /\ ~Finish(h)
  <2>1. handler[h].pc = "evaluate" /\ Goto(h, Branch(h)) /\ Branch(h) # "idle"
    BY <1>4 DEF Evaluate
  <2>2. Branch(h) \in {"flag", "fail", "anomaly", "settle"}
    BY <2>1, BranchType
  <2> QED
    BY <1>3, <2>1, <2>2, SettleIsPositive DEF Applying
<1>5. CASE FlagAnomaly(h) /\ ~Finish(h)
  BY <1>3, <1>5 DEF FlagAnomaly, Applying
<1>6. CASE CloseCycle(h)
  BY <1>3, <1>6 DEF CloseCycle, Applying, Settling
<1>7. CASE WritePaymentRow(h) /\ ~Finish(h)
  BY <1>3, <1>7 DEF WritePaymentRow, Applying, Settling
<1>8. CASE Reserve(h) /\ ~Finish(h)
  BY <1>3, <1>8 DEF Reserve, Applying, Settling
<1>9. CASE DepositFails(h)
  BY <1>3, <1>9 DEF DepositFails, Applying, Settling, Holding
<1>10. CASE Unreserve(h)
  BY <1>3, <1>10 DEF Unreserve, Applying, Settling, Holding
<1> QED
  BY <1>1, <1>2, <1>4, <1>5, <1>6, <1>7, <1>8, <1>9, <1>10
  DEF Continue, Expire, AskFails, ScheduleNextCheck, RaiseRefund, Deposit, ReopenForRetry

LEMMA HandlersHeed ==
  ASSUME Well, [Next]_vars
  PROVE  \A g \in Handlers : handler'[g] = handler[g] \/ Heeds(g)
<1>1. handler \in [Handlers -> HandlerState]
  BY DEF Well, TypeOK
<1>2. CASE Outside \/ UNCHANGED vars
  BY <1>2 DEF Outside, Open, AttachProviderRef, DeadlinePasses, PayBegins, PayEnds,
     CaptureOrder, Purge, vars
<1>3. ASSUME NEW h \in Webhooks, NEW c \in Charges, Receive(h, c)
      PROVE  \A g \in Handlers : handler'[g] = handler[g] \/ Heeds(g)
  <2> DEFINE s == [pc |-> "evaluate", charge |-> c, status |-> Confirmation(c)]
  <2>1. handler' = [handler EXCEPT ![h] = s] /\ h \in Handlers /\ charge' = charge
    BY <1>3 DEF Receive, Handlers, gateway
  <2>2. s.pc = "evaluate" /\ s.charge = c
        /\ (s.status = "COMPLETED" => charge[c].status = "approved")
    BY DEF Confirmation
  <2> HIDE DEF s
  <2>3. handler'[h] = s /\ \A g \in Handlers : g # h => handler'[g] = handler[g]
    BY <1>1, <2>1
  <2> QED
    BY <2>1, <2>2, <2>3 DEF Heeds
<1>4. ASSUME NEW h \in Pollers, NEW r \in References, Due(h, r)
      PROVE  \A g \in Handlers : handler'[g] = handler[g] \/ Heeds(g)
  BY <1>1, <1>4 DEF Due, Heeds, Applying, Handlers
<1>5. ASSUME NEW h \in Handlers, Dies(h)
      PROVE  \A g \in Handlers : handler'[g] = handler[g] \/ Heeds(g)
  BY <1>1, <1>5 DEF Dies, Finish, Idle, Heeds, Applying
<1>6. ASSUME NEW h \in Handlers, Continue(h)
      PROVE  \A g \in Handlers : handler'[g] = handler[g] \/ Heeds(g)
  BY <1>6, ContinueHeeds, ContinueMoves DEF Moves
<1> QED
  BY <1>2, <1>3, <1>4, <1>5, <1>6 DEF Next, Poll

(* What makes a wrong credit impossible: a positive response is about an   *)
(* approved charge, a handler that settles has one that does not           *)
(* contradict the request, and one that reserved has an amount.            *)
Positive ==
  /\ \A h \in Handlers : handler[h].pc = "evaluate" /\ handler[h].status = "COMPLETED" =>
       charge[ChargeOf(h)].status = "approved"
  /\ \A h \in Handlers : Settling(h) =>
       charge[ChargeOf(h)].status = "approved" /\ charge[ChargeOf(h)].amount # "other"
  /\ \A h \in Handlers : Holding(h) => charge[ChargeOf(h)].amount = "asked"
  /\ CreditedAsAsked

LEMMA NextPositive == Well /\ Positive /\ [Next]_vars => Positive'
<1> SUFFICES ASSUME Well, Positive, [Next]_vars PROVE Positive'
  OBVIOUS
<1>1. ASSUME NEW h \in Handlers, handler[h].pc \in Applying
      PROVE  /\ ChargeOf(h) \in Charges /\ Used(ChargeOf(h))
             /\ charge'[ChargeOf(h)].amount = charge[ChargeOf(h)].amount
             /\ charge[ChargeOf(h)].status = "approved" =>
                  charge'[ChargeOf(h)].status = "approved"
             /\ charge[ChargeOf(h)].amount \in {"asked", "other", "missing"}
  BY <1>1, WorkIsKnown, ApprovalIsFinal, UsedIsPayment, PaymentsAssumption DEF Payment
<1>2. \A h \in Handlers : handler'[h] = handler[h] \/ Heeds(h)
  BY HandlersHeed
<1>3. \A h \in Handlers : /\ handler[h].pc = "evaluate" => handler[h].pc \in Applying
                          /\ Settling(h) => handler[h].pc \in Applying
                          /\ Holding(h) => Settling(h)
                          /\ Settling(h)' => handler'[h].pc \in Applying
                          /\ Holding(h)' => Settling(h)'
  BY DEF Settling, Holding, Applying
<1>4. ASSUME NEW h \in Handlers, handler'[h].pc = "evaluate", handler'[h].status = "COMPLETED"
      PROVE  charge'[handler'[h].charge].status = "approved"
  <2>1. CASE handler'[h] = handler[h]
    BY <1>1, <1>3, <1>4, <2>1 DEF Positive, ChargeOf
  <2>2. CASE Heeds(h)
    BY <1>4, <2>2 DEF Heeds, Applying
  <2> QED
    BY <1>2, <2>1, <2>2
<1>5. ASSUME NEW h \in Handlers, Settling(h)'
      PROVE  /\ charge'[handler'[h].charge].status = "approved"
             /\ charge'[handler'[h].charge].amount # "other"
  <2>1. CASE handler'[h] = handler[h]
    <3>1. Settling(h)
      BY <1>5, <2>1 DEF Settling
    <3> QED
      BY <1>1, <1>3, <2>1, <3>1 DEF Positive, ChargeOf
  <2>2. CASE Heeds(h)
    <3>1. /\ handler[h].pc \in Applying /\ handler'[h].charge = handler[h].charge
          /\ \/ Settling(h)
             \/ /\ handler[h].pc = "evaluate" /\ handler[h].status = "COMPLETED"
                /\ charge[ChargeOf(h)].amount # "other"
      BY <1>3, <1>5, <2>2 DEF Heeds, Settling
    <3> QED
      BY <1>1, <3>1 DEF Positive, ChargeOf
  <2> QED
    BY <1>2, <2>1, <2>2
<1>6. ASSUME NEW h \in Handlers, Holding(h)'
      PROVE  charge'[handler'[h].charge].amount = "asked"
  <2>1. CASE handler'[h] = handler[h]
    <3>1. Holding(h)
      BY <1>6, <2>1 DEF Holding
    <3> QED
      BY <1>1, <1>3, <2>1, <3>1 DEF Positive, ChargeOf
  <2>2. CASE Heeds(h)
    <3>1. /\ handler[h].pc \in Applying /\ handler'[h].charge = handler[h].charge
          /\ Holding(h) \/ (Settling(h) /\ charge[ChargeOf(h)].amount # "missing")
      BY <1>3, <1>6, <2>2 DEF Heeds, Holding
    <3>2. charge[ChargeOf(h)].amount = "asked"
      BY <1>1, <3>1 DEF Positive
    <3> QED
      BY <1>1, <3>1, <3>2 DEF ChargeOf
  <2> QED
    BY <1>2, <2>1, <2>2
<1>7. CreditedAsAsked'
  <2> SUFFICES ASSUME NEW c \in Charges, credited'[c] > 0
               PROVE  charge'[c].status = "approved" /\ charge'[c].amount = "asked"
    BY DEF CreditedAsAsked
  <2>1. CASE credited[c] > 0
    <3>1. charge[c].status = "approved" /\ charge[c].amount = "asked"
      BY <2>1 DEF Positive, CreditedAsAsked
    <3> QED
      BY <3>1, ApprovalIsFinal DEF Used, Unused
  <2>2. CASE \E h \in Handlers : Deposit(h) /\ ChargeOf(h) = c
    <3>1. PICK h \in Handlers : Deposit(h) /\ ChargeOf(h) = c
      BY <2>2
    <3>2. Holding(h) /\ charge' = charge
      BY <3>1 DEF Deposit, Holding, gateway
    <3> QED
      BY <1>3, <3>1, <3>2 DEF Positive
  <2>3. \/ \E h \in Handlers : Deposit(h)
        \/ UNCHANGED credited
    <3>1. Outside => UNCHANGED credited
      BY DEF Outside, Open, AttachProviderRef, DeadlinePasses, PayBegins, PayEnds,
         CaptureOrder, Purge, tables
    <3>2. \A h \in Handlers : Continue(h) => Deposit(h) \/ UNCHANGED credited
      BY DEF Continue, Expire, FindPayment, AskFails, Evaluate, FlagAnomaly, RaiseRefund,
         CloseCycle, WritePaymentRow, Reserve, DepositFails, Unreserve, ReopenForRetry, tables
    <3> QED
      BY <3>1, <3>2 DEF Next, Receive, Poll, Due, Dies, vars, tables
  <2>4. CASE \E h \in Handlers : Deposit(h) /\ ChargeOf(h) # c
    <3>1. credited'[c] = credited[c]
      BY <2>4 DEF Deposit, Well, TypeOK
    <3> QED
      BY <2>1, <3>1
  <2> QED
    BY <2>1, <2>2, <2>3, <2>4
<1> QED
  BY <1>4, <1>5, <1>6, <1>7 DEF Positive, ChargeOf

(* RN-74, whatever is notified, polled, retried or lost: money is credited *)
(* only for a charge the gateway approved, and of the amount asked for.    *)
THEOREM CreditMatches == Spec => []CreditedAsAsked
<1>1. Init => Positive
  BY DEF Init, Positive, CreditedAsAsked, Settling, Holding, Idle
<1>2. Spec => []Well
  BY InitWell, NextWell, PTL DEF Spec
<1>3. Positive => CreditedAsAsked
  BY DEF Positive
<1> QED
  BY <1>1, <1>2, <1>3, NextPositive, PTL DEF Spec

-----------------------------------------------------------------------------
(* A handler that closed a cycle as settled and has not finished.          *)
Crediting(h) ==
  handler[h].pc \in {"bookSettled", "reserve", "deposit", "unreserve", "reopen"}

(* The money of a charge is credited, on its way, or of an amount nobody   *)
(* knows.                                                                  *)
Covered(c) ==
  \/ credited[c] = 1
  \/ charge[c].amount = "missing"
  \/ \E h \in Handlers : Crediting(h) /\ ChargeOf(h) = c

(* While no handler has died: a settled cycle names a charge of its own    *)
(* that is covered, and a reserved charge is credited or held by the       *)
(* handler that reserved it.                                               *)
Covers ==
  /\ \A r \in References : cycle[r].status = "SETTLED" =>
       /\ cycle[r].canonical \in Charges
       /\ Used(cycle[r].canonical)
       /\ charge[cycle[r].canonical].reference = r
  /\ crashes = 0 =>
       /\ \A r \in References : cycle[r].status = "SETTLED" => Covered(cycle[r].canonical)
       /\ \A c \in processed :
            credited[c] = 1 \/ \E h \in Handlers : Holding(h) /\ ChargeOf(h) = c

(* Which cycles are settled after a step: one that was, under the same     *)
(* charge, and not reopened, or the one a handler closes.                  *)
LEMMA SettledStep ==
  ASSUME Well, [Next]_vars, NEW r \in References, cycle'[r].status = "SETTLED"
  PROVE  \/ /\ cycle[r].status = "SETTLED" /\ cycle'[r].canonical = cycle[r].canonical
            /\ \A h \in Handlers : ReopenForRetry(h) => CycleOf(h) # r
         \/ \E h \in Handlers : /\ CloseCycle(h) /\ handler[h].pc = "settle"
                                /\ CycleOf(h) = r /\ cycle'[r].canonical = ChargeOf(h)
<1> DEFINE Kept == cycle[r].status = "SETTLED" /\ cycle'[r].canonical = cycle[r].canonical
<1>0. cycle \in [References -> {NoCycle} \cup CycleRow]
  BY DEF Well, TypeOK, CycleRow
<1>1. ASSUME NEW h \in Handlers, ReopenForRetry(h)
      PROVE  CycleOf(h) # r /\ Kept
  BY <1>0, <1>1, WorkIsKnown DEF ReopenForRetry, Applying, CycleRow
<1>2. CASE UNCHANGED cycle
  BY <1>1, <1>2
<1>3. ASSUME NEW q \in References, NEW s, cycle' = [cycle EXCEPT ![q].status = s], s # "SETTLED"
      PROVE  Kept
  BY <1>0, <1>3 DEF CycleRow, NoCycle
<1>4. CASE Outside
  <2>1. ASSUME NEW q \in References, NEW p \in Providers, Open(q, p)
        PROVE  Kept
    BY <1>0, <2>1 DEF Open, NoCycle
  <2>2. ASSUME NEW q \in References, AttachProviderRef(q)
        PROVE  Kept
    BY <1>0, <2>2 DEF AttachProviderRef, NoCycle, CycleRow
  <2> QED
    BY <1>1, <1>2, <1>4, <2>1, <2>2
    DEF Outside, DeadlinePasses, PayBegins, PayEnds, CaptureOrder, Purge, tables
<1>5. ASSUME NEW h \in Handlers, Expire(h)
      PROVE  Kept
  BY <1>3, <1>5, DueIsKnown DEF Expire
<1>6. ASSUME NEW h \in Handlers, FlagAnomaly(h)
      PROVE  Kept
  BY <1>3, <1>6, WorkIsKnown DEF FlagAnomaly, Applying
<1>7. ASSUME NEW h \in Handlers, CloseCycle(h), ~Kept
      PROVE  handler[h].pc = "settle" /\ CycleOf(h) = r /\ cycle'[r].canonical = ChargeOf(h)
  BY <1>0, <1>7, WorkIsKnown DEF CloseCycle, Applying, CycleRow, NoCycle
<1>8. ASSUME NEW h \in Handlers, Continue(h)
      PROVE  \/ Expire(h) \/ FlagAnomaly(h) \/ CloseCycle(h) \/ ReopenForRetry(h)
             \/ UNCHANGED cycle
  BY <1>8 DEF Continue, FindPayment, AskFails, Evaluate, RaiseRefund, WritePaymentRow,
     Reserve, Deposit, DepositFails, Unreserve, tables
<1>9. CASE \/ \E h \in Webhooks, c \in Charges : Receive(h, c)
           \/ \E h \in Pollers : Poll(h)
           \/ \E h \in Handlers : Dies(h)
           \/ UNCHANGED vars
  <2>1. UNCHANGED cycle
    BY <1>9 DEF Receive, Poll, Due, Dies, vars, tables
  <2> QED
    BY <2>1, <1>2
<1> QED
  BY <1>1, <1>2, <1>4, <1>5, <1>6, <1>7, <1>8, <1>9 DEF Next

(* How a handler that is crediting leaves: it credits the charge, it finds *)
(* no amount or the charge reserved, or it opens the cycle again.          *)
LEMMA CreditingStep ==
  ASSUME Well, [Next]_vars, NEW h \in Handlers, Crediting(h), crashes' = 0
  PROVE  \/ Crediting(h)' /\ handler'[h].charge = handler[h].charge
         \/ Deposit(h)
         \/ ReopenForRetry(h)
         \/ charge[ChargeOf(h)].amount = "missing"
         \/ /\ Reserve(h) /\ ChargeOf(h) \in processed
<1>1. handler \in [Handlers -> HandlerState] /\ handler[h].pc \in Applying
      /\ crashes \in Nat
  BY PaymentsAssumption DEF Well, TypeOK, Crediting, Applying
<1>2. ASSUME handler'[h] = handler[h]
      PROVE  Crediting(h)' /\ handler'[h].charge = handler[h].charge
  BY <1>2 DEF Crediting
<1>3. ASSUME NEW pc \in {"reserve", "deposit", "unreserve", "reopen"}, Goto(h, pc)
      PROVE  Crediting(h)' /\ handler'[h].charge = handler[h].charge
  BY <1>1, <1>3, GotoKeepsCharge DEF Crediting, Applying
<1>4. CASE Outside \/ UNCHANGED vars
  <2>1. UNCHANGED handler
    BY <1>4 DEF Outside, Open, AttachProviderRef, DeadlinePasses, PayBegins, PayEnds,
       CaptureOrder, Purge, vars
  <2> QED
    BY <1>2, <2>1
<1>5. ASSUME NEW g \in Handlers, Dies(g)
      PROVE  FALSE
  BY <1>1, <1>5 DEF Dies
<1>6. CASE \E g \in Webhooks, c \in Charges : Receive(g, c)
  <2>1. PICK g \in Webhooks, c \in Charges : Receive(g, c)
    BY <1>6
  <2>2. g # h
    BY <2>1 DEF Receive, Idle, Crediting
  <2> QED
    BY <1>1, <1>2, <2>1, <2>2 DEF Receive
<1>7. CASE \E g \in Pollers : Poll(g)
  <2>1. PICK g \in Pollers, r \in References : Due(g, r)
    BY <1>7 DEF Poll
  <2>2. g # h
    BY <2>1 DEF Due, Idle, Crediting
  <2> QED
    BY <1>1, <1>2, <2>1, <2>2 DEF Due
<1>8. ASSUME NEW g \in Handlers, g # h, Continue(g)
      PROVE  handler'[h] = handler[h]
  BY <1>8, ContinueMoves DEF Moves
<1>9. CASE Continue(h)
  <2>1. CASE WritePaymentRow(h)
    BY <1>3, <2>1 DEF WritePaymentRow, Crediting
  <2>2. CASE Reserve(h)
    BY <1>3, <2>2 DEF Reserve
  <2>3. CASE DepositFails(h)
    BY <1>3, <2>3 DEF DepositFails
  <2>4. CASE Unreserve(h)
    BY <1>3, <2>4 DEF Unreserve
  <2> QED
    BY <1>9, <2>1, <2>2, <2>3, <2>4
    DEF Continue, Crediting, Expire, FindPayment, AskFails, Evaluate, FlagAnomaly, RaiseRefund,
        CloseCycle
<1> QED
  BY <1>2, <1>4, <1>5, <1>6, <1>7, <1>8, <1>9 DEF Next

(* What one step does to a credit, and to a reservation while no handler   *)
(* has died.                                                               *)
LEMMA CreditStays ==
  ASSUME Reservations, [Next]_vars, NEW c \in Charges, credited[c] = 1
  PROVE  credited'[c] = 1
<1>1. Reservations'
  BY NextReservations
<1>2. \/ UNCHANGED credited
      \/ \E h \in Handlers : Deposit(h)
  <2>1. Outside => UNCHANGED credited
    BY DEF Outside, Open, AttachProviderRef, DeadlinePasses, PayBegins, PayEnds,
       CaptureOrder, Purge, tables
  <2>2. \A h \in Handlers : Continue(h) => Deposit(h) \/ UNCHANGED credited
    BY DEF Continue, Expire, FindPayment, AskFails, Evaluate, FlagAnomaly, RaiseRefund,
       CloseCycle, WritePaymentRow, Reserve, DepositFails, Unreserve, ReopenForRetry, tables
  <2> QED
    BY <2>1, <2>2 DEF Next, Receive, Poll, Due, Dies, vars, tables
<1>3. ASSUME NEW h \in Handlers, Deposit(h)
      PROVE  credited'[c] \in {1, 2}
  BY <1>3 DEF Deposit, Reservations, Well, TypeOK
<1> QED
  BY <1>1, <1>2, <1>3 DEF Reservations

LEMMA ProcessedStep ==
  ASSUME Reservations, [Next]_vars, crashes' = 0, NEW c \in processed'
  PROVE  \/ /\ c \in processed
            /\ \A h \in Handlers : Unreserve(h) => ChargeOf(h) # c
         \/ \E h \in Handlers : Holding(h)' /\ handler'[h].charge = c
<1>1. Well /\ crashes \in Nat
  BY PaymentsAssumption DEF Reservations, Well, TypeOK
<1>2. ASSUME NEW h \in Handlers, Unreserve(h)
      PROVE  processed' = processed \ {ChargeOf(h)}
  BY <1>1, <1>2 DEF Unreserve
<1>3. ASSUME NEW h \in Handlers, Reserve(h), c \notin processed
      PROVE  Holding(h)' /\ handler'[h].charge = c
  <2>1. handler[h].pc \in Applying /\ Goto(h, "deposit") /\ c = ChargeOf(h)
    BY <1>3 DEF Reserve, Applying
  <2> QED
    BY <1>1, <2>1, GotoKeepsCharge DEF Holding, Applying, ChargeOf, Well, TypeOK
<1>4. \/ c \in processed
      \/ \E h \in Handlers : Reserve(h) /\ c \notin processed
  <2>1. Outside => processed' \subseteq processed
    BY DEF Outside, Open, AttachProviderRef, DeadlinePasses, PayBegins, PayEnds,
       CaptureOrder, Purge, tables
  <2>2. \A h \in Handlers : Continue(h) => Reserve(h) \/ processed' \subseteq processed
    BY DEF Continue, Expire, FindPayment, AskFails, Evaluate, FlagAnomaly, RaiseRefund,
       CloseCycle, WritePaymentRow, Deposit, DepositFails, Unreserve, ReopenForRetry, tables
  <2> QED
    BY <2>1, <2>2 DEF Next, Receive, Poll, Due, Dies, vars, tables
<1> QED
  BY <1>2, <1>3, <1>4

LEMMA HoldingStep ==
  ASSUME Well, [Next]_vars, NEW h \in Handlers, Holding(h), crashes' = 0
  PROVE  \/ Holding(h)' /\ handler'[h].charge = handler[h].charge
         \/ Deposit(h) \/ Unreserve(h)
<1>1. handler \in [Handlers -> HandlerState] /\ handler[h].pc \in Applying
      /\ crashes \in Nat
  BY PaymentsAssumption DEF Well, TypeOK, Holding, Applying
<1>2. ASSUME handler'[h] = handler[h]
      PROVE  Holding(h)' /\ handler'[h].charge = handler[h].charge
  BY <1>2 DEF Holding
<1>3. CASE DepositFails(h)
  BY <1>1, <1>3, GotoKeepsCharge DEF DepositFails, Holding, Applying
<1>4. CASE Outside \/ UNCHANGED vars
  <2>1. UNCHANGED handler
    BY <1>4 DEF Outside, Open, AttachProviderRef, DeadlinePasses, PayBegins, PayEnds,
       CaptureOrder, Purge, vars
  <2> QED
    BY <1>2, <2>1
<1>5. ASSUME NEW g \in Handlers, Dies(g)
      PROVE  FALSE
  BY <1>1, <1>5 DEF Dies
<1>6. CASE \E g \in Webhooks, c \in Charges : Receive(g, c)
  <2>1. PICK g \in Webhooks, c \in Charges : Receive(g, c)
    BY <1>6
  <2>2. g # h
    BY <2>1 DEF Receive, Idle, Holding
  <2> QED
    BY <1>1, <1>2, <2>1, <2>2 DEF Receive
<1>7. CASE \E g \in Pollers : Poll(g)
  <2>1. PICK g \in Pollers, r \in References : Due(g, r)
    BY <1>7 DEF Poll
  <2>2. g # h
    BY <2>1 DEF Due, Idle, Holding
  <2> QED
    BY <1>1, <1>2, <2>1, <2>2 DEF Due
<1>8. ASSUME NEW g \in Handlers, g # h, Continue(g)
      PROVE  handler'[h] = handler[h]
  BY <1>8, ContinueMoves DEF Moves
<1>9. CASE Continue(h)
  BY <1>3, <1>9
  DEF Continue, Holding, Expire, FindPayment, AskFails, Evaluate, FlagAnomaly, RaiseRefund,
      CloseCycle, WritePaymentRow, Reserve, ReopenForRetry
<1> QED
  BY <1>2, <1>4, <1>5, <1>6, <1>7, <1>8, <1>9 DEF Next

LEMMA CrashesCounted ==
  ASSUME Well, [Next]_vars, crashes' = 0
  PROVE  crashes = 0
<1>1. crashes \in Nat
  BY PaymentsAssumption DEF Well, TypeOK
<1>2. UNCHANGED crashes \/ crashes' = crashes + 1
  <2>1. Outside => UNCHANGED crashes \/ crashes' = crashes + 1
    BY DEF Outside, Open, AttachProviderRef, DeadlinePasses, PayBegins, PayEnds,
       CaptureOrder, Purge
  <2>2. \A h \in Handlers : Continue(h) => UNCHANGED crashes \/ crashes' = crashes + 1
    BY DEF Continue, Expire, FindPayment, AskFails, Evaluate, FlagAnomaly, RaiseRefund, CloseCycle,
       WritePaymentRow, Reserve, Deposit, DepositFails, Unreserve, ReopenForRetry
  <2> QED
    BY <2>1, <2>2 DEF Next, Receive, Poll, Due, Dies, vars
<1> QED
  BY <1>1, <1>2

LEMMA NextCovers == Reservations /\ Covers /\ [Next]_vars => Covers'
<1> SUFFICES ASSUME Reservations, Covers, [Next]_vars PROVE Covers'
  OBVIOUS
<1>0. Well
  BY DEF Reservations
<1>1. ASSUME NEW r \in References, cycle'[r].status = "SETTLED"
      PROVE  \E c \in Charges : /\ cycle'[r].canonical = c
                                /\ charge'[c] # Unused
                                /\ charge'[c].reference = r
  <2>1. PICK c \in Charges : cycle'[r].canonical = c /\ Used(c) /\ charge[c].reference = r
    <3>1. CASE cycle[r].status = "SETTLED" /\ cycle'[r].canonical = cycle[r].canonical
      BY <3>1 DEF Covers
    <3>2. ASSUME NEW h \in Handlers, handler[h].pc = "settle", CycleOf(h) = r,
                 cycle'[r].canonical = ChargeOf(h)
          PROVE  /\ ChargeOf(h) \in Charges
                 /\ Used(ChargeOf(h))
                 /\ charge[ChargeOf(h)].reference = r
      <4>1. handler[h].pc \in Applying
        BY <3>2 DEF Applying
      <4> QED
        BY <1>0, <3>2, <4>1, WorkIsKnown DEF CycleOf
    <3> QED
      BY <1>0, <1>1, <3>1, <3>2, SettledStep
  <2>2. charge'[c] # Unused /\ charge'[c].reference = r
    BY <1>0, <2>1, ChargeStep DEF Used
  <2> QED
    BY <2>1, <2>2
<1>3. ASSUME crashes' = 0, NEW c \in Charges, Used(c), Covered(c),
             \A h \in Handlers : ReopenForRetry(h) => CycleOf(h) # charge[c].reference
      PROVE  Covered(c)'
  <2>0. crashes = 0
    BY <1>0, <1>3, CrashesCounted
  <2>1. CASE credited[c] = 1
    BY <2>1, CreditStays DEF Covered
  <2>2. CASE charge[c].amount = "missing"
    BY <1>0, <1>3, <2>2, ApprovalIsFinal DEF Covered
  <2>3. ASSUME NEW h \in Handlers, Crediting(h), ChargeOf(h) = c
        PROVE  Covered(c)'
    <3>1. CASE Crediting(h)' /\ handler'[h].charge = handler[h].charge
      BY <2>3, <3>1 DEF Covered, ChargeOf
    <3>2. CASE Deposit(h)
      <4>1. Holding(h) /\ credited \in [Charges -> Nat]
        BY <3>2, <1>0 DEF Deposit, Holding, Well, TypeOK
      <4>2. credited[c] = 0
        BY <2>3, <4>1 DEF Reservations
      <4>3. credited'[c] = 1
        BY <2>3, <3>2, <4>1, <4>2 DEF Deposit
      <4> QED
        BY <4>3 DEF Covered
    <3>3. CASE ReopenForRetry(h)
      BY <1>3, <2>3, <3>3 DEF CycleOf
    <3>4. CASE Reserve(h) /\ c \in processed
      <4>1. CASE credited[c] = 1
        BY <2>1, <4>1
      <4>2. ASSUME NEW g \in Handlers, Holding(g), ChargeOf(g) = c
            PROVE  Covered(c)'
        <5>1. g # h /\ handler'[g] = handler[g]
          BY <1>0, <3>4, <4>2, ContinueMoves DEF Reserve, Holding, Continue, Moves
        <5> QED
          BY <4>2, <5>1 DEF Covered, Crediting, Holding, ChargeOf
      <4> QED
        BY <2>0, <3>4, <4>1, <4>2 DEF Covers
    <3> QED
      BY <1>0, <1>3, <2>2, <2>3, <3>1, <3>2, <3>3, <3>4, CreditingStep
  <2> QED
    BY <1>3, <2>1, <2>2, <2>3 DEF Covered
<1>4. ASSUME crashes' = 0, NEW r \in References, cycle'[r].status = "SETTLED",
             NEW c \in Charges, c = cycle'[r].canonical
      PROVE  Covered(c)'
  <2>0. crashes = 0
    BY <1>0, <1>4, CrashesCounted
  <2>1. CASE /\ cycle[r].status = "SETTLED" /\ cycle'[r].canonical = cycle[r].canonical
             /\ \A h \in Handlers : ReopenForRetry(h) => CycleOf(h) # r
    <3>1. Used(c) /\ charge[c].reference = r /\ Covered(c)
      BY <1>4, <2>0, <2>1 DEF Covers
    <3> QED
      BY <1>3, <1>4, <2>1, <3>1
  <2>2. ASSUME NEW h \in Handlers, CloseCycle(h), handler[h].pc = "settle",
               cycle'[r].canonical = ChargeOf(h)
        PROVE  Covered(c)'
    <3>1. handler[h].pc \in Applying /\ Goto(h, "bookSettled")
      BY <2>2 DEF CloseCycle, Applying
    <3>2. Crediting(h)' /\ handler'[h].charge = c
      BY <1>0, <1>4, <2>2, <3>1, GotoKeepsCharge DEF Crediting, Applying, ChargeOf, Well, TypeOK
    <3> QED
      BY <3>2 DEF Covered, ChargeOf
  <2> QED
    BY <1>0, <1>4, <2>1, <2>2, SettledStep
<1>5. ASSUME crashes' = 0, NEW c \in processed'
      PROVE  credited'[c] = 1 \/ \E h \in Handlers : Holding(h)' /\ handler'[h].charge = c
  <2>0. crashes = 0 /\ processed \subseteq Charges
    BY <1>0, <1>5, CrashesCounted DEF Well, TypeOK
  <2>1. CASE c \in processed /\ \A h \in Handlers : Unreserve(h) => ChargeOf(h) # c
    <3>1. CASE credited[c] = 1
      BY <2>0, <2>1, <3>1, CreditStays
    <3>2. ASSUME NEW h \in Handlers, Holding(h), ChargeOf(h) = c
          PROVE  credited'[c] = 1 \/ (Holding(h)' /\ handler'[h].charge = c)
      <4>1. CASE Deposit(h)
        <5>1. credited[c] = 0 /\ credited \in [Charges -> Nat]
          BY <1>0, <3>2 DEF Reservations, Well, TypeOK
        <5> QED
          BY <2>0, <2>1, <3>2, <4>1, <5>1 DEF Deposit
      <4> QED
        BY <1>0, <1>5, <2>1, <3>2, <4>1, HoldingStep DEF ChargeOf
    <3> QED
      BY <2>0, <2>1, <3>1, <3>2 DEF Covers
  <2> QED
    BY <1>5, <2>1, ProcessedStep
<1>6. ASSUME NEW r \in References, cycle'[r].status = "SETTLED", crashes' = 0
      PROVE  Covered(cycle[r].canonical)'
  <2>1. PICK c \in Charges : cycle'[r].canonical = c
    BY <1>1, <1>6
  <2>2. Covered(c)'
    BY <1>4, <1>6, <2>1
  <2> QED
    BY <2>1, <2>2 DEF Covered
<1>7. ASSUME crashes' = 0, NEW c \in processed'
      PROVE  (credited[c] = 1)' \/ \E h \in Handlers : Holding(h)' /\ (ChargeOf(h) = c)'
  BY <1>5, <1>7 DEF ChargeOf
<1> QED
  BY <1>1, <1>6, <1>7 DEF Covers, Used

(* A settled cycle means the money arrived (PT-087 F-09): however deposits *)
(* fail and handlers race, its charge is credited or still in the hands of *)
(* a handler, as long as none has died.                                    *)
THEOREM SettledMeansCredited == Spec => []SettledIsCredited
<1>1. Init => Covers
  BY DEF Init, Covers, NoCycle
<1>2. Spec => []Reservations
  BY InitReservations, NextReservations, PTL DEF Spec
<1>3. Covers => SettledIsCredited
  BY DEF Covers, SettledIsCredited, Covered, Crediting, Idle
<1> QED
  BY <1>1, <1>2, <1>3, NextCovers, PTL DEF Spec
=============================================================================
