------------------------------ MODULE Payments ------------------------------
(***************************************************************************)
(* Deposits through a payment gateway: the cycle of PaymentCycleService    *)
(* (request, confirmation, persistence), the crediting of PaymentsService  *)
(* behind its reservation, and the polling of PaymentReconciliation, over  *)
(* the tables payment_cycles, payments, processed_webhook_events and       *)
(* refund_requests.                                                        *)
(*                                                                         *)
(* A notification and a poll both end in applyProviderResult, a chain of   *)
(* separate statements with no transaction and no lock: each is a step.    *)
(* Of an amount only its agreement with the request matters.  The gateway  *)
(* is external: what it may do is taken from what the adapters read of it. *)
(***************************************************************************)
EXTENDS Naturals, FiniteSets

CONSTANTS
  References,   \* deposits: DEP-<userId>-<timestamp>
  Charges,      \* payment ids the gateway may give
  Providers,    \* gateways in use, of the four that have an adapter
  Webhooks,     \* deliveries of notifications that may overlap
  Pollers,      \* API instances that run reconcilePending
  AmountKinds,  \* how a charge's amount compares with the request
  NoCharge,
  MaxRefunds,   \* bound: notifications of a charge with as many stop
  MaxFailures,  \* bound: deposits that fail, gateways that do not answer
  MaxCrashes    \* bound: handlers that die, statements that fail

ASSUME PaymentsAssumption ==
  /\ Providers \subseteq {"MERCADO_PAGO", "PAYPAL", "STRIPE", "HEY_BANCO"}
  /\ AmountKinds \subseteq {"asked", "other", "missing"}
  /\ NoCharge \notin Charges
  /\ Webhooks \cap Pollers = {}
  /\ {MaxRefunds, MaxFailures, MaxCrashes} \subseteq Nat

VARIABLES
  cycle,      \* table payment_cycles, one row per reference
  row,        \* table payments: the accounting row of a reference
  processed,  \* table processed_webhook_events: reserved payment ids
  credited,   \* how often the wallet was credited for a charge
  refunds,    \* table refund_requests: those raised for a charge
  charge,     \* the gateway: what it did with each payment id
  past,       \* references older than PAYMENT_EXPIRATION_HOURS
  handler,    \* per delivery and poller: where it is
  failures, crashes

tables == <<cycle, row, processed, credited, refunds>>
gateway == <<charge, past>>
vars == <<tables, gateway, handler, failures, crashes>>

CycleStatus == {"REQUESTED", "SETTLED", "FAILED", "EXPIRED", "ANOMALY"}

Handlers == Webhooks \cup Pollers
Idle == [pc |-> "idle"]

NoCycle == [status |-> "none", provider |-> "none", canonical |-> NoCharge,
            linked |-> FALSE, noted |-> FALSE]
NoRow == [status |-> "none", charge |-> NoCharge]
Unused == [status |-> "none", reference |-> "none", amount |-> "none"]

Init ==
  /\ cycle = [r \in References |-> NoCycle]
  /\ row = [r \in References |-> NoRow]
  /\ processed = {}
  /\ credited = [c \in Charges |-> 0]
  /\ refunds = [c \in Charges |-> 0]
  /\ charge = [c \in Charges |-> Unused]
  /\ past = {}
  /\ handler = [h \in Handlers |-> Idle]
  /\ failures = 0
  /\ crashes = 0

-----------------------------------------------------------------------------
(* initiatePayment: the cycle is opened before the gateway is spoken to.   *)
Open(r, p) ==
  /\ cycle[r] = NoCycle
  /\ cycle' = [cycle EXCEPT ![r] = [NoCycle EXCEPT !.status = "REQUESTED", !.provider = p]]
  /\ UNCHANGED <<row, processed, credited, refunds, gateway, handler, failures, crashes>>

(* createPayment answered: its id is noted, or noting it fails and the     *)
(* failure is swallowed; then the user gets the link.                      *)
AttachProviderRef(r) ==
  /\ cycle[r].status # "none"
  /\ ~cycle[r].linked
  /\ \/ /\ cycle' = [cycle EXCEPT ![r].linked = TRUE, ![r].noted = TRUE]
        /\ UNCHANGED crashes
     \/ /\ crashes < MaxCrashes
        /\ crashes' = crashes + 1
        /\ cycle' = [cycle EXCEPT ![r].linked = TRUE]
  /\ UNCHANGED <<row, processed, credited, refunds, gateway, handler, failures>>

(* createPayment makes one order or session, whose link is paid once; only *)
(* a link of Mercado Pago may be paid more than once.                      *)
PayBegins(c, r) ==
  /\ charge[c] = Unused
  /\ cycle[r].linked
  /\ cycle[r].provider # "MERCADO_PAGO" => \A d \in Charges : charge[d].reference # r
  /\ \E a \in AmountKinds :
       charge' = [charge EXCEPT ![c] = [status |-> "pending", reference |-> r, amount |-> a]]
  /\ UNCHANGED <<tables, past, handler, failures, crashes>>

ProviderOf(c) == cycle[charge[c].reference].provider

(* The buyer's part ends: the gateway has the money, while a PayPal order  *)
(* he approved has still to be captured.                                   *)
PayEnds(c) ==
  /\ charge[c].status = "pending"
  /\ \E end \in {IF ProviderOf(c) = "PAYPAL" THEN "authorized" ELSE "approved", "rejected"} :
       charge' = [charge EXCEPT ![c].status = end]
  /\ UNCHANGED <<tables, past, handler, failures, crashes>>

(* The order is captured, by a notification or by the poll.                *)
Captured(c) == [charge EXCEPT ![c].status = "approved"]

(* CHECKOUT.ORDER.APPROVED: the order is captured and nothing is applied;  *)
(* the answer to the capture may be lost, and to a second one is an error. *)
CaptureOrder(c) ==
  /\ charge[c].status = "authorized"
  /\ charge' = Captured(c)
  /\ UNCHANGED <<tables, past, handler, failures, crashes>>

DeadlinePasses(r) ==
  /\ cycle[r].status # "none"
  /\ past' = past \cup {r}
  /\ UNCHANGED <<tables, charge, handler, failures, crashes>>

-----------------------------------------------------------------------------
Goto(h, pc) == handler' = [handler EXCEPT ![h].pc = pc]
Finish(h) == handler' = [handler EXCEPT ![h] = Idle]

ChargeOf(h) == handler[h].charge
CycleOf(h) == charge[ChargeOf(h)].reference

(* Mercado Pago notifies of a payment at any time, and its orders lead to  *)
(* a payment that is notified as well; the others of captured money only.  *)
Notifiable(c) ==
  /\ charge[c] # Unused
  /\ ProviderOf(c) # "MERCADO_PAGO" => charge[c].status = "approved"

(* The adapter answers with the payment as it is by now, approved or not.  *)
Confirmation(c) == IF charge[c].status = "approved" THEN "COMPLETED" ELSE "PENDING"

(* A notification, any number of times and in any order.                   *)
Receive(h, c) ==
  /\ handler[h] = Idle
  /\ Notifiable(c)
  /\ refunds[c] < MaxRefunds
  /\ handler' = [handler EXCEPT ![h] =
       [pc |-> "evaluate", charge |-> c, status |-> Confirmation(c)]]
  /\ UNCHANGED <<tables, gateway, failures, crashes>>

(* dueForCheck: the batch is read first and worked through afterwards.     *)
Due(h, r) ==
  /\ handler[h] = Idle
  /\ cycle[r].status = "REQUESTED"
  /\ handler' = [handler EXCEPT ![h] = [pc |-> "due", reference |-> r]]
  /\ UNCHANGED <<tables, gateway, failures, crashes>>

Expire(h) ==
  /\ handler[h].pc = "due"
  /\ handler[h].reference \in past
  /\ cycle' = [cycle EXCEPT ![handler[h].reference].status = "EXPIRED"]
  /\ Finish(h)
  /\ UNCHANGED <<row, processed, credited, refunds, gateway, failures, crashes>>

(* findApprovedByReference: several approved payments are an anomaly, and  *)
(* the search throws.                                                      *)
FindApprovedByReference(r) ==
  LET approved == {c \in Charges : charge[c].reference = r /\ charge[c].status = "approved"}
  IN  IF Cardinality(approved) = 1 THEN approved ELSE {}

(* Fault: before PT-087 an order nobody had captured was only looked at.   *)
FindOrderCaptured(r) ==
  {c \in Charges : cycle[r].noted /\ charge[c].reference = r /\ charge[c].status = "approved"}

(* PayPal's findPayment asks for the order by the id noted.                *)
FindOrder(r) ==
  {c \in Charges : /\ cycle[r].noted /\ charge[c].reference = r
                   /\ charge[c].status \in {"authorized", "approved"}}

(* lookup: Stripe and Hey Banco have no guaranteed way.                    *)
Findable(r) ==
  CASE cycle[r].provider = "MERCADO_PAGO" -> FindApprovedByReference(r)
    [] cycle[r].provider = "PAYPAL" -> FindOrder(r)
    [] OTHER -> {}

(* scheduleNextCheck: the delay grows with each check, up to twelve hours. *)
ScheduleNextCheck(h) == Finish(h)

(* An order found approved is captured here, then applied.                 *)
FindPayment(h) ==
  /\ handler[h].pc = "due"
  /\ handler[h].reference \notin past
  /\ \/ /\ Findable(handler[h].reference) = {}
        /\ ScheduleNextCheck(h)
        /\ UNCHANGED charge
     \/ \E c \in Findable(handler[h].reference) :
          /\ charge' = Captured(c)
          /\ handler' = [handler EXCEPT ![h] =
               [pc |-> "evaluate", charge |-> c, status |-> "COMPLETED"]]
  /\ UNCHANGED <<tables, past, failures, crashes>>

(* The gateway cannot be asked, or does not answer in time: the order may  *)
(* have been captured all the same.                                        *)
AskFails(h) ==
  /\ handler[h].pc = "due"
  /\ failures < MaxFailures
  /\ failures' = failures + 1
  /\ \/ UNCHANGED charge
     \/ \E c \in Findable(handler[h].reference) :
          charge' = Captured(c)
  /\ ScheduleNextCheck(h)
  /\ UNCHANGED <<tables, past, crashes>>

-----------------------------------------------------------------------------
(* Stripe and Hey Banco put our reference where the payment id belongs and *)
(* their own id where the reference does, so no cycle is found.            *)
Orphan(c) == ProviderOf(c) \in {"STRIPE", "HEY_BANCO"}

(* checkInvariant: a confirmation without an amount contradicts nothing.   *)
Contradicts(c) == charge[c].amount = "other"

(* Fault: request and confirmation are not compared.                       *)
BranchUncompared(h) ==
  LET c == ChargeOf(h)
      seen == cycle[CycleOf(h)]
  IN  IF Orphan(c) THEN "idle" ELSE
      CASE seen.status # "REQUESTED" /\ seen.canonical = c -> "idle"
        [] seen.status # "REQUESTED" /\ seen.canonical # c -> "flag"
        [] seen.status = "REQUESTED" /\ handler[h].status # "COMPLETED" -> "fail"
        [] OTHER -> "settle"

(* evaluate: where the first response wins, from the row as it is read.    *)
Branch(h) ==
  LET c == ChargeOf(h)
      seen == cycle[CycleOf(h)]
  IN  IF Orphan(c) THEN "idle" ELSE
      CASE seen.status # "REQUESTED" /\ seen.canonical = c -> "idle"
        [] seen.status # "REQUESTED" /\ seen.canonical # c -> "flag"
        [] seen.status = "REQUESTED" /\ handler[h].status # "COMPLETED" -> "fail"
        [] seen.status = "REQUESTED" /\ handler[h].status = "COMPLETED"
             /\ Contradicts(c) -> "anomaly"
        [] OTHER -> "settle"

Evaluate(h) ==
  /\ handler[h].pc = "evaluate"
  /\ IF Branch(h) = "idle" THEN Finish(h) ELSE Goto(h, Branch(h))
  /\ UNCHANGED <<tables, gateway, failures, crashes>>

(* A different charge on a closed cycle, or one that does not agree with   *)
(* the request: flagged for the panel; the first also asks for a refund.   *)
FlagAnomaly(h) ==
  /\ handler[h].pc \in {"flag", "anomaly"}
  /\ cycle' = [cycle EXCEPT ![CycleOf(h)].status = "ANOMALY"]
  /\ IF handler[h].pc = "flag" THEN Goto(h, "refund") ELSE Finish(h)
  /\ UNCHANGED <<row, processed, credited, refunds, gateway, failures, crashes>>

RaiseRefund(h) ==
  /\ handler[h].pc = "refund"
  /\ refunds' = [refunds EXCEPT ![ChargeOf(h)] = @ + 1]
  /\ Finish(h)
  /\ UNCHANGED <<cycle, row, processed, credited, gateway, failures, crashes>>

(* A negative response closes the cycle; a coherent one does, as settled.  *)
CloseCycle(h) ==
  /\ handler[h].pc \in {"fail", "settle"}
  /\ cycle' = [cycle EXCEPT
       ![CycleOf(h)].status = IF handler[h].pc = "fail" THEN "FAILED" ELSE "SETTLED",
       ![CycleOf(h)].canonical = ChargeOf(h)]
  /\ Goto(h, IF handler[h].pc = "fail" THEN "bookFailed" ELSE "bookSettled")
  /\ UNCHANGED <<row, processed, credited, refunds, gateway, failures, crashes>>

(* Fault: the response's own status is written.                            *)
WritePaymentRowRaw(h) ==
  /\ handler[h].pc \in {"bookFailed", "bookSettled"}
  /\ row' = [row EXCEPT ![CycleOf(h)] = [status |-> handler[h].status, charge |-> ChargeOf(h)]]
  /\ IF handler[h].pc = "bookFailed" THEN Finish(h) ELSE Goto(h, "reserve")
  /\ UNCHANGED <<cycle, processed, credited, refunds, gateway, failures, crashes>>

(* The accounting row, one per reference, written over.                    *)
WritePaymentRow(h) ==
  /\ handler[h].pc \in {"bookFailed", "bookSettled"}
  /\ row' = [row EXCEPT ![CycleOf(h)] =
       [status |-> IF handler[h].pc = "bookFailed" THEN "FAILED" ELSE "COMPLETED",
        charge |-> ChargeOf(h)]]
  /\ IF handler[h].pc = "bookFailed" THEN Finish(h) ELSE Goto(h, "reserve")
  /\ UNCHANGED <<cycle, processed, credited, refunds, gateway, failures, crashes>>

-----------------------------------------------------------------------------
(* Fault: the reservation is looked for and only made with the deposit.    *)
ReserveLate(h) ==
  /\ handler[h].pc = "reserve"
  /\ IF charge[ChargeOf(h)].amount = "missing" \/ ChargeOf(h) \in processed
     THEN Finish(h) ELSE Goto(h, "deposit")
  /\ UNCHANGED <<tables, gateway, failures, crashes>>

(* creditOnce: UNIQUE (provider, paymentId) lets one handler through.  A   *)
(* confirmation without an amount credits nothing.                         *)
Reserve(h) ==
  /\ handler[h].pc = "reserve"
  /\ IF charge[ChargeOf(h)].amount = "missing" \/ ChargeOf(h) \in processed
     THEN Finish(h) /\ UNCHANGED processed
     ELSE Goto(h, "deposit") /\ processed' = processed \cup {ChargeOf(h)}
  /\ UNCHANGED <<cycle, row, credited, refunds, gateway, failures, crashes>>

Deposit(h) ==
  /\ handler[h].pc = "deposit"
  /\ credited' = [credited EXCEPT ![ChargeOf(h)] = @ + 1]
  /\ Finish(h)
  /\ UNCHANGED <<cycle, row, processed, refunds, gateway, failures, crashes>>

DepositFails(h) ==
  /\ handler[h].pc = "deposit"
  /\ failures < MaxFailures
  /\ failures' = failures + 1
  /\ Goto(h, "unreserve")
  /\ UNCHANGED <<tables, gateway, crashes>>

(* The reservation is given back; that this may fail is swallowed.         *)
Unreserve(h) ==
  /\ handler[h].pc = "unreserve"
  /\ \/ processed' = processed \ {ChargeOf(h)} /\ UNCHANGED crashes
     \/ crashes < MaxCrashes /\ crashes' = crashes + 1 /\ UNCHANGED processed
  /\ Goto(h, "reopen")
  /\ UNCHANGED <<cycle, row, credited, refunds, gateway, failures>>

(* Fault: before PT-087 a cycle whose deposit failed stayed settled.       *)
LeaveSettled(h) ==
  /\ handler[h].pc = "reopen"
  /\ Finish(h)
  /\ UNCHANGED <<tables, gateway, failures, crashes>>

ReopenForRetry(h) ==
  /\ handler[h].pc = "reopen"
  /\ cycle' = [cycle EXCEPT ![CycleOf(h)].status = "REQUESTED"]
  /\ Finish(h)
  /\ UNCHANGED <<row, processed, credited, refunds, gateway, failures, crashes>>

(* The process dies, or a statement outside every try block throws.        *)
Dies(h) ==
  /\ handler[h] # Idle
  /\ crashes < MaxCrashes
  /\ crashes' = crashes + 1
  /\ Finish(h)
  /\ UNCHANGED <<tables, gateway, failures>>

-----------------------------------------------------------------------------
WorksOn(h, r) ==
  \/ handler[h].pc = "due" /\ handler[h].reference = r
  \/ handler[h].pc \notin {"idle", "due"} /\ CycleOf(h) = r

(* cleanOldLogs drops a reservation after 30 days or more, though a late   *)
(* notification may still come.  By then the poll has closed the cycle,    *)
(* settled or past its term, and no handler is that slow.                  *)
Purge(c) ==
  /\ c \in processed
  /\ charge[c].reference \in past
  /\ cycle[charge[c].reference].status \in CycleStatus \ {"REQUESTED"}
  /\ \A h \in Handlers : ~WorksOn(h, charge[c].reference)
  /\ processed' = processed \ {c}
  /\ UNCHANGED <<cycle, row, credited, refunds, gateway, handler, failures, crashes>>

-----------------------------------------------------------------------------
Continue(h) ==
  \/ Expire(h)
  \/ FindPayment(h)
  \/ AskFails(h)
  \/ Evaluate(h)
  \/ FlagAnomaly(h)
  \/ RaiseRefund(h)
  \/ CloseCycle(h)
  \/ WritePaymentRow(h)
  \/ Reserve(h)
  \/ Deposit(h)
  \/ DepositFails(h)
  \/ Unreserve(h)
  \/ ReopenForRetry(h)

Poll(h) == \E r \in References : Due(h, r)

Outside ==
  \/ \E r \in References : \/ \E p \in Providers : Open(r, p)
                           \/ AttachProviderRef(r)
                           \/ DeadlinePasses(r)
                           \/ \E c \in Charges : PayBegins(c, r)
  \/ \E c \in Charges : PayEnds(c) \/ CaptureOrder(c) \/ Purge(c)

Next ==
  \/ Outside
  \/ \E h \in Webhooks, c \in Charges : Receive(h, c)
  \/ \E h \in Pollers : Poll(h)
  \/ \E h \in Handlers : Continue(h) \/ Dies(h)

Spec == Init /\ [][Next]_vars

(* A running handler goes on, and reconcilePending runs every minute; no   *)
(* notification is promised and the gateway may never decide.              *)
FairSpec ==
  /\ Spec
  /\ \A h \in Handlers : WF_vars(Continue(h))
  /\ \A h \in Pollers : WF_vars(Poll(h))

-----------------------------------------------------------------------------
(* Where a handler is once it has a response to apply.                     *)
Applying == {"evaluate", "flag", "refund", "anomaly", "fail", "settle", "bookFailed",
             "bookSettled", "reserve", "deposit", "unreserve", "reopen"}

Response == [pc : Applying, charge : Charges, status : {"COMPLETED", "PENDING"}]

HandlerState == {Idle} \cup [pc : {"due"}, reference : References] \cup Response

(* Every row, handler and gateway record has its type.                     *)
TypeOK ==
  /\ cycle \in [References -> {NoCycle} \cup
       [status : CycleStatus, provider : Providers, canonical : Charges \cup {NoCharge},
        linked : BOOLEAN, noted : BOOLEAN]]
  /\ row \in [References -> {NoRow} \cup [status : {"FAILED", "COMPLETED"}, charge : Charges]]
  /\ processed \subseteq Charges
  /\ credited \in [Charges -> Nat] /\ refunds \in [Charges -> Nat]
  /\ charge \in [Charges -> {Unused} \cup
       [status : {"pending", "authorized", "approved", "rejected"}, reference : References,
        amount : AmountKinds]]
  /\ past \subseteq References
  /\ handler \in [Handlers -> HandlerState]
  /\ failures \in 0..MaxFailures /\ crashes \in 0..MaxCrashes

(* RN-68: a payment is credited at most once, whatever notifications,      *)
(* polls, failed deposits and crashes overlap (creditOnce), and also after *)
(* its reservation was purged: then the closed cycle alone stops it.       *)
CreditedOnce == \A c \in Charges : credited[c] <= 1

(* Money is credited only for a charge the gateway approved, of the amount *)
(* asked for (RN-74), by notification or by poll.                          *)
CreditedAsAsked ==
  \A c \in Charges : credited[c] > 0 =>
    charge[c].status = "approved" /\ charge[c].amount = "asked"

(* A settled cycle means the money arrived: its charge is credited, or a   *)
(* handler still has it in hand, however deposits fail and handlers race   *)
(* (PT-087 F-09).  A handler that dies on the way is not covered by this.   *)
SettledIsCredited ==
  \A r \in References : cycle[r].status = "SETTLED" /\ crashes = 0 =>
    LET c == cycle[r].canonical
    IN  \/ credited[c] = 1
        \/ charge[c].amount = "missing"
        \/ \E h \in Handlers :
             /\ handler[h] # Idle
             /\ handler[h].pc \in {"bookSettled", "reserve", "deposit", "unreserve", "reopen"}
             /\ ChargeOf(h) = c

(* The guaranteed way (RN-77): what a buyer approved at PayPal is captured *)
(* and credited even if no notification comes, PayPal does not answer, a   *)
(* deposit fails or a handler dies before the cycle is settled, unless the *)
(* term is over, the order's id was not noted or the cycle waits for the   *)
(* panel as an anomaly.                                                    *)
ChargedIsCredited ==
  \A r \in References :
    (\E c \in Charges : /\ cycle[r].provider = "PAYPAL" /\ charge[c].reference = r
                        /\ charge[c].status \in {"authorized", "approved"})
      ~> \/ \E c \in Charges : charge[c].reference = r /\ credited[c] > 0
         \/ r \in past
         \/ cycle[r].status = "ANOMALY" \/ ~cycle[r].noted
         \/ cycle[r].status = "SETTLED" /\ crashes > 0

(* README: no payment that was charged is left without being credited.  A  *)
(* closed cycle answers its charge with DUPLICATE from then on.            *)
NoChargeLost ==
  \A c \in Charges :
    ~ /\ charge[c].status = "approved" /\ charge[c].amount = "asked"
      /\ credited[c] = 0
      /\ cycle[charge[c].reference].status \in {"SETTLED", "FAILED"}
      /\ cycle[charge[c].reference].canonical = c
      /\ \A h \in Handlers : handler[h] = Idle
=============================================================================
