------------------------------ MODULE Aftersale -----------------------------
(***************************************************************************)
(* What follows a sale: ShipmentsService, DisputesService, RefundsService, *)
(* the panel's resolution of disputes and the settlement job of the        *)
(* scheduler, over the tables orders, shipments, disputes, refund_requests *)
(* and the wallet of one seller.                                           *)
(*                                                                         *)
(* A handler reads, checks and writes in separate statements: a request    *)
(* first carries what it read ("read ..."), then writes.  The two wallet   *)
(* operations used here, reversarVenta and releaseSettlement, are single   *)
(* steps: Wallet states that of them and WalletTx checks it.               *)
(***************************************************************************)
EXTENDS Integers, FiniteSets

CONSTANTS
  Orders,         \* orders of one seller, one per auction he sold
  Total, Net,     \* what the buyer paid for each, and the seller's net
  RefundAmounts,  \* amounts the panel asks to refund
  RefundStatuses, \* those the panel sets on a refund request
  Declared,       \* statuses of a shipment that are declared
  Handlers,       \* requests under way at once
  Jobs,           \* API instances that run releaseMaturedSettlements
  Window,         \* DISPUTE_WINDOW_DAYS, in ticks
  Holdback,       \* SETTLEMENT_HOLDBACK_HOURS, in ticks
  MaxTime,        \* bound: the clock stops
  MaxFaults       \* bound: transactions that fail, requests that die

ASSUME AftersaleAssumption ==
  /\ Total \in Nat \ {0}
  /\ Net \in 1..Total
  /\ RefundAmounts \subseteq 1..Total
  /\ RefundStatuses \subseteq {"PENDING_REFUND", "PROCESSING", "COMPLETED", "FAILED"}
  /\ Declared \subseteq {"PENDING", "SHIPPED", "DELIVERED", "RETURNED"}
  /\ {Window, Holdback, MaxTime, MaxFaults} \subseteq Nat

VARIABLES
  order,      \* table orders
  shipment,   \* table shipments, unique by order
  dispute,    \* table disputes, unique by order
  refund,     \* table refund_requests, unique by order
  seller,     \* the seller's row of wallets
  request,    \* per handler: what it read and is about to write
  job,        \* per instance: the orders it found matured
  now, faults,
  released,   \* history: what was released for an order
  confirmed   \* history: when the buyer first confirmed the delivery

tables == <<order, shipment, dispute, refund>>
history == <<released, confirmed>>
vars == <<tables, seller, request, job, now, faults, history>>

Never == -1
Statuses == {"PENDING_PAYMENT", "PAID", "SHIPPED", "DELIVERED", "CANCELLED", "REFUNDED"}

(* OrderStateMachine.canTransition.                                        *)
CanTransition(from, to) ==
  <<from, to>> \in { <<"PENDING_PAYMENT", "PAID">>, <<"PENDING_PAYMENT", "CANCELLED">>,
                     <<"PAID", "SHIPPED">>, <<"PAID", "REFUNDED">>,
                     <<"SHIPPED", "DELIVERED">>, <<"DELIVERED", "REFUNDED">> }

(* "net" is null, here 0, for an order made by the winner himself.         *)
NoOrder == [status |-> "none", net |-> 0, created |-> Never, updated |-> Never, settled |-> FALSE]
NoShipment == [status |-> "none", delivered |-> Never]
NoDispute == [status |-> "none", won |-> FALSE]
NoRefund == [status |-> "none", amount |-> 0]
Idle == [op |-> "idle"]

Live(o) == dispute[o].status \in {"OPEN", "IN_MEDIATION"}
Sold(o) == order[o].net # 0

Init ==
  /\ order = [o \in Orders |-> NoOrder]
  /\ shipment = [o \in Orders |-> NoShipment]
  /\ dispute = [o \in Orders |-> NoDispute]
  /\ refund = [o \in Orders |-> NoRefund]
  /\ seller = [pending |-> 0, balance |-> 0]
  /\ request = [h \in Handlers |-> Idle]
  /\ job = [j \in Jobs |-> {}]
  /\ now = 0
  /\ faults = 0
  /\ released = [o \in Orders |-> 0]
  /\ confirmed = [o \in Orders |-> Never]

-----------------------------------------------------------------------------
(* The order is created with the capture of the sale, or by its winner.    *)
(* Bound: no sale is made so late that the clock stops before it matures.  *)
Sell(o) ==
  /\ order[o] = NoOrder
  /\ now + Window <= MaxTime
  /\ order' = [order EXCEPT ![o] = [NoOrder EXCEPT !.status = "PAID", !.net = Net,
                                                   !.created = now, !.updated = now]]
  /\ seller' = [seller EXCEPT !.pending = @ + Net]
  /\ UNCHANGED <<shipment, dispute, refund, request, job, now, faults, history>>

OrderByWinner(o) ==
  /\ order[o] = NoOrder
  /\ order' = [order EXCEPT ![o] = [NoOrder EXCEPT !.status = "PENDING_PAYMENT",
                                                   !.created = now, !.updated = now]]
  /\ UNCHANGED <<shipment, dispute, refund, seller, request, job, now, faults, history>>

Ask(h, r) ==
  /\ request[h] = Idle
  /\ request' = [request EXCEPT ![h] = r]
  /\ UNCHANGED <<tables, seller, job, now, faults, history>>

Answer(h) == request' = [request EXCEPT ![h] = Idle]

(* ShipmentsService.create: the guard, then the insert under the unique    *)
(* key, which answers a second one as the guard would.                     *)
AskShipment(h, o) ==
  /\ order[o].status = "PAID"
  /\ shipment[o] = NoShipment
  /\ Ask(h, [op |-> "create shipment", order |-> o])

CreateShipment(h) ==
  /\ request[h].op = "create shipment"
  /\ LET o == request[h].order IN
       shipment' = IF shipment[o] = NoShipment
                   THEN [shipment EXCEPT ![o].status = "PENDING"] ELSE shipment
  /\ Answer(h)
  /\ UNCHANGED <<order, dispute, refund, seller, job, now, faults, history>>

(* Fault: every status of the shipment is left to the seller.              *)
MayDeclareAsSeller(who, to) == who = "seller"

(* ACTOR_POR_ESTADO_DE_ENVIO: who declares a status of the shipment.       *)
MayDeclare(who, to) == who = IF to = "DELIVERED" THEN "buyer" ELSE "seller"

MovesOrder(to) == to \in {"SHIPPED", "DELIVERED"}

(* ShipmentsService.updateStatus: checks on what it read, then one         *)
(* transaction that writes the shipment and the order.                     *)
AskUpdate(h, o, who, to) ==
  /\ shipment[o] # NoShipment
  /\ MayDeclare(who, to)
  /\ MovesOrder(to) => CanTransition(order[o].status, to)
  /\ Ask(h, [op |-> "update shipment", order |-> o, who |-> who, to |-> to,
             stamp |-> shipment[o].delivered = Never])

UpdateShipment(h) ==
  /\ request[h].op = "update shipment"
  /\ LET r == request[h]
         o == r.order
         delivers == r.to = "DELIVERED"
     IN /\ shipment' = [shipment EXCEPT ![o].status = r.to,
                          ![o].delivered = IF delivers /\ r.stamp THEN now ELSE @]
        /\ order' = IF MovesOrder(r.to)
                    THEN [order EXCEPT ![o].status = r.to, ![o].updated = now] ELSE order
        /\ confirmed' = IF delivers /\ r.who = "buyer" /\ confirmed[o] = Never
                        THEN [confirmed EXCEPT ![o] = now] ELSE confirmed
  /\ Answer(h)
  /\ UNCHANGED <<dispute, refund, seller, job, now, faults, released>>

(* DisputesService.create: within the window of the delivery, or else of   *)
(* the last change of the order.                                           *)
DisputeFrom(o) ==
  IF shipment[o].delivered # Never THEN shipment[o].delivered ELSE order[o].updated

AskDispute(h, o) ==
  /\ dispute[o] = NoDispute
  /\ order[o].status \in {"PAID", "SHIPPED", "DELIVERED"}
  /\ now - DisputeFrom(o) <= Window
  /\ Ask(h, [op |-> "open dispute", order |-> o])

OpenDispute(h) ==
  /\ request[h].op = "open dispute"
  /\ LET o == request[h].order IN
       dispute' = IF dispute[o] = NoDispute
                  THEN [dispute EXCEPT ![o].status = "OPEN"] ELSE dispute
  /\ Answer(h)
  /\ UNCHANGED <<order, shipment, refund, seller, job, now, faults, history>>

-----------------------------------------------------------------------------
(* Fault: the money is given back after the dispute is marked resolved.    *)
AskResolutionFirst(h, o) ==
  /\ request[h] = Idle
  /\ Live(o)
  /\ refund[o] = NoRefund
  /\ CanTransition(order[o].status, "REFUNDED")
  /\ dispute' = [dispute EXCEPT ![o] = [status |-> "RESOLVED", won |-> TRUE]]
  /\ request' = [request EXCEPT ![h] = [op |-> "refund", order |-> o, amount |-> Total,
                                        resolves |-> FALSE]]
  /\ UNCHANGED <<order, shipment, refund, seller, job, now, faults, history>>

Refundable(o) ==
  /\ refund[o] = NoRefund
  /\ CanTransition(order[o].status, "REFUNDED")

(* createRefund, asked for by the panel, or by resolveDisputeFavorBuyer,   *)
(* whatever the status of the dispute.  The checks are made outside the    *)
(* transaction.                                                            *)
AskRefund(h, o, amount) ==
  /\ Refundable(o)
  /\ Ask(h, [op |-> "refund", order |-> o, amount |-> amount, resolves |-> FALSE])

AskResolution(h, o) ==
  /\ dispute[o] # NoDispute
  /\ Refundable(o)
  /\ Ask(h, [op |-> "refund", order |-> o, amount |-> Total, resolves |-> TRUE])

(* Fault: the whole amount is taken from the holdback.                     *)
ReversedFromPending(row, amount) == [row EXCEPT !.pending = @ - amount]

(* reversarVenta: from the holdback first, the rest from the balance.      *)
Reversed(row, amount) ==
  LET fromPending == IF row.pending <= amount THEN row.pending ELSE amount
  IN [pending |-> row.pending - fromPending,
      balance |-> row.balance - (amount - fromPending)]

(* Fault: a second refund of an order is not rejected by a unique key.     *)
RefundTwice(h) ==
  /\ request[h].op = "refund"
  /\ LET r == request[h] IN
       /\ refund' = [refund EXCEPT ![r.order] =
            [status |-> "PENDING_REFUND", amount |-> @.amount + r.amount]]
       /\ order' = [order EXCEPT ![r.order].status = "REFUNDED", ![r.order].updated = now]
       /\ seller' = Reversed(seller, r.amount)
       /\ IF r.resolves THEN request' = [request EXCEPT ![h] = [op |-> "resolve", order |-> r.order]]
                        ELSE Answer(h)
  /\ UNCHANGED <<shipment, dispute, job, now, faults, history>>

(* The transaction: the unique key on the order rejects a second request.  *)
CreateRefund(h) ==
  /\ request[h].op = "refund"
  /\ LET r == request[h] IN
       \/ /\ refund[r.order] = NoRefund
          /\ refund' = [refund EXCEPT ![r.order] =
               [status |-> "PENDING_REFUND", amount |-> r.amount]]
          /\ order' = [order EXCEPT ![r.order].status = "REFUNDED", ![r.order].updated = now]
          /\ seller' = Reversed(seller, r.amount)
          /\ IF r.resolves
             THEN request' = [request EXCEPT ![h] = [op |-> "resolve", order |-> r.order]]
             ELSE Answer(h)
       \/ /\ refund[r.order] # NoRefund
          /\ Answer(h)
          /\ UNCHANGED <<refund, order, seller>>
  /\ UNCHANGED <<shipment, dispute, job, now, faults, history>>

ResolveFavorBuyer(h) ==
  /\ request[h].op = "resolve"
  /\ dispute' = [dispute EXCEPT ![request[h].order] = [status |-> "RESOLVED", won |-> TRUE]]
  /\ Answer(h)
  /\ UNCHANGED <<order, shipment, refund, seller, job, now, faults, history>>

(* resolveDisputeFavorSeller and requestDisputeEvidence write the status   *)
(* without reading it.                                                     *)
SetDisputeStatus(o, to) ==
  /\ dispute[o] # NoDispute
  /\ dispute' = [dispute EXCEPT ![o].status = to]
  /\ UNCHANGED <<order, shipment, refund, seller, request, job, now, faults, history>>

ResolveFavorSeller(o) == SetDisputeStatus(o, "RESOLVED")
RequestEvidence(o) == SetDisputeStatus(o, "IN_MEDIATION")

UpdateRefundStatus(o, to) ==
  /\ refund[o] # NoRefund
  /\ refund' = [refund EXCEPT ![o].status = to]
  /\ UNCHANGED <<order, shipment, dispute, seller, request, job, now, faults, history>>

(* A request dies, or its next statement fails.                            *)
RequestDies(h) ==
  /\ request[h] # Idle
  /\ faults < MaxFaults
  /\ faults' = faults + 1
  /\ Answer(h)
  /\ UNCHANGED <<tables, seller, job, now, history>>

-----------------------------------------------------------------------------
Confirmed(o) == shipment[o].delivered # Never /\ shipment[o].delivered + Holdback <= now
Expired(o) == order[o].created # Never /\ order[o].created + Window <= now

(* Fault: any dispute, even a resolved one, freezes the settlement.        *)
MaturedWithoutDispute(o) ==
  /\ Sold(o) /\ ~order[o].settled
  /\ dispute[o] = NoDispute
  /\ Confirmed(o) \/ Expired(o)

(* The query of the job: neither the order's status nor a refund counts.   *)
Matured(o) ==
  /\ Sold(o) /\ ~order[o].settled
  /\ ~Live(o)
  /\ Confirmed(o) \/ Expired(o)

FindMatured(j) ==
  /\ job[j] = {}
  /\ \E o \in Orders : Matured(o)
  /\ job' = [job EXCEPT ![j] = {o \in Orders : Matured(o)}]
  /\ UNCHANGED <<tables, seller, request, now, faults, history>>

(* releaseSettlement: nothing when less than the net is on hold.           *)
Released(row) ==
  IF row.pending < Net THEN row
  ELSE [pending |-> row.pending - Net, balance |-> row.balance + Net]

(* The transaction of one order: the release, and the mark in any case.    *)
Settle(j) ==
  \E o \in job[j] :
    /\ seller' = Released(seller)
    /\ order' = [order EXCEPT ![o].settled = TRUE, ![o].updated = now]
    /\ released' = [released EXCEPT ![o] = @ + (seller'.balance - seller.balance)]
    /\ job' = [job EXCEPT ![j] = @ \ {o}]
    /\ UNCHANGED <<shipment, dispute, refund, request, now, faults, confirmed>>

(* The transaction of one order fails: the next run finds it again.        *)
SettleFails(j) ==
  /\ faults < MaxFaults
  /\ faults' = faults + 1
  /\ \E o \in job[j] : job' = [job EXCEPT ![j] = @ \ {o}]
  /\ UNCHANGED <<tables, seller, request, now, history>>

Tick ==
  /\ now < MaxTime
  /\ now' = now + 1
  /\ UNCHANGED <<tables, seller, request, job, faults, history>>

-----------------------------------------------------------------------------
RequestStep(h) ==
  \/ CreateShipment(h) \/ UpdateShipment(h) \/ OpenDispute(h)
  \/ CreateRefund(h) \/ ResolveFavorBuyer(h)

JobStep(j) == FindMatured(j) \/ Settle(j)

Next ==
  \/ \E o \in Orders : Sell(o) \/ OrderByWinner(o)
  \/ \E h \in Handlers, o \in Orders :
       \/ AskShipment(h, o)
       \/ \E who \in {"buyer", "seller"}, to \in Declared :
            AskUpdate(h, o, who, to)
       \/ AskDispute(h, o)
       \/ \E amount \in RefundAmounts : AskRefund(h, o, amount)
       \/ AskResolution(h, o)
  \/ \E h \in Handlers : RequestStep(h) \/ RequestDies(h)
  \/ \E o \in Orders : ResolveFavorSeller(o) \/ RequestEvidence(o)
  \/ \E o \in Orders, to \in RefundStatuses : UpdateRefundStatus(o, to)
  \/ \E j \in Jobs : JobStep(j) \/ SettleFails(j)
  \/ Tick

Spec == Init /\ [][Next]_vars

(* The job runs on every instance every half hour, and time passes.        *)
FairSpec == Spec /\ WF_vars(Tick) /\ \A j \in Jobs : WF_vars(JobStep(j))

-----------------------------------------------------------------------------
Times == Never..MaxTime

Requests ==
  {Idle}
  \union [op : {"create shipment", "open dispute", "resolve"}, order : Orders]
  \union [op : {"update shipment"}, order : Orders, who : {"buyer", "seller"},
          to : Declared, stamp : BOOLEAN]
  \union [op : {"refund"}, order : Orders, amount : 1..Total, resolves : BOOLEAN]

(* Types; nothing takes more from the holdback than is on it, and the      *)
(* amount of a refund is within the order's total.                         *)
TypeOK ==
  /\ order \in [Orders -> [status : Statuses \union {"none"}, net : {0, Net}, created : Times,
                           updated : Times, settled : BOOLEAN]]
  /\ shipment \in [Orders -> [status : Declared \union {"none", "PENDING"},
                              delivered : Times]]
  /\ dispute \in [Orders -> [status : {"none", "OPEN", "IN_MEDIATION", "RESOLVED", "CLOSED"},
                             won : BOOLEAN]]
  /\ refund \in [Orders -> [status : RefundStatuses \union {"none", "PENDING_REFUND"},
                            amount : 0..Total]]
  /\ seller \in [pending : Nat, balance : Int]
  /\ request \in [Handlers -> Requests]
  /\ job \in [Jobs -> SUBSET Orders]
  /\ now \in 0..MaxTime /\ faults \in 0..MaxFaults
  /\ released \in [Orders -> Nat]
  /\ confirmed \in [Orders -> Times]

(* A dispute that the panel resolved for the buyer has paid him the whole  *)
(* order, whatever failed on the way (resolveDisputeFavorBuyer).           *)
ResolvedIsRepaid == \A o \in Orders : dispute[o].won => refund[o].amount = Total

(* No step marks a sale settled earlier than the holdback allows: counted  *)
(* from the buyer's own confirmation, or the window from the sale.         *)
HoldbackRespected ==
  [][\A o \in Orders : order'[o].settled /\ ~order[o].settled =>
       \/ confirmed[o] # Never /\ confirmed[o] + Holdback <= now
       \/ Expired(o)]_vars

(* The money of the sales, over the tables and the wallet: captured once,  *)
(* settled once, repaid once and within the total (SaleProceeds).          *)
Proceeds == INSTANCE SaleProceeds WITH
  sold <- {o \in Orders : Sold(o)},
  settled <- {o \in Orders : order[o].settled},
  repaid <- [o \in Orders |-> refund[o].amount],
  funds <- seller.pending + seller.balance

ImplementsProceeds == Proceeds!Spec

(* A sale that no dispute keeps frozen is settled in the end, although the *)
(* buyer may never confirm and a dispute may have come and gone.           *)
SoldIsSettled ==
  \A o \in Orders : (Sold(o) /\ []~Live(o)) ~> order[o].settled

(* What a buyer got back in full is not released to the seller afterwards  *)
(* (scheduler: "sellerNet ya no le pertenece").                            *)
RefundedNotReleased ==
  [][\A o \in Orders : refund[o].amount = Total => released'[o] = released[o]]_vars
=============================================================================
