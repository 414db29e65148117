--------------------------- MODULE AftersaleProofs --------------------------
(***************************************************************************)
(* Proofs about what follows a sale, for every set of orders, of requests  *)
(* that overlap and of instances that run the settlement job, whatever     *)
(* amounts are refunded and whatever fails.                                *)
(***************************************************************************)
EXTENDS Aftersale, TLAPS

OrderRow == [status : Statuses \union {"none"}, net : {0, Net}, created : Times,
             updated : Times, settled : BOOLEAN]
ShipmentRow == [status : Declared \union {"none", "PENDING"}, delivered : Times]
DisputeRow == [status : {"none", "OPEN", "IN_MEDIATION", "RESOLVED", "CLOSED"}, won : BOOLEAN]
RefundRow == [status : RefundStatuses \union {"none", "PENDING_REFUND"}, amount : 0..Total]

(* Only an order made with the capture of a sale leaves PENDING_PAYMENT,   *)
(* is shipped, disputed, refunded or settled.                              *)
Tied ==
  /\ \A o \in Orders : order[o].status \notin {"none", "PENDING_PAYMENT"} => Sold(o)
  /\ \A o \in Orders : shipment[o] # NoShipment => Sold(o)
  /\ \A o \in Orders : order[o].settled => Sold(o)
  /\ \A h \in Handlers : request[h] # Idle => Sold(request[h].order)
  /\ \A j \in Jobs : \A o \in job[j] : Sold(o)

(* A request about to mark a dispute as won has repaid the whole order.    *)
Repaid ==
  /\ \A h \in Handlers :
       request[h].op = "refund" /\ request[h].resolves => request[h].amount = Total
  /\ \A h \in Handlers :
       request[h].op = "resolve" => refund[request[h].order].amount = Total
  /\ ResolvedIsRepaid

IInv == TypeOK /\ Tied /\ Repaid

LEMMA Typed ==
  ASSUME TypeOK
  PROVE  /\ order \in [Orders -> OrderRow]
         /\ shipment \in [Orders -> ShipmentRow]
         /\ dispute \in [Orders -> DisputeRow]
         /\ refund \in [Orders -> RefundRow]
         /\ request \in [Handlers -> Requests]
         /\ now \in Times /\ now \in Int
BY AftersaleAssumption DEF TypeOK, OrderRow, ShipmentRow, DisputeRow, RefundRow, Times, Never

(* What a request carries, by what it is about to do.                      *)
LEMMA RequestShapes ==
  ASSUME NEW r \in Requests
  PROVE  /\ r.op # "idle" => r.order \in Orders
         /\ r.op = "update shipment" => r.to \in Declared /\ r.stamp \in BOOLEAN
         /\ r.op = "refund" => r.amount \in 1..Total /\ r.resolves \in BOOLEAN
<1>1. CASE r = Idle
  BY <1>1 DEF Idle
<1>2. CASE r \in [op : {"create shipment", "open dispute", "resolve"}, order : Orders]
  BY <1>2
<1>3. CASE r \in [op : {"update shipment"}, order : Orders, who : {"buyer", "seller"},
                  to : Declared, stamp : BOOLEAN]
  BY <1>3
<1>4. CASE r \in [op : {"refund"}, order : Orders, amount : 1..Total, resolves : BOOLEAN]
  BY <1>4
<1> QED
  BY <1>1, <1>2, <1>3, <1>4 DEF Requests

LEMMA IdleByOp ==
  ASSUME NEW r \in Requests, r.op = "idle"
  PROVE  r = Idle
BY DEF Requests

LEMMA RequestOrder ==
  ASSUME IInv, NEW h \in Handlers, request[h].op # "idle"
  PROVE  /\ request[h] \in Requests
         /\ request[h].order \in Orders
         /\ Sold(request[h].order)
<1>1. request[h] # Idle
  BY DEF Idle
<1> QED
  BY <1>1, Typed, RequestShapes DEF IInv, Tied

-----------------------------------------------------------------------------
(* Which operations write which table, and the rest of the state.          *)
Writers ==
  /\ \/ \E o \in Orders : Sell(o) \/ OrderByWinner(o)
     \/ \E h \in Handlers : UpdateShipment(h) \/ CreateRefund(h)
     \/ \E j \in Jobs : Settle(j)
     \/ UNCHANGED order
  /\ \/ \E h \in Handlers : CreateShipment(h) \/ UpdateShipment(h)
     \/ UNCHANGED shipment
  /\ \/ \E h \in Handlers : CreateRefund(h)
     \/ \E o \in Orders, to \in RefundStatuses : UpdateRefundStatus(o, to)
     \/ UNCHANGED refund
  /\ \/ \E h \in Handlers : OpenDispute(h) \/ ResolveFavorBuyer(h)
     \/ \E o \in Orders : ResolveFavorSeller(o) \/ RequestEvidence(o)
     \/ UNCHANGED dispute
  /\ \/ \E o \in Orders : Sell(o)
     \/ \E h \in Handlers : CreateRefund(h)
     \/ \E j \in Jobs : Settle(j)
     \/ UNCHANGED <<seller, released>>
  /\ \/ \E j \in Jobs : FindMatured(j) \/ Settle(j) \/ SettleFails(j)
     \/ UNCHANGED job
  /\ (\E h \in Handlers : UpdateShipment(h)) \/ UNCHANGED confirmed
  /\ Tick \/ UNCHANGED now
  /\ (faults < MaxFaults /\ faults' = faults + 1) \/ UNCHANGED faults

LEMMA Written == [Next]_vars => Writers
<1>1. ASSUME NEW o \in Orders, Sell(o) PROVE Writers
  BY <1>1 DEF Sell, Writers, history
<1>2. ASSUME NEW o \in Orders, OrderByWinner(o) PROVE Writers
  BY <1>2 DEF OrderByWinner, Writers, history
<1>3. ASSUME NEW h \in Handlers, NEW r, Ask(h, r) PROVE Writers
  BY <1>3 DEF Ask, Writers, tables, history
<1>4. ASSUME NEW h \in Handlers, NEW o \in Orders,
             \/ AskShipment(h, o)
             \/ \E who \in {"buyer", "seller"}, to \in Declared : AskUpdate(h, o, who, to)
             \/ AskDispute(h, o)
             \/ \E amount \in RefundAmounts : AskRefund(h, o, amount)
             \/ AskResolution(h, o)
      PROVE  Writers
  BY <1>3, <1>4 DEF AskShipment, AskUpdate, AskDispute, AskRefund, AskResolution
<1>5. ASSUME NEW h \in Handlers, CreateShipment(h) PROVE Writers
  BY <1>5 DEF CreateShipment, Writers, history
<1>6. ASSUME NEW h \in Handlers, UpdateShipment(h) PROVE Writers
  BY <1>6 DEF UpdateShipment, Writers
<1>7. ASSUME NEW h \in Handlers, OpenDispute(h) PROVE Writers
  BY <1>7 DEF OpenDispute, Writers, history
<1>8. ASSUME NEW h \in Handlers, CreateRefund(h) PROVE Writers
  BY <1>8 DEF CreateRefund, Writers, history
<1>9. ASSUME NEW h \in Handlers, ResolveFavorBuyer(h) PROVE Writers
  BY <1>9 DEF ResolveFavorBuyer, Writers, history
<1>10. ASSUME NEW h \in Handlers, RequestDies(h) PROVE Writers
  BY <1>10 DEF RequestDies, Writers, tables, history
<1>11. ASSUME NEW o \in Orders, ResolveFavorSeller(o) \/ RequestEvidence(o) PROVE Writers
  <2>1. UNCHANGED <<order, shipment, refund, seller, request, job, now, faults, history>>
    BY <1>11 DEF ResolveFavorSeller, RequestEvidence, SetDisputeStatus
  <2> QED
    BY <1>11, <2>1 DEF Writers, history
<1>12. ASSUME NEW o \in Orders, NEW to \in RefundStatuses, UpdateRefundStatus(o, to)
       PROVE  Writers
  BY <1>12 DEF UpdateRefundStatus, Writers, history
<1>13. ASSUME NEW j \in Jobs, FindMatured(j) PROVE Writers
  BY <1>13 DEF FindMatured, Writers, tables, history
<1>14. ASSUME NEW j \in Jobs, Settle(j) PROVE Writers
  BY <1>14 DEF Settle, Writers
<1>15. ASSUME NEW j \in Jobs, SettleFails(j) PROVE Writers
  BY <1>15 DEF SettleFails, Writers, tables, history
<1>16. ASSUME Tick PROVE Writers
  BY <1>16 DEF Tick, Writers, tables, history
<1>17. ASSUME UNCHANGED vars PROVE Writers
  BY <1>17 DEF vars, Writers, tables, history
<1> QED
  BY <1>1, <1>2, <1>4, <1>5, <1>6, <1>7, <1>8, <1>9, <1>10, <1>11, <1>12, <1>13, <1>14, <1>15,
     <1>16, <1>17, Zenon DEF Next, RequestStep, JobStep

-----------------------------------------------------------------------------
(* One table after the other: what a step does to the orders.              *)
LEMMA OrderWritten ==
  ASSUME IInv, NEW o \in Orders, NEW x \in OrderRow, order' = [order EXCEPT ![o] = x],
         Sold(o) => x.net # 0,
         x.status \notin {"none", "PENDING_PAYMENT"} => x.net # 0,
         x.settled => x.net # 0
  PROVE  /\ order' \in [Orders -> OrderRow]
         /\ \A p \in Orders : /\ Sold(p) => Sold(p)'
                              /\ order'[p].status \notin {"none", "PENDING_PAYMENT"} => Sold(p)'
                              /\ order'[p].settled => Sold(p)'
<1>1. order \in [Orders -> OrderRow]
  BY Typed DEF IInv
<1>2. \A p \in Orders : order'[p] = IF p = o THEN x ELSE order[p]
  BY <1>1
<1> QED
  BY <1>1, <1>2 DEF IInv, Tied, Sold

LEMMA OrderStep ==
  ASSUME IInv, [Next]_vars
  PROVE  /\ order' \in [Orders -> OrderRow]
         /\ \A o \in Orders : /\ Sold(o) => Sold(o)'
                              /\ order'[o].status \notin {"none", "PENDING_PAYMENT"} => Sold(o)'
                              /\ order'[o].settled => Sold(o)'
<1> DEFINE Kept ==
      /\ order' \in [Orders -> OrderRow]
      /\ \A o \in Orders : /\ Sold(o) => Sold(o)'
                           /\ order'[o].status \notin {"none", "PENDING_PAYMENT"} => Sold(o)'
                           /\ order'[o].settled => Sold(o)'
<1>0. order \in [Orders -> OrderRow] /\ now \in Times /\ Net # 0 /\ Never \in Times
  BY Typed, AftersaleAssumption DEF IInv, Times, Never
<1>1. ASSUME UNCHANGED order PROVE Kept
  BY <1>0, <1>1 DEF IInv, Tied, Sold
<1>2. ASSUME NEW o \in Orders, Sell(o) PROVE Kept
  <2> DEFINE x == [NoOrder EXCEPT !.status = "PAID", !.net = Net,
                                  !.created = now, !.updated = now]
  <2>1. x \in OrderRow /\ x.net # 0
    BY <1>0 DEF OrderRow, NoOrder, Statuses
  <2>2. order' = [order EXCEPT ![o] = x]
    BY <1>2 DEF Sell
  <2> QED
    BY <2>1, <2>2, OrderWritten
<1>3. ASSUME NEW o \in Orders, OrderByWinner(o) PROVE Kept
  <2> DEFINE x == [NoOrder EXCEPT !.status = "PENDING_PAYMENT",
                                  !.created = now, !.updated = now]
  <2>1. x \in OrderRow /\ x.status = "PENDING_PAYMENT" /\ ~x.settled
    BY <1>0 DEF OrderRow, NoOrder, Statuses
  <2>2. order' = [order EXCEPT ![o] = x] /\ ~Sold(o)
    BY <1>3 DEF OrderByWinner, Sold, NoOrder
  <2> QED
    BY <2>1, <2>2, OrderWritten
<1>4. ASSUME NEW h \in Handlers, UpdateShipment(h) PROVE Kept
  <2> DEFINE o == request[h].order
             x == [order[o] EXCEPT !.status = request[h].to, !.updated = now]
  <2>1. o \in Orders /\ Sold(o) /\ request[h].op = "update shipment"
    BY <1>4, RequestOrder DEF UpdateShipment
  <2>2. CASE UNCHANGED order
    BY <2>2, <1>1
  <2>3. CASE MovesOrder(request[h].to) /\ order' = [order EXCEPT ![o].status = request[h].to,
                                                                 ![o].updated = now]
    <3>1. x \in OrderRow /\ x.net = order[o].net
      BY <1>0, <2>1, <2>3 DEF OrderRow, MovesOrder, Statuses
    <3>2. order' = [order EXCEPT ![o] = x]
      BY <1>0, <2>1, <2>3
    <3> QED
      BY <2>1, <3>1, <3>2, OrderWritten DEF Sold
  <2> QED
    BY <1>4, <2>2, <2>3 DEF UpdateShipment
<1>5. ASSUME NEW h \in Handlers, CreateRefund(h) PROVE Kept
  <2> DEFINE o == request[h].order
             x == [order[o] EXCEPT !.status = "REFUNDED", !.updated = now]
  <2>1. o \in Orders /\ Sold(o)
    BY <1>5, RequestOrder DEF CreateRefund
  <2>2. CASE UNCHANGED order
    BY <2>2, <1>1
  <2>3. CASE order' = [order EXCEPT ![o].status = "REFUNDED", ![o].updated = now]
    <3>1. x \in OrderRow /\ x.net = order[o].net
      BY <1>0, <2>1 DEF OrderRow, Statuses
    <3>2. order' = [order EXCEPT ![o] = x]
      BY <1>0, <2>1, <2>3
    <3> QED
      BY <2>1, <3>1, <3>2, OrderWritten DEF Sold
  <2> QED
    BY <1>5, <2>2, <2>3 DEF CreateRefund
<1>6. ASSUME NEW j \in Jobs, Settle(j) PROVE Kept
  <2>1. PICK o \in job[j] : order' = [order EXCEPT ![o].settled = TRUE, ![o].updated = now]
    BY <1>6 DEF Settle
  <2> DEFINE x == [order[o] EXCEPT !.settled = TRUE, !.updated = now]
  <2>2. o \in Orders /\ Sold(o)
    BY DEF IInv, TypeOK, Tied
  <2>3. x \in OrderRow /\ x.net = order[o].net
    BY <1>0, <2>2 DEF OrderRow
  <2>4. order' = [order EXCEPT ![o] = x]
    BY <1>0, <2>1, <2>2
  <2> QED
    BY <2>2, <2>3, <2>4, OrderWritten DEF Sold
<1>7. \/ \E o \in Orders : Sell(o) \/ OrderByWinner(o)
      \/ \E h \in Handlers : UpdateShipment(h) \/ CreateRefund(h)
      \/ \E j \in Jobs : Settle(j)
      \/ UNCHANGED order
  BY Written DEF Writers
<1> QED
  BY <1>1, <1>2, <1>3, <1>4, <1>5, <1>6, <1>7

-----------------------------------------------------------------------------
(* To the shipments: only a sold order has one.                            *)
LEMMA ShipmentStep ==
  ASSUME IInv, [Next]_vars
  PROVE  /\ shipment' \in [Orders -> ShipmentRow]
         /\ \A o \in Orders : shipment'[o] # NoShipment => Sold(o)
<1> DEFINE Kept == /\ shipment' \in [Orders -> ShipmentRow]
                   /\ \A o \in Orders : shipment'[o] # NoShipment => Sold(o)
<1>0. shipment \in [Orders -> ShipmentRow] /\ now \in Times
  BY Typed DEF IInv
<1>1. ASSUME UNCHANGED shipment PROVE Kept
  BY <1>0, <1>1 DEF IInv, Tied
<1>2. ASSUME NEW o \in Orders, NEW x \in ShipmentRow, Sold(o),
             shipment' = [shipment EXCEPT ![o] = x]
      PROVE  Kept
  BY <1>0, <1>2 DEF IInv, Tied
<1>3. ASSUME NEW h \in Handlers, CreateShipment(h) PROVE Kept
  <2> DEFINE o == request[h].order
             x == [shipment[o] EXCEPT !.status = "PENDING"]
  <2>1. o \in Orders /\ Sold(o)
    BY <1>3, RequestOrder DEF CreateShipment
  <2>2. x \in ShipmentRow
    BY <1>0, <2>1 DEF ShipmentRow
  <2>3. shipment' = [shipment EXCEPT ![o] = x] \/ UNCHANGED shipment
    BY <1>3 DEF CreateShipment
  <2> QED
    BY <1>1, <1>2, <2>1, <2>2, <2>3
<1>4. ASSUME NEW h \in Handlers, UpdateShipment(h) PROVE Kept
  <2> DEFINE o == request[h].order
             x == [shipment[o] EXCEPT !.status = request[h].to,
                     !.delivered = IF request[h].to = "DELIVERED" /\ request[h].stamp
                                   THEN now ELSE @]
  <2>1. /\ o \in Orders /\ Sold(o) /\ request[h].to \in Declared
    BY <1>4, RequestOrder, RequestShapes DEF UpdateShipment
  <2>2. x \in ShipmentRow
    BY <1>0, <2>1 DEF ShipmentRow
  <2>3. shipment' = [shipment EXCEPT ![o] = x]
    BY <1>0, <1>4, <2>1 DEF UpdateShipment
  <2> QED
    BY <1>2, <2>1, <2>2, <2>3
<1>5. \/ \E h \in Handlers : CreateShipment(h) \/ UpdateShipment(h)
      \/ UNCHANGED shipment
  BY Written DEF Writers
<1> QED
  BY <1>1, <1>3, <1>4, <1>5

(* To the refunds: an order is repaid once.                                *)
LEMMA RefundStep ==
  ASSUME IInv, [Next]_vars
  PROVE  /\ refund' \in [Orders -> RefundRow]
         /\ \A o \in Orders : refund[o].amount # 0 => refund'[o].amount = refund[o].amount
<1> DEFINE Kept ==
      /\ refund' \in [Orders -> RefundRow]
      /\ \A o \in Orders : refund[o].amount # 0 => refund'[o].amount = refund[o].amount
<1>0. refund \in [Orders -> RefundRow]
  BY Typed DEF IInv
<1>1. ASSUME UNCHANGED refund PROVE Kept
  BY <1>0, <1>1
<1>2. ASSUME NEW h \in Handlers, CreateRefund(h) PROVE Kept
  <2> DEFINE o == request[h].order
             x == [status |-> "PENDING_REFUND", amount |-> request[h].amount]
  <2>1. o \in Orders /\ request[h].amount \in 1..Total
    BY <1>2, RequestOrder, RequestShapes DEF CreateRefund
  <2>2. x \in RefundRow
    BY <2>1, AftersaleAssumption DEF RefundRow
  <2>3. \/ UNCHANGED refund
        \/ refund[o].amount = 0 /\ refund' = [refund EXCEPT ![o] = x]
    BY <1>2 DEF CreateRefund, NoRefund
  <2> QED
    BY <1>0, <1>1, <2>1, <2>2, <2>3
<1>3. ASSUME NEW o \in Orders, NEW to \in RefundStatuses, UpdateRefundStatus(o, to) PROVE Kept
  <2> DEFINE x == [refund[o] EXCEPT !.status = to]
  <2>1. x \in RefundRow /\ x.amount = refund[o].amount
    BY <1>0 DEF RefundRow
  <2>2. refund' = [refund EXCEPT ![o] = x]
    BY <1>3 DEF UpdateRefundStatus
  <2> QED
    BY <1>0, <2>1, <2>2
<1>4. \/ \E h \in Handlers : CreateRefund(h)
      \/ \E o \in Orders, to \in RefundStatuses : UpdateRefundStatus(o, to)
      \/ UNCHANGED refund
  BY Written DEF Writers
<1> QED
  BY <1>1, <1>2, <1>3, <1>4

(* To the disputes: only the last write of a resolution marks one won.     *)
LEMMA DisputeStep ==
  ASSUME IInv, [Next]_vars
  PROVE  /\ dispute' \in [Orders -> DisputeRow]
         /\ \A o \in Orders : dispute'[o].won =>
              \/ dispute[o].won
              \/ \E h \in Handlers : request[h].op = "resolve" /\ request[h].order = o
<1> DEFINE Kept ==
      /\ dispute' \in [Orders -> DisputeRow]
      /\ \A o \in Orders : dispute'[o].won =>
           \/ dispute[o].won
           \/ \E h \in Handlers : request[h].op = "resolve" /\ request[h].order = o
<1>0. dispute \in [Orders -> DisputeRow]
  BY Typed DEF IInv
<1>1. ASSUME UNCHANGED dispute PROVE Kept
  BY <1>0, <1>1
<1>2. ASSUME NEW o \in Orders, NEW to \in {"OPEN", "IN_MEDIATION", "RESOLVED"},
             dispute' = [dispute EXCEPT ![o].status = to]
      PROVE  Kept
  <2> DEFINE x == [dispute[o] EXCEPT !.status = to]
  <2>1. x \in DisputeRow /\ x.won = dispute[o].won
    BY <1>0 DEF DisputeRow
  <2>2. dispute' = [dispute EXCEPT ![o] = x]
    BY <1>2
  <2> QED
    BY <1>0, <2>1, <2>2
<1>3. ASSUME NEW h \in Handlers, OpenDispute(h) PROVE Kept
  <2>1. request[h].order \in Orders
    BY <1>3, RequestOrder DEF OpenDispute
  <2>2. \/ UNCHANGED dispute
        \/ dispute' = [dispute EXCEPT ![request[h].order].status = "OPEN"]
    BY <1>3 DEF OpenDispute
  <2> QED
    BY <1>1, <1>2, <2>1, <2>2
<1>4. ASSUME NEW h \in Handlers, ResolveFavorBuyer(h) PROVE Kept
  <2> DEFINE x == [status |-> "RESOLVED", won |-> TRUE]
  <2>1. request[h].order \in Orders /\ request[h].op = "resolve"
    BY <1>4, RequestOrder DEF ResolveFavorBuyer
  <2>2. x \in DisputeRow
    BY DEF DisputeRow
  <2>3. dispute' = [dispute EXCEPT ![request[h].order] = x]
    BY <1>4 DEF ResolveFavorBuyer
  <2> QED
    BY <1>0, <2>1, <2>2, <2>3
<1>5. ASSUME NEW o \in Orders, ResolveFavorSeller(o) \/ RequestEvidence(o) PROVE Kept
  BY <1>5, <1>2 DEF ResolveFavorSeller, RequestEvidence, SetDisputeStatus
<1>6. \/ \E h \in Handlers : OpenDispute(h) \/ ResolveFavorBuyer(h)
      \/ \E o \in Orders : ResolveFavorSeller(o) \/ RequestEvidence(o)
      \/ UNCHANGED dispute
  BY Written DEF Writers
<1> QED
  BY <1>1, <1>3, <1>4, <1>5, <1>6

-----------------------------------------------------------------------------
(* To the requests: each step asks, goes on or answers one of them.        *)
Asks(h, r) ==
  /\ r \in Requests
  /\ Sold(r.order)
  /\ r.op # "resolve"
  /\ r.op = "refund" /\ r.resolves => r.amount = Total
  /\ r.op = "update shipment" /\ r.to = "DELIVERED" => r.who = "buyer"

LEMMA RequestStepKinds ==
  ASSUME IInv, [Next]_vars
  PROVE  \/ UNCHANGED request
         \/ \E h \in Handlers : Answer(h)
         \/ \E h \in Handlers : \E r : Asks(h, r) /\ request' = [request EXCEPT ![h] = r]
         \/ \E h \in Handlers :
              /\ request[h].op = "refund" /\ request[h].resolves
              /\ refund'[request[h].order].amount = request[h].amount
              /\ request' = [request EXCEPT ![h] = [op |-> "resolve", order |-> request[h].order]]
<1> DEFINE Kinds ==
      \/ UNCHANGED request
      \/ \E h \in Handlers : Answer(h)
      \/ \E h \in Handlers : \E r : Asks(h, r) /\ request' = [request EXCEPT ![h] = r]
      \/ \E h \in Handlers :
           /\ request[h].op = "refund" /\ request[h].resolves
           /\ refund'[request[h].order].amount = request[h].amount
           /\ request' = [request EXCEPT ![h] = [op |-> "resolve", order |-> request[h].order]]
<1>0. /\ \A o \in Orders : order[o].status \notin {"none", "PENDING_PAYMENT"} => Sold(o)
      /\ \A o \in Orders : shipment[o] # NoShipment => Sold(o)
  BY DEF IInv, Tied
<1>1. ASSUME NEW h \in Handlers, NEW o \in Orders, AskShipment(h, o) PROVE Kinds
  <2> DEFINE r == [op |-> "create shipment", order |-> o]
  <2>1. Asks(h, r)
    BY <1>0, <1>1 DEF AskShipment, Asks, Requests
  <2>2. request' = [request EXCEPT ![h] = r]
    BY <1>1 DEF AskShipment, Ask
  <2> QED
    BY <2>1, <2>2
<1>2. ASSUME NEW h \in Handlers, NEW o \in Orders, NEW who \in {"buyer", "seller"},
             NEW to \in Declared, AskUpdate(h, o, who, to)
      PROVE  Kinds
  <2>1. PICK stamp \in BOOLEAN :
          request' = [request EXCEPT ![h] = [op |-> "update shipment", order |-> o, who |-> who,
                                             to |-> to, stamp |-> stamp]]
    <3>1. (shipment[o].delivered = Never) \in BOOLEAN
      OBVIOUS
    <3> QED
      BY <1>2, <3>1, Zenon DEF AskUpdate, Ask
  <2> DEFINE r == [op |-> "update shipment", order |-> o, who |-> who, to |-> to,
                   stamp |-> stamp]
  <2>2. Sold(o)
    BY <1>0, <1>2 DEF AskUpdate
  <2>3. r \in Requests
    BY DEF Requests
  <2>4. /\ r.op # "refund" /\ r.op # "resolve" /\ Sold(r.order)
        /\ r.to = "DELIVERED" => r.who = "buyer"
    BY <1>2, <2>2 DEF AskUpdate, MayDeclare
  <2>5. request' = [request EXCEPT ![h] = r]
    BY <2>1
  <2> HIDE DEF r
  <2>6. Asks(h, r)
    BY <2>3, <2>4, Zenon DEF Asks
  <2> QED
    BY <2>5, <2>6
<1>3. ASSUME NEW h \in Handlers, NEW o \in Orders, AskDispute(h, o) PROVE Kinds
  <2> DEFINE r == [op |-> "open dispute", order |-> o]
  <2>1. Asks(h, r)
    BY <1>0, <1>3 DEF AskDispute, Asks, Requests
  <2>2. request' = [request EXCEPT ![h] = r]
    BY <1>3 DEF AskDispute, Ask
  <2> QED
    BY <2>1, <2>2
<1>4. ASSUME NEW o \in Orders, Refundable(o) PROVE Sold(o)
  BY <1>0, <1>4 DEF Refundable, CanTransition
<1>5. ASSUME NEW h \in Handlers, NEW o \in Orders, NEW amount \in RefundAmounts,
             AskRefund(h, o, amount)
      PROVE  Kinds
  <2> DEFINE r == [op |-> "refund", order |-> o, amount |-> amount, resolves |-> FALSE]
  <2>1. Asks(h, r)
    BY <1>4, <1>5, AftersaleAssumption DEF AskRefund, Asks, Requests
  <2>2. request' = [request EXCEPT ![h] = r]
    BY <1>5 DEF AskRefund, Ask
  <2> QED
    BY <2>1, <2>2
<1>6. ASSUME NEW h \in Handlers, NEW o \in Orders, AskResolution(h, o) PROVE Kinds
  <2> DEFINE r == [op |-> "refund", order |-> o, amount |-> Total, resolves |-> TRUE]
  <2>1. Sold(o)
    BY <1>4, <1>6 DEF AskResolution
  <2>2. r \in Requests
    <3>1. Total \in 1..Total
      BY AftersaleAssumption
    <3>2. r \in [op : {"refund"}, order : Orders, amount : 1..Total, resolves : BOOLEAN]
      BY <3>1
    <3> QED
      BY <3>2 DEF Requests
  <2>3. Asks(h, r)
    BY <2>1, <2>2 DEF Asks
  <2>4. request' = [request EXCEPT ![h] = r]
    BY <1>6 DEF AskResolution, Ask
  <2> QED
    BY <2>3, <2>4
<1>7. ASSUME NEW h \in Handlers, CreateRefund(h) PROVE Kinds
  <2>1. request[h].op = "refund" /\ request[h].order \in Orders /\ refund \in [Orders -> RefundRow]
    BY <1>7, RequestOrder, Typed DEF CreateRefund, IInv
  <2>2. CASE Answer(h)
    BY <2>2
  <2>3. CASE /\ request[h].resolves
             /\ refund' = [refund EXCEPT ![request[h].order] =
                  [status |-> "PENDING_REFUND", amount |-> request[h].amount]]
             /\ request' = [request EXCEPT ![h] =
                  [op |-> "resolve", order |-> request[h].order]]
    <3>1. refund'[request[h].order].amount = request[h].amount
      BY <2>1, <2>3
    <3> QED
      BY <2>1, <2>3, <3>1
  <2> QED
    BY <1>7, <2>2, <2>3 DEF CreateRefund
<1>8. \/ \E h \in Handlers, o \in Orders :
           \/ AskShipment(h, o)
           \/ \E who \in {"buyer", "seller"}, to \in Declared : AskUpdate(h, o, who, to)
           \/ AskDispute(h, o)
           \/ \E amount \in RefundAmounts : AskRefund(h, o, amount)
           \/ AskResolution(h, o)
      \/ \E h \in Handlers : CreateRefund(h)
      \/ \E h \in Handlers : Answer(h)
      \/ UNCHANGED request
  BY DEF Next, vars, RequestStep, JobStep, Sell, OrderByWinner, CreateShipment, UpdateShipment,
     OpenDispute, ResolveFavorBuyer, RequestDies, ResolveFavorSeller, RequestEvidence,
     SetDisputeStatus, UpdateRefundStatus, FindMatured, Settle, SettleFails, Tick
<1> QED
  BY <1>1, <1>2, <1>3, <1>5, <1>6, <1>7, <1>8

LEMMA RequestKept ==
  ASSUME IInv, [Next]_vars
  PROVE  /\ request' \in [Handlers -> Requests]
         /\ \A h \in Handlers : request'[h] # Idle => order'[request'[h].order].net # 0
         /\ \A h \in Handlers :
              request'[h].op = "refund" /\ request'[h].resolves => request'[h].amount = Total
         /\ \A h \in Handlers :
              request'[h].op = "resolve" => refund'[request'[h].order].amount = Total
<1> DEFINE Fine(r) ==
      /\ r \in Requests
      /\ r # Idle => order'[r.order].net # 0
      /\ r.op = "refund" /\ r.resolves => r.amount = Total
      /\ r.op = "resolve" => refund'[r.order].amount = Total
<1>0. request \in [Handlers -> Requests]
  BY Typed DEF IInv
<1>1. ASSUME NEW o \in Orders, Sold(o) PROVE order'[o].net # 0
  BY <1>1, OrderStep DEF Sold
<1>2. ASSUME NEW h \in Handlers PROVE Fine(request[h])
  <2>1. CASE request[h].op = "idle"
    <3>1. request[h] = Idle
      BY <1>0, <2>1, IdleByOp
    <3> QED
      BY <1>0, <2>1, <3>1 DEF Idle
  <2>2. CASE request[h].op # "idle"
    <3>1. request[h] \in Requests /\ request[h].order \in Orders /\ Sold(request[h].order)
      BY <2>2, RequestOrder
    <3>2. order'[request[h].order].net # 0
      BY <1>1, <3>1
    <3>3. request[h].op = "resolve" => refund'[request[h].order].amount = Total
      BY <3>1, RefundStep, AftersaleAssumption DEF IInv, Repaid
    <3> QED
      BY <3>1, <3>2, <3>3 DEF IInv, Repaid
  <2> QED
    BY <2>1, <2>2
<1>3. Fine(Idle)
  BY DEF Idle, Requests
<1>4. ASSUME NEW h \in Handlers, NEW r, Fine(r), request' = [request EXCEPT ![h] = r]
      PROVE  request' \in [Handlers -> Requests] /\ \A g \in Handlers : Fine(request'[g])
  BY <1>0, <1>2, <1>4
<1>5. CASE UNCHANGED request
  BY <1>0, <1>2, <1>5
<1>6. CASE \E h \in Handlers : Answer(h)
  BY <1>3, <1>4, <1>6 DEF Answer
<1>7. CASE \E h \in Handlers : \E r : Asks(h, r) /\ request' = [request EXCEPT ![h] = r]
  <2>1. PICK h \in Handlers : \E r : Asks(h, r) /\ request' = [request EXCEPT ![h] = r]
    BY <1>7
  <2>2. PICK r : Asks(h, r) /\ request' = [request EXCEPT ![h] = r]
    BY <2>1
  <2>3. r # Idle => r.order \in Orders
    BY <2>2, RequestShapes, IdleByOp DEF Asks
  <2>4. Fine(r)
    BY <1>1, <2>2, <2>3 DEF Asks
  <2> QED
    BY <1>4, <2>2, <2>4
<1>8. CASE \E h \in Handlers :
             /\ request[h].op = "refund" /\ request[h].resolves
             /\ refund'[request[h].order].amount = request[h].amount
             /\ request' = [request EXCEPT ![h] = [op |-> "resolve", order |-> request[h].order]]
  <2>1. PICK h \in Handlers :
             /\ request[h].op = "refund" /\ request[h].resolves
             /\ refund'[request[h].order].amount = request[h].amount
             /\ request' = [request EXCEPT ![h] = [op |-> "resolve", order |-> request[h].order]]
    BY <1>8
  <2> DEFINE r == [op |-> "resolve", order |-> request[h].order]
  <2>2. request[h].order \in Orders /\ Sold(request[h].order)
    BY <2>1, RequestOrder
  <2>3. r \in Requests
    BY <2>2 DEF Requests
  <2>4. refund'[r.order].amount = Total
    BY <2>1 DEF IInv, Repaid
  <2>5. Fine(r)
    BY <1>1, <2>2, <2>3, <2>4
  <2> QED
    BY <1>4, <2>1, <2>5
<1> QED
  BY <1>5, <1>6, <1>7, <1>8, RequestStepKinds

(* To the lists of the job: it looks for sold orders only.                 *)
LEMMA JobKept ==
  ASSUME IInv, [Next]_vars
  PROVE  /\ job' \in [Jobs -> SUBSET Orders]
         /\ \A j \in Jobs : \A o \in job'[j] : order'[o].net # 0
<1>0. job \in [Jobs -> SUBSET Orders] /\ \A j \in Jobs : \A o \in job[j] : Sold(o)
  BY DEF IInv, TypeOK, Tied
<1>1. \A o \in Orders : Sold(o) => order'[o].net # 0
  BY OrderStep DEF Sold
<1>2. CASE UNCHANGED job
  BY <1>0, <1>1, <1>2
<1>3. ASSUME NEW j \in Jobs, NEW S \in SUBSET Orders, \A o \in S : Sold(o),
             job' = [job EXCEPT ![j] = S]
      PROVE  /\ job' \in [Jobs -> SUBSET Orders]
             /\ \A i \in Jobs : \A o \in job'[i] : order'[o].net # 0
  BY <1>0, <1>1, <1>3
<1>4. CASE \E j \in Jobs : FindMatured(j)
  <2>1. PICK j \in Jobs : FindMatured(j)
    BY <1>4
  <2>2. job' = [job EXCEPT ![j] = {o \in Orders : Matured(o)}]
    BY <2>1 DEF FindMatured
  <2>3. \A o \in {p \in Orders : Matured(p)} : Sold(o)
    BY DEF Matured
  <2> QED
    BY <1>3, <2>2, <2>3
<1>5. CASE \E j \in Jobs : \E o \in job[j] : job' = [job EXCEPT ![j] = @ \ {o}]
  <2>1. PICK j \in Jobs : \E o \in job[j] : job' = [job EXCEPT ![j] = @ \ {o}]
    BY <1>5
  <2>2. PICK o \in job[j] : job' = [job EXCEPT ![j] = job[j] \ {o}]
    BY <2>1
  <2>3. job[j] \ {o} \in SUBSET Orders /\ \A p \in job[j] \ {o} : Sold(p)
    BY <1>0
  <2> QED
    BY <1>3, <2>2, <2>3
<1>6. \/ \E j \in Jobs : FindMatured(j)
      \/ \E j \in Jobs : \E o \in job[j] : job' = [job EXCEPT ![j] = @ \ {o}]
      \/ UNCHANGED job
  BY Written DEF Writers, Settle, SettleFails
<1> QED
  BY <1>2, <1>4, <1>5, <1>6

-----------------------------------------------------------------------------
(* To the seller's row: what he owns moves with a sale and a refund only,  *)
(* and nothing takes more from the holdback than is on it.                 *)
SellerRow == [pending : Nat, balance : Int]

LEMMA ReversedRow ==
  ASSUME NEW row \in SellerRow, NEW amount \in Nat
  PROVE  /\ Reversed(row, amount) \in SellerRow
         /\ Reversed(row, amount).pending + Reversed(row, amount).balance
              = (row.pending + row.balance) - amount
BY DEF SellerRow, Reversed

LEMMA ReleasedRow ==
  ASSUME NEW row \in SellerRow
  PROVE  /\ Released(row) \in SellerRow
         /\ Released(row).pending + Released(row).balance = row.pending + row.balance
         /\ Released(row).balance - row.balance \in Nat
BY AftersaleAssumption DEF SellerRow, Released

LEMMA SellerStep ==
  ASSUME IInv, [Next]_vars
  PROVE  seller' \in SellerRow /\ released' \in [Orders -> Nat]
<1>0. seller \in SellerRow /\ released \in [Orders -> Nat] /\ Net \in Nat
  BY AftersaleAssumption DEF IInv, TypeOK, SellerRow
<1>1. CASE \E o \in Orders : Sell(o)
  BY <1>0, <1>1 DEF Sell, SellerRow, history
<1>2. CASE \E h \in Handlers : CreateRefund(h)
  <2>1. PICK h \in Handlers : CreateRefund(h)
    BY <1>2
  <2>2. request[h].amount \in 1..Total
    BY <2>1, RequestOrder, RequestShapes DEF CreateRefund
  <2>3. request[h].amount \in Nat
    BY <2>2, AftersaleAssumption
  <2>4. \/ UNCHANGED seller
        \/ seller' = Reversed(seller, request[h].amount)
    BY <2>1 DEF CreateRefund
  <2>5. UNCHANGED released
    BY <2>1 DEF CreateRefund, history
  <2> QED
    BY <1>0, <2>3, <2>4, <2>5, ReversedRow
<1>3. CASE \E j \in Jobs : Settle(j)
  <2>0. PICK j \in Jobs : Settle(j)
    BY <1>3
  <2>1. PICK o \in job[j] :
          /\ seller' = Released(seller)
          /\ released' = [released EXCEPT ![o] = @ + (seller'.balance - seller.balance)]
    BY <2>0 DEF Settle
  <2>2. seller' \in SellerRow /\ seller'.balance - seller.balance \in Nat
    BY <1>0, <2>1, ReleasedRow
  <2>3. o \in Orders
    BY DEF IInv, TypeOK
  <2>4. released[o] + (seller'.balance - seller.balance) \in Nat
    BY <1>0, <2>2, <2>3
  <2> QED
    BY <1>0, <2>1, <2>2, <2>3, <2>4
<1>4. \/ \E o \in Orders : Sell(o)
      \/ \E h \in Handlers : CreateRefund(h)
      \/ \E j \in Jobs : Settle(j)
      \/ UNCHANGED <<seller, released>>
  BY Written DEF Writers
<1> QED
  BY <1>0, <1>1, <1>2, <1>3, <1>4

(* To the clock, the faults and the first confirmations.                   *)
LEMMA CountersStep ==
  ASSUME IInv, [Next]_vars
  PROVE  now' \in 0..MaxTime /\ faults' \in 0..MaxFaults /\ confirmed' \in [Orders -> Times]
<1>0. /\ now \in 0..MaxTime /\ faults \in 0..MaxFaults /\ confirmed \in [Orders -> Times]
      /\ MaxTime \in Nat /\ MaxFaults \in Nat
  BY AftersaleAssumption DEF IInv, TypeOK
<1>1. now' \in 0..MaxTime
  <2>1. Tick \/ UNCHANGED now
    BY Written DEF Writers
  <2> QED
    BY <1>0, <2>1 DEF Tick
<1>2. faults' \in 0..MaxFaults
  <2>1. (faults < MaxFaults /\ faults' = faults + 1) \/ UNCHANGED faults
    BY Written DEF Writers
  <2> QED
    BY <1>0, <2>1
<1>3. confirmed' \in [Orders -> Times]
  <2>1. (\E o : confirmed' = [confirmed EXCEPT ![o] = now]) \/ UNCHANGED confirmed
    BY Written DEF Writers, UpdateShipment
  <2>2. now \in Times
    BY Typed DEF IInv
  <2> QED
    BY <1>0, <2>1, <2>2
<1> QED
  BY <1>1, <1>2, <1>3

-----------------------------------------------------------------------------
LEMMA InitInv == Init => IInv
<1> SUFFICES ASSUME Init PROVE IInv
  OBVIOUS
<1>1. TypeOK
  <2>1. /\ Never \in Times /\ 0 \in 0..MaxTime /\ 0 \in 0..MaxFaults
        /\ 0 \in 0..Total
    BY AftersaleAssumption DEF Times, Never
  <2>2. /\ NoOrder \in OrderRow /\ NoShipment \in ShipmentRow /\ NoDispute \in DisputeRow
        /\ NoRefund \in RefundRow /\ Idle \in Requests
    BY <2>1 DEF NoOrder, OrderRow, NoShipment, ShipmentRow, NoDispute, DisputeRow, NoRefund,
       RefundRow, Idle, Requests
  <2> QED
    BY <2>1, <2>2 DEF Init, TypeOK, OrderRow, ShipmentRow, DisputeRow, RefundRow
<1>2. Tied
  BY DEF Init, Tied, NoOrder
<1>3. Repaid
  BY DEF Init, Repaid, ResolvedIsRepaid, Idle, NoDispute
<1> QED
  BY <1>1, <1>2, <1>3 DEF IInv

LEMMA NextInv == IInv /\ [Next]_vars => IInv'
<1> SUFFICES ASSUME IInv, [Next]_vars PROVE IInv'
  OBVIOUS
<1>1. TypeOK'
  BY OrderStep, ShipmentStep, DisputeStep, RefundStep, SellerStep, RequestKept, JobKept,
     CountersStep DEF TypeOK, OrderRow, ShipmentRow, DisputeRow, RefundRow, SellerRow
<1>2. Tied'
  <2>1. \A o \in Orders : shipment'[o] # NoShipment => order'[o].net # 0
    BY OrderStep, ShipmentStep DEF Sold
  <2> QED
    BY <2>1, OrderStep, RequestKept, JobKept DEF Tied, Sold
<1>3. Repaid'
  <2>1. ASSUME NEW o \in Orders, dispute'[o].won PROVE refund'[o].amount = Total
    <3>1. refund[o].amount = Total
      BY <2>1, DisputeStep DEF IInv, Repaid, ResolvedIsRepaid
    <3> QED
      BY <3>1, RefundStep, AftersaleAssumption
  <2> QED
    BY <2>1, RequestKept DEF Repaid, ResolvedIsRepaid
<1> QED
  BY <1>1, <1>2, <1>3 DEF IInv

LEMMA Inductive == Spec => []IInv
BY InitInv, NextInv, PTL DEF Spec

(* Types: no request, job or resolution, in any order and with any         *)
(* failure, takes more from the holdback than is on it, and no refund      *)
(* exceeds the total of its order (TypeOK of Aftersale).                   *)
THEOREM AftersaleTypes == Spec => []TypeOK
<1>1. IInv => TypeOK
  BY DEF IInv
<1> QED
  BY <1>1, Inductive, PTL

(* A dispute that the panel resolved for the buyer has paid him the whole  *)
(* order, however requests overlap and whichever of them die               *)
(* (resolveDisputeFavorBuyer: ResolvedIsRepaid of Aftersale).              *)
THEOREM ResolutionSafety == Spec => []ResolvedIsRepaid
<1>1. IInv => ResolvedIsRepaid
  BY DEF IInv, Repaid
<1> QED
  BY <1>1, Inductive, PTL

-----------------------------------------------------------------------------
(* The refinement.  What SaleProceeds sees of the tables:                  *)
SoldNow == {o \in Orders : Sold(o)}
SettledNow == {o \in Orders : order[o].settled}
RepaidNow == [o \in Orders |-> refund[o].amount]
Funds == seller.pending + seller.balance
seen == <<SoldNow, SettledNow, RepaidNow, Funds>>

LEMMA InitRefines == Init => Proceeds!Init
BY DEF Init, Proceeds!Init, Sold, NoOrder, NoRefund

(* A row rewritten with the same net and mark shows nothing.               *)
LEMMA OrderUnseen ==
  ASSUME IInv, NEW o \in Orders, NEW x, x.net = order[o].net, x.settled = order[o].settled,
         order' = [order EXCEPT ![o] = x]
  PROVE  UNCHANGED <<SoldNow, SettledNow>>
<1>1. order \in [Orders -> OrderRow]
  BY Typed DEF IInv
<1>2. \A p \in Orders : order'[p].net = order[p].net /\ order'[p].settled = order[p].settled
  BY <1>1
<1> QED
  BY <1>2 DEF SoldNow, SettledNow, Sold

LEMMA SellRefines ==
  ASSUME IInv, NEW o \in Orders, Sell(o)
  PROVE  Proceeds!Capture(o)
<1>0. order \in [Orders -> OrderRow] /\ seller \in SellerRow /\ Net \in Nat /\ Net # 0
  BY Typed, AftersaleAssumption DEF IInv, TypeOK, SellerRow
<1> DEFINE x == [NoOrder EXCEPT !.status = "PAID", !.net = Net, !.created = now, !.updated = now]
<1>1. order' = [order EXCEPT ![o] = x] /\ order[o].net = 0 /\ ~order[o].settled
  BY DEF Sell, NoOrder
<1>2. x.net = Net /\ x.settled = FALSE
  BY DEF NoOrder
<1>3. \A p \in Orders : order'[p] = IF p = o THEN x ELSE order[p]
  BY <1>0, <1>1
<1> HIDE DEF x
<1>4. SoldNow' = SoldNow \union {o} /\ o \notin SoldNow
  BY <1>0, <1>1, <1>2, <1>3 DEF SoldNow, Sold
<1>5. SettledNow' = SettledNow
  BY <1>1, <1>2, <1>3 DEF SettledNow
<1>6. Funds' = Funds + Net
  BY <1>0 DEF Sell, SellerRow, Funds
<1>7. RepaidNow' = RepaidNow
  BY DEF Sell, RepaidNow
<1> QED
  BY <1>4, <1>5, <1>6, <1>7 DEF Proceeds!Capture, SoldNow, SettledNow, Funds, RepaidNow

LEMMA SettleRefines ==
  ASSUME IInv, NEW j \in Jobs, Settle(j)
  PROVE  (\E o \in Orders : Proceeds!Settle(o)) \/ UNCHANGED seen
<1>0. order \in [Orders -> OrderRow] /\ seller \in SellerRow
  BY Typed DEF IInv, TypeOK, SellerRow
<1>1. PICK o \in job[j] : /\ order' = [order EXCEPT ![o].settled = TRUE, ![o].updated = now]
                          /\ seller' = Released(seller)
                          /\ UNCHANGED refund
  BY DEF Settle
<1>2. o \in Orders /\ Sold(o)
  BY DEF IInv, TypeOK, Tied
<1>3. Funds' = Funds /\ RepaidNow' = RepaidNow
  BY <1>0, <1>1, ReleasedRow DEF Funds, RepaidNow
<1>4. \A p \in Orders : /\ order'[p].net = order[p].net
                        /\ order'[p].settled = IF p = o THEN TRUE ELSE order[p].settled
  BY <1>0, <1>1, <1>2 DEF OrderRow
<1>5. SoldNow' = SoldNow /\ o \in SoldNow
  BY <1>2, <1>4 DEF SoldNow, Sold
<1>6. SettledNow' = SettledNow \union {o}
  BY <1>2, <1>4 DEF SettledNow
<1>7. CASE o \in SettledNow
  BY <1>3, <1>5, <1>6, <1>7 DEF seen
<1>8. CASE o \notin SettledNow
  <2>1. Proceeds!Settle(o)
    BY <1>3, <1>5, <1>6, <1>8 DEF Proceeds!Settle, SoldNow, SettledNow, Funds, RepaidNow
  <2> QED
    BY <1>2, <2>1
<1> QED
  BY <1>7, <1>8

LEMMA RefundRefines ==
  ASSUME IInv, NEW h \in Handlers, CreateRefund(h)
  PROVE  \/ \E o \in Orders, amount \in 1..Total : Proceeds!Repay(o, amount)
         \/ UNCHANGED seen
<1> DEFINE o == request[h].order
           amount == request[h].amount
           x == [order[o] EXCEPT !.status = "REFUNDED", !.updated = now]
<1>0. /\ order \in [Orders -> OrderRow] /\ refund \in [Orders -> RefundRow]
      /\ seller \in SellerRow
  BY Typed DEF IInv, TypeOK, SellerRow
<1>1. o \in Orders /\ Sold(o) /\ amount \in 1..Total
  BY RequestOrder, RequestShapes DEF CreateRefund
<1>2. CASE UNCHANGED <<refund, order, seller>>
  BY <1>2 DEF seen, SoldNow, Sold, SettledNow, RepaidNow, Funds
<1>3. CASE /\ refund[o] = NoRefund
           /\ refund' = [refund EXCEPT ![o] = [status |-> "PENDING_REFUND", amount |-> amount]]
           /\ order' = [order EXCEPT ![o].status = "REFUNDED", ![o].updated = now]
           /\ seller' = Reversed(seller, amount)
  <2>1. order' = [order EXCEPT ![o] = x]
    BY <1>0, <1>1, <1>3
  <2>2. x.net = order[o].net /\ x.settled = order[o].settled
    BY <1>0, <1>1 DEF OrderRow
  <2>3. UNCHANGED <<SoldNow, SettledNow>>
    BY <1>1, <2>1, <2>2, OrderUnseen
  <2>4. amount \in Nat
    BY <1>1, AftersaleAssumption
  <2>5. Funds' = Funds - amount
    <3>1. seller' = Reversed(seller, amount)
      BY <1>3
    <3>2. seller'.pending + seller'.balance = (seller.pending + seller.balance) - amount
      BY <1>0, <2>4, <3>1, ReversedRow
    <3> QED
      BY <3>2 DEF Funds
  <2>6. RepaidNow' = [RepaidNow EXCEPT ![o] = amount] /\ RepaidNow[o] = 0
    BY <1>0, <1>1, <1>3 DEF RepaidNow, NoRefund
  <2>7. o \in SoldNow
    BY <1>1 DEF SoldNow
  <2>8. PICK p \in Orders, a \in 1..Total : p = o /\ a = amount
    BY <1>1
  <2>9. Proceeds!Repay(p, a)
    BY <2>3, <2>5, <2>6, <2>7, <2>8 DEF Proceeds!Repay, SoldNow, SettledNow, Funds, RepaidNow
  <2> QED
    BY <2>9
<1>4. \/ UNCHANGED <<refund, order, seller>>
      \/ /\ refund[o] = NoRefund
         /\ refund' = [refund EXCEPT ![o] = [status |-> "PENDING_REFUND", amount |-> amount]]
         /\ order' = [order EXCEPT ![o].status = "REFUNDED", ![o].updated = now]
         /\ seller' = Reversed(seller, amount)
  BY DEF CreateRefund
<1> QED
  BY <1>2, <1>3, <1>4

LEMMA StepRefines ==
  ASSUME IInv, [Next]_vars
  PROVE  [Proceeds!Next]_seen
<1> DEFINE Refines ==
      \/ \E o \in Orders : Proceeds!Capture(o)
      \/ \E o \in Orders : Proceeds!Settle(o)
      \/ \E o \in Orders, amount \in 1..Total : Proceeds!Repay(o, amount)
      \/ UNCHANGED seen
<1>0. order \in [Orders -> OrderRow] /\ refund \in [Orders -> RefundRow]
  BY Typed DEF IInv
<1>1. ASSUME NEW o \in Orders, Sell(o) PROVE Proceeds!Capture(o)
  BY <1>1, SellRefines
<1>2. ASSUME NEW j \in Jobs, Settle(j)
      PROVE  (\E o \in Orders : Proceeds!Settle(o)) \/ UNCHANGED seen
  BY <1>2, SettleRefines
<1>3. ASSUME NEW h \in Handlers, CreateRefund(h)
      PROVE  \/ \E o \in Orders, amount \in 1..Total : Proceeds!Repay(o, amount)
             \/ UNCHANGED seen
  BY <1>3, RefundRefines
<1>4. ASSUME NEW o \in Orders, OrderByWinner(o) PROVE UNCHANGED seen
  <2> DEFINE x == [NoOrder EXCEPT !.status = "PENDING_PAYMENT",
                                  !.created = now, !.updated = now]
  <2>1. order' = [order EXCEPT ![o] = x] /\ order[o] = NoOrder
    BY <1>4 DEF OrderByWinner
  <2>2. x.net = order[o].net /\ x.settled = order[o].settled
    BY <2>1 DEF NoOrder
  <2>3. UNCHANGED <<SoldNow, SettledNow>>
    BY <2>1, <2>2, OrderUnseen
  <2>4. UNCHANGED <<RepaidNow, Funds>>
    BY <1>4 DEF OrderByWinner, RepaidNow, Funds
  <2> QED
    BY <2>3, <2>4 DEF seen
<1>5. ASSUME NEW h \in Handlers, UpdateShipment(h) PROVE UNCHANGED seen
  <2> DEFINE o == request[h].order
             x == [order[o] EXCEPT !.status = request[h].to, !.updated = now]
  <2>1. o \in Orders
    BY <1>5, RequestOrder DEF UpdateShipment
  <2>2. ASSUME UNCHANGED order PROVE UNCHANGED <<SoldNow, SettledNow>>
    BY <2>2 DEF SoldNow, Sold, SettledNow
  <2>3. ASSUME order' = [order EXCEPT ![o].status = request[h].to, ![o].updated = now]
        PROVE  UNCHANGED <<SoldNow, SettledNow>>
    <3>1. order' = [order EXCEPT ![o] = x]
      BY <1>0, <2>1, <2>3
    <3>2. x.net = order[o].net /\ x.settled = order[o].settled
      BY <1>0, <2>1 DEF OrderRow
    <3> QED
      BY <2>1, <3>1, <3>2, OrderUnseen
  <2>4. UNCHANGED <<SoldNow, SettledNow>>
    BY <1>5, <2>2, <2>3 DEF UpdateShipment
  <2>5. UNCHANGED <<RepaidNow, Funds>>
    BY <1>5 DEF UpdateShipment, RepaidNow, Funds
  <2> QED
    BY <2>4, <2>5 DEF seen
<1>6. ASSUME NEW o \in Orders, NEW to \in RefundStatuses, UpdateRefundStatus(o, to)
      PROVE  UNCHANGED seen
  <2>1. \A p \in Orders : refund'[p].amount = refund[p].amount
    BY <1>0, <1>6 DEF UpdateRefundStatus, RefundRow
  <2>2. RepaidNow' = RepaidNow
    BY <2>1 DEF RepaidNow
  <2> QED
    BY <1>6, <2>2 DEF UpdateRefundStatus, seen, SoldNow, Sold, SettledNow, Funds
<1>7. ASSUME UNCHANGED <<order, refund, seller>> PROVE UNCHANGED seen
  BY <1>7 DEF seen, SoldNow, Sold, SettledNow, RepaidNow, Funds
<1>8. \/ \E o \in Orders : Sell(o) \/ OrderByWinner(o)
      \/ \E h \in Handlers : UpdateShipment(h) \/ CreateRefund(h)
      \/ \E o \in Orders, to \in RefundStatuses : UpdateRefundStatus(o, to)
      \/ \E j \in Jobs : Settle(j)
      \/ UNCHANGED <<order, refund, seller>>
  BY Written DEF Writers
<1>9. Refines
  BY <1>1, <1>2, <1>3, <1>4, <1>5, <1>6, <1>7, <1>8
<1> QED
  BY <1>9 DEF Proceeds!Next

(* The tables and the wallet implement what the after-sale services        *)
(* promise about the money of a sale: captured once, made available once,  *)
(* repaid at most once and within what the buyer paid, whatever overlaps   *)
(* and whatever fails (ImplementsProceeds of Aftersale).                   *)
THEOREM ProceedsRefinement == Spec => ImplementsProceeds
<1>1. IInv /\ [Next]_vars => [Proceeds!Next]_seen
  BY StepRefines
<1> QED
  BY <1>1, InitRefines, Inductive, PTL
  DEF Spec, ImplementsProceeds, Proceeds!Spec, seen, SoldNow, SettledNow, RepaidNow, Funds

-----------------------------------------------------------------------------
(* The holdback.  A delivery is stamped by the buyer only, and not before  *)
(* his first confirmation; a sale the job found matured stays matured.     *)
Earned(o) ==
  \/ confirmed[o] # Never /\ confirmed[o] + Holdback <= now
  \/ Expired(o)

Timely ==
  /\ \A h \in Handlers :
       request[h].op = "update shipment" /\ request[h].to = "DELIVERED"
         => request[h].who = "buyer"
  /\ \A o \in Orders : confirmed[o] <= now
  /\ \A o \in Orders : shipment[o].delivered # Never =>
       confirmed[o] # Never /\ confirmed[o] <= shipment[o].delivered
  /\ \A j \in Jobs : \A o \in job[j] : Earned(o)

LEMMA Clock ==
  ASSUME IInv, [Next]_vars
  PROVE  now \in Nat /\ now' \in Nat /\ now <= now'
<1>1. now \in Nat /\ (Tick \/ UNCHANGED now)
  BY Written, AftersaleAssumption DEF Writers, IInv, TypeOK
<1> QED
  BY <1>1 DEF Tick

(* A first confirmation and the moment of a sale are written once.         *)
LEMMA ConfirmedOnce ==
  ASSUME IInv, [Next]_vars, NEW o \in Orders
  PROVE  /\ confirmed[o] # Never => confirmed'[o] = confirmed[o]
         /\ confirmed'[o] \in {confirmed[o], now}
<1>0. confirmed \in [Orders -> Times]
  BY DEF IInv, TypeOK
<1>1. CASE UNCHANGED confirmed
  BY <1>1
<1>2. ASSUME NEW h \in Handlers, UpdateShipment(h)
      PROVE  \/ UNCHANGED confirmed
             \/ /\ confirmed[request[h].order] = Never
                /\ confirmed' = [confirmed EXCEPT ![request[h].order] = now]
  BY <1>2 DEF UpdateShipment
<1> QED
  BY <1>0, <1>1, <1>2, Written DEF Writers

LEMMA CreatedOnce ==
  ASSUME IInv, [Next]_vars, NEW o \in Orders, order[o].created # Never
  PROVE  order'[o].created = order[o].created
<1>0. order \in [Orders -> OrderRow]
  BY Typed DEF IInv
<1>1. ASSUME NEW p \in Orders, Sell(p) \/ OrderByWinner(p)
      PROVE  order'[o].created = order[o].created
  <2>1. order[p] = NoOrder /\ p # o
    BY <1>1 DEF Sell, OrderByWinner, NoOrder
  <2> QED
    BY <1>0, <1>1, <2>1 DEF Sell, OrderByWinner
<1>2. ASSUME NEW p, NEW s,
             \/ order' = [order EXCEPT ![p].status = s, ![p].updated = now]
             \/ order' = [order EXCEPT ![p].settled = TRUE, ![p].updated = now]
      PROVE  order'[o].created = order[o].created
  BY <1>0, <1>2 DEF OrderRow
<1>3. ASSUME NEW h \in Handlers, UpdateShipment(h) \/ CreateRefund(h)
      PROVE  \/ UNCHANGED order
             \/ \E p, s : order' = [order EXCEPT ![p].status = s, ![p].updated = now]
  BY <1>3 DEF UpdateShipment, CreateRefund
<1>4. ASSUME NEW j \in Jobs, Settle(j)
      PROVE  \E p : order' = [order EXCEPT ![p].settled = TRUE, ![p].updated = now]
  BY <1>4 DEF Settle
<1> QED
  BY <1>1, <1>2, <1>3, <1>4, Written DEF Writers

LEMMA EarnedKept ==
  ASSUME IInv, [Next]_vars, NEW o \in Orders, Earned(o)
  PROVE  Earned(o)'
<1>0. /\ confirmed[o] \in Int /\ order[o].created \in Int /\ Holdback \in Nat /\ Window \in Nat
  BY Typed, AftersaleAssumption DEF IInv, TypeOK, OrderRow, Times, Never
<1>1. CASE confirmed[o] # Never /\ confirmed[o] + Holdback <= now
  BY <1>0, <1>1, Clock, ConfirmedOnce DEF Earned
<1>2. CASE Expired(o)
  BY <1>0, <1>2, Clock, CreatedOnce DEF Earned, Expired
<1> QED
  BY <1>1, <1>2 DEF Earned

LEMMA DeliveredStep ==
  ASSUME IInv, Timely, [Next]_vars, NEW o \in Orders, shipment'[o].delivered # Never
  PROVE  confirmed'[o] # Never /\ confirmed'[o] <= shipment'[o].delivered
<1>0. /\ shipment \in [Orders -> ShipmentRow] /\ confirmed \in [Orders -> Times]
      /\ now \in Int /\ now # Never
  BY Typed DEF IInv, TypeOK, Never
<1>1. CASE shipment'[o].delivered = shipment[o].delivered
  BY <1>1, ConfirmedOnce DEF Timely
<1>2. ASSUME NEW h \in Handlers, CreateShipment(h)
      PROVE  shipment'[o].delivered = shipment[o].delivered
  BY <1>0, <1>2 DEF CreateShipment, ShipmentRow
<1>3. ASSUME NEW h \in Handlers, UpdateShipment(h)
      PROVE  confirmed'[o] # Never /\ confirmed'[o] <= shipment'[o].delivered
  <2> DEFINE stamps == request[h].to = "DELIVERED" /\ request[h].stamp /\ request[h].order = o
  <2>1. CASE ~stamps
    <3>1. shipment'[o].delivered = shipment[o].delivered
      BY <1>0, <1>3, <2>1 DEF UpdateShipment, ShipmentRow
    <3> QED
      BY <1>1, <3>1
  <2>2. CASE stamps
    <3>1. request[h].who = "buyer"
      BY <1>3, <2>2 DEF UpdateShipment, Timely
    <3>2. shipment'[o].delivered = now
      BY <1>0, <1>3, <2>2 DEF UpdateShipment, ShipmentRow
    <3>3. confirmed'[o] = IF confirmed[o] = Never THEN now ELSE confirmed[o]
      BY <1>0, <1>3, <2>2, <3>1 DEF UpdateShipment
    <3>4. confirmed[o] <= now
      BY DEF Timely
    <3> QED
      BY <1>0, <3>2, <3>3, <3>4
  <2> QED
    BY <2>1, <2>2
<1>4. \/ \E h \in Handlers : CreateShipment(h) \/ UpdateShipment(h)
      \/ UNCHANGED shipment
  BY Written DEF Writers
<1> QED
  BY <1>1, <1>2, <1>3, <1>4

LEMMA TimelyStep ==
  ASSUME IInv, Timely, [Next]_vars
  PROVE  Timely'
<1>1. \A h \in Handlers : request'[h].op = "update shipment" /\ request'[h].to = "DELIVERED"
        => request'[h].who = "buyer"
  <2> DEFINE Buyers(r) == r.op = "update shipment" /\ r.to = "DELIVERED" => r.who = "buyer"
  <2>1. \A h \in Handlers : Buyers(request[h])
    BY DEF Timely
  <2>2. request \in [Handlers -> Requests]
    BY Typed DEF IInv
  <2>3. ASSUME NEW h \in Handlers, NEW r, Buyers(r), request' = [request EXCEPT ![h] = r]
        PROVE  \A g \in Handlers : Buyers(request'[g])
    BY <2>1, <2>2, <2>3
  <2>4. CASE UNCHANGED request
    BY <2>1, <2>4
  <2>5. CASE \E h \in Handlers : Answer(h)
    BY <2>3, <2>5 DEF Answer, Idle
  <2>6. CASE \E h \in Handlers : \E r : Asks(h, r) /\ request' = [request EXCEPT ![h] = r]
    BY <2>3, <2>6 DEF Asks
  <2>7. CASE \E h \in Handlers :
               request' = [request EXCEPT ![h] = [op |-> "resolve", order |-> request[h].order]]
    BY <2>3, <2>7
  <2> QED
    BY <2>4, <2>5, <2>6, <2>7, RequestStepKinds
<1>2. \A o \in Orders : confirmed'[o] <= now'
  <2>1. ASSUME NEW o \in Orders PROVE confirmed[o] \in Int
    BY AftersaleAssumption DEF IInv, TypeOK, Times, Never
  <2>2. \A o \in Orders : confirmed[o] <= now
    BY DEF Timely
  <2> QED
    BY <2>1, <2>2, ConfirmedOnce, Clock
<1>3. \A o \in Orders : shipment'[o].delivered # Never =>
        confirmed'[o] # Never /\ confirmed'[o] <= shipment'[o].delivered
  BY DeliveredStep
<1>4. \A j \in Jobs : \A o \in job'[j] : Earned(o)'
  <2>0. job \in [Jobs -> SUBSET Orders]
    BY DEF IInv, TypeOK
  <2>1. ASSUME NEW o \in Orders, Matured(o) PROVE Earned(o)
    <3>1. /\ shipment[o].delivered \in Int /\ confirmed[o] \in Int /\ Holdback \in Nat
          /\ now \in Int
      BY Typed, AftersaleAssumption DEF IInv, TypeOK, ShipmentRow, Times, Never
    <3>2. shipment[o].delivered # Never =>
            confirmed[o] # Never /\ confirmed[o] <= shipment[o].delivered
      BY DEF Timely
    <3>3. Expired(o) \/ (shipment[o].delivered # Never /\ shipment[o].delivered + Holdback <= now)
      BY <2>1 DEF Matured, Confirmed
    <3> QED
      BY <3>1, <3>2, <3>3 DEF Earned
  <2>2. ASSUME NEW j \in Jobs, NEW o \in job'[j] PROVE o \in Orders /\ Earned(o)
    <3>1. job'[j] \subseteq job[j] \/ job'[j] = {p \in Orders : Matured(p)}
      <4>1. ASSUME NEW i \in Jobs, FindMatured(i)
            PROVE  job'[j] \subseteq job[j] \/ job'[j] = {p \in Orders : Matured(p)}
        BY <2>0, <4>1 DEF FindMatured
      <4>2. ASSUME NEW i \in Jobs, Settle(i) \/ SettleFails(i) PROVE job'[j] \subseteq job[j]
        <5>1. \E p : job' = [job EXCEPT ![i] = @ \ {p}]
          BY <4>2 DEF Settle, SettleFails
        <5> QED
          BY <2>0, <5>1
      <4> QED
        BY <4>1, <4>2, Written DEF Writers
    <3> QED
      BY <2>0, <2>1, <2>2, <3>1 DEF Timely
  <2> QED
    BY <2>2, EarnedKept
<1> QED
  BY <1>1, <1>2, <1>3, <1>4 DEF Timely

LEMMA TimelyAlways == Spec => [](IInv /\ Timely)
<1>1. Init => IInv /\ Timely
  <2> SUFFICES ASSUME Init PROVE Timely
    BY InitInv
  <2>1. \A h \in Handlers : request[h].op # "update shipment"
    BY DEF Init, Idle
  <2>2. \A o \in Orders : confirmed[o] = Never /\ shipment[o].delivered = Never
    BY DEF Init, NoShipment
  <2>3. now = 0 /\ Never <= 0 /\ \A j \in Jobs : job[j] = {}
    BY DEF Init, Never
  <2> QED
    BY <2>1, <2>2, <2>3 DEF Timely
<1>2. IInv /\ Timely /\ [Next]_vars => (IInv /\ Timely)'
  BY NextInv, TimelyStep
<1> QED
  BY <1>1, <1>2, PTL DEF Spec

LEMMA SettledWhenEarned ==
  ASSUME IInv, Timely, [Next]_vars, NEW o \in Orders, order'[o].settled, ~order[o].settled
  PROVE  Earned(o)
<1>0. order \in [Orders -> OrderRow]
  BY Typed DEF IInv
<1>1. ASSUME NEW p \in Orders, Sell(p) \/ OrderByWinner(p) PROVE FALSE
  BY <1>0, <1>1 DEF Sell, OrderByWinner, NoOrder
<1>2. ASSUME NEW p, NEW s, order' = [order EXCEPT ![p].status = s, ![p].updated = now]
      PROVE  FALSE
  BY <1>0, <1>2 DEF OrderRow
<1>3. ASSUME NEW h \in Handlers, UpdateShipment(h) \/ CreateRefund(h) PROVE FALSE
  <2>1. \/ UNCHANGED order
        \/ \E p, s : order' = [order EXCEPT ![p].status = s, ![p].updated = now]
    BY <1>3 DEF UpdateShipment, CreateRefund
  <2> QED
    BY <1>2, <2>1
<1>4. ASSUME NEW j \in Jobs, Settle(j) PROVE o \in job[j]
  <2>1. PICK p \in job[j] : order' = [order EXCEPT ![p].settled = TRUE, ![p].updated = now]
    BY <1>4 DEF Settle
  <2> QED
    BY <1>0, <2>1 DEF OrderRow
<1>5. \E j \in Jobs : o \in job[j]
  BY <1>1, <1>3, <1>4, Written DEF Writers
<1> QED
  BY <1>5 DEF Timely

(* No step marks a sale settled earlier than the holdback allows, counted  *)
(* from the buyer's own first confirmation, or the window from the sale,   *)
(* whoever declares what, and whenever the job's list was made             *)
(* (HoldbackRespected of Aftersale).                                       *)
THEOREM HoldbackSafety == Spec => HoldbackRespected
<1>1. IInv /\ Timely /\ [Next]_vars =>
        [\A o \in Orders : order'[o].settled /\ ~order[o].settled =>
           \/ confirmed[o] # Never /\ confirmed[o] + Holdback <= now
           \/ Expired(o)]_vars
  BY SettledWhenEarned DEF Earned
<1> QED
  BY <1>1, TimelyAlways, PTL DEF Spec, HoldbackRespected
=============================================================================
