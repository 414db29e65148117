---------------------------- MODULE AuctionHouse ----------------------------
(***************************************************************************)
(* Bidding on auctions and closing them: BidsService.placeBid, the cron    *)
(* job of AuctionSchedulerService under its Redis lock, the seller's       *)
(* publish and the panel's changes of status, over the tables auctions,    *)
(* bids, orders and wallets.                                               *)
(*                                                                         *)
(* A request reads the auction once, holds the bidder's funds in a         *)
(* transaction of its own, writes the bid in a second one and releases the *)
(* previous bidder in a third, all from what it read first; requests, jobs *)
(* and the panel interleave between those.  A wallet operation is one      *)
(* step, which module WalletTx justifies; every user has a wallet that a   *)
(* deposit has activated.                                                  *)
(***************************************************************************)
EXTENDS WalletMath, FiniteSetsExt

CONSTANTS
  Auctions,
  Seller,             \* the user who sells in all of them
  Requests,           \* POST /auctions/:id/bids handlers that may overlap
  Schedulers,         \* API instances that run the cron job
  Nobody,             \* the lock's value while the key is absent
  PanelTargets,       \* the statuses the panel sets in this instance
  SellerOps,          \* what the seller does in this instance
  RequireModeration,  \* REQUIRE_AUCTION_MODERATION
  OpeningPrice, OpeningBalance,
  MinIncrement,       \* AUCTION_MIN_INCREMENT_AMOUNT
  SoftCloseWindow,    \* AUCTION_SOFT_CLOSE_WINDOW_SEC
  Duration,           \* bound: the longest an auction is made to last
  MaxTime,            \* bound: the clock stops here
  MaxBids,            \* bound: an auction with as many bids gets no new request
  MaxFaults           \* bound: crashes and failed transactions

ASSUME HouseAssumption ==
  /\ Seller \in Users /\ Nobody \notin Schedulers /\ RequireModeration \in BOOLEAN
  /\ IsFiniteSet(Users) /\ IsFiniteSet(Auctions)
  /\ PanelTargets \subseteq {"DRAFT", "PUBLISHED", "SUSPENDED", "CLOSED", "CANCELLED"}
  /\ SellerOps \subseteq {"publish", "update"}
  /\ {OpeningPrice, OpeningBalance, MinIncrement, SoftCloseWindow, Duration,
      MaxTime, MaxBids, MaxFaults} \subseteq Nat

VARIABLES
  auction,  \* table "auctions": status, currentPrice, startsAt, endsAt
  bids,     \* table "bids": those of each auction, in the order recorded
  orders,   \* table "orders" with its commission record; auctionId is UNIQUE
  balance, pending,  \* two columns of each wallet
  held,     \* column heldFunds, split by the auction the ledger entry names
  request,  \* per handler: where it is and what it read
  job,      \* per instance: where its cron run is and what it read
  panel,    \* the change of status the panel has validated, not yet written
  seller,   \* the seller's publish or update: what it read, not yet written
  lock,     \* Redis key lock:auction-close
  now, faults

funds == <<balance, held, pending>>
market == <<auction, bids, orders>>
vars == <<market, funds, request, job, panel, seller, lock, now, faults>>

Statuses == {"DRAFT", "PENDING_MODERATION", "PUBLISHED", "ACTIVE",
             "SUSPENDED", "CLOSED", "CANCELLED"}

(* AuctionStateMachine.canTransition: pairs <<from, to>>.                  *)
CanTransition ==
  ({"DRAFT"} \X {"PUBLISHED", "CANCELLED"})
    \cup ({"PUBLISHED"} \X {"ACTIVE", "CANCELLED", "SUSPENDED", "CLOSED"})
    \cup ({"ACTIVE"} \X {"CLOSED", "CANCELLED", "SUSPENDED"})
    \cup ({"PENDING_MODERATION"} \X {"PUBLISHED", "CANCELLED", "DRAFT"})
    \cup ({"SUSPENDED"} \X {"PUBLISHED", "CANCELLED"})

Bid == [bidder : Users, amount : Amounts]
NoBid == [bidder |-> Seller, amount |-> 0]
MaybeBid == Bid \cup {NoBid}

NoOrder == [status |-> "none", buyer |-> Seller, total |-> 0, net |-> 0, fee |-> 0]

(* orderBy amount desc, take 1: any of the highest bids, or none.          *)
TopBids(a) ==
  IF bids[a] = <<>> THEN {NoBid}
  ELSE {bids[a][i] : i \in {j \in DOMAIN bids[a] :
                              \A k \in DOMAIN bids[a] : bids[a][k].amount <= bids[a][j].amount}}

Init ==
  /\ auction = [a \in Auctions |->
                  [status |-> "DRAFT", price |-> OpeningPrice, startsAt |-> 0, endsAt |-> Duration]]
  /\ bids = [a \in Auctions |-> <<>>]
  /\ orders = [a \in Auctions |-> NoOrder]
  /\ balance = [u \in Users |-> OpeningBalance]
  /\ held = [u \in Users |-> [a \in Auctions |-> 0]]
  /\ pending = [u \in Users |-> 0]
  /\ request = [r \in Requests |-> [pc |-> "idle"]]
  /\ job = [s \in Schedulers |-> [pc |-> "idle"]]
  /\ panel = [pc |-> "idle"]
  /\ seller = [pc |-> "idle"]
  /\ lock = Nobody
  /\ now = 0
  /\ faults = 0

-----------------------------------------------------------------------------
(* The wallet operations a bid needs.                                      *)
HeldTotal(u) == SumFunctionOnSet(held[u], Auctions)

(* Fault: the balance is checked and nothing is moved.                     *)
HoldChecksOnly(u, a, amount) ==
  /\ balance[u] >= amount
  /\ UNCHANGED funds

Hold(u, a, amount) ==
  /\ balance[u] >= amount
  /\ balance' = [balance EXCEPT ![u] = @ - amount]
  /\ held' = [held EXCEPT ![u][a] = @ + amount]
  /\ UNCHANGED pending

(* Fault: whatever was asked for is released.                              *)
ReleaseUnchecked(u, a, amount) ==
  /\ balance' = [balance EXCEPT ![u] = @ + amount]
  /\ held' = [held EXCEPT ![u][a] = @ - amount]
  /\ UNCHANGED pending

(* releaseFunds as its three callers here use it: the guard looks at the   *)
(* wallet's total, not at the auction, and a failure is swallowed.         *)
Release(u, a, amount) ==
  /\ IF HeldTotal(u) >= amount
     THEN /\ balance' = [balance EXCEPT ![u] = @ + amount]
          /\ held' = [held EXCEPT ![u][a] = @ - amount]
     ELSE UNCHANGED <<balance, held>>
  /\ UNCHANGED pending

-----------------------------------------------------------------------------
(* Fault: the configured increment is not enforced (AUD-009).              *)
AcceptableAnyStep(u, a, amount, top) ==
  /\ auction[a].status \in {"ACTIVE", "PUBLISHED"}
  /\ auction[a].endsAt >= now
  /\ auction[a].status = "ACTIVE" => u # Seller /\ amount > auction[a].price
  /\ top = NoBid \/ top.bidder # u

(* The checks of placeBid before any money moves.  BidValidation stops at  *)
(* "Auction is not active" on a PUBLISHED one, and that answer is ignored. *)
Acceptable(u, a, amount, top) ==
  /\ auction[a].status \in {"ACTIVE", "PUBLISHED"}
  /\ auction[a].endsAt >= now
  /\ auction[a].status = "ACTIVE" => u # Seller /\ amount > auction[a].price
  /\ top = NoBid \/ top.bidder # u
  /\ amount >= auction[a].price + MinIncrement

(* Fault: a late bid leaves the window from now on, even if less was left. *)
NewEndsAtFromNow(a) == now + SoftCloseWindow

(* Soft close, from the end time the request read.                         *)
NewEndsAt(a) ==
  IF auction[a].endsAt - now < SoftCloseWindow
  THEN auction[a].endsAt + SoftCloseWindow ELSE auction[a].endsAt

ReadAuction(r, u, a, amount) ==
  /\ request[r].pc = "idle"
  /\ Len(bids[a]) < MaxBids
  /\ \E top \in TopBids(a) :
       request' = [request EXCEPT ![r] =
         [pc |-> IF Acceptable(u, a, amount, top) THEN "hold" ELSE "undo",
          auction |-> a, bid |-> [bidder |-> u, amount |-> amount],
          prev |-> top, endsAt |-> NewEndsAt(a)]]
  /\ UNCHANGED <<market, funds, job, panel, seller, lock, now, faults>>

HoldFunds(r) ==
  /\ request[r].pc = "hold"
  /\ LET b == request[r].bid
     IN  \/ /\ Hold(b.bidder, request[r].auction, b.amount)
            /\ request' = [request EXCEPT ![r].pc = "write"]
         \/ /\ balance[b.bidder] < b.amount
            /\ request' = [request EXCEPT ![r].pc = "undo"]
            /\ UNCHANGED funds
  /\ UNCHANGED <<market, job, panel, seller, lock, now, faults>>

(* Fault: the bid is recorded and the price left as it was.                *)
WriteBidKeepsPrice(r) ==
  /\ request[r].pc = "write"
  /\ LET a == request[r].auction
     IN  /\ bids' = [bids EXCEPT ![a] = Append(@, request[r].bid)]
         /\ auction' = [auction EXCEPT ![a] =
                          [@ EXCEPT !.status = "ACTIVE", !.endsAt = request[r].endsAt]]
  /\ request' = [request EXCEPT ![r] =
                   IF request[r].prev = NoBid THEN [pc |-> "idle"] ELSE [@ EXCEPT !.pc = "release"]]
  /\ UNCHANGED <<orders, funds, job, panel, seller, lock, now, faults>>

(* One transaction: the bid, and price, status and end time over whatever  *)
(* the auction has by now.                                                 *)
WriteBid(r) ==
  /\ request[r].pc = "write"
  /\ LET a == request[r].auction
     IN  /\ bids' = [bids EXCEPT ![a] = Append(@, request[r].bid)]
         /\ auction' = [auction EXCEPT ![a] =
              [@ EXCEPT !.status = "ACTIVE", !.price = request[r].bid.amount,
                        !.endsAt = request[r].endsAt]]
  /\ request' = [request EXCEPT ![r] =
                   IF request[r].prev = NoBid THEN [pc |-> "idle"] ELSE [@ EXCEPT !.pc = "release"]]
  /\ UNCHANGED <<orders, funds, job, panel, seller, lock, now, faults>>

(* That transaction fails and the handler goes to its catch block.         *)
WriteFails(r) ==
  /\ request[r].pc = "write"
  /\ faults < MaxFaults
  /\ faults' = faults + 1
  /\ request' = [request EXCEPT ![r].pc = "undo"]
  /\ UNCHANGED <<market, funds, job, panel, seller, lock, now>>

ReleasePrevious(r) ==
  /\ request[r].pc = "release"
  /\ Release(request[r].prev.bidder, request[r].auction, request[r].prev.amount)
  /\ request' = [request EXCEPT ![r] = [pc |-> "idle"]]
  /\ UNCHANGED <<market, job, panel, seller, lock, now, faults>>

(* The catch block, for every error, whether or not funds were held.       *)
Compensate(r) ==
  /\ request[r].pc = "undo"
  /\ Release(request[r].bid.bidder, request[r].auction, request[r].bid.amount)
  /\ request' = [request EXCEPT ![r] = [pc |-> "idle"]]
  /\ UNCHANGED <<market, job, panel, seller, lock, now, faults>>

(* The process dies: what the handler had still to do is not done.         *)
RequestDies(r) ==
  /\ request[r].pc # "idle"
  /\ faults < MaxFaults
  /\ faults' = faults + 1
  /\ request' = [request EXCEPT ![r] = [pc |-> "idle"]]
  /\ UNCHANGED <<market, funds, job, panel, seller, lock, now>>

-----------------------------------------------------------------------------
(* startScheduledAuctions, outside the lock: those published whose         *)
(* startsAt has come.  publish() sets it to now, so without moderation all.*)
StartScheduled(s) ==
  /\ job[s].pc = "idle"
  /\ LET published == {a \in Auctions : auction[a].status = "PUBLISHED"}
     IN  \E due \in IF RequireModeration THEN SUBSET published ELSE {published} :
           auction' = [a \in Auctions |-> IF a \in due THEN [auction[a] EXCEPT !.status = "ACTIVE"]
                                          ELSE auction[a]]
  /\ job' = [job EXCEPT ![s] = [pc |-> "lock"]]
  /\ UNCHANGED <<bids, orders, funds, request, panel, seller, lock, now, faults>>

(* SET NX EX: an instance that does not get the lock skips this minute.    *)
AcquireLock(s) ==
  /\ job[s].pc = "lock"
  /\ \/ lock = Nobody /\ lock' = s /\ job' = [job EXCEPT ![s] = [pc |-> "find"]]
     \/ lock # Nobody /\ job' = [job EXCEPT ![s] = [pc |-> "idle"]] /\ UNCHANGED lock
  /\ UNCHANGED <<market, funds, request, panel, seller, now, faults>>

Expired == {a \in Auctions : auction[a].status = "ACTIVE" /\ auction[a].endsAt <= now}

(* The expired auctions, each with the top bid it has at this moment.      *)
FindExpired(s) ==
  /\ job[s].pc = "find"
  /\ \E winner \in [Expired -> MaybeBid] :
       /\ \A a \in Expired : winner[a] \in TopBids(a)
       /\ job' = [job EXCEPT ![s] = [pc |-> "close", todo |-> winner]]
  /\ UNCHANGED <<market, funds, request, panel, seller, lock, now, faults>>

Rest(todo, a) == [x \in DOMAIN todo \ {a} |-> todo[x]]

(* Fault: an order that is already there is overwritten.                   *)
CapturableTwice(a, winner) == HeldTotal(winner.bidder) >= winner.amount

Capturable(a, winner) ==
  /\ orders[a] = NoOrder
  /\ HeldTotal(winner.bidder) >= winner.amount

(* The closing transaction: status, order, capture and commission record,  *)
(* or nothing.  It does not look at the auction's status or bids again.    *)
CloseAuction(s) ==
  /\ job[s].pc = "close"
  /\ \E a \in DOMAIN job[s].todo, pct \in FeePercents :
       LET winner == job[s].todo[a]
           rest   == Rest(job[s].todo, a)
       IN  /\ auction' = [auction EXCEPT ![a].status = "CLOSED"]
           /\ \/ /\ winner = NoBid
                 /\ job' = [job EXCEPT ![s].todo = rest]
                 /\ UNCHANGED <<orders, funds>>
              \/ /\ winner # NoBid
                 /\ Capturable(a, winner)
                 /\ orders' = [orders EXCEPT ![a] =
                      [status |-> "PAID", buyer |-> winner.bidder, total |-> winner.amount,
                       net |-> Net(winner.amount, pct), fee |-> Fee(winner.amount, pct)]]
                 /\ held' = [held EXCEPT ![winner.bidder][a] = @ - winner.amount]
                 /\ pending' = [pending EXCEPT ![Seller] = @ + Net(winner.amount, pct)]
                 /\ job' = [job EXCEPT ![s] =
                      [pc |-> "losers", todo |-> rest, auction |-> a, winner |-> winner.bidder]]
                 /\ UNCHANGED balance
  /\ UNCHANGED <<bids, request, panel, seller, lock, now, faults>>

(* The transaction rolls back; the error is logged and the next is tried.  *)
CloseFails(s) ==
  /\ job[s].pc = "close"
  /\ \E a \in DOMAIN job[s].todo :
       /\ \/ job[s].todo[a] # NoBid /\ ~Capturable(a, job[s].todo[a]) /\ UNCHANGED faults
          \/ faults < MaxFaults /\ faults' = faults + 1
       /\ job' = [job EXCEPT ![s].todo = Rest(job[s].todo, a)]
  /\ UNCHANGED <<market, funds, request, panel, seller, lock, now>>

(* groupBy bidderId, _max amount, after the commit: of the bids by now.    *)
FindLosers(s) ==
  /\ job[s].pc = "losers"
  /\ LET all == {bids[job[s].auction][i] : i \in DOMAIN bids[job[s].auction]}
         losers == {b \in all : /\ b.bidder # job[s].winner
                                /\ \A c \in all : c.bidder = b.bidder => c.amount <= b.amount}
     IN  job' = [job EXCEPT ![s] = [pc |-> "release", todo |-> @.todo,
                                    auction |-> @.auction, losers |-> losers]]
  /\ UNCHANGED <<market, funds, request, panel, seller, lock, now, faults>>

ReleaseLoser(s) ==
  /\ job[s].pc = "release"
  /\ \/ /\ job[s].losers = {}
        /\ job' = [job EXCEPT ![s] = [pc |-> "close", todo |-> @.todo]]
        /\ UNCHANGED funds
     \/ \E b \in job[s].losers :
          /\ Release(b.bidder, job[s].auction, b.amount)
          /\ job' = [job EXCEPT ![s].losers = @ \ {b}]
  /\ UNCHANGED <<market, request, panel, seller, lock, now, faults>>

(* Fault: a plain DEL.                                                     *)
ReleaseLockBlindly(s) ==
  /\ job[s].pc = "close"
  /\ DOMAIN job[s].todo = {}
  /\ lock' = Nobody
  /\ job' = [job EXCEPT ![s] = [pc |-> "idle"]]
  /\ UNCHANGED <<market, funds, request, panel, seller, now, faults>>

(* Compare and delete, in one script.                                      *)
ReleaseLock(s) ==
  /\ job[s].pc = "close"
  /\ DOMAIN job[s].todo = {}
  /\ lock' = IF lock = s THEN Nobody ELSE lock
  /\ job' = [job EXCEPT ![s] = [pc |-> "idle"]]
  /\ UNCHANGED <<market, funds, request, panel, seller, now, faults>>

(* The instance dies and comes back; its lock stays in Redis.              *)
SchedulerDies(s) ==
  /\ job[s].pc # "idle"
  /\ faults < MaxFaults
  /\ faults' = faults + 1
  /\ job' = [job EXCEPT ![s] = [pc |-> "idle"]]
  /\ UNCHANGED <<market, funds, request, panel, seller, lock, now>>

(* Fault: SET NX without EX.                                               *)
LockNeverExpires == FALSE /\ UNCHANGED vars

(* The TTL runs out, whether or not the holder still works.                *)
LockExpires ==
  /\ lock # Nobody
  /\ lock' = Nobody
  /\ UNCHANGED <<market, funds, request, job, panel, seller, now, faults>>

-----------------------------------------------------------------------------
(* The seller's publish and update: both read the auction and ask whether  *)
(* its status may become PUBLISHED, which a suspended one's may ...        *)
SellerReads(a, op, endsAt) ==
  /\ seller.pc = "idle"
  /\ op \in SellerOps
  /\ <<auction[a].status, "PUBLISHED">> \in CanTransition
  /\ seller' = [pc |-> op, auction |-> a, startsAt |-> auction[a].startsAt, endsAt |-> endsAt]
  /\ UNCHANGED <<market, funds, request, job, panel, lock, now, faults>>

(* ... and write, over whatever the status is by now.  publish keeps the   *)
(* length read, counted from now on, unless it is to be moderated.         *)
Publish ==
  /\ seller.pc = "publish"
  /\ auction' = [auction EXCEPT ![seller.auction] =
       IF RequireModeration
       THEN [@ EXCEPT !.status = "PENDING_MODERATION",
                      !.startsAt = seller.startsAt, !.endsAt = seller.endsAt]
       ELSE [@ EXCEPT !.status = "PUBLISHED",
                      !.startsAt = now, !.endsAt = now + seller.endsAt - seller.startsAt]]
  /\ seller' = [pc |-> "idle"]
  /\ UNCHANGED <<bids, orders, funds, request, job, panel, lock, now, faults>>

(* update: the opening price it may set is not the price asked.            *)
Update ==
  /\ seller.pc = "update"
  /\ auction' = [auction EXCEPT ![seller.auction].endsAt = seller.endsAt]
  /\ seller' = [pc |-> "idle"]
  /\ UNCHANGED <<bids, orders, funds, request, job, panel, lock, now, faults>>

(* transicionar reads the status and validates the change ...              *)
PanelChecks(a, to) ==
  /\ panel.pc = "idle"
  /\ <<auction[a].status, to>> \in CanTransition
  /\ panel' = [pc |-> "write", auction |-> a, to |-> to]
  /\ UNCHANGED <<market, funds, request, job, seller, lock, now, faults>>

(* ... and writes it over whatever the status is by now.                   *)
PanelWrites ==
  /\ panel.pc = "write"
  /\ auction' = [auction EXCEPT ![panel.auction].status = panel.to]
  /\ panel' = [pc |-> "idle"]
  /\ UNCHANGED <<bids, orders, funds, request, job, seller, lock, now, faults>>

(* approveModeration and rejectModeration ask nothing; the panel offers    *)
(* them only where moderation is on.                                       *)
Moderate(a, to) ==
  /\ RequireModeration
  /\ auction' = [auction EXCEPT ![a].status = to]
  /\ UNCHANGED <<bids, orders, funds, request, job, panel, seller, lock, now, faults>>

(* The top bidder asks for an order himself; no one looks at the status.   *)
CreateFromAuction(a) ==
  /\ orders[a] = NoOrder
  /\ \E top \in TopBids(a) :
       /\ top # NoBid
       /\ orders' = [orders EXCEPT ![a] =
            [NoOrder EXCEPT !.status = "PENDING_PAYMENT", !.buyer = top.bidder, !.total = top.amount]]
  /\ UNCHANGED <<auction, bids, funds, request, job, panel, seller, lock, now, faults>>

Tick ==
  /\ now < MaxTime
  /\ now' = now + 1
  /\ UNCHANGED <<market, funds, request, job, panel, seller, lock, faults>>

-----------------------------------------------------------------------------
RequestStep(r) ==
  \/ \E u \in Users, a \in Auctions, amount \in Amounts : ReadAuction(r, u, a, amount)
  \/ HoldFunds(r)
  \/ WriteBid(r)
  \/ WriteFails(r)
  \/ ReleasePrevious(r)
  \/ Compensate(r)
  \/ RequestDies(r)

JobStep(s) ==
  \/ StartScheduled(s)
  \/ AcquireLock(s)
  \/ FindExpired(s)
  \/ CloseAuction(s)
  \/ CloseFails(s)
  \/ FindLosers(s)
  \/ ReleaseLoser(s)
  \/ ReleaseLock(s)

PanelStep(a) ==
  \/ \E to \in PanelTargets : PanelChecks(a, to)
  \/ \E to \in {"PUBLISHED", "DRAFT"} : Moderate(a, to)
  \/ CreateFromAuction(a)

SellerStep ==
  \/ \E a \in Auctions :
       \/ SellerReads(a, "publish", auction[a].endsAt)
       \/ \E length \in 1..Duration : SellerReads(a, "update", now + length)
  \/ Publish
  \/ Update

Next ==
  \/ \E r \in Requests : RequestStep(r)
  \/ \E s \in Schedulers : JobStep(s) \/ SchedulerDies(s)
  \/ \E a \in Auctions : PanelStep(a)
  \/ PanelWrites
  \/ SellerStep
  \/ LockExpires
  \/ Tick

Spec == Init /\ [][Next]_vars

(* The cron runs every minute on every instance and Redis expires keys;    *)
(* no other progress is promised.                                          *)
FairSpec == /\ Spec
            /\ \A s \in Schedulers : WF_vars(JobStep(s))
            /\ WF_vars(LockExpires)

-----------------------------------------------------------------------------
Snapshots == UNION {[D -> MaybeBid] : D \in SUBSET Auctions}

RequestState ==
  {[pc |-> "idle"]}
    \cup [pc : {"hold", "undo", "write", "release"}, auction : Auctions,
          bid : Bid, prev : MaybeBid, endsAt : Nat]

JobState ==
  {[pc |-> "idle"], [pc |-> "lock"], [pc |-> "find"]}
    \cup [pc : {"close"}, todo : Snapshots]
    \cup [pc : {"losers"}, todo : Snapshots, auction : Auctions, winner : Users]
    \cup [pc : {"release"}, todo : Snapshots, auction : Auctions, losers : SUBSET Bid]

(* Every table, handler, job and lock has its type, and no wallet's        *)
(* available, held or pending money is negative.                           *)
TypeOK ==
  /\ auction \in [Auctions -> [status : Statuses, price : Nat, startsAt : Nat, endsAt : Nat]]
  /\ bids \in [Auctions -> Seq(Bid)]
  /\ orders \in [Auctions -> [status : {"none", "PENDING_PAYMENT", "PAID"}, buyer : Users,
                             total : Nat, net : Nat, fee : Nat]]
  /\ balance \in [Users -> Nat] /\ pending \in [Users -> Nat]
  /\ held \in [Users -> [Auctions -> Int]] /\ \A u \in Users : HeldTotal(u) \in Nat
  /\ request \in [Requests -> RequestState]
  /\ job \in [Schedulers -> JobState]
  /\ panel \in {[pc |-> "idle"]} \cup [pc : {"write"}, auction : Auctions, to : Statuses]
  /\ seller \in {[pc |-> "idle"]}
       \cup [pc : {"publish", "update"}, auction : Auctions, startsAt : Nat, endsAt : Nat]
  /\ lock \in Schedulers \cup {Nobody}
  /\ now \in 0..MaxTime /\ faults \in 0..MaxFaults

Paid == {a \in Auctions : orders[a].status = "PAID"}

(* However many jobs overlap, die or outlive their lock, an auction is     *)
(* sold at most once: the seller's holdback is the net of the paid orders, *)
(* and the platform's commissions and the users' wallets together hold     *)
(* what was deposited, but for a rounded cent per sale.                    *)
SoldOnce ==
  /\ pending[Seller] = SumFunctionOnSet([a \in Auctions |-> orders[a].net], Paid)
  /\ SumFunctionOnSet([u \in Users |-> balance[u] + HeldTotal(u) + pending[u]], Users)
        + SumFunctionOnSet([a \in Auctions |-> orders[a].fee], Paid)
        - OpeningBalance * Cardinality(Users) \in 0..Cardinality(Paid)

(* The price shown is that of the top bid, or the opening price.  It needs *)
(* requests that do not overlap: the write does not look at the price.     *)
PriceIsTopBid ==
  \A a \in Auctions : \A top \in TopBids(a) :
    auction[a].price = IF top = NoBid THEN OpeningPrice ELSE top.amount

(* Requests that do not overlap climb by the increment (RN-14), and no one *)
(* outbids himself (RN-15), however the closing job interleaves.           *)
BidsClimb ==
  \A a \in Auctions : \A i \in DOMAIN bids[a] :
    IF i = 1 THEN bids[a][i].amount >= OpeningPrice + MinIncrement
    ELSE /\ bids[a][i].amount >= bids[a][i - 1].amount + MinIncrement
         /\ bids[a][i].bidder # bids[a][i - 1].bidder

(* What a user's holds must cover, of the auctions still to be sold: the   *)
(* top bids, a bid being written and an outbid one still to be released.   *)
Unsold(a) == orders[a] = NoOrder

Leading(u, a) ==
  LET top == CHOOSE b \in TopBids(a) : TRUE
  IN  IF Unsold(a) /\ top.bidder = u THEN top.amount ELSE 0

InHand(u, c) ==
  CASE c.pc = "write" /\ c.bid.bidder = u /\ Unsold(c.auction) -> c.bid.amount
    [] c.pc = "release" /\ c.prev.bidder = u /\ Unsold(c.auction) -> c.prev.amount
    [] OTHER -> 0

Owed(u) ==
  SumFunctionOnSet([a \in Auctions |-> Leading(u, a)], Auctions)
    + SumFunctionOnSet([r \in Requests |-> InHand(u, request[r])], Requests)

Covered(u) == HeldTotal(u) >= Owed(u)

(* A sale to someone who is no longer the top bidder.                      *)
StaleSale(a) ==
  /\ orders[a] # orders'[a]
  /\ [bidder |-> orders'[a].buyer, amount |-> orders'[a].total] \notin TopBids(a)

(* A release for an auction that is sold comes out of what is held for     *)
(* others, since releaseFunds looks at the total only.                     *)
LateRelease(u, a) == ~Unsold(a) /\ held'[u][a] # held[u][a]

(* No step makes a leading bid lose its cover, so the close can charge it, *)
(* where requests do not overlap.  The known exceptions: a request whose   *)
(* compensation releases what it never held, a close that charges a bidder *)
(* outbid since the list was read, and, with several auctions, what is     *)
(* released for one that has been sold.                                    *)
LeadersStayCovered ==
  [][\A u \in Users :
       Covered(u) => \/ Covered(u)'
                     \/ \E r \in Requests : /\ request[r].pc = "undo"
                                            /\ request'[r].pc = "idle"
                                            /\ request[r].bid.bidder = u
                     \/ \E a \in Auctions : \/ StaleSale(a) /\ orders'[a].buyer = u
                                            \/ LateRelease(u, a)]_vars

(* A bid never brings the end of its auction forward (RN-17).  It needs    *)
(* requests that do not overlap and no publish in between: the end written *)
(* is computed from the end read.                                          *)
EndNeverMovesBack ==
  [][\A a \in Auctions :
       bids'[a] # bids[a] => auction'[a].endsAt >= auction[a].endsAt]_vars

(* A run that outlived its lock does not free the next owner's: the key    *)
(* goes from one instance only by its own hand or by expiry.               *)
LockReleasedByOwner ==
  [][\A s, t \in Schedulers :
       lock = t /\ t # s /\ job'[s] # job[s] => lock' = lock]_vars

(* An auction that ends without a bid is closed, whatever instance dies    *)
(* holding the lock, unless someone changes its status or its end, or a    *)
(* bid read before the end is still recorded.                              *)
ExpiredIsClosed ==
  \A a \in Auctions : a \in Expired /\ bids[a] = <<>> ~> a \notin Expired \/ bids[a] # <<>>

(* UC-06: the close gives a loser back what this auction still holds of    *)
(* his, not what another auction holds, and not a second time.             *)
LosersReleasedOnce ==
  [][\A s \in Schedulers :
       job[s].pc = "release" /\ job'[s].pc = "release" =>
         \A b \in job[s].losers \ job'[s].losers :
           held' = held \/ held[b.bidder][job[s].auction] >= b.amount]_vars
=============================================================================
