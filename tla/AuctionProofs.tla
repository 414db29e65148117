--------------------------- MODULE AuctionProofs ---------------------------
(***************************************************************************)
(* Proofs about bidding and closing, for every set of users, of auctions,  *)
(* of requests that overlap and of instances of the cron job, and whatever *)
(* fails.                                                                  *)
(***************************************************************************)
EXTENDS AuctionHouse, SumProofs

AuctionRow == [status : Statuses, price : Nat, startsAt : Nat, endsAt : Nat]
OrderRow == [status : {"none", "PENDING_PAYMENT", "PAID"}, buyer : Users,
             total : Nat, net : Nat, fee : Nat]

(* An auction starts when the seller publishes it, which is not later than *)
(* now: the length that publish keeps is never longer than the time left.  *)
Started ==
  /\ \A a \in Auctions : auction[a].startsAt <= now
  /\ seller.pc # "idle" => seller.startsAt <= now

Well == TypeOK /\ Started

(* A request or a job that is under way has read what it needs.            *)
Reading == [pc : {"hold", "undo", "write", "release"}, auction : Auctions,
            bid : Bid, prev : MaybeBid, endsAt : Nat]

LEMMA RequestHasRead ==
  ASSUME Well, NEW r \in Requests, request[r].pc # "idle"
  PROVE  request[r] \in Reading
BY DEF Well, TypeOK, RequestState, Reading

LEMMA Constants ==
  /\ OpeningPrice \in Nat /\ OpeningBalance \in Nat /\ MinIncrement \in Nat
  /\ SoftCloseWindow \in Nat /\ Duration \in Nat /\ MaxTime \in Nat /\ MaxFaults \in Nat
  /\ Seller \in Users /\ IsFiniteSet(Users) /\ IsFiniteSet(Auctions)
BY HouseAssumption

LEMMA BidFacts ==
  /\ \A b \in Bid : b.bidder \in Users /\ b.amount \in Nat /\ b.amount > 0
  /\ NoBid.bidder \in Users /\ NoBid.amount = 0 /\ NoBid \notin Bid
  /\ \A b \in MaybeBid : b.bidder \in Users /\ b.amount \in Nat
<1>0. \A x \in Amounts : x \in Nat /\ x > 0
  BY AmountsAssumption
<1>1. \A b \in Bid : b.bidder \in Users /\ b.amount \in Nat /\ b.amount > 0
  BY <1>0 DEF Bid
<1>2. NoBid.bidder \in Users /\ NoBid.amount = 0
  BY Constants DEF NoBid
<1> QED  BY <1>1, <1>2 DEF MaybeBid

LEMMA AuctionFacts ==
  ASSUME Well, NEW a \in Auctions
  PROVE  /\ auction[a] \in AuctionRow /\ auction[a].price \in Nat
         /\ auction[a].startsAt \in Nat /\ auction[a].endsAt \in Nat
         /\ auction[a].startsAt <= now
<1>1. auction \in [Auctions -> AuctionRow]
  BY DEF Well, TypeOK, AuctionRow
<1> QED  BY <1>1 DEF AuctionRow, Well, Started

LEMMA ClockFacts ==
  ASSUME Well
  PROVE  now \in Nat /\ faults \in Nat
BY Constants DEF Well, TypeOK

LEMMA TopBidsType ==
  ASSUME Well, NEW a \in Auctions, NEW top \in TopBids(a)
  PROVE  top \in MaybeBid /\ (top # NoBid => bids[a] # <<>> /\ top \in Bid)
<1>1. bids[a] \in Seq(Bid)
  BY DEF Well, TypeOK
<1>2. \A i \in DOMAIN bids[a] : bids[a][i] \in Bid
  BY <1>1
<1> QED  BY <1>2 DEF TopBids, MaybeBid

LEMMA ReadRequest ==
  ASSUME Well, NEW a \in Auctions, NEW u \in Users, NEW amount \in Amounts,
         NEW top \in MaybeBid, NEW pc \in {"hold", "undo"}
  PROVE  [pc |-> pc, auction |-> a, bid |-> [bidder |-> u, amount |-> amount],
          prev |-> top, endsAt |-> NewEndsAt(a)] \in Reading
<1>1. NewEndsAt(a) \in Nat
  BY Constants, AuctionFacts, ClockFacts DEF NewEndsAt
<1>2. [bidder |-> u, amount |-> amount] \in Bid
  BY DEF Bid
<1> QED  BY <1>1, <1>2 DEF Reading

(* One table after the other.  The requests:                               *)
LEMMA RequestsStep ==
  ASSUME Well, [Next]_vars
  PROVE  request' \in [Requests -> RequestState]
<1>0. request \in [Requests -> RequestState]
  BY DEF Well, TypeOK
<1>1. ASSUME NEW r \in Requests, NEW x \in Reading \cup {[pc |-> "idle"]},
             request' = [request EXCEPT ![r] = x]
      PROVE  request' \in [Requests -> RequestState]
  BY <1>0, <1>1 DEF RequestState, Reading
<1>2. ASSUME NEW r \in Requests, request[r].pc # "idle",
             NEW pc \in {"undo", "write", "release"}, request' = [request EXCEPT ![r].pc = pc]
      PROVE  request' \in [Requests -> RequestState]
  <2>1. [request[r] EXCEPT !.pc = pc] \in Reading
    BY <1>2, RequestHasRead DEF Reading
  <2>2. request' = [request EXCEPT ![r] = [request[r] EXCEPT !.pc = pc]]
    BY <1>2
  <2> QED  BY <2>1, <2>2, <1>1
<1>3. ASSUME NEW r \in Requests, NEW u \in Users, NEW a \in Auctions, NEW amount \in Amounts,
             ReadAuction(r, u, a, amount)
      PROVE  request' \in [Requests -> RequestState]
  <2>1. PICK top \in TopBids(a), pc \in {"hold", "undo"} :
          request' = [request EXCEPT ![r] =
            [pc |-> pc, auction |-> a, bid |-> [bidder |-> u, amount |-> amount],
             prev |-> top, endsAt |-> NewEndsAt(a)]]
    BY <1>3 DEF ReadAuction
  <2> QED  BY <2>1, <1>1, TopBidsType, ReadRequest
<1>4. ASSUME NEW r \in Requests, WriteBid(r)
      PROVE  request' \in [Requests -> RequestState]
  <2>1. \/ request' = [request EXCEPT ![r] = [pc |-> "idle"]]
        \/ request' = [request EXCEPT ![r].pc = "release"]
    BY <1>4 DEF WriteBid
  <2> QED  BY <2>1, <1>1, <1>2, <1>4 DEF WriteBid
<1>5. ASSUME NEW r \in Requests, HoldFunds(r) \/ WriteFails(r)
      PROVE  request' \in [Requests -> RequestState]
  BY <1>2, <1>5 DEF HoldFunds, WriteFails
<1>6. ASSUME NEW r \in Requests, ReleasePrevious(r) \/ Compensate(r) \/ RequestDies(r)
      PROVE  request' \in [Requests -> RequestState]
  BY <1>1, <1>6 DEF ReleasePrevious, Compensate, RequestDies
<1>7. ASSUME UNCHANGED request
      PROVE  request' \in [Requests -> RequestState]
  BY <1>0, <1>7
<1>8. ASSUME NEW s \in Schedulers, JobStep(s) \/ SchedulerDies(s)
      PROVE  UNCHANGED request
  BY <1>8 DEF JobStep, StartScheduled, AcquireLock, FindExpired, CloseAuction, CloseFails,
     FindLosers, ReleaseLoser, ReleaseLock, SchedulerDies
<1>9. ASSUME \/ \E a \in Auctions : PanelStep(a)
             \/ PanelWrites \/ SellerStep \/ LockExpires \/ Tick \/ UNCHANGED vars
      PROVE  UNCHANGED request
  BY <1>9 DEF PanelStep, PanelChecks, Moderate, CreateFromAuction, PanelWrites, SellerStep,
     SellerReads, Publish, Update, LockExpires, Tick, vars
<1> QED
  BY <1>3, <1>4, <1>5, <1>6, <1>7, <1>8, <1>9 DEF Next, RequestStep

(* The jobs.  What a run has found names auctions, each with a bid or none. *)
Closing == [pc : {"close"}, todo : Snapshots]
Losers == [pc : {"losers"}, todo : Snapshots, auction : Auctions, winner : Users]
Releasing == [pc : {"release"}, todo : Snapshots, auction : Auctions, losers : SUBSET Bid]

LEMMA JobHasFound ==
  ASSUME Well, NEW s \in Schedulers
  PROVE  /\ job[s].pc = "close" => job[s] \in Closing
         /\ job[s].pc = "losers" => job[s] \in Losers
         /\ job[s].pc = "release" => job[s] \in Releasing
BY DEF Well, TypeOK, JobState, Closing, Losers, Releasing

LEMMA SnapshotFacts ==
  ASSUME NEW todo \in Snapshots
  PROVE  /\ \A a \in DOMAIN todo : a \in Auctions /\ todo[a] \in MaybeBid
         /\ \A a : Rest(todo, a) \in Snapshots
<1>1. PICK D \in SUBSET Auctions : todo \in [D -> MaybeBid]
  BY DEF Snapshots
<1>2. ASSUME NEW a PROVE Rest(todo, a) \in [D \ {a} -> MaybeBid]
  BY <1>1 DEF Rest
<1> QED  BY <1>1, <1>2 DEF Snapshots

LEMMA ChosenFromTodo ==
  ASSUME Well, NEW s \in Schedulers, job[s].pc = "close", NEW a \in DOMAIN job[s].todo
  PROVE  /\ a \in Auctions
         /\ job[s].todo[a] \in MaybeBid
         /\ job[s].todo[a] # NoBid => job[s].todo[a] \in Bid
<1>1. job[s].todo \in Snapshots
  BY JobHasFound DEF Closing
<1> QED  BY <1>1, SnapshotFacts DEF MaybeBid

LEMMA JobsStep ==
  ASSUME Well, [Next]_vars
  PROVE  job' \in [Schedulers -> JobState]
<1>0. job \in [Schedulers -> JobState]
  BY DEF Well, TypeOK
<1>1. ASSUME NEW s \in Schedulers, NEW x \in JobState, job' = [job EXCEPT ![s] = x]
      PROVE  job' \in [Schedulers -> JobState]
  BY <1>0, <1>1
<1>2. ASSUME NEW s \in Schedulers, NEW pc \in {"idle", "lock", "find"},
             job' = [job EXCEPT ![s] = [pc |-> pc]]
      PROVE  job' \in [Schedulers -> JobState]
  BY <1>1, <1>2 DEF JobState
<1>3. ASSUME NEW s \in Schedulers, job[s].pc = "close", NEW a \in DOMAIN job[s].todo,
             job' = [job EXCEPT ![s].todo = Rest(job[s].todo, a)]
      PROVE  job' \in [Schedulers -> JobState]
  <2>1. [job[s] EXCEPT !.todo = Rest(job[s].todo, a)] \in JobState
    BY <1>3, JobHasFound, SnapshotFacts DEF Closing, JobState
  <2>2. job' = [job EXCEPT ![s] = [job[s] EXCEPT !.todo = Rest(job[s].todo, a)]]
    BY <1>3
  <2> QED  BY <2>1, <2>2, <1>1
<1>4. ASSUME NEW s \in Schedulers, StartScheduled(s) \/ AcquireLock(s)
      PROVE  job' \in [Schedulers -> JobState]
  BY <1>0, <1>2, <1>4 DEF StartScheduled, AcquireLock
<1>5. ASSUME NEW s \in Schedulers, FindExpired(s)
      PROVE  job' \in [Schedulers -> JobState]
  <2>1. PICK winner \in [Expired -> MaybeBid] :
          job' = [job EXCEPT ![s] = [pc |-> "close", todo |-> winner]]
    BY <1>5 DEF FindExpired
  <2>2. winner \in Snapshots
    BY DEF Snapshots, Expired
  <2>3. [pc |-> "close", todo |-> winner] \in JobState
    BY <2>2 DEF JobState
  <2> QED  BY <2>1, <2>3, <1>1
<1>6. ASSUME NEW s \in Schedulers, CloseAuction(s)
      PROVE  job' \in [Schedulers -> JobState]
  <2>1. PICK a \in DOMAIN job[s].todo :
          \/ job' = [job EXCEPT ![s].todo = Rest(job[s].todo, a)]
          \/ job' = [job EXCEPT ![s] = [pc |-> "losers", todo |-> Rest(job[s].todo, a),
                                        auction |-> a, winner |-> job[s].todo[a].bidder]]
    BY <1>6 DEF CloseAuction
  <2>2. job[s].pc = "close"
    BY <1>6 DEF CloseAuction
  <2>3. a \in Auctions /\ job[s].todo[a].bidder \in Users
    BY <2>2, ChosenFromTodo, BidFacts
  <2>4. Rest(job[s].todo, a) \in Snapshots
    BY <2>2, JobHasFound, SnapshotFacts DEF Closing
  <2>5. [pc |-> "losers", todo |-> Rest(job[s].todo, a),
         auction |-> a, winner |-> job[s].todo[a].bidder] \in JobState
    BY <2>3, <2>4 DEF JobState
  <2> QED  BY <2>1, <2>2, <2>5, <1>1, <1>3
<1>7. ASSUME NEW s \in Schedulers, CloseFails(s)
      PROVE  job' \in [Schedulers -> JobState]
  BY <1>3, <1>7 DEF CloseFails
<1>8. ASSUME NEW s \in Schedulers, FindLosers(s)
      PROVE  job' \in [Schedulers -> JobState]
  <2>1. job[s] \in Losers
    BY <1>8, JobHasFound DEF FindLosers
  <2>2. \A i \in DOMAIN bids[job[s].auction] : bids[job[s].auction][i] \in Bid
    <3>1. bids[job[s].auction] \in Seq(Bid)
      BY <2>1 DEF Well, TypeOK, Losers
    <3> QED  BY <3>1
  <2>3. PICK losers \in SUBSET Bid :
          job' = [job EXCEPT ![s] = [pc |-> "release", todo |-> job[s].todo,
                                     auction |-> job[s].auction, losers |-> losers]]
    BY <1>8, <2>2 DEF FindLosers
  <2>4. [pc |-> "release", todo |-> job[s].todo,
         auction |-> job[s].auction, losers |-> losers] \in JobState
    BY <2>1 DEF Losers, JobState
  <2> QED  BY <2>3, <2>4, <1>1
<1>9. ASSUME NEW s \in Schedulers, ReleaseLoser(s)
      PROVE  job' \in [Schedulers -> JobState]
  <2>1. job[s] \in Releasing
    BY <1>9, JobHasFound DEF ReleaseLoser
  <2>2. CASE job' = [job EXCEPT ![s] = [pc |-> "close", todo |-> job[s].todo]]
    <3>1. [pc |-> "close", todo |-> job[s].todo] \in JobState
      BY <2>1 DEF Releasing, JobState
    <3> QED  BY <2>2, <3>1, <1>1
  <2>3. ASSUME NEW b, job' = [job EXCEPT ![s].losers = job[s].losers \ {b}]
        PROVE  job' \in [Schedulers -> JobState]
    <3>1. [job[s] EXCEPT !.losers = job[s].losers \ {b}] \in JobState
      BY <2>1 DEF Releasing, JobState
    <3>2. job' = [job EXCEPT ![s] = [job[s] EXCEPT !.losers = job[s].losers \ {b}]]
      BY <2>3
    <3> QED  BY <3>1, <3>2, <1>1
  <2> QED  BY <1>9, <2>2, <2>3 DEF ReleaseLoser
<1>10. ASSUME NEW s \in Schedulers, ReleaseLock(s) \/ SchedulerDies(s)
       PROVE  job' \in [Schedulers -> JobState]
  BY <1>2, <1>10 DEF ReleaseLock, SchedulerDies
<1>11. ASSUME \/ \E r \in Requests : RequestStep(r)
              \/ \E a \in Auctions : PanelStep(a)
              \/ PanelWrites \/ SellerStep \/ LockExpires \/ Tick \/ UNCHANGED vars
       PROVE  job' \in [Schedulers -> JobState]
  <2>1. UNCHANGED job
    BY <1>11 DEF RequestStep, ReadAuction, HoldFunds, WriteBid, WriteFails, ReleasePrevious,
       Compensate, RequestDies, PanelStep, PanelChecks, Moderate, CreateFromAuction,
       PanelWrites, SellerStep, SellerReads, Publish, Update, LockExpires, Tick, vars
  <2> QED  BY <2>1, <1>0
<1> QED
  BY <1>4, <1>5, <1>6, <1>7, <1>8, <1>9, <1>10, <1>11 DEF Next, JobStep

(* The wallets.  A hold and a release move money inside a wallet; only the *)
(* capture of a sale moves it between two.                                 *)
FundsType ==
  /\ balance \in [Users -> Nat] /\ pending \in [Users -> Nat]
  /\ held \in [Users -> [Auctions -> Int]] /\ \A u \in Users : HeldTotal(u) \in Nat

Worth(u) == balance[u] + HeldTotal(u) + pending[u]

LEMMA HeldMoves ==
  ASSUME FundsType, NEW u \in Users, NEW a \in Auctions, NEW x \in Int,
         held' = [held EXCEPT ![u][a] = x]
  PROVE  /\ held' \in [Users -> [Auctions -> Int]]
         /\ held[u][a] \in Int
         /\ HeldTotal(u)' = HeldTotal(u) - held[u][a] + x
         /\ \A v \in Users \ {u} : HeldTotal(v)' = HeldTotal(v)
<1>0. held \in [Users -> [Auctions -> Int]]
  BY DEF FundsType
<1>1. held' \in [Users -> [Auctions -> Int]]
  BY <1>0
<1>2. held'[u][a] = x /\ \A b \in Auctions \ {a} : held'[u][b] = held[u][b]
  BY <1>0
<1>3. \A b \in Auctions : held[u][b] \in Int
  BY <1>0
<1>4. SumFunctionOnSet(held'[u], Auctions) = SumFunctionOnSet(held[u], Auctions) - held[u][a] + x
  <2> DEFINE h == held[u]
             g == held'[u]
  <2>1. /\ g[a] = x /\ \A b \in Auctions \ {a} : g[b] = h[b]
        /\ \A b \in Auctions : h[b] \in Int
    BY <1>2, <1>3
  <2> HIDE DEF h, g
  <2>2. SumFunctionOnSet(g, Auctions) = SumFunctionOnSet(h, Auctions) - h[a] + x
    BY <2>1, Constants, SumUpdate
  <2> QED  BY <2>2 DEF h, g
<1>5. ASSUME NEW v \in Users \ {u} PROVE HeldTotal(v)' = HeldTotal(v)
  <2>1. held'[v] = held[v]
    BY <1>0
  <2> QED  BY <2>1 DEF HeldTotal
<1> QED  BY <1>1, <1>3, <1>4, <1>5 DEF HeldTotal

(* Every user is worth what he was, and nothing enters a holdback.         *)
Kept == (\A u \in Users : Worth(u)' = Worth(u)) /\ UNCHANGED pending

LEMMA HoldKeeps ==
  ASSUME FundsType, NEW u \in Users, NEW a \in Auctions, NEW amount \in Nat,
         Hold(u, a, amount)
  PROVE  FundsType' /\ Kept
<1> DEFINE x == held[u][a] + amount
<1>0. held[u][a] \in Int /\ balance[u] \in Nat /\ balance[u] >= amount
  BY DEF FundsType, Hold
<1>1. held' = [held EXCEPT ![u][a] = x] /\ x \in Int
  BY <1>0 DEF Hold
<1> HIDE DEF x
<1>2. /\ held' \in [Users -> [Auctions -> Int]]
      /\ HeldTotal(u)' = HeldTotal(u) - held[u][a] + x
      /\ \A v \in Users \ {u} : HeldTotal(v)' = HeldTotal(v)
  BY <1>1, HeldMoves
<1>3. HeldTotal(u) \in Nat /\ HeldTotal(u)' = HeldTotal(u) + amount
  BY <1>0, <1>2 DEF x, FundsType
<1>4. /\ balance'[u] = balance[u] - amount /\ \A v \in Users \ {u} : balance'[v] = balance[v]
      /\ balance' = [v \in Users |-> balance'[v]]
  BY DEF Hold, FundsType
<1>5. balance' \in [Users -> Nat]
  <2>1. \A v \in Users : balance'[v] \in Nat
    BY <1>0, <1>4 DEF FundsType
  <2> QED  BY <1>4, <2>1
<1>6. UNCHANGED pending /\ pending \in [Users -> Nat]
  BY DEF Hold, FundsType
<1>7. FundsType'
  BY <1>2, <1>3, <1>5, <1>6 DEF FundsType
<1>8. ASSUME NEW v \in Users PROVE Worth(v)' = Worth(v)
  <2>1. CASE v = u
    BY <1>0, <1>3, <1>4, <1>6, <2>1 DEF Worth
  <2>2. CASE v # u
    BY <1>2, <1>4, <1>6, <2>2 DEF Worth
  <2> QED  BY <2>1, <2>2
<1> QED  BY <1>6, <1>7, <1>8 DEF Kept

LEMMA UnmovedKeeps == FundsType /\ UNCHANGED funds => FundsType' /\ Kept
BY DEF FundsType, Kept, Worth, HeldTotal, funds

LEMMA ReleaseKeeps ==
  ASSUME FundsType, NEW u \in Users, NEW a \in Auctions, NEW amount \in Nat,
         Release(u, a, amount)
  PROVE  FundsType' /\ Kept
<1>0. CASE UNCHANGED funds
  BY <1>0, UnmovedKeeps
<1>. SUFFICES ASSUME ~UNCHANGED funds  PROVE FundsType' /\ Kept
  BY <1>0
<1> DEFINE x == held[u][a] - amount
<1>1. held[u][a] \in Int /\ balance[u] \in Nat
  BY DEF FundsType
<1>2. /\ HeldTotal(u) >= amount
      /\ balance' = [balance EXCEPT ![u] = @ + amount]
      /\ held' = [held EXCEPT ![u][a] = x]
      /\ UNCHANGED pending
  BY DEF Release, funds
<1>3. x \in Int
  BY <1>1
<1> HIDE DEF x
<1>4. /\ held' \in [Users -> [Auctions -> Int]]
      /\ HeldTotal(u)' = HeldTotal(u) - held[u][a] + x
      /\ \A v \in Users \ {u} : HeldTotal(v)' = HeldTotal(v)
  BY <1>2, <1>3, HeldMoves
<1>5. HeldTotal(u) \in Nat /\ HeldTotal(u)' = HeldTotal(u) - amount
  BY <1>1, <1>4 DEF x, FundsType
<1>6. /\ balance'[u] = balance[u] + amount /\ \A v \in Users \ {u} : balance'[v] = balance[v]
      /\ balance' = [v \in Users |-> balance'[v]]
  BY <1>2 DEF FundsType
<1>7. balance' \in [Users -> Nat]
  <2>1. \A v \in Users : balance'[v] \in Nat
    BY <1>1, <1>6 DEF FundsType
  <2> QED  BY <1>6, <2>1
<1>8. FundsType'
  <2>1. HeldTotal(u)' \in Nat
    BY <1>2, <1>5
  <2> QED  BY <1>2, <1>4, <1>7, <2>1 DEF FundsType
<1>9. ASSUME NEW v \in Users PROVE Worth(v)' = Worth(v)
  <2>0. pending[v] \in Nat /\ pending'[v] = pending[v]
    BY <1>2 DEF FundsType
  <2>1. CASE v = u
    BY <1>1, <1>5, <1>6, <2>0, <2>1 DEF Worth
  <2>2. CASE v # u
    BY <1>4, <1>6, <2>0, <2>2 DEF Worth
  <2> QED  BY <2>1, <2>2
<1> QED  BY <1>2, <1>8, <1>9 DEF Kept

(* The commission and the net of a sale.                                   *)
LEMMA ProductNat ==
  ASSUME NEW x \in Nat, NEW y \in Nat
  PROVE  x * y \in Nat
OBVIOUS

LEMMA SaleSplits ==
  ASSUME NEW amount \in Nat, NEW pct \in FeePercents
  PROVE  /\ Net(amount, pct) \in Nat /\ Fee(amount, pct) \in Nat
         /\ Net(amount, pct) + Fee(amount, pct) - amount \in 0..1
<1>1. pct \in Nat /\ 100 - pct \in Nat
  BY FeesAssumption
<1> DEFINE x == amount * pct
           y == amount * (100 - pct)
<1>2. x \in Nat /\ y \in Nat
  BY <1>1, ProductNat
<1>3. x + y = 100 * amount
  BY <1>1
<1> HIDE DEF x, y
<1>4. /\ (x + 50) \div 100 \in Nat /\ (y + 50) \div 100 \in Nat
      /\ ((y + 50) \div 100) + ((x + 50) \div 100) - amount \in 0..1
  BY <1>2, <1>3
<1> QED  BY <1>4 DEF Net, Fee, RoundCents, x, y

(* A sale: the buyer's hold is spent and the seller's holdback grows.      *)
Sale(u, a, amount, net) ==
  /\ held' = [held EXCEPT ![u][a] = @ - amount]
  /\ pending' = [pending EXCEPT ![Seller] = @ + net]
  /\ UNCHANGED balance

LEMMA SaleMoves ==
  ASSUME FundsType, NEW u \in Users, NEW a \in Auctions, NEW amount \in Nat, NEW net \in Nat,
         HeldTotal(u) >= amount, Sale(u, a, amount, net)
  PROVE  /\ FundsType'
         /\ \A v \in Users :
              /\ HeldTotal(v)' = HeldTotal(v) - (IF v = u THEN amount ELSE 0)
              /\ pending'[v] = pending[v] + (IF v = Seller THEN net ELSE 0)
<1> DEFINE x == held[u][a] - amount
<1>1. held[u][a] \in Int
  BY DEF FundsType
<1>2. held' = [held EXCEPT ![u][a] = x]
  BY DEF Sale
<1>3. x \in Int
  BY <1>1
<1> HIDE DEF x
<1>4. /\ held' \in [Users -> [Auctions -> Int]]
      /\ HeldTotal(u)' = HeldTotal(u) - held[u][a] + x
      /\ \A v \in Users \ {u} : HeldTotal(v)' = HeldTotal(v)
  BY <1>2, <1>3, HeldMoves
<1>5. HeldTotal(u) \in Nat /\ HeldTotal(u)' = HeldTotal(u) - amount
  BY <1>1, <1>4 DEF x, FundsType
<1>6. \A v \in Users : HeldTotal(v) \in Nat /\ pending[v] \in Nat
  BY DEF FundsType
<1>7. \A v \in Users : HeldTotal(v)' = HeldTotal(v) - (IF v = u THEN amount ELSE 0)
  BY <1>4, <1>5, <1>6
<1>8. pending' \in [Users -> Nat]
  BY Constants DEF Sale, FundsType
<1>9. \A v \in Users : pending'[v] = pending[v] + (IF v = Seller THEN net ELSE 0)
  BY <1>6, Constants DEF Sale, FundsType
<1>10. \A v \in Users : HeldTotal(v)' \in Nat
  BY <1>4, <1>5, <1>6
<1>11. balance' \in [Users -> Nat]
  BY DEF Sale, FundsType
<1> QED  BY <1>4, <1>7, <1>8, <1>9, <1>10, <1>11 DEF FundsType

(* What a step does to the money: nothing, a hold or a release, or a sale  *)
(* of an auction that had no order.                                        *)
Charged(b, pct) ==
  [status |-> "PAID", buyer |-> b.bidder, total |-> b.amount,
   net |-> Net(b.amount, pct), fee |-> Fee(b.amount, pct)]

SaleOf(a, b, pct) ==
  /\ orders[a] = NoOrder
  /\ HeldTotal(b.bidder) >= b.amount
  /\ orders' = [orders EXCEPT ![a] = Charged(b, pct)]
  /\ Sale(b.bidder, a, b.amount, Net(b.amount, pct))

LEMMA RequestMoney ==
  ASSUME Well, NEW r \in Requests, RequestStep(r)
  PROVE  FundsType' /\ Kept /\ UNCHANGED orders
<1>0. FundsType
  BY DEF Well, TypeOK, FundsType
<1>1. ASSUME HoldFunds(r)  PROVE FundsType' /\ Kept
  <2>1. request[r] \in Reading
    BY <1>1, RequestHasRead DEF HoldFunds
  <2> DEFINE b == request[r].bid
             a == request[r].auction
  <2>2. a \in Auctions /\ b.bidder \in Users /\ b.amount \in Nat
    BY <2>1, BidFacts DEF Reading
  <2>3. Hold(b.bidder, a, b.amount) \/ UNCHANGED funds
    BY <1>1 DEF HoldFunds
  <2> HIDE DEF a, b
  <2> QED  BY <1>0, <2>2, <2>3, HoldKeeps, UnmovedKeeps
<1>2. ASSUME ReleasePrevious(r)  PROVE FundsType' /\ Kept
  <2>1. request[r] \in Reading
    BY <1>2, RequestHasRead DEF ReleasePrevious
  <2>2. /\ request[r].auction \in Auctions /\ request[r].prev.bidder \in Users
        /\ request[r].prev.amount \in Nat
    BY <2>1, BidFacts DEF Reading
  <2> QED  BY <1>0, <1>2, <2>2, ReleaseKeeps DEF ReleasePrevious
<1>3. ASSUME Compensate(r)  PROVE FundsType' /\ Kept
  <2>1. request[r] \in Reading
    BY <1>3, RequestHasRead DEF Compensate
  <2>2. /\ request[r].auction \in Auctions /\ request[r].bid.bidder \in Users
        /\ request[r].bid.amount \in Nat
    BY <2>1, BidFacts DEF Reading
  <2> QED  BY <1>0, <1>3, <2>2, ReleaseKeeps DEF Compensate
<1>4. \/ HoldFunds(r) \/ ReleasePrevious(r) \/ Compensate(r) \/ UNCHANGED funds
  BY DEF RequestStep, ReadAuction, WriteBid, WriteFails, RequestDies
<1>5. UNCHANGED orders
  BY DEF RequestStep, ReadAuction, HoldFunds, WriteBid, WriteFails, ReleasePrevious,
     Compensate, RequestDies, market
<1> QED  BY <1>0, <1>1, <1>2, <1>3, <1>4, <1>5, UnmovedKeeps

LEMMA CloseMoney ==
  ASSUME Well, NEW s \in Schedulers, CloseAuction(s)
  PROVE  \/ UNCHANGED <<funds, orders>>
         \/ \E a \in Auctions, b \in Bid, pct \in FeePercents : SaleOf(a, b, pct)
<1>1. job[s].pc = "close"
  BY DEF CloseAuction
<1>2. PICK a \in DOMAIN job[s].todo, pct \in FeePercents :
        LET winner == job[s].todo[a]
        IN  \/ UNCHANGED <<orders, funds>>
            \/ /\ winner # NoBid
               /\ Capturable(a, winner)
               /\ orders' = [orders EXCEPT ![a] = Charged(winner, pct)]
               /\ held' = [held EXCEPT ![winner.bidder][a] = @ - winner.amount]
               /\ pending' = [pending EXCEPT ![Seller] = @ + Net(winner.amount, pct)]
               /\ UNCHANGED balance
  BY DEF CloseAuction, Charged
<1>3. a \in Auctions /\ (job[s].todo[a] # NoBid => job[s].todo[a] \in Bid)
  BY <1>1, ChosenFromTodo
<1>4. CASE UNCHANGED <<orders, funds>>
  BY <1>4
<1>5. CASE ~UNCHANGED <<orders, funds>>
  <2> DEFINE b == job[s].todo[a]
  <2>1. b \in Bid
    BY <1>2, <1>3, <1>5
  <2>2. SaleOf(a, b, pct)
    BY <1>2, <1>5 DEF SaleOf, Sale, Capturable
  <2> QED  BY <1>3, <2>1, <2>2
<1> QED  BY <1>4, <1>5

LEMMA JobMoney ==
  ASSUME Well, NEW s \in Schedulers, JobStep(s)
  PROVE  \/ FundsType' /\ Kept /\ UNCHANGED orders
         \/ \E a \in Auctions, b \in Bid, pct \in FeePercents : SaleOf(a, b, pct)
<1>0. FundsType
  BY DEF Well, TypeOK, FundsType
<1>1. ASSUME ReleaseLoser(s)  PROVE FundsType' /\ Kept /\ UNCHANGED orders
  <2>1. job[s] \in Releasing
    BY <1>1, JobHasFound DEF ReleaseLoser
  <2>2. \/ UNCHANGED funds
        \/ \E b \in job[s].losers : Release(b.bidder, job[s].auction, b.amount)
    BY <1>1 DEF ReleaseLoser
  <2>3. job[s].auction \in Auctions /\ job[s].losers \subseteq Bid
    BY <2>1 DEF Releasing
  <2>4. ASSUME NEW b \in job[s].losers, Release(b.bidder, job[s].auction, b.amount)
        PROVE  FundsType' /\ Kept
    <3>1. b.bidder \in Users /\ b.amount \in Nat
      BY <2>3, BidFacts
    <3> QED  BY <1>0, <2>3, <2>4, <3>1, ReleaseKeeps
  <2>5. UNCHANGED orders
    BY <1>1 DEF ReleaseLoser, market
  <2> QED  BY <1>0, <2>2, <2>4, <2>5, UnmovedKeeps
<1>2. CloseAuction(s) \/ ReleaseLoser(s) \/ UNCHANGED <<funds, orders>>
  BY DEF JobStep, StartScheduled, AcquireLock, FindExpired, CloseFails, FindLosers,
     ReleaseLock, market
<1> QED  BY <1>0, <1>1, <1>2, CloseMoney, UnmovedKeeps

LEMMA MoneyStep ==
  ASSUME Well, [Next]_vars
  PROVE  \/ /\ FundsType' /\ Kept
            /\ UNCHANGED orders \/ \E a \in Auctions : CreateFromAuction(a)
         \/ \E a \in Auctions, b \in Bid, pct \in FeePercents : SaleOf(a, b, pct)
<1>0. FundsType
  BY DEF Well, TypeOK, FundsType
<1>1. ASSUME NEW a \in Auctions, PanelStep(a)
      PROVE  UNCHANGED funds /\ (CreateFromAuction(a) \/ UNCHANGED orders)
  BY <1>1 DEF PanelStep, PanelChecks, Moderate, CreateFromAuction, market
<1>2. ASSUME \/ \E s \in Schedulers : SchedulerDies(s)
             \/ PanelWrites \/ SellerStep \/ LockExpires \/ Tick \/ UNCHANGED vars
      PROVE  UNCHANGED <<funds, orders>>
  BY <1>2 DEF SchedulerDies, PanelWrites, SellerStep, SellerReads, Publish, Update,
     LockExpires, Tick, vars, market
<1> QED
  BY <1>0, <1>1, <1>2, RequestMoney, JobMoney, UnmovedKeeps DEF Next

(* The orders.                                                             *)
LEMMA OrdersStep ==
  ASSUME Well, [Next]_vars
  PROVE  orders' \in [Auctions -> OrderRow]
<1>0. orders \in [Auctions -> OrderRow]
  BY DEF Well, TypeOK, OrderRow
<1>1. ASSUME NEW a \in Auctions, CreateFromAuction(a)
      PROVE  orders' \in [Auctions -> OrderRow]
  <2>1. PICK top \in TopBids(a) :
          orders' = [orders EXCEPT ![a] =
            [NoOrder EXCEPT !.status = "PENDING_PAYMENT", !.buyer = top.bidder, !.total = top.amount]]
    BY <1>1 DEF CreateFromAuction
  <2>2. top.bidder \in Users /\ top.amount \in Nat
    BY TopBidsType, BidFacts
  <2>3. [NoOrder EXCEPT !.status = "PENDING_PAYMENT", !.buyer = top.bidder, !.total = top.amount]
          \in OrderRow
    BY <2>2 DEF NoOrder, OrderRow
  <2> QED  BY <1>0, <2>1, <2>3
<1>2. ASSUME NEW a \in Auctions, NEW b \in Bid, NEW pct \in FeePercents, SaleOf(a, b, pct)
      PROVE  orders' \in [Auctions -> OrderRow]
  <2>1. Charged(b, pct) \in OrderRow
    BY BidFacts, SaleSplits DEF Charged, OrderRow
  <2> QED  BY <1>0, <1>2, <2>1 DEF SaleOf
<1> QED  BY <1>0, <1>1, <1>2, MoneyStep

LEMMA FundsStep ==
  ASSUME Well, [Next]_vars
  PROVE  FundsType'
<1>1. ASSUME NEW a \in Auctions, NEW b \in Bid, NEW pct \in FeePercents, SaleOf(a, b, pct)
      PROVE  FundsType'
  <2>1. b.bidder \in Users /\ b.amount \in Nat /\ Net(b.amount, pct) \in Nat
    BY BidFacts, SaleSplits
  <2>2. FundsType
    BY DEF Well, TypeOK, FundsType
  <2> QED  BY <1>1, <2>1, <2>2, SaleMoves DEF SaleOf
<1> QED  BY <1>1, MoneyStep

(* The auctions and the bids.                                              *)
LEMMA AuctionWritten ==
  ASSUME Well, NEW a \in Auctions, NEW x \in AuctionRow, x.startsAt <= now,
         auction' = [auction EXCEPT ![a] = x], UNCHANGED now
  PROVE  /\ auction' \in [Auctions -> AuctionRow]
         /\ \A c \in Auctions : auction'[c].startsAt <= now'
<1>1. auction \in [Auctions -> AuctionRow]
  BY DEF Well, TypeOK, AuctionRow
<1> QED  BY <1>1, AuctionFacts

LEMMA StatusWritten ==
  ASSUME Well, NEW a \in Auctions, NEW status \in Statuses,
         auction' = [auction EXCEPT ![a].status = status], UNCHANGED now
  PROVE  /\ auction' \in [Auctions -> AuctionRow]
         /\ \A c \in Auctions : auction'[c].startsAt <= now'
<1> DEFINE x == [auction[a] EXCEPT !.status = status]
<1>1. x \in AuctionRow /\ x.startsAt = auction[a].startsAt
  BY AuctionFacts DEF AuctionRow
<1>2. auction' = [auction EXCEPT ![a] = x] /\ auction[a].startsAt <= now
  BY AuctionFacts
<1> HIDE DEF x
<1> QED  BY <1>1, <1>2, AuctionWritten

LEMMA SellerFacts ==
  ASSUME Well, seller.pc # "idle"
  PROVE  /\ seller.auction \in Auctions /\ seller.startsAt \in Nat /\ seller.endsAt \in Nat
         /\ seller.startsAt <= now
BY DEF Well, TypeOK, Started

LEMMA AuctionWriters ==
  ASSUME [Next]_vars
  PROVE  \/ UNCHANGED auction
         \/ \E r \in Requests : WriteBid(r)
         \/ \E s \in Schedulers : StartScheduled(s) \/ CloseAuction(s)
         \/ \E a \in Auctions, to \in {"PUBLISHED", "DRAFT"} : Moderate(a, to)
         \/ Publish \/ Update \/ PanelWrites
<1>1. ASSUME NEW r \in Requests, RequestStep(r)  PROVE WriteBid(r) \/ UNCHANGED auction
  BY <1>1 DEF RequestStep, ReadAuction, HoldFunds, WriteFails, ReleasePrevious, Compensate,
     RequestDies, market
<1>2. ASSUME NEW s \in Schedulers, JobStep(s) \/ SchedulerDies(s)
      PROVE  StartScheduled(s) \/ CloseAuction(s) \/ UNCHANGED auction
  BY <1>2 DEF JobStep, AcquireLock, FindExpired, CloseFails, FindLosers, ReleaseLoser,
     ReleaseLock, SchedulerDies, market
<1>3. ASSUME NEW a \in Auctions, PanelStep(a)
      PROVE  (\E to \in {"PUBLISHED", "DRAFT"} : Moderate(a, to)) \/ UNCHANGED auction
  BY <1>3 DEF PanelStep, PanelChecks, CreateFromAuction, market
<1>4. ASSUME SellerStep  PROVE Publish \/ Update \/ UNCHANGED auction
  BY <1>4 DEF SellerStep, SellerReads, market
<1>5. ASSUME LockExpires \/ Tick \/ UNCHANGED vars  PROVE UNCHANGED auction
  BY <1>5 DEF LockExpires, Tick, vars, market
<1> QED  BY <1>1, <1>2, <1>3, <1>4, <1>5 DEF Next

LEMMA AuctionStep ==
  ASSUME Well, [Next]_vars
  PROVE  /\ auction' \in [Auctions -> AuctionRow]
         /\ \A c \in Auctions : auction'[c].startsAt <= now'
<1> DEFINE Fine == /\ auction' \in [Auctions -> AuctionRow]
                   /\ \A c \in Auctions : auction'[c].startsAt <= now'
<1>0. auction \in [Auctions -> AuctionRow]
  BY DEF Well, TypeOK, AuctionRow
<1>1. ASSUME UNCHANGED auction  PROVE Fine
  <2>1. now' = now \/ now' = now + 1
    BY DEF Next, RequestStep, ReadAuction, HoldFunds, WriteBid, WriteFails, ReleasePrevious,
       Compensate, RequestDies, JobStep, StartScheduled, AcquireLock, FindExpired, CloseAuction,
       CloseFails, FindLosers, ReleaseLoser, ReleaseLock, SchedulerDies, PanelStep, PanelChecks,
       Moderate, CreateFromAuction, PanelWrites, SellerStep, SellerReads, Publish, Update,
       LockExpires, Tick, vars
  <2> QED  BY <1>0, <1>1, <2>1, AuctionFacts, ClockFacts
<1>2. ASSUME NEW r \in Requests, WriteBid(r)  PROVE Fine
  <2> DEFINE a == request[r].auction
             x == [auction[a] EXCEPT !.status = "ACTIVE", !.price = request[r].bid.amount,
                                     !.endsAt = request[r].endsAt]
  <2>1. request[r] \in Reading
    BY <1>2, RequestHasRead DEF WriteBid
  <2>2. a \in Auctions /\ request[r].bid.amount \in Nat /\ request[r].endsAt \in Nat
    BY <2>1, BidFacts DEF Reading
  <2>3. auction' = [auction EXCEPT ![a] = x] /\ UNCHANGED now
    BY <1>2 DEF WriteBid
  <2>4. x \in AuctionRow /\ x.startsAt = auction[a].startsAt
    BY <2>2, AuctionFacts DEF AuctionRow, Statuses
  <2>5. auction[a].startsAt <= now
    BY <2>2, AuctionFacts
  <2> HIDE DEF a, x
  <2> QED  BY <2>2, <2>3, <2>4, <2>5, AuctionWritten
<1>3. ASSUME NEW s \in Schedulers, StartScheduled(s)  PROVE Fine
  <2>1. PICK due \in SUBSET Auctions :
          auction' = [a \in Auctions |-> IF a \in due THEN [auction[a] EXCEPT !.status = "ACTIVE"]
                                         ELSE auction[a]]
    BY <1>3 DEF StartScheduled
  <2>2. UNCHANGED now
    BY <1>3 DEF StartScheduled
  <2>3. ASSUME NEW a \in Auctions
        PROVE  /\ [auction[a] EXCEPT !.status = "ACTIVE"] \in AuctionRow
               /\ [auction[a] EXCEPT !.status = "ACTIVE"].startsAt = auction[a].startsAt
               /\ auction[a].startsAt <= now
    BY AuctionFacts DEF AuctionRow, Statuses
  <2> QED  BY <1>0, <2>1, <2>2, <2>3
<1>4. ASSUME NEW s \in Schedulers, CloseAuction(s)  PROVE Fine
  <2>1. PICK a \in DOMAIN job[s].todo : auction' = [auction EXCEPT ![a].status = "CLOSED"]
    BY <1>4 DEF CloseAuction
  <2>2. a \in Auctions /\ UNCHANGED now
    BY <1>4, ChosenFromTodo DEF CloseAuction
  <2> QED  BY <2>1, <2>2, StatusWritten DEF Statuses
<1>5. ASSUME Publish  PROVE Fine
  <2> DEFINE a == seller.auction
             x == IF RequireModeration
                  THEN [auction[a] EXCEPT !.status = "PENDING_MODERATION",
                          !.startsAt = seller.startsAt, !.endsAt = seller.endsAt]
                  ELSE [auction[a] EXCEPT !.status = "PUBLISHED",
                          !.startsAt = now, !.endsAt = now + seller.endsAt - seller.startsAt]
  <2>1. /\ a \in Auctions /\ seller.startsAt \in Nat /\ seller.endsAt \in Nat
        /\ seller.startsAt <= now
    BY <1>5, SellerFacts DEF Publish
  <2>2. now \in Nat /\ now + seller.endsAt - seller.startsAt \in Nat
    BY <2>1, ClockFacts
  <2>3. x \in AuctionRow /\ x.startsAt <= now
    <3>1. auction[a] \in AuctionRow
      BY <2>1, AuctionFacts
    <3>2. CASE RequireModeration
      BY <2>1, <3>1, <3>2 DEF AuctionRow, Statuses
    <3>3. CASE ~RequireModeration
      <4> DEFINE end == now + seller.endsAt - seller.startsAt
      <4>1. x = [auction[a] EXCEPT !.status = "PUBLISHED", !.startsAt = now, !.endsAt = end]
        BY <3>3
      <4>2. end \in Nat /\ now \in Nat /\ "PUBLISHED" \in Statuses
        BY <2>2 DEF Statuses
      <4> DEFINE q == [auction[a] EXCEPT !.status = "PUBLISHED", !.startsAt = now]
      <4>3. q \in AuctionRow /\ q.startsAt = now
        BY <3>1, <4>2 DEF AuctionRow
      <4>4. x = [q EXCEPT !.endsAt = end]
        BY <3>1, <4>1 DEF AuctionRow
      <4> HIDE DEF end, x, q
      <4>5. x \in AuctionRow /\ x.startsAt = q.startsAt
        BY <4>2, <4>3, <4>4 DEF AuctionRow
      <4> QED  BY <4>2, <4>3, <4>5
    <3> QED  BY <3>2, <3>3
  <2>4. auction' = [auction EXCEPT ![a] = x] /\ UNCHANGED now
    BY <1>5 DEF Publish
  <2> HIDE DEF a, x
  <2> QED  BY <2>1, <2>3, <2>4, AuctionWritten
<1>6. ASSUME Update  PROVE Fine
  <2> DEFINE a == seller.auction
             x == [auction[a] EXCEPT !.endsAt = seller.endsAt]
  <2>1. a \in Auctions /\ seller.endsAt \in Nat
    BY <1>6, SellerFacts DEF Update
  <2>2. x \in AuctionRow /\ x.startsAt = auction[a].startsAt /\ auction[a].startsAt <= now
    BY <2>1, AuctionFacts DEF AuctionRow
  <2>3. auction' = [auction EXCEPT ![a] = x] /\ UNCHANGED now
    BY <1>6 DEF Update
  <2> HIDE DEF a, x
  <2> QED  BY <2>1, <2>2, <2>3, AuctionWritten
<1>7. ASSUME PanelWrites  PROVE Fine
  <2>1. panel.auction \in Auctions /\ panel.to \in Statuses
    BY <1>7 DEF PanelWrites, Well, TypeOK
  <2> QED  BY <1>7, <2>1, StatusWritten DEF PanelWrites
<1>8. ASSUME NEW a \in Auctions, NEW to \in {"PUBLISHED", "DRAFT"}, Moderate(a, to)  PROVE Fine
  BY <1>8, StatusWritten DEF Moderate, Statuses
<1> HIDE DEF Fine
<1>9. Fine
  BY <1>1, <1>2, <1>3, <1>4, <1>5, <1>6, <1>7, <1>8, AuctionWriters
<1> QED  BY <1>9 DEF Fine

LEMMA BidsWritten ==
  ASSUME [Next]_vars
  PROVE  (\E r \in Requests : WriteBid(r)) \/ UNCHANGED bids
<1>1. ASSUME NEW r \in Requests, RequestStep(r)  PROVE WriteBid(r) \/ UNCHANGED bids
  BY <1>1 DEF RequestStep, ReadAuction, HoldFunds, WriteFails, ReleasePrevious, Compensate,
     RequestDies, market
<1>2. ASSUME NEW s \in Schedulers, JobStep(s) \/ SchedulerDies(s)  PROVE UNCHANGED bids
  BY <1>2 DEF JobStep, StartScheduled, AcquireLock, FindExpired, CloseAuction, CloseFails,
     FindLosers, ReleaseLoser, ReleaseLock, SchedulerDies, market
<1>3. ASSUME \/ \E a \in Auctions : PanelStep(a)
             \/ PanelWrites \/ SellerStep \/ LockExpires \/ Tick \/ UNCHANGED vars
      PROVE  UNCHANGED bids
  BY <1>3 DEF PanelStep, PanelChecks, Moderate, CreateFromAuction, PanelWrites, SellerStep,
     SellerReads, Publish, Update, LockExpires, Tick, vars, market
<1> QED  BY <1>1, <1>2, <1>3 DEF Next

LEMMA BidsStep ==
  ASSUME Well, [Next]_vars
  PROVE  bids' \in [Auctions -> Seq(Bid)]
<1>0. bids \in [Auctions -> Seq(Bid)]
  BY DEF Well, TypeOK
<1>1. ASSUME NEW r \in Requests, WriteBid(r)  PROVE bids' \in [Auctions -> Seq(Bid)]
  <2>1. request[r] \in Reading
    BY <1>1, RequestHasRead DEF WriteBid
  <2>2. request[r].auction \in Auctions /\ request[r].bid \in Bid
    BY <2>1 DEF Reading
  <2>3. Append(bids[request[r].auction], request[r].bid) \in Seq(Bid)
    BY <1>0, <2>2
  <2>4. bids' = [bids EXCEPT ![request[r].auction] =
                   Append(bids[request[r].auction], request[r].bid)]
    BY <1>1 DEF WriteBid
  <2> QED  BY <1>0, <2>3, <2>4
<1> QED  BY <1>0, <1>1, BidsWritten

(* The panel, the seller, the lock, the clock and the faults.              *)
PanelState == {[pc |-> "idle"]} \cup [pc : {"write"}, auction : Auctions, to : Statuses]
SellerState == {[pc |-> "idle"]}
  \cup [pc : {"publish", "update"}, auction : Auctions, startsAt : Nat, endsAt : Nat]

LEMMA SellerReadsType ==
  ASSUME Well, NEW a \in Auctions, NEW op, NEW endsAt \in Nat, SellerReads(a, op, endsAt)
  PROVE  seller' \in SellerState /\ seller'.startsAt <= now /\ UNCHANGED <<panel, lock, now, faults>>
<1>1. op \in {"publish", "update"}
  BY HouseAssumption DEF SellerReads
<1>2. seller' = [pc |-> op, auction |-> a, startsAt |-> auction[a].startsAt, endsAt |-> endsAt]
  BY DEF SellerReads
<1> QED  BY <1>1, <1>2, AuctionFacts DEF SellerReads, SellerState

LEMMA RestStep ==
  ASSUME Well, [Next]_vars
  PROVE  /\ panel' \in PanelState
         /\ seller' \in SellerState
         /\ seller'.pc # "idle" => seller'.startsAt <= now'
         /\ lock' \in Schedulers \cup {Nobody}
         /\ now' \in 0..MaxTime /\ faults' \in 0..MaxFaults
<1> DEFINE Fine == /\ panel' \in PanelState
                   /\ seller' \in SellerState
                   /\ seller'.pc # "idle" => seller'.startsAt <= now'
                   /\ lock' \in Schedulers \cup {Nobody}
                   /\ now' \in 0..MaxTime /\ faults' \in 0..MaxFaults
<1>0. /\ panel \in PanelState /\ seller \in SellerState
      /\ seller.pc # "idle" => seller.startsAt <= now
      /\ lock \in Schedulers \cup {Nobody} /\ now \in 0..MaxTime /\ faults \in 0..MaxFaults
  BY DEF Well, TypeOK, Started, PanelState, SellerState
<1>1. ASSUME UNCHANGED <<panel, seller, lock, now>>,
             UNCHANGED faults \/ (faults < MaxFaults /\ faults' = faults + 1)
      PROVE  Fine
  BY <1>0, <1>1, Constants
<1>2. ASSUME NEW r \in Requests, RequestStep(r)  PROVE Fine
  <2>1. /\ UNCHANGED <<panel, seller, lock, now>>
        /\ UNCHANGED faults \/ (faults < MaxFaults /\ faults' = faults + 1)
    BY <1>2 DEF RequestStep, ReadAuction, HoldFunds, WriteBid, WriteFails, ReleasePrevious,
       Compensate, RequestDies
  <2> QED  BY <1>1, <2>1
<1>3. ASSUME NEW s \in Schedulers, JobStep(s) \/ SchedulerDies(s)  PROVE Fine
  <2>1. /\ UNCHANGED <<panel, seller, now>>
        /\ UNCHANGED faults \/ (faults < MaxFaults /\ faults' = faults + 1)
        /\ lock' \in Schedulers \cup {Nobody}
    BY <1>0, <1>3 DEF JobStep, StartScheduled, AcquireLock, FindExpired, CloseAuction,
       CloseFails, FindLosers, ReleaseLoser, ReleaseLock, SchedulerDies
  <2> QED  BY <1>0, <2>1, Constants
<1>4. ASSUME NEW a \in Auctions, NEW to \in PanelTargets, PanelChecks(a, to)  PROVE Fine
  <2>1. to \in Statuses
    BY HouseAssumption DEF Statuses
  <2>2. panel' \in PanelState
    BY <1>4, <2>1 DEF PanelChecks, PanelState
  <2> QED  BY <1>0, <1>4, <2>2 DEF PanelChecks
<1>5. ASSUME NEW a \in Auctions, NEW to, Moderate(a, to) \/ CreateFromAuction(a)  PROVE Fine
  BY <1>0, <1>5 DEF Moderate, CreateFromAuction
<1>6. ASSUME PanelWrites  PROVE Fine
  BY <1>0, <1>6 DEF PanelWrites, PanelState
<1>7. ASSUME SellerStep  PROVE Fine
  <2>1. ASSUME NEW a \in Auctions, NEW op, NEW endsAt \in Nat, SellerReads(a, op, endsAt)
        PROVE  Fine
    BY <1>0, <2>1, SellerReadsType
  <2>2. \A a \in Auctions : auction[a].endsAt \in Nat
    BY AuctionFacts
  <2>3. \A length \in 1..Duration : now + length \in Nat
    BY ClockFacts, Constants
  <2>4. ASSUME Publish \/ Update  PROVE Fine
    BY <1>0, <2>4 DEF Publish, Update, SellerState
  <2> HIDE DEF Fine
  <2> QED  BY <1>7, <2>1, <2>2, <2>3, <2>4 DEF SellerStep
<1>8. ASSUME LockExpires  PROVE Fine
  BY <1>0, <1>8 DEF LockExpires
<1>9. ASSUME Tick  PROVE Fine
  <2>1. now' \in 0..MaxTime /\ now' = now + 1 /\ UNCHANGED <<panel, seller, lock, faults>>
    BY <1>0, <1>9, Constants DEF Tick
  <2>2. seller.pc # "idle" => seller.startsAt <= now + 1
    BY SellerFacts, ClockFacts
  <2> QED  BY <1>0, <2>1, <2>2
<1>10. ASSUME UNCHANGED vars  PROVE Fine
  BY <1>0, <1>10 DEF vars
<1> HIDE DEF Fine
<1>11. Fine
  BY <1>2, <1>3, <1>4, <1>5, <1>6, <1>7, <1>8, <1>9, <1>10 DEF Next, PanelStep
<1> QED  BY <1>11 DEF Fine

-----------------------------------------------------------------------------
LEMMA SumOfZeros ==
  ASSUME NEW h, NEW S, IsFiniteSet(S), \A x \in S : h[x] = 0
  PROVE  SumFunctionOnSet(h, S) = 0
<1> DEFINE T == {s \in SUBSET S : SumFunctionOnSet(h, s) = 0}
<1>1. ASSUME NEW s \in SUBSET S, \A x \in s : s \ {x} \in T
      PROVE  s \in T
  <2>1. CASE s = {}
    BY <2>1, SumEmpty
  <2>2. CASE s # {}
    <3>1. SumFunctionOnSet(h, s) = h[First(s)] + SumFunctionOnSet(h, s \ {First(s)})
      BY <2>2, SumStep, FS_Subset
    <3>2. First(s) \in s
      BY <2>2, FirstIn
    <3> QED  BY <1>1, <3>1, <3>2
  <2> QED  BY <2>1, <2>2
<1> HIDE DEF T
<1>2. SUBSET S \subseteq T
  BY <1>1, SubsetInduction
<1> QED  BY <1>2 DEF T

LEMMA InitHeld ==
  ASSUME Init, NEW u \in Users
  PROVE  HeldTotal(u) = 0
<1>1. \A a \in Auctions : held[u][a] = 0
  BY DEF Init
<1> DEFINE h == held[u]
<1>2. \A a \in Auctions : h[a] = 0
  BY <1>1
<1> HIDE DEF h
<1>3. SumFunctionOnSet(h, Auctions) = 0
  BY <1>2, Constants, SumOfZeros
<1> QED  BY <1>3 DEF h, HeldTotal

LEMMA InitWell == Init => Well
<1> SUFFICES ASSUME Init PROVE Well
  OBVIOUS
<1>1. /\ auction \in [Auctions -> AuctionRow] /\ \A a \in Auctions : auction[a].startsAt <= now
  BY Constants DEF Init, AuctionRow, Statuses
<1>2. bids \in [Auctions -> Seq(Bid)]
  BY DEF Init
<1>3. orders \in [Auctions -> OrderRow]
  BY Constants DEF Init, OrderRow, NoOrder
<1>4. FundsType
  BY Constants, InitHeld DEF Init, FundsType
<1>5. request \in [Requests -> RequestState] /\ job \in [Schedulers -> JobState]
  BY DEF Init, RequestState, JobState
<1>6. panel \in PanelState /\ seller \in SellerState /\ lock \in Schedulers \cup {Nobody}
  BY DEF Init, PanelState, SellerState
<1>7. now \in 0..MaxTime /\ faults \in 0..MaxFaults /\ (seller.pc # "idle" => seller.startsAt <= now)
  BY Constants DEF Init
<1> QED
  BY <1>1, <1>2, <1>3, <1>4, <1>5, <1>6, <1>7
     DEF Well, TypeOK, Started, AuctionRow, OrderRow, FundsType, PanelState, SellerState

LEMMA NextWell == Well /\ [Next]_vars => Well'
<1> SUFFICES ASSUME Well, [Next]_vars PROVE Well'
  OBVIOUS
<1>1. /\ auction' \in [Auctions -> AuctionRow] /\ \A a \in Auctions : auction'[a].startsAt <= now'
  BY AuctionStep
<1>2. bids' \in [Auctions -> Seq(Bid)] /\ orders' \in [Auctions -> OrderRow] /\ FundsType'
  BY BidsStep, OrdersStep, FundsStep
<1>3. request' \in [Requests -> RequestState] /\ job' \in [Schedulers -> JobState]
  BY RequestsStep, JobsStep
<1>4. /\ panel' \in PanelState /\ seller' \in SellerState /\ lock' \in Schedulers \cup {Nobody}
      /\ now' \in 0..MaxTime /\ faults' \in 0..MaxFaults
      /\ seller'.pc # "idle" => seller'.startsAt <= now'
  BY RestStep
<1> QED
  BY <1>1, <1>2, <1>3, <1>4
     DEF Well, TypeOK, Started, AuctionRow, OrderRow, FundsType, PanelState, SellerState

LEMMA AlwaysWell == Spec => []Well
BY InitWell, NextWell, PTL DEF Spec

(* Whatever requests, jobs, seller and panel do to each other and whatever *)
(* of it fails, every row keeps its type and no wallet's available, held   *)
(* or pending money goes below zero: the guard of releaseFunds looks at    *)
(* all a wallet holds, and that is enough for the total.                   *)
THEOREM HouseTypes == Spec => []TypeOK
<1>1. Well => TypeOK
  BY DEF Well
<1> QED  BY <1>1, AlwaysWell, PTL

-----------------------------------------------------------------------------
(* A sale adds one to the orders paid, and any other step leaves them.     *)
Nets == [a \in Auctions |-> orders[a].net]
Fees == [a \in Auctions |-> orders[a].fee]
Worths == [u \in Users |-> Worth(u)]

LEMMA SumOfEqual ==
  ASSUME NEW h, NEW S, IsFiniteSet(S), NEW c \in Int, \A x \in S : h[x] = c
  PROVE  SumFunctionOnSet(h, S) = c * Cardinality(S)
<1> DEFINE T == {s \in SUBSET S : SumFunctionOnSet(h, s) = c * Cardinality(s)}
<1>1. ASSUME NEW s \in SUBSET S, \A x \in s : s \ {x} \in T
      PROVE  s \in T
  <2>1. CASE s = {}
    <3>1. SumFunctionOnSet(h, s) = 0 /\ Cardinality(s) = 0
      BY <2>1, SumEmpty, FS_EmptySet
    <3> QED  BY <3>1
  <2>2. CASE s # {}
    <3> DEFINE r == s \ {First(s)}
               n == Cardinality(s)
    <3>1. First(s) \in s /\ IsFiniteSet(s)
      BY <2>2, FirstIn, FS_Subset
    <3>2. SumFunctionOnSet(h, s) = c + SumFunctionOnSet(h, r)
      BY <2>2, <3>1, SumStep
    <3>3. n \in Nat /\ Cardinality(r) = n - 1
      BY <3>1, FS_RemoveElement, FS_CardinalityType
    <3>4. SumFunctionOnSet(h, r) = c * (n - 1)
      BY <1>1, <3>1, <3>3
    <3> HIDE DEF r, n
    <3>5. c + c * (n - 1) = c * n
      BY <3>3
    <3>6. SumFunctionOnSet(h, s) = c * n
      BY <3>2, <3>4, <3>5
    <3> QED  BY <3>6 DEF n
  <2> QED  BY <2>1, <2>2
<1> HIDE DEF T
<1>2. SUBSET S \subseteq T
  BY <1>1, SubsetInduction
<1> QED  BY <1>2 DEF T

(* What SoldOnce says, in these terms.                                     *)
Deposited == OpeningBalance * Cardinality(Users)
Balanced ==
  /\ pending[Seller] = SumFunctionOnSet(Nets, Paid)
  /\ SumFunctionOnSet(Worths, Users) + SumFunctionOnSet(Fees, Paid) - Deposited
       \in 0..Cardinality(Paid)

LEMMA BalancedIsSold == Balanced <=> SoldOnce
BY DEF Balanced, SoldOnce, Nets, Fees, Worths, Worth, Deposited

LEMMA SumTypes ==
  ASSUME Well
  PROVE  /\ IsFiniteSet(Paid) /\ Cardinality(Paid) \in Nat
         /\ Deposited \in Int
         /\ \A a \in Paid : Nets[a] \in Int /\ Fees[a] \in Int
         /\ \A u \in Users : Worths[u] \in Int
         /\ SumFunctionOnSet(Nets, Paid) \in Int
         /\ SumFunctionOnSet(Fees, Paid) \in Int
         /\ SumFunctionOnSet(Worths, Users) \in Int
<1>1. Paid \in SUBSET Auctions
  BY DEF Paid
<1>2. IsFiniteSet(Paid) /\ Cardinality(Paid) \in Nat
  BY <1>1, Constants, FS_Subset, FS_CardinalityType
<1>3. \A a \in Paid : Nets[a] \in Int /\ Fees[a] \in Int
  BY <1>1 DEF Well, TypeOK, Nets, Fees
<1>4. ASSUME NEW u \in Users  PROVE Worths[u] \in Int
  <2>1. balance[u] \in Int /\ HeldTotal(u) \in Int /\ pending[u] \in Int
    BY DEF Well, TypeOK
  <2> QED  BY <2>1 DEF Worths, Worth
<1>5. Deposited \in Int
  <2>1. OpeningBalance \in Int /\ Cardinality(Users) \in Int
    BY Constants, FS_CardinalityType
  <2> QED  BY <2>1 DEF Deposited
<1> QED  BY <1>2, <1>3, <1>4, <1>5, SumInt, Constants

LEMMA KeptBalance ==
  ASSUME Well, Balanced, Kept, UNCHANGED Paid,
         \A a \in Paid : orders'[a] = orders[a]
  PROVE  Balanced'
<1>1. Paid \subseteq Auctions
  BY DEF Paid
<1> DEFINE n == Nets'
           f == Fees'
<1>2. \A a \in Paid : n[a] = Nets[a] /\ f[a] = Fees[a]
  BY <1>1 DEF Nets, Fees
<1> HIDE DEF n, f
<1>3. /\ SumFunctionOnSet(n, Paid) = SumFunctionOnSet(Nets, Paid)
      /\ SumFunctionOnSet(f, Paid) = SumFunctionOnSet(Fees, Paid)
  BY <1>2, SumTypes, SumSame
<1>4. Worths' = Worths
  BY DEF Kept, Worths
<1>5. pending' = pending
  BY DEF Kept
<1>6. Deposited' = Deposited
  BY DEF Deposited
<1> QED  BY <1>3, <1>4, <1>5, <1>6 DEF Balanced, n, f

LEMMA SaleBalance ==
  ASSUME Well, Balanced, NEW a \in Auctions, NEW b \in Bid, NEW pct \in FeePercents,
         SaleOf(a, b, pct)
  PROVE  Balanced'
<1> DEFINE net == Net(b.amount, pct)
           fee == Fee(b.amount, pct)
           n == Nets'
           f == Fees'
           P == Paid'
           W == Worths'
           V == [u \in Users |-> Worth(u) - (IF u = b.bidder THEN b.amount ELSE 0)]
<1>1. /\ b.bidder \in Users /\ b.amount \in Nat /\ net \in Nat /\ fee \in Nat
      /\ net + fee - b.amount \in 0..1
  BY BidFacts, SaleSplits
<1>2. orders' = [orders EXCEPT ![a] = Charged(b, pct)] /\ orders \in [Auctions -> OrderRow]
  BY DEF SaleOf, Well, TypeOK, OrderRow
<1>3. a \notin Paid /\ P = Paid \cup {a} /\ P \ {a} = Paid
  BY <1>2 DEF SaleOf, NoOrder, Charged, Paid
<1>4. /\ n[a] = net /\ f[a] = fee
      /\ \A c \in Paid : n[c] = Nets[c] /\ f[c] = Fees[c]
  BY <1>2, <1>3 DEF Nets, Fees, Charged, Paid
<1>5. /\ IsFiniteSet(P) /\ Cardinality(P) = Cardinality(Paid) + 1 /\ a \in P
  BY <1>3, SumTypes, FS_AddElement
<1>6. /\ \A v \in Users : HeldTotal(v)' = HeldTotal(v) - (IF v = b.bidder THEN b.amount ELSE 0)
      /\ \A v \in Users : pending'[v] = pending[v] + (IF v = Seller THEN net ELSE 0)
  <2>1. FundsType
    BY DEF Well, TypeOK, FundsType
  <2> QED  BY <1>1, <2>1, SaleMoves DEF SaleOf
<1>7. UNCHANGED balance
  BY DEF SaleOf, Sale
<1>8. \A u \in Users : W[u] = V[u] + (IF u = Seller THEN net ELSE 0)
  <2>1. ASSUME NEW u \in Users
        PROVE  W[u] = V[u] + (IF u = Seller THEN net ELSE 0)
    <3>1. balance[u] \in Int /\ HeldTotal(u) \in Int /\ pending[u] \in Int
      BY DEF Well, TypeOK
    <3>2. W[u] = balance[u] + HeldTotal(u)' + pending'[u]
      BY <1>7 DEF Worths, Worth
    <3>3. V[u] = balance[u] + HeldTotal(u) + pending[u] - (IF u = b.bidder THEN b.amount ELSE 0)
      <4>1. V[u] = Worth(u) - (IF u = b.bidder THEN b.amount ELSE 0)
        OBVIOUS
      <4>2. Worth(u) = balance[u] + HeldTotal(u) + pending[u]
        BY DEF Worth
      <4> HIDE DEF V
      <4> QED  BY <1>1, <3>1, <4>1, <4>2
    <3> HIDE DEF W, V, net
    <3>4. /\ HeldTotal(u)' = HeldTotal(u) - (IF u = b.bidder THEN b.amount ELSE 0)
          /\ pending'[u] = pending[u] + (IF u = Seller THEN net ELSE 0)
      BY <1>6
    <3> QED  BY <1>1, <3>1, <3>2, <3>3, <3>4
  <2> QED  BY <2>1
<1>9. /\ \A u \in Users : Worths[u] \in Int
      /\ \A u \in Users : V[u] = Worths[u] - (IF u = b.bidder THEN b.amount ELSE 0)
  BY SumTypes DEF Worths
<1> HIDE DEF n, f, P, W, V, net, fee
<1>10. /\ SumFunctionOnSet(n, P) = net + SumFunctionOnSet(Nets, Paid)
       /\ SumFunctionOnSet(f, P) = fee + SumFunctionOnSet(Fees, Paid)
  <2>1. \A c \in P : n[c] \in Int /\ f[c] \in Int
    BY <1>1, <1>3, <1>4, SumTypes
  <2>2. /\ SumFunctionOnSet(n, P) = n[a] + SumFunctionOnSet(n, P \ {a})
        /\ SumFunctionOnSet(f, P) = f[a] + SumFunctionOnSet(f, P \ {a})
    BY <1>5, <2>1, SumRemove
  <2>3. /\ SumFunctionOnSet(n, Paid) = SumFunctionOnSet(Nets, Paid)
        /\ SumFunctionOnSet(f, Paid) = SumFunctionOnSet(Fees, Paid)
    BY <1>4, SumTypes, SumSame
  <2> QED  BY <1>3, <1>4, <2>2, <2>3
<1>11. SumFunctionOnSet(V, Users) = SumFunctionOnSet(Worths, Users) - b.amount
  <2>1. /\ V[b.bidder] = Worths[b.bidder] - b.amount /\ V[b.bidder] \in Int
        /\ \A u \in Users \ {b.bidder} : V[u] = Worths[u]
    BY <1>1, <1>9
  <2>2. SumFunctionOnSet(V, Users)
          = SumFunctionOnSet(Worths, Users) - Worths[b.bidder] + V[b.bidder]
    BY <1>1, <1>9, <2>1, Constants, SumUpdate
  <2> QED  BY <1>1, <1>9, <2>1, <2>2, SumTypes
<1>12. SumFunctionOnSet(W, Users) = SumFunctionOnSet(V, Users) + net
  <2>0. ASSUME NEW u \in Users  PROVE V[u] \in Int
    <3>1. /\ Worths[u] \in Int /\ b.amount \in Int
          /\ V[u] = Worths[u] - (IF u = b.bidder THEN b.amount ELSE 0)
      BY <1>1, <1>9
    <3> QED  BY <3>1
  <2>1. /\ W[Seller] = V[Seller] + net /\ W[Seller] \in Int
        /\ \A u \in Users \ {Seller} : W[u] = V[u]
    BY <1>1, <1>8, <2>0, Constants
  <2>2. SumFunctionOnSet(W, Users) = SumFunctionOnSet(V, Users) - V[Seller] + W[Seller]
    BY <2>0, <2>1, Constants, SumUpdate
  <2>3. SumFunctionOnSet(V, Users) \in Int
    BY <2>0, Constants, SumInt
  <2> QED  BY <1>1, <2>0, <2>1, <2>2, <2>3, Constants
<1>13. pending'[Seller] = pending[Seller] + net /\ pending[Seller] \in Int
  BY <1>6, Constants DEF Well, TypeOK
<1>14. pending'[Seller] = SumFunctionOnSet(n, P)
  BY <1>1, <1>10, <1>13 DEF Balanced
<1>15. SumFunctionOnSet(W, Users) + SumFunctionOnSet(f, P) - Deposited \in 0..Cardinality(P)
  <2> DEFINE w == SumFunctionOnSet(Worths, Users)
             g == SumFunctionOnSet(Fees, Paid)
             k == Cardinality(Paid)
  <2>1. w \in Int /\ g \in Int /\ k \in Nat /\ Deposited \in Int /\ w + g - Deposited \in 0..k
    BY SumTypes DEF Balanced
  <2>2. /\ SumFunctionOnSet(W, Users) = w - b.amount + net
        /\ SumFunctionOnSet(f, P) = fee + g /\ Cardinality(P) = k + 1
    BY <1>5, <1>10, <1>11, <1>12
  <2> HIDE DEF w, g, k
  <2> QED  BY <1>1, <2>1, <2>2
<1>16. Deposited' = Deposited
  BY DEF Deposited
<1> QED  BY <1>14, <1>15, <1>16 DEF Balanced, n, f, P, W

LEMMA NextBalanced == Well /\ Balanced /\ [Next]_vars => Balanced'
<1> SUFFICES ASSUME Well, Balanced, [Next]_vars PROVE Balanced'
  OBVIOUS
<1>1. CASE Kept /\ UNCHANGED orders
  <2>1. UNCHANGED Paid
    BY <1>1 DEF Paid
  <2> QED  BY <1>1, <2>1, KeptBalance
<1>2. ASSUME Kept, NEW a \in Auctions, CreateFromAuction(a)  PROVE Balanced'
  <2>1. PICK top \in TopBids(a) :
          orders' = [orders EXCEPT ![a] =
            [NoOrder EXCEPT !.status = "PENDING_PAYMENT", !.buyer = top.bidder, !.total = top.amount]]
    BY <1>2 DEF CreateFromAuction
  <2>2. orders[a] = NoOrder /\ orders \in [Auctions -> OrderRow]
    BY <1>2 DEF CreateFromAuction, Well, TypeOK, OrderRow
  <2>3. UNCHANGED Paid /\ a \notin Paid
    BY <2>1, <2>2 DEF Paid, NoOrder
  <2>4. \A c \in Paid : orders'[c] = orders[c]
    BY <2>1, <2>2, <2>3 DEF Paid
  <2> QED  BY <1>2, <2>3, <2>4, KeptBalance
<1> QED  BY <1>1, <1>2, MoneyStep, SaleBalance

LEMMA InitBalanced == Init => Balanced
<1> SUFFICES ASSUME Init PROVE Balanced
  OBVIOUS
<1>1. Paid = {}
  BY DEF Init, Paid, NoOrder
<1>2. /\ SumFunctionOnSet(Nets, Paid) = 0 /\ SumFunctionOnSet(Fees, Paid) = 0
      /\ Cardinality(Paid) = 0
  BY <1>1, SumEmpty, FS_EmptySet
<1>3. ASSUME NEW u \in Users  PROVE Worths[u] = OpeningBalance
  <2>1. balance[u] = OpeningBalance /\ HeldTotal(u) = 0 /\ pending[u] = 0
    BY InitHeld DEF Init
  <2>2. Worths[u] = balance[u] + HeldTotal(u) + pending[u]
    BY DEF Worths, Worth
  <2> QED  BY <2>1, <2>2, Constants
<1>4. SumFunctionOnSet(Worths, Users) = Deposited
  BY <1>3, Constants, SumOfEqual DEF Deposited
<1>5. Deposited \in Int
  BY InitWell, SumTypes
<1>6. pending[Seller] = 0
  BY Constants DEF Init
<1> QED  BY <1>2, <1>4, <1>5, <1>6 DEF Balanced

(* However many jobs run over each other, die, outlive their lock or work  *)
(* from a list that is no longer true, and whatever the panel, the seller  *)
(* and the bidders do meanwhile: an auction is charged and paid out at     *)
(* most once, and wallets and commissions together hold what was           *)
(* deposited, but for a rounded cent per sale.                             *)
THEOREM OneSale == Spec => []SoldOnce
<1>1. Init => Well /\ Balanced
  BY InitWell, InitBalanced
<1>2. (Well /\ Balanced) /\ [Next]_vars => (Well /\ Balanced)'
  BY NextWell, NextBalanced
<1>3. Spec => [](Well /\ Balanced)
  BY <1>1, <1>2, PTL DEF Spec
<1>4. Balanced => SoldOnce
  BY BalancedIsSold
<1> QED  BY <1>3, <1>4, PTL

-----------------------------------------------------------------------------
LEMMA LockStep ==
  ASSUME Well, [Next]_vars, NEW s \in Schedulers, NEW t \in Schedulers,
         lock = t, t # s, job'[s] # job[s]
  PROVE  lock' = lock
<1>0. job \in [Schedulers -> JobState] /\ Nobody \notin Schedulers
  BY HouseAssumption DEF Well, TypeOK
<1>1. ASSUME NEW q \in Schedulers, JobStep(q) \/ SchedulerDies(q)  PROVE lock' = lock
  <2>1. q = s
    <3>1. \A p \in Schedulers \ {q} : job'[p] = job[p]
      BY <1>0, <1>1 DEF JobStep, StartScheduled, AcquireLock, FindExpired, CloseAuction,
         CloseFails, FindLosers, ReleaseLoser, ReleaseLock, SchedulerDies
    <3> QED  BY <3>1
  <2> QED
    BY <1>0, <1>1, <2>1 DEF JobStep, StartScheduled, AcquireLock, FindExpired, CloseAuction,
       CloseFails, FindLosers, ReleaseLoser, ReleaseLock, SchedulerDies
<1>2. ASSUME \/ \E r \in Requests : RequestStep(r)
             \/ \E a \in Auctions : PanelStep(a)
             \/ PanelWrites \/ SellerStep \/ LockExpires \/ Tick \/ UNCHANGED vars
      PROVE  UNCHANGED job
  BY <1>2 DEF RequestStep, ReadAuction, HoldFunds, WriteBid, WriteFails, ReleasePrevious,
     Compensate, RequestDies, PanelStep, PanelChecks, Moderate, CreateFromAuction,
     PanelWrites, SellerStep, SellerReads, Publish, Update, LockExpires, Tick, vars
<1> QED  BY <1>1, <1>2 DEF Next

(* Two instances of the closing job, one of which has outlived its lock:   *)
(* the late one's release compares before it deletes, and nothing else it  *)
(* does touches the key, so the lock of the other stays its own.           *)
THEOREM LockSafety == Spec => LockReleasedByOwner
<1>1. Well /\ [Next]_vars
      => [\A s, t \in Schedulers : lock = t /\ t # s /\ job'[s] # job[s] => lock' = lock]_vars
  BY LockStep
<1> QED  BY <1>1, AlwaysWell, PTL DEF Spec, LockReleasedByOwner

-----------------------------------------------------------------------------
(* The bids of an auction climb to its price.                              *)
Climbs(s, price) ==
  LET n == Len(s)
  IN  IF s = <<>> THEN price = OpeningPrice
      ELSE /\ price = s[n].amount
           /\ s[1].amount >= OpeningPrice + MinIncrement
           /\ \A i \in 1..n : i < n => s[i].amount + MinIncrement <= price
           /\ \A i \in 1..n : i > 1 => /\ s[i].amount >= s[i - 1].amount + MinIncrement
                                       /\ MinIncrement > 0 => s[i].bidder # s[i - 1].bidder

(* A bid goes on top of those there are.                                   *)
Outbids(b, s, price) ==
  /\ b.amount >= price + MinIncrement
  /\ s # <<>> /\ MinIncrement > 0 => s[Len(s)].bidder # b.bidder

AllClimb == \A a \in Auctions : Climbs(bids[a], auction[a].price)

(* What a request read still holds when it writes, if it is the only one.  *)
StillOutbids ==
  \A r \in Requests : request[r].pc \in {"hold", "write"} =>
    Outbids(request[r].bid, bids[request[r].auction], auction[request[r].auction].price)

Climbing == Well /\ AllClimb /\ StillOutbids

OneHandler == \A r, q \in Requests : r = q

LEMMA ClimbsOn ==
  ASSUME NEW s \in Seq(Bid), NEW b \in Bid, NEW price \in Nat,
         Climbs(s, price), Outbids(b, s, price)
  PROVE  Climbs(Append(s, b), b.amount)
<1> DEFINE n == Len(s)
           t == Append(s, b)
<1>1. /\ n \in Nat /\ Len(t) = n + 1 /\ t[n + 1] = b /\ \A i \in 1..n : t[i] = s[i]
      /\ t # <<>>
  OBVIOUS
<1>2. /\ \A i \in 1..n : s[i] \in Bid /\ s[i].amount \in Nat
      /\ b.amount \in Nat /\ MinIncrement \in Nat /\ OpeningPrice \in Nat
  BY BidFacts, Constants
<1>3. CASE s = <<>>
  <2>1. n = 0 /\ price = OpeningPrice
    BY <1>3 DEF Climbs
  <2>2. b.amount >= OpeningPrice + MinIncrement
    BY <2>1 DEF Outbids
  <2> HIDE DEF n, t
  <2>3. Len(t) = 1 /\ t[1] = b /\ t # <<>>
    BY <1>1, <2>1
  <2>4. Climbs(t, b.amount)
    BY <2>2, <2>3 DEF Climbs
  <2> QED  BY <2>4 DEF t
<1>4. CASE s # <<>>
  <2>1. n \in Nat /\ n > 0
    BY <1>4
  <2>2. /\ price = s[n].amount
        /\ s[1].amount >= OpeningPrice + MinIncrement
        /\ \A i \in 1..n : i < n => s[i].amount + MinIncrement <= price
        /\ \A i \in 1..n : i > 1 => /\ s[i].amount >= s[i - 1].amount + MinIncrement
                                    /\ MinIncrement > 0 => s[i].bidder # s[i - 1].bidder
    BY <1>4 DEF Climbs
  <2>3. /\ b.amount >= price + MinIncrement
        /\ MinIncrement > 0 => s[n].bidder # b.bidder
    BY <1>4 DEF Outbids
  <2> HIDE DEF n, t
  <2>4. t[1].amount >= OpeningPrice + MinIncrement
    BY <1>1, <2>1, <2>2
  <2>5. ASSUME NEW i \in 1..n + 1, i < n + 1
        PROVE  t[i].amount + MinIncrement <= b.amount
    <3>1. i \in 1..n /\ t[i] = s[i] /\ s[i].amount \in Nat
      BY <1>1, <1>2, <2>1, <2>5
    <3>2. s[i].amount <= price
      <4>1. CASE i = n
        BY <2>2, <3>1, <4>1
      <4>2. CASE i < n
        <5>1. s[i].amount + MinIncrement <= price
          BY <2>2, <3>1, <4>2
        <5> QED  BY <1>2, <3>1, <5>1
      <4> QED  BY <2>1, <3>1, <4>1, <4>2
    <3> QED  BY <1>2, <2>3, <3>1, <3>2
  <2>6. ASSUME NEW i \in 1..n + 1, i > 1
        PROVE  /\ t[i].amount >= t[i - 1].amount + MinIncrement
               /\ MinIncrement > 0 => t[i].bidder # t[i - 1].bidder
    <3>1. CASE i = n + 1
      <4>1. t[i] = b /\ t[i - 1] = s[n]
        BY <1>1, <2>1, <3>1
      <4> QED  BY <2>2, <2>3, <4>1
    <3>2. CASE i # n + 1
      <4>1. i \in 1..n /\ i - 1 \in 1..n
        BY <2>1, <2>6, <3>2
      <4> QED  BY <1>1, <2>2, <2>6, <4>1
    <3> QED  BY <3>1, <3>2
  <2>7. Climbs(t, b.amount)
    <3>1. t[Len(t)].amount = b.amount
      BY <1>1
    <3> QED  BY <1>1, <2>4, <2>5, <2>6, <3>1 DEF Climbs
  <2> QED  BY <2>7 DEF t
<1> QED  BY <1>3, <1>4

(* The highest bid is the last one.                                        *)
LEMMA TopIsLast ==
  ASSUME Well, NEW a \in Auctions, Climbs(bids[a], auction[a].price), NEW top \in TopBids(a)
  PROVE  /\ auction[a].price = IF top = NoBid THEN OpeningPrice ELSE top.amount
         /\ MinIncrement > 0 /\ bids[a] # <<>> => top = bids[a][Len(bids[a])]
<1> DEFINE s == bids[a]
           n == Len(s)
<1>1. s \in Seq(Bid) /\ n \in Nat /\ \A i \in 1..n : s[i] \in Bid /\ s[i].amount \in Nat
  <2>1. s \in Seq(Bid)
    BY DEF Well, TypeOK
  <2> QED  BY <2>1, BidFacts
<1>2. CASE s = <<>>
  BY <1>2 DEF TopBids, Climbs
<1>3. CASE s # <<>>
  <2>0. n \in 1..n /\ DOMAIN s = 1..n
    BY <1>1, <1>3
  <2>1. PICK i \in 1..n : top = s[i] /\ \A k \in 1..n : s[k].amount <= s[i].amount
    BY <1>3, <2>0 DEF TopBids
  <2>2. /\ auction[a].price = s[n].amount
        /\ \A k \in 1..n : k < n => s[k].amount + MinIncrement <= s[n].amount
    BY <1>3 DEF Climbs
  <2>3. top # NoBid
    BY <1>1, <2>1, BidFacts
  <2> HIDE DEF s, n
  <2>4. s[i].amount = s[n].amount
    <3>1. s[n].amount <= s[i].amount
      BY <2>0, <2>1
    <3>2. CASE i = n
      BY <3>2
    <3>3. CASE i # n
      <4>1. s[i].amount + MinIncrement <= s[n].amount
        BY <1>1, <2>1, <2>2, <3>3
      <4> QED  BY <1>1, <2>0, <3>1, <4>1, Constants
    <3> QED  BY <3>2, <3>3
  <2>5. MinIncrement > 0 => i = n
    BY <1>1, <2>0, <2>2, <2>4, Constants
  <2> QED  BY <1>3, <2>1, <2>2, <2>3, <2>4, <2>5 DEF s, n
<1> QED  BY <1>2, <1>3

(* Nothing but a bid changes the price.                                    *)
LEMMA PriceStays ==
  ASSUME Well, [Next]_vars, \A r \in Requests : ~WriteBid(r), NEW a \in Auctions
  PROVE  auction'[a].price = auction[a].price
<1>0. auction \in [Auctions -> AuctionRow]
  BY DEF Well, TypeOK, AuctionRow
<1>1. ASSUME NEW s \in Schedulers, StartScheduled(s) \/ CloseAuction(s)
      PROVE  auction'[a].price = auction[a].price
  <2>1. ASSUME StartScheduled(s)  PROVE auction'[a].price = auction[a].price
    <3>1. PICK due : auction' = [c \in Auctions |->
            IF c \in due THEN [auction[c] EXCEPT !.status = "ACTIVE"] ELSE auction[c]]
      BY <2>1 DEF StartScheduled
    <3> QED  BY <1>0, <3>1 DEF AuctionRow
  <2>2. ASSUME CloseAuction(s)  PROVE auction'[a].price = auction[a].price
    <3>1. PICK c : auction' = [auction EXCEPT ![c].status = "CLOSED"]
      BY <2>2 DEF CloseAuction
    <3> QED  BY <1>0, <3>1 DEF AuctionRow
  <2> QED  BY <1>1, <2>1, <2>2
<1>2. ASSUME Publish \/ Update
      PROVE  auction'[a].price = auction[a].price
  <2>1. PICK c, x : /\ auction' = [auction EXCEPT ![c] = x]
                    /\ c \in Auctions => x.price = auction[c].price
    <3>1. CASE Publish /\ RequireModeration
      <4> DEFINE x == [auction[seller.auction] EXCEPT !.status = "PENDING_MODERATION",
                         !.startsAt = seller.startsAt, !.endsAt = seller.endsAt]
      <4>1. auction' = [auction EXCEPT ![seller.auction] = x]
        BY <3>1 DEF Publish
      <4>2. seller.auction \in Auctions => x.price = auction[seller.auction].price
        BY <1>0 DEF AuctionRow
      <4> QED  BY <4>1, <4>2
    <3>2. CASE Publish /\ ~RequireModeration
      <4> DEFINE x == [auction[seller.auction] EXCEPT !.status = "PUBLISHED",
                         !.startsAt = now, !.endsAt = now + seller.endsAt - seller.startsAt]
      <4>1. auction' = [auction EXCEPT ![seller.auction] = x]
        BY <3>2 DEF Publish
      <4>2. seller.auction \in Auctions => x.price = auction[seller.auction].price
        BY <1>0 DEF AuctionRow
      <4> QED  BY <4>1, <4>2
    <3>3. CASE Update
      <4> DEFINE x == [auction[seller.auction] EXCEPT !.endsAt = seller.endsAt]
      <4>1. auction' = [auction EXCEPT ![seller.auction] = x]
        BY <3>3 DEF Update
      <4>2. seller.auction \in Auctions => x.price = auction[seller.auction].price
        BY <1>0 DEF AuctionRow
      <4> QED  BY <4>1, <4>2
    <3> QED  BY <1>2, <3>1, <3>2, <3>3
  <2>2. auction'[a] = IF a = c THEN x ELSE auction[a]
    BY <1>0, <2>1
  <2> QED  BY <2>1, <2>2
<1>3. ASSUME PanelWrites \/ \E c \in Auctions, to \in {"PUBLISHED", "DRAFT"} : Moderate(c, to)
      PROVE  auction'[a].price = auction[a].price
  BY <1>0, <1>3 DEF PanelWrites, Moderate, AuctionRow
<1> QED  BY <1>1, <1>2, <1>3, AuctionWriters

(* A request that is about to hold or to write has just read the auction   *)
(* or is where it was.                                                     *)
Reads(r, u, a, amount, top) ==
  /\ Acceptable(u, a, amount, top)
  /\ request' = [request EXCEPT ![r] =
       [pc |-> "hold", auction |-> a, bid |-> [bidder |-> u, amount |-> amount],
        prev |-> top, endsAt |-> NewEndsAt(a)]]
  /\ UNCHANGED <<auction, bids, seller>>

LEMMA PendingRequest ==
  ASSUME Well, [Next]_vars, NEW r \in Requests, request'[r].pc \in {"hold", "write"}
  PROVE  \/ /\ request[r].pc \in {"hold", "write"} /\ ~WriteBid(r)
            /\ request'[r].auction = request[r].auction
            /\ request'[r].bid = request[r].bid /\ request'[r].endsAt = request[r].endsAt
            /\ request'[r].prev = request[r].prev
         \/ \E u \in Users, a \in Auctions, amount \in Amounts :
              \E top \in TopBids(a) : Reads(r, u, a, amount, top)
<1> DEFINE Same == /\ request[r].pc \in {"hold", "write"} /\ ~WriteBid(r)
                   /\ request'[r].auction = request[r].auction
                   /\ request'[r].bid = request[r].bid /\ request'[r].endsAt = request[r].endsAt
                   /\ request'[r].prev = request[r].prev
           New == \E u \in Users, a \in Auctions, amount \in Amounts :
                    \E top \in TopBids(a) : Reads(r, u, a, amount, top)
<1>0. request \in [Requests -> RequestState]
  BY DEF Well, TypeOK
<1>1. ASSUME NEW q \in Requests, WriteBid(q)  PROVE q # r /\ UNCHANGED request[r]
  <2>1. \/ request'[q] = [pc |-> "idle"]
        \/ request'[q] = [request[q] EXCEPT !.pc = "release"]
    BY <1>0, <1>1 DEF WriteBid
  <2>2. request'[q].pc \notin {"hold", "write"}
    <3>1. request[q] \in Reading
      BY <1>1, RequestHasRead DEF WriteBid
    <3> QED  BY <2>1, <3>1 DEF Reading
  <2> QED  BY <1>0, <1>1, <2>2 DEF WriteBid
<1>2. ASSUME UNCHANGED request[r], ~WriteBid(r)  PROVE Same
  BY <1>2
<1>3. ASSUME NEW q \in Requests, RequestStep(q), q # r  PROVE UNCHANGED request[r]
  BY <1>0, <1>3 DEF RequestStep, ReadAuction, HoldFunds, WriteBid, WriteFails,
     ReleasePrevious, Compensate, RequestDies
<1>4. ASSUME HoldFunds(r)  PROVE Same
  <2>1. request[r] \in Reading /\ request[r].pc = "hold"
    BY <1>4, RequestHasRead DEF HoldFunds
  <2>2. \E pc \in {"write", "undo"} : request'[r] = [request[r] EXCEPT !.pc = pc]
    BY <1>0, <1>4 DEF HoldFunds
  <2> QED  BY <2>1, <2>2 DEF Reading, WriteBid
<1>5. ASSUME WriteFails(r)  PROVE FALSE
  <2>1. request[r] \in Reading
    BY <1>5, RequestHasRead DEF WriteFails
  <2>2. request'[r] = [request[r] EXCEPT !.pc = "undo"]
    BY <1>0, <1>5 DEF WriteFails
  <2> QED  BY <2>1, <2>2 DEF Reading
<1>6. ASSUME ReleasePrevious(r) \/ Compensate(r) \/ RequestDies(r)  PROVE FALSE
  BY <1>0, <1>6 DEF ReleasePrevious, Compensate, RequestDies
<1>7. ASSUME NEW u \in Users, NEW a \in Auctions, NEW amount \in Amounts,
             ReadAuction(r, u, a, amount)
      PROVE  New
  <2>1. PICK top \in TopBids(a) :
          request' = [request EXCEPT ![r] =
            [pc |-> IF Acceptable(u, a, amount, top) THEN "hold" ELSE "undo",
             auction |-> a, bid |-> [bidder |-> u, amount |-> amount],
             prev |-> top, endsAt |-> NewEndsAt(a)]]
    BY <1>7 DEF ReadAuction
  <2>2. Acceptable(u, a, amount, top)
    BY <1>0, <2>1
  <2>3. UNCHANGED <<auction, bids, seller>>
    BY <1>7 DEF ReadAuction, market
  <2>4. Reads(r, u, a, amount, top)
    BY <2>1, <2>2, <2>3 DEF Reads
  <2> QED  BY <2>4
<1>8. ASSUME \/ \E s \in Schedulers : JobStep(s) \/ SchedulerDies(s)
             \/ \E a \in Auctions : PanelStep(a)
             \/ PanelWrites \/ SellerStep \/ LockExpires \/ Tick \/ UNCHANGED vars
      PROVE  UNCHANGED request
  BY <1>8 DEF JobStep, StartScheduled, AcquireLock, FindExpired, CloseAuction, CloseFails,
     FindLosers, ReleaseLoser, ReleaseLock, SchedulerDies, PanelStep, PanelChecks, Moderate,
     CreateFromAuction, PanelWrites, SellerStep, SellerReads, Publish, Update, LockExpires,
     Tick, vars
<1> HIDE DEF Same, New
<1>9. CASE \E q \in Requests : RequestStep(q)
  <2>1. PICK q \in Requests : RequestStep(q)
    BY <1>9
  <2>2. CASE q # r
    BY <1>1, <1>2, <1>3, <2>1, <2>2 DEF Same, New
  <2>3. CASE q = r
    BY <1>1, <1>4, <1>5, <1>6, <1>7, <2>1, <2>3 DEF RequestStep, Same, New
  <2> QED  BY <2>2, <2>3
<1>10. CASE UNCHANGED request
  BY <1>1, <1>2, <1>10 DEF Same, New
<1> QED  BY <1>8, <1>9, <1>10 DEF Next

LEMMA ClimbStep ==
  ASSUME Climbing, [Next]_vars
  PROVE  AllClimb'
<1>0. Well /\ AllClimb /\ StillOutbids
  BY DEF Climbing
<1>1. CASE \A r \in Requests : ~WriteBid(r)
  <2>1. UNCHANGED bids
    BY <1>1, BidsWritten
  <2>2. \A a \in Auctions : auction'[a].price = auction[a].price
    BY <1>0, <1>1, PriceStays
  <2> QED  BY <1>0, <2>1, <2>2 DEF AllClimb
<1>2. ASSUME NEW r \in Requests, WriteBid(r)  PROVE AllClimb'
  <2> DEFINE a == request[r].auction
             b == request[r].bid
  <2>1. request[r] \in Reading
    BY <1>0, <1>2, RequestHasRead DEF WriteBid
  <2>2. a \in Auctions /\ b \in Bid
    BY <2>1 DEF Reading
  <2>3. Outbids(b, bids[a], auction[a].price)
    BY <1>0, <1>2 DEF StillOutbids, WriteBid
  <2>4. bids[a] \in Seq(Bid) /\ auction[a].price \in Nat
    BY <1>0, <2>2, AuctionFacts DEF Well, TypeOK
  <2>5. Climbs(bids[a], auction[a].price)
    BY <1>0, <2>2 DEF AllClimb
  <2>6. /\ bids'[a] = Append(bids[a], b) /\ auction'[a].price = b.amount
        /\ \A c \in Auctions \ {a} : bids'[c] = bids[c] /\ auction'[c] = auction[c]
    <3>1. bids \in [Auctions -> Seq(Bid)] /\ auction \in [Auctions -> AuctionRow]
      BY <1>0 DEF Well, TypeOK, AuctionRow
    <3>2. bids' = [bids EXCEPT ![a] = Append(@, b)]
      BY <1>2 DEF WriteBid
    <3>3. auction' = [auction EXCEPT ![a] =
            [auction[a] EXCEPT !.status = "ACTIVE", !.price = b.amount, !.endsAt = request[r].endsAt]]
      BY <1>2 DEF WriteBid
    <3>4. auction'[a].price = b.amount
      BY <2>2, <3>1, <3>3 DEF AuctionRow
    <3> HIDE DEF a, b
    <3> QED  BY <2>2, <3>1, <3>2, <3>3, <3>4
  <2> HIDE DEF a, b
  <2>7. Climbs(Append(bids[a], b), b.amount)
    BY <2>2, <2>3, <2>4, <2>5, ClimbsOn
  <2>8. ASSUME NEW c \in Auctions  PROVE Climbs(bids'[c], auction'[c].price)
    <3>1. CASE c = a
      BY <2>6, <2>7, <3>1
    <3>2. CASE c # a
      BY <1>0, <2>6, <3>2 DEF AllClimb
    <3> QED  BY <3>1, <3>2
  <2> QED  BY <2>8 DEF AllClimb
<1> QED  BY <1>1, <1>2

LEMMA OutbidStep ==
  ASSUME OneHandler, Climbing, [Next]_vars
  PROVE  StillOutbids'
<1>0. Well /\ AllClimb /\ StillOutbids
  BY DEF Climbing
<1> SUFFICES ASSUME NEW r \in Requests, request'[r].pc \in {"hold", "write"}
             PROVE  Outbids(request'[r].bid, bids'[request'[r].auction],
                            auction'[request'[r].auction].price)
  BY DEF StillOutbids
<1>1. CASE /\ request[r].pc \in {"hold", "write"} /\ ~WriteBid(r)
           /\ request'[r].auction = request[r].auction /\ request'[r].bid = request[r].bid
  <2>1. \A q \in Requests : ~WriteBid(q)
    BY <1>1 DEF OneHandler
  <2>2. UNCHANGED bids
    BY <2>1, BidsWritten
  <2>3. request[r].auction \in Auctions
    BY <1>0, <1>1, RequestHasRead DEF Reading
  <2>4. auction'[request[r].auction].price = auction[request[r].auction].price
    BY <1>0, <2>1, <2>3, PriceStays
  <2> QED  BY <1>0, <1>1, <2>2, <2>4 DEF StillOutbids
<1>2. ASSUME NEW u \in Users, NEW a \in Auctions, NEW amount \in Amounts,
             NEW top \in TopBids(a), Reads(r, u, a, amount, top)
      PROVE  Outbids(request'[r].bid, bids'[request'[r].auction],
                     auction'[request'[r].auction].price)
  <2>1. /\ request'[r].bid = [bidder |-> u, amount |-> amount] /\ request'[r].auction = a
        /\ UNCHANGED <<auction, bids>>
    BY <1>0, <1>2 DEF Reads, Well, TypeOK
  <2>2. /\ amount >= auction[a].price + MinIncrement
        /\ top = NoBid \/ top.bidder # u
    BY <1>2 DEF Reads, Acceptable
  <2>3. bids[a] # <<>> /\ MinIncrement > 0 => top = bids[a][Len(bids[a])] /\ top # NoBid
    <3>1. bids[a] # <<>> /\ MinIncrement > 0 => top = bids[a][Len(bids[a])]
      BY <1>0, TopIsLast DEF AllClimb
    <3>2. bids[a] # <<>> => bids[a][Len(bids[a])] \in Bid
      <4>1. bids[a] \in Seq(Bid)
        BY <1>0 DEF Well, TypeOK
      <4> QED  BY <4>1
    <3> QED  BY <3>1, <3>2, BidFacts
  <2> QED  BY <2>1, <2>2, <2>3 DEF Outbids
<1> QED  BY <1>0, <1>1, <1>2, PendingRequest

LEMMA InitClimbing == Init => Climbing
<1> SUFFICES ASSUME Init PROVE Climbing
  OBVIOUS
<1>1. AllClimb
  BY DEF Init, AllClimb, Climbs
<1>2. StillOutbids
  BY DEF Init, StillOutbids
<1> QED  BY <1>1, <1>2, InitWell DEF Climbing

LEMMA AlwaysClimbing ==
  ASSUME OneHandler
  PROVE  Spec => []Climbing
<1>1. Climbing /\ [Next]_vars => Climbing'
  BY NextWell, ClimbStep, OutbidStep DEF Climbing
<1> QED  BY <1>1, InitClimbing, PTL DEF Spec

(* Where requests to bid do not overlap, the price shown is that of the    *)
(* highest bid, or the opening price: what the request read is still true  *)
(* when it writes, for nothing the closing job, the seller or the panel    *)
(* does in between touches bids or price.                                  *)
THEOREM PriceFollowsBids ==
  ASSUME OneHandler
  PROVE  Spec => []PriceIsTopBid
<1>1. Climbing => PriceIsTopBid
  BY TopIsLast DEF Climbing, AllClimb, PriceIsTopBid
<1> QED  BY <1>1, AlwaysClimbing, PTL

(* Where requests do not overlap and an increment is configured, the bids  *)
(* of an auction climb by it from the opening price on, and no one bids    *)
(* over himself.                                                           *)
THEOREM BidsAlwaysClimb ==
  ASSUME OneHandler, MinIncrement > 0
  PROVE  Spec => []BidsClimb
<1>1. ASSUME Climbing, NEW a \in Auctions, NEW i \in DOMAIN bids[a]
      PROVE  IF i = 1 THEN bids[a][i].amount >= OpeningPrice + MinIncrement
             ELSE /\ bids[a][i].amount >= bids[a][i - 1].amount + MinIncrement
                  /\ bids[a][i].bidder # bids[a][i - 1].bidder
  <2>1. bids[a] \in Seq(Bid) /\ Climbs(bids[a], auction[a].price)
    BY <1>1 DEF Climbing, Well, TypeOK, AllClimb
  <2>2. i \in 1..Len(bids[a]) /\ bids[a] # <<>>
    BY <1>1, <2>1
  <2> QED  BY <2>1, <2>2 DEF Climbs
<1>2. Climbing => BidsClimb
  BY <1>1 DEF BidsClimb
<1> QED  BY <1>2, AlwaysClimbing, PTL

-----------------------------------------------------------------------------
(* Where no auction goes back to its seller's desk, by moderation or by a  *)
(* hand of the panel, one that takes bids is out of the seller's reach.    *)
NoReturn == ~RequireModeration /\ PanelTargets \subseteq {"CLOSED", "CANCELLED"}

Pending(r) == request[r].pc \in {"hold", "write"}

Apart ==
  /\ panel.pc = "write" => panel.to \in PanelTargets
  /\ \A a \in Auctions : auction[a].status \in {"DRAFT", "PUBLISHED", "ACTIVE", "CLOSED", "CANCELLED"}
  /\ \A r \in Requests : Pending(r) => auction[request[r].auction].status # "DRAFT"
  /\ seller.pc # "idle" =>
       /\ auction[seller.auction].status \notin {"PUBLISHED", "ACTIVE"}
       /\ \A r \in Requests : Pending(r) => request[r].auction # seller.auction

EndKept ==
  \A r \in Requests : Pending(r) => request[r].endsAt >= auction[request[r].auction].endsAt

Ending == Well /\ Apart /\ EndKept

LEMMA StatusStep ==
  ASSUME NoReturn, Ending, [Next]_vars, NEW a \in Auctions
  PROVE  /\ auction'[a].status \in {"DRAFT", "PUBLISHED", "ACTIVE", "CLOSED", "CANCELLED"}
         /\ auction[a].status # "DRAFT" => auction'[a].status # "DRAFT"
         /\ auction'[a].endsAt # auction[a].endsAt =>
              \/ seller.pc # "idle" /\ a = seller.auction
              \/ \E r \in Requests : WriteBid(r)
         /\ auction'[a].status \in {"PUBLISHED", "ACTIVE"} =>
              \/ auction[a].status \in {"PUBLISHED", "ACTIVE"}
              \/ Publish /\ a = seller.auction
              \/ \E r \in Requests : WriteBid(r) /\ a = request[r].auction
<1> DEFINE Fine ==
      /\ auction'[a].status \in {"DRAFT", "PUBLISHED", "ACTIVE", "CLOSED", "CANCELLED"}
      /\ auction[a].status # "DRAFT" => auction'[a].status # "DRAFT"
      /\ auction'[a].endsAt # auction[a].endsAt =>
           \/ seller.pc # "idle" /\ a = seller.auction
           \/ \E r \in Requests : WriteBid(r)
      /\ auction'[a].status \in {"PUBLISHED", "ACTIVE"} =>
           \/ auction[a].status \in {"PUBLISHED", "ACTIVE"}
           \/ Publish /\ a = seller.auction
           \/ \E r \in Requests : WriteBid(r) /\ a = request[r].auction
<1>0. /\ auction \in [Auctions -> AuctionRow]
      /\ auction[a].status \in {"DRAFT", "PUBLISHED", "ACTIVE", "CLOSED", "CANCELLED"}
  BY DEF Ending, Apart, Well, TypeOK, AuctionRow
<1>1. ASSUME auction'[a] = auction[a]  PROVE Fine
  BY <1>0, <1>1
<1>2. ASSUME NEW r \in Requests, WriteBid(r)  PROVE Fine
  <2> DEFINE c == request[r].auction
             x == [auction[c] EXCEPT !.status = "ACTIVE", !.price = request[r].bid.amount,
                                     !.endsAt = request[r].endsAt]
  <2>1. auction' = [auction EXCEPT ![c] = x]
    BY <1>2 DEF WriteBid
  <2>2. CASE a = c
    <3>1. auction'[a].status = "ACTIVE"
      BY <1>0, <2>1, <2>2 DEF AuctionRow
    <3> QED  BY <1>2, <2>2, <3>1
  <2>3. CASE a # c
    BY <1>0, <1>1, <2>1, <2>3
  <2> QED  BY <2>2, <2>3
<1>3. ASSUME NEW s \in Schedulers, StartScheduled(s)  PROVE Fine
  <2>1. auction'[a] = auction[a] \/ (/\ auction[a].status = "PUBLISHED"
                                     /\ auction'[a] = [auction[a] EXCEPT !.status = "ACTIVE"])
    <3>1. PICK due \in SUBSET {c \in Auctions : auction[c].status = "PUBLISHED"} :
            auction' = [c \in Auctions |->
              IF c \in due THEN [auction[c] EXCEPT !.status = "ACTIVE"] ELSE auction[c]]
      BY <1>3 DEF StartScheduled
    <3> QED  BY <3>1
  <2>2. CASE auction'[a] = [auction[a] EXCEPT !.status = "ACTIVE"] /\ auction[a].status = "PUBLISHED"
    <3>1. auction'[a].status = "ACTIVE" /\ auction'[a].endsAt = auction[a].endsAt
      BY <1>0, <2>2 DEF AuctionRow
    <3> QED  BY <2>2, <3>1
  <2> QED  BY <1>1, <2>1, <2>2
<1>4. ASSUME NEW c \in Auctions, NEW status \in {"CLOSED", "CANCELLED"},
             auction' = [auction EXCEPT ![c].status = status]
      PROVE  Fine
  <2>1. CASE a = c
    <3>1. auction'[a].status = status /\ auction'[a].endsAt = auction[a].endsAt
      BY <1>0, <1>4, <2>1 DEF AuctionRow
    <3> QED  BY <3>1
  <2>2. CASE a # c
    BY <1>0, <1>1, <1>4, <2>2
  <2> QED  BY <2>1, <2>2
<1>5. ASSUME NEW s \in Schedulers, CloseAuction(s)  PROVE Fine
  <2>1. PICK c \in DOMAIN job[s].todo : auction' = [auction EXCEPT ![c].status = "CLOSED"]
    BY <1>5 DEF CloseAuction
  <2>2. c \in Auctions
    BY <1>5, ChosenFromTodo DEF CloseAuction, Ending
  <2> QED  BY <1>4, <2>1, <2>2
<1>6. ASSUME PanelWrites  PROVE Fine
  <2>1. /\ panel.auction \in Auctions /\ panel.to \in {"CLOSED", "CANCELLED"}
        /\ auction' = [auction EXCEPT ![panel.auction].status = panel.to]
    <3>1. panel.pc = "write" /\ auction' = [auction EXCEPT ![panel.auction].status = panel.to]
      BY <1>6 DEF PanelWrites
    <3>2. panel.auction \in Auctions
      BY <3>1 DEF Ending, Well, TypeOK
    <3>3. panel.to \in {"CLOSED", "CANCELLED"}
      BY <3>1 DEF Ending, Apart, NoReturn
    <3> QED  BY <3>1, <3>2, <3>3
  <2> QED  BY <1>4, <2>1
<1>7. ASSUME Publish  PROVE Fine
  <2> DEFINE c == seller.auction
             x == [auction[c] EXCEPT !.status = "PUBLISHED",
                     !.startsAt = now, !.endsAt = now + seller.endsAt - seller.startsAt]
  <2>1. auction' = [auction EXCEPT ![c] = x] /\ seller.pc # "idle"
    BY <1>7 DEF Publish, NoReturn
  <2>2. CASE a = c
    <3>1. auction'[a].status = "PUBLISHED"
      BY <1>0, <2>1, <2>2 DEF AuctionRow
    <3> QED  BY <1>7, <2>1, <2>2, <3>1
  <2>3. CASE a # c
    BY <1>0, <1>1, <2>1, <2>3
  <2> QED  BY <2>2, <2>3
<1>8. ASSUME Update  PROVE Fine
  <2> DEFINE c == seller.auction
             x == [auction[c] EXCEPT !.endsAt = seller.endsAt]
  <2>1. auction' = [auction EXCEPT ![c] = x] /\ seller.pc # "idle"
    BY <1>8 DEF Update
  <2>2. CASE a = c
    <3>1. auction'[a].status = auction[a].status
      BY <1>0, <2>1, <2>2 DEF AuctionRow
    <3> QED  BY <1>0, <2>1, <2>2, <3>1
  <2>3. CASE a # c
    BY <1>0, <1>1, <2>1, <2>3
  <2> QED  BY <2>2, <2>3
<1> HIDE DEF Fine
<1>9. Fine
  BY <1>1, <1>2, <1>3, <1>5, <1>6, <1>7, <1>8, AuctionWriters DEF NoReturn, Moderate
<1> QED  BY <1>9 DEF Fine

(* A step of the seller finds him idle and a draft, or leaves him idle.    *)
LEMMA SellerMoves ==
  ASSUME Well, Apart, [Next]_vars
  PROVE  \/ UNCHANGED seller /\ ~Publish
         \/ seller'.pc = "idle"
         \/ /\ seller'.auction \in Auctions /\ auction[seller'.auction].status = "DRAFT"
            /\ UNCHANGED <<auction, request>>
<1>1. ASSUME NEW a \in Auctions, NEW op, NEW endsAt, SellerReads(a, op, endsAt)
      PROVE  /\ seller'.auction \in Auctions /\ auction[seller'.auction].status = "DRAFT"
             /\ UNCHANGED <<auction, request>>
  BY <1>1 DEF SellerReads, CanTransition, Apart, market
<1>2. ASSUME Publish \/ Update  PROVE seller'.pc = "idle"
  BY <1>2 DEF Publish, Update
<1>3. ASSUME SellerStep
      PROVE  \/ seller'.pc = "idle"
             \/ /\ seller'.auction \in Auctions /\ auction[seller'.auction].status = "DRAFT"
                /\ UNCHANGED <<auction, request>>
  <2>1. \/ \E a \in Auctions : \E op, endsAt : SellerReads(a, op, endsAt)
        \/ Publish \/ Update
    BY <1>3 DEF SellerStep
  <2> QED  BY <1>1, <1>2, <2>1
<1>4. ASSUME \/ \E r \in Requests : RequestStep(r)
             \/ \E s \in Schedulers : JobStep(s) \/ SchedulerDies(s)
             \/ \E a \in Auctions : PanelStep(a)
             \/ PanelWrites \/ LockExpires \/ Tick \/ UNCHANGED vars
      PROVE  UNCHANGED seller
  BY <1>4 DEF RequestStep, ReadAuction, HoldFunds, WriteBid, WriteFails, ReleasePrevious,
     Compensate, RequestDies, JobStep, StartScheduled, AcquireLock, FindExpired, CloseAuction,
     CloseFails, FindLosers, ReleaseLoser, ReleaseLock, SchedulerDies, PanelStep, PanelChecks,
     Moderate, CreateFromAuction, PanelWrites, LockExpires, Tick, vars
<1>5. Publish => seller'.pc = "idle"
  BY <1>2
<1> QED  BY <1>3, <1>4, <1>5 DEF Next

LEMMA PanelTargeted ==
  ASSUME Well, Apart, [Next]_vars, panel'.pc = "write"
  PROVE  panel'.to \in PanelTargets
<1>1. ASSUME NEW a \in Auctions, PanelStep(a)
      PROVE  UNCHANGED panel \/ \E to \in PanelTargets : panel' = [pc |-> "write", auction |-> a, to |-> to]
  BY <1>1 DEF PanelStep, PanelChecks, Moderate, CreateFromAuction
<1>2. ASSUME PanelWrites  PROVE FALSE
  BY <1>2 DEF PanelWrites
<1>3. ASSUME \/ \E r \in Requests : RequestStep(r)
             \/ \E s \in Schedulers : JobStep(s) \/ SchedulerDies(s)
             \/ SellerStep \/ LockExpires \/ Tick \/ UNCHANGED vars
      PROVE  UNCHANGED panel
  BY <1>3 DEF RequestStep, ReadAuction, HoldFunds, WriteBid, WriteFails, ReleasePrevious,
     Compensate, RequestDies, JobStep, StartScheduled, AcquireLock, FindExpired, CloseAuction,
     CloseFails, FindLosers, ReleaseLoser, ReleaseLock, SchedulerDies, SellerStep, SellerReads,
     Publish, Update, LockExpires, Tick, vars
<1> QED  BY <1>1, <1>2, <1>3 DEF Next, Apart

LEMMA ReadsFacts ==
  ASSUME Well, NEW r \in Requests, NEW u \in Users, NEW a \in Auctions, NEW amount \in Amounts,
         NEW top \in TopBids(a), Reads(r, u, a, amount, top)
  PROVE  /\ request'[r].auction = a /\ request'[r].endsAt >= auction[a].endsAt
         /\ auction[a].status \in {"PUBLISHED", "ACTIVE"}
         /\ UNCHANGED <<auction, seller>>
<1>1. NewEndsAt(a) >= auction[a].endsAt
  BY AuctionFacts, ClockFacts, Constants DEF NewEndsAt
<1>2. request'[r].auction = a /\ request'[r].endsAt = NewEndsAt(a)
  BY DEF Reads, Well, TypeOK
<1> QED  BY <1>1, <1>2 DEF Reads, Acceptable

LEMMA ApartStep ==
  ASSUME NoReturn, Ending, [Next]_vars
  PROVE  Apart'
<1>0. Well /\ Apart
  BY DEF Ending
<1>1. \A a \in Auctions : auction'[a].status \in {"DRAFT", "PUBLISHED", "ACTIVE", "CLOSED", "CANCELLED"}
  BY StatusStep
<1>2. ASSUME NEW r \in Requests, Pending(r)'
      PROVE  /\ auction'[request'[r].auction].status # "DRAFT"
             /\ UNCHANGED seller /\ seller.pc # "idle" => request'[r].auction # seller.auction
  <2>1. CASE Pending(r) /\ request'[r].auction = request[r].auction
    <3>1. request[r].auction \in Auctions
      BY <1>0, <2>1, RequestHasRead DEF Pending, Reading
    <3> QED  BY <1>0, <2>1, <3>1, StatusStep DEF Apart
  <2>2. ASSUME NEW u \in Users, NEW a \in Auctions, NEW amount \in Amounts,
               NEW top \in TopBids(a), Reads(r, u, a, amount, top)
        PROVE  /\ auction'[request'[r].auction].status # "DRAFT"
               /\ UNCHANGED seller /\ seller.pc # "idle" => request'[r].auction # seller.auction
    BY <1>0, <2>2, ReadsFacts DEF Apart
  <2> QED  BY <1>0, <1>2, <2>1, <2>2, PendingRequest DEF Pending
<1>3. ASSUME seller'.pc # "idle"
      PROVE  /\ auction'[seller'.auction].status \notin {"PUBLISHED", "ACTIVE"}
             /\ \A r \in Requests : Pending(r)' => request'[r].auction # seller'.auction
  <2>1. CASE UNCHANGED seller /\ ~Publish
    <3>1. seller.auction \in Auctions /\ seller.pc # "idle"
      BY <1>0, <1>3, <2>1, SellerFacts
    <3>2. auction[seller.auction].status \notin {"PUBLISHED", "ACTIVE"}
      BY <1>0, <3>1 DEF Apart
    <3>3. ASSUME NEW r \in Requests, WriteBid(r)  PROVE seller.auction # request[r].auction
      BY <1>0, <3>1, <3>3 DEF Apart, Pending, WriteBid
    <3>4. auction'[seller.auction].status \notin {"PUBLISHED", "ACTIVE"}
      BY <2>1, <3>1, <3>2, <3>3, StatusStep
    <3> QED  BY <1>2, <2>1, <3>1, <3>4
  <2>2. CASE /\ seller'.auction \in Auctions /\ auction[seller'.auction].status = "DRAFT"
             /\ UNCHANGED <<auction, request>>
    <3>1. \A r \in Requests : Pending(r)' => Pending(r) /\ request'[r] = request[r]
      BY <2>2 DEF Pending
    <3> QED  BY <1>0, <2>2, <3>1 DEF Apart
  <2> QED  BY <1>0, <1>3, <2>1, <2>2, SellerMoves
<1>4. panel'.pc = "write" => panel'.to \in PanelTargets
  BY <1>0, PanelTargeted
<1> QED  BY <1>1, <1>2, <1>3, <1>4 DEF Apart

LEMMA EndStep ==
  ASSUME OneHandler, NoReturn, Ending, [Next]_vars
  PROVE  EndKept'
<1>0. Well /\ Apart /\ EndKept
  BY DEF Ending
<1>1. ASSUME NEW r \in Requests, Pending(r)'
      PROVE  request'[r].endsAt >= auction'[request'[r].auction].endsAt
  <2>1. CASE /\ Pending(r) /\ ~WriteBid(r)
             /\ request'[r].auction = request[r].auction /\ request'[r].endsAt = request[r].endsAt
    <3>1. request[r].auction \in Auctions
      BY <1>0, <2>1, RequestHasRead DEF Pending, Reading
    <3>2. \A q \in Requests : ~WriteBid(q)
      BY <2>1 DEF OneHandler
    <3>3. auction'[request[r].auction].endsAt = auction[request[r].auction].endsAt
      BY <1>0, <2>1, <3>1, <3>2, StatusStep DEF Apart
    <3> QED  BY <1>0, <2>1, <3>3 DEF EndKept
  <2>2. ASSUME NEW u \in Users, NEW a \in Auctions, NEW amount \in Amounts,
               NEW top \in TopBids(a), Reads(r, u, a, amount, top)
        PROVE  request'[r].endsAt >= auction'[request'[r].auction].endsAt
    BY <1>0, <2>2, ReadsFacts
  <2> QED  BY <1>0, <1>1, <2>1, <2>2, PendingRequest DEF Pending
<1> QED  BY <1>1 DEF EndKept

LEMMA InitEnding == Init => Ending
<1> SUFFICES ASSUME Init PROVE Ending
  OBVIOUS
<1>1. Apart /\ EndKept
  BY DEF Init, Apart, EndKept, Pending
<1> QED  BY <1>1, InitWell DEF Ending

(* Soft close and closing job: where requests do not overlap and no        *)
(* auction goes back to its seller's desk, a bid never brings the end of   *)
(* its auction forward.  The seller may change the end of a draft, the job *)
(* and the panel may close what takes bids, while a request is under way.  *)
THEOREM EndSafety ==
  ASSUME OneHandler, NoReturn
  PROVE  Spec => EndNeverMovesBack
<1>1. Ending /\ [Next]_vars => Ending'
  BY NextWell, ApartStep, EndStep DEF Ending
<1>2. ASSUME Ending, [Next]_vars, NEW a \in Auctions, bids'[a] # bids[a]
      PROVE  auction'[a].endsAt >= auction[a].endsAt
  <2>1. PICK r \in Requests : WriteBid(r)
    BY <1>2, BidsWritten
  <2> DEFINE c == request[r].auction
             x == [auction[c] EXCEPT !.status = "ACTIVE", !.price = request[r].bid.amount,
                                     !.endsAt = request[r].endsAt]
  <2>2. a = c
    <3>1. bids \in [Auctions -> Seq(Bid)]
      BY <1>2 DEF Ending, Well, TypeOK
    <3> QED  BY <1>2, <2>1, <3>1 DEF WriteBid
  <2>3. auction'[a].endsAt = request[r].endsAt
    <3>1. auction \in [Auctions -> AuctionRow] /\ auction' = [auction EXCEPT ![c] = x]
      BY <1>2, <2>1 DEF WriteBid, Ending, Well, TypeOK, AuctionRow
    <3> QED  BY <2>2, <3>1 DEF AuctionRow
  <2>4. Pending(r)
    BY <2>1 DEF WriteBid, Pending
  <2> QED  BY <1>2, <2>2, <2>3, <2>4 DEF Ending, EndKept
<1>3. Ending /\ [Next]_vars
      => [\A a \in Auctions :
            bids'[a] # bids[a] => auction'[a].endsAt >= auction[a].endsAt]_vars
  BY <1>2
<1> QED  BY <1>1, <1>3, InitEnding, PTL DEF Spec, EndNeverMovesBack
-----------------------------------------------------------------------------
(* A leading bid keeps its cover.  A request that overlaps no other read   *)
(* the bid that is still on top, and losers are released after the sale.   *)
Tops(s) ==
  IF s = <<>> THEN {NoBid}
  ELSE {s[i] : i \in {j \in DOMAIN s : \A k \in DOMAIN s : s[k].amount <= s[j].amount}}

StillOnTop ==
  \A r \in Requests : request[r].pc \in {"hold", "write"} =>
    request[r].prev \in TopBids(request[r].auction)

SoldFirst ==
  \A s \in Schedulers : job[s].pc \in {"losers", "release"} => ~Unsold(job[s].auction)

Covering == Climbing /\ StillOnTop /\ SoldFirst

(* Where an increment is configured, one bid is on top.                    *)
LEMMA OneTop ==
  ASSUME MinIncrement > 0, NEW s \in Seq(Bid), NEW price \in Nat, Climbs(s, price)
  PROVE  Tops(s) = {IF s = <<>> THEN NoBid ELSE s[Len(s)]}
<1>1. CASE s = <<>>
  BY <1>1 DEF Tops
<1>2. CASE s # <<>>
  <2> DEFINE n == Len(s)
             J == {j \in DOMAIN s : \A k \in DOMAIN s : s[k].amount <= s[j].amount}
  <2>1. n \in Nat /\ n > 0 /\ DOMAIN s = 1..n /\ \A i \in 1..n : s[i] \in Bid
    BY <1>2
  <2>2. \A i \in 1..n : s[i].amount \in Nat
    BY <2>1, BidFacts
  <2>3. /\ price = s[n].amount
        /\ \A i \in 1..n : i < n => s[i].amount + MinIncrement <= price
    BY <1>2 DEF Climbs
  <2> HIDE DEF n
  <2>4. ASSUME NEW i \in 1..n, i # n  PROVE s[i].amount < s[n].amount
    <3>1. s[i].amount + MinIncrement <= s[n].amount /\ s[i].amount \in Nat /\ s[n].amount \in Nat
      BY <2>1, <2>2, <2>3, <2>4
    <3> QED  BY <3>1, Constants
  <2>5. n \in 1..n
    BY <2>1
  <2>6. n \in J
    <3>1. \A k \in 1..n : s[k].amount <= s[n].amount
      BY <2>2, <2>4, <2>5
    <3> QED  BY <2>1, <2>5, <3>1
  <2>7. ASSUME NEW j \in J  PROVE j = n
    BY <2>1, <2>2, <2>4, <2>5, <2>7
  <2>8. J = {n}
    BY <2>6, <2>7
  <2>9. Tops(s) = {s[i] : i \in J}
    BY <1>2 DEF Tops
  <2> QED  BY <1>2, <2>8, <2>9 DEF n
<1> QED  BY <1>1, <1>2

LEMMA LeaderOf ==
  ASSUME Climbing, MinIncrement > 0, NEW a \in Auctions
  PROVE  \E top \in MaybeBid :
           /\ TopBids(a) = {top}
           /\ \A u \in Users :
                /\ Leading(u, a) = IF Unsold(a) /\ top.bidder = u THEN top.amount ELSE 0
                /\ Leading(u, a) \in Nat
<1> DEFINE s == bids[a]
           top == IF s = <<>> THEN NoBid ELSE s[Len(s)]
<1>1. s \in Seq(Bid) /\ auction[a].price \in Nat /\ Climbs(s, auction[a].price)
  BY AuctionFacts DEF Climbing, Well, TypeOK, AllClimb
<1>2. TopBids(a) = Tops(s)
  BY DEF TopBids, Tops
<1>3. top \in MaybeBid
  BY <1>1 DEF MaybeBid
<1> HIDE DEF s
<1>4. TopBids(a) = {top}
  BY <1>1, <1>2, OneTop
<1> HIDE DEF top
<1>5. ASSUME NEW u \in Users
      PROVE  Leading(u, a) = IF Unsold(a) /\ top.bidder = u THEN top.amount ELSE 0
  <2> DEFINE lead == CHOOSE b \in TopBids(a) : TRUE
  <2>1. lead = top
    BY <1>4
  <2>2. Leading(u, a) = IF Unsold(a) /\ lead.bidder = u THEN lead.amount ELSE 0
    BY DEF Leading
  <2> HIDE DEF lead
  <2> QED  BY <2>1, <2>2
<1> QED  BY <1>3, <1>4, <1>5, BidFacts

(* An order is made once and stays.                                        *)
LEMMA OrdersStay ==
  ASSUME Well, [Next]_vars, NEW a \in Auctions
  PROVE  /\ orders'[a] # orders[a] => Unsold(a) /\ ~Unsold(a)'
         /\ ~Unsold(a) => ~Unsold(a)'
<1>0. orders \in [Auctions -> OrderRow]
  BY DEF Well, TypeOK, OrderRow
<1>1. ASSUME NEW c \in Auctions, CreateFromAuction(c)
      PROVE  orders'[a] # orders[a] => Unsold(a) /\ ~Unsold(a)'
  <2>1. PICK top : orders' = [orders EXCEPT ![c] =
          [NoOrder EXCEPT !.status = "PENDING_PAYMENT", !.buyer = top.bidder, !.total = top.amount]]
    BY <1>1 DEF CreateFromAuction
  <2>2. orders'[a] # orders[a] => orders[a] = NoOrder /\ orders'[a].status = "PENDING_PAYMENT"
    BY <1>0, <1>1, <2>1 DEF CreateFromAuction, NoOrder
  <2> QED  BY <2>2 DEF Unsold, NoOrder
<1>2. ASSUME NEW c \in Auctions, NEW b \in Bid, NEW pct \in FeePercents, SaleOf(c, b, pct)
      PROVE  orders'[a] # orders[a] => Unsold(a) /\ ~Unsold(a)'
  <2>1. orders'[a] # orders[a] => orders[a] = NoOrder /\ orders'[a].status = "PAID"
    BY <1>0, <1>2 DEF SaleOf, Charged
  <2> QED  BY <2>1 DEF Unsold, NoOrder
<1>3. orders'[a] # orders[a] => Unsold(a) /\ ~Unsold(a)'
  BY <1>1, <1>2, MoneyStep
<1> QED  BY <1>3 DEF Unsold

LEMMA OnTopStep ==
  ASSUME OneHandler, Covering, [Next]_vars
  PROVE  StillOnTop'
<1>0. Well /\ StillOnTop
  BY DEF Covering, Climbing
<1> SUFFICES ASSUME NEW r \in Requests, request'[r].pc \in {"hold", "write"}
             PROVE  (request[r].prev \in TopBids(request[r].auction))'
  BY DEF StillOnTop
<1>1. CASE /\ request[r].pc \in {"hold", "write"} /\ ~WriteBid(r)
           /\ request'[r].auction = request[r].auction /\ request'[r].prev = request[r].prev
  <2>1. \A q \in Requests : ~WriteBid(q)
    BY <1>1 DEF OneHandler
  <2>2. UNCHANGED bids
    BY <2>1, BidsWritten
  <2> QED  BY <1>0, <1>1, <2>2 DEF StillOnTop, TopBids
<1>2. ASSUME NEW u \in Users, NEW a \in Auctions, NEW amount \in Amounts,
             NEW top \in TopBids(a), Reads(r, u, a, amount, top)
      PROVE  (request[r].prev \in TopBids(request[r].auction))'
  <2>1. request'[r].prev = top /\ request'[r].auction = a /\ UNCHANGED bids
    BY <1>0, <1>2 DEF Reads, Well, TypeOK
  <2> QED  BY <2>1 DEF TopBids
<1> QED  BY <1>0, <1>1, <1>2, PendingRequest

LEMMA SoldFirstStep ==
  ASSUME Covering, [Next]_vars
  PROVE  SoldFirst'
<1>0. Well /\ SoldFirst /\ job \in [Schedulers -> JobState] /\ orders \in [Auctions -> OrderRow]
  BY DEF Covering, Climbing, Well, TypeOK, OrderRow
<1> SUFFICES ASSUME NEW s \in Schedulers, job'[s].pc \in {"losers", "release"}
             PROVE  ~Unsold(job[s].auction)'
  BY DEF SoldFirst
<1>1. ASSUME job[s].pc \in {"losers", "release"}, job'[s].auction = job[s].auction
      PROVE  ~Unsold(job[s].auction)'
  <2>1. job[s].auction \in Auctions
    BY <1>0, <1>1, JobHasFound DEF Losers, Releasing
  <2>2. ~Unsold(job[s].auction)
    BY <1>0, <1>1 DEF SoldFirst
  <2> QED  BY <1>0, <1>1, <2>1, <2>2, OrdersStay DEF Unsold
<1>2. ASSUME UNCHANGED job[s]  PROVE ~Unsold(job[s].auction)'
  BY <1>1, <1>2
<1>3. ASSUME NEW t \in Schedulers, JobStep(t) \/ SchedulerDies(t), t # s
      PROVE  UNCHANGED job[s]
  BY <1>0, <1>3 DEF JobStep, StartScheduled, AcquireLock, FindExpired, CloseAuction, CloseFails,
     FindLosers, ReleaseLoser, ReleaseLock, SchedulerDies
<1>4. ASSUME StartScheduled(s) \/ AcquireLock(s) \/ FindExpired(s) \/ ReleaseLock(s)
             \/ SchedulerDies(s)
      PROVE  FALSE
  BY <1>0, <1>4 DEF StartScheduled, AcquireLock, FindExpired, ReleaseLock, SchedulerDies
<1>5. ASSUME CloseFails(s)  PROVE FALSE
  <2>1. job[s] \in Closing
    BY <1>0, <1>5, JobHasFound DEF CloseFails
  <2>2. \E x : job'[s] = [job[s] EXCEPT !.todo = x]
    BY <1>0, <1>5 DEF CloseFails
  <2> QED  BY <2>1, <2>2 DEF Closing
<1>6. ASSUME CloseAuction(s)  PROVE ~Unsold(job[s].auction)'
  <2>1. job[s] \in Closing
    BY <1>0, <1>6, JobHasFound DEF CloseAuction
  <2>2. PICK a \in DOMAIN job[s].todo, pct \in FeePercents :
          \/ job' = [job EXCEPT ![s].todo = Rest(job[s].todo, a)]
          \/ /\ orders' = [orders EXCEPT ![a] = Charged(job[s].todo[a], pct)]
             /\ job' = [job EXCEPT ![s] =
                  [pc |-> "losers", todo |-> Rest(job[s].todo, a), auction |-> a,
                   winner |-> job[s].todo[a].bidder]]
    BY <1>6 DEF CloseAuction, Charged
  <2>3. a \in Auctions
    BY <1>0, <2>1, ChosenFromTodo DEF Closing
  <2>4. CASE job' = [job EXCEPT ![s].todo = Rest(job[s].todo, a)]
    <3>1. job'[s] = [job[s] EXCEPT !.todo = Rest(job[s].todo, a)]
      BY <1>0, <2>4
    <3> QED  BY <2>1, <3>1 DEF Closing
  <2>5. CASE job' # [job EXCEPT ![s].todo = Rest(job[s].todo, a)]
    <3>1. job'[s].auction = a
      BY <1>0, <2>2, <2>5
    <3>2. orders'[a].status = "PAID"
      BY <1>0, <2>2, <2>3, <2>5 DEF Charged
    <3> QED  BY <3>1, <3>2 DEF Unsold, NoOrder
  <2> QED  BY <2>2, <2>4, <2>5
<1>7. ASSUME FindLosers(s)  PROVE ~Unsold(job[s].auction)'
  <2>1. job[s].pc = "losers" /\ job'[s].auction = job[s].auction
    BY <1>0, <1>7 DEF FindLosers
  <2> QED  BY <1>1, <2>1
<1>8. ASSUME ReleaseLoser(s)  PROVE ~Unsold(job[s].auction)'
  <2>1. job[s] \in Releasing
    BY <1>0, <1>8, JobHasFound DEF ReleaseLoser
  <2>2. \/ job'[s] = [pc |-> "close", todo |-> job[s].todo]
        \/ \E x : job'[s] = [job[s] EXCEPT !.losers = x]
    BY <1>0, <1>8 DEF ReleaseLoser
  <2>3. CASE job'[s] = [pc |-> "close", todo |-> job[s].todo]
    BY <2>3
  <2>4. ASSUME NEW x, job'[s] = [job[s] EXCEPT !.losers = x]
        PROVE  job'[s].auction = job[s].auction
    BY <2>1, <2>4 DEF Releasing
  <2> QED  BY <1>1, <1>8, <2>2, <2>3, <2>4 DEF ReleaseLoser
<1>9. ASSUME \/ \E r \in Requests : RequestStep(r)
             \/ \E a \in Auctions : PanelStep(a)
             \/ PanelWrites \/ SellerStep \/ LockExpires \/ Tick \/ UNCHANGED vars
      PROVE  UNCHANGED job
  BY <1>9 DEF RequestStep, ReadAuction, HoldFunds, WriteBid, WriteFails, ReleasePrevious,
     Compensate, RequestDies, PanelStep, PanelChecks, Moderate, CreateFromAuction,
     PanelWrites, SellerStep, SellerReads, Publish, Update, LockExpires, Tick, vars
<1> QED
  BY <1>2, <1>3, <1>4, <1>5, <1>6, <1>7, <1>8, <1>9 DEF Next, JobStep

LEMMA AlwaysCovering ==
  ASSUME OneHandler
  PROVE  Spec => []Covering
<1>1. Init => Covering
  <2>1. Init => StillOnTop /\ SoldFirst
    BY DEF Init, StillOnTop, SoldFirst
  <2> QED  BY <2>1, InitClimbing DEF Covering
<1>2. Covering /\ [Next]_vars => Covering'
  BY NextWell, ClimbStep, OutbidStep, OnTopStep, SoldFirstStep DEF Covering, Climbing
<1> QED  BY <1>1, <1>2, PTL DEF Spec

(* What a release, a hold and a sale do to what is held.                   *)
LEMMA ReleaseHeld ==
  ASSUME FundsType, NEW u \in Users, NEW a \in Auctions, NEW amount \in Nat,
         Release(u, a, amount)
  PROVE  /\ \A v \in Users \ {u} : HeldTotal(v)' = HeldTotal(v)
         /\ HeldTotal(u)' \in Int /\ HeldTotal(u)' >= HeldTotal(u) - amount
         /\ held'[u][a] = held[u][a] => HeldTotal(u)' = HeldTotal(u)
<1>0. \A v \in Users : HeldTotal(v) \in Nat
  BY DEF FundsType
<1>1. CASE UNCHANGED held
  BY <1>0, <1>1 DEF HeldTotal
<1>2. CASE ~UNCHANGED held
  <2> DEFINE x == held[u][a] - amount
  <2>1. held[u][a] \in Int
    BY DEF FundsType
  <2>2. held' = [held EXCEPT ![u][a] = x] /\ x \in Int
    BY <1>2, <2>1 DEF Release
  <2>3. held'[u][a] = x
    BY <2>2 DEF FundsType
  <2> HIDE DEF x
  <2>4. /\ HeldTotal(u)' = HeldTotal(u) - held[u][a] + x
        /\ \A v \in Users \ {u} : HeldTotal(v)' = HeldTotal(v)
    BY <2>2, HeldMoves
  <2>5. x = held[u][a] - amount
    BY DEF x
  <2> QED  BY <1>0, <2>1, <2>3, <2>4, <2>5
<1> QED  BY <1>1, <1>2

LEMMA HoldHeld ==
  ASSUME FundsType, NEW u \in Users, NEW a \in Auctions, NEW amount \in Nat,
         Hold(u, a, amount)
  PROVE  \A v \in Users : HeldTotal(v)' = HeldTotal(v) + (IF v = u THEN amount ELSE 0)
<1> DEFINE x == held[u][a] + amount
<1>1. held[u][a] \in Int /\ \A v \in Users : HeldTotal(v) \in Nat
  BY DEF FundsType
<1>2. held' = [held EXCEPT ![u][a] = x] /\ x \in Int
  BY <1>1 DEF Hold
<1>3. x = held[u][a] + amount
  OBVIOUS
<1> HIDE DEF x
<1>4. /\ HeldTotal(u)' = HeldTotal(u) - held[u][a] + x
      /\ \A v \in Users \ {u} : HeldTotal(v)' = HeldTotal(v)
  BY <1>2, HeldMoves
<1> QED  BY <1>1, <1>3, <1>4

(* The parts of what is owed.                                              *)
Leads(u) == [a \in Auctions |-> Leading(u, a)]
Hands(u) == [r \in Requests |-> InHand(u, request[r])]

LEMMA OneIsFinite == OneHandler => IsFiniteSet(Requests)
<1>1. CASE Requests = {}
  BY <1>1, FS_EmptySet
<1>2. ASSUME NEW r \in Requests, OneHandler  PROVE IsFiniteSet(Requests)
  <2>1. Requests = {r}
    BY <1>2 DEF OneHandler
  <2> QED  BY <2>1, FS_Singleton
<1> QED  BY <1>1, <1>2

LEMMA HandType ==
  ASSUME Well, NEW u \in Users, NEW r \in Requests
  PROVE  InHand(u, request[r]) \in Nat
<1>1. CASE request[r].pc \in {"write", "release"}
  <2>1. request[r].bid \in Bid /\ request[r].prev \in MaybeBid
    BY <1>1, RequestHasRead DEF Reading
  <2> QED  BY <2>1, BidFacts DEF InHand
<1>2. CASE request[r].pc \notin {"write", "release"}
  BY <1>2 DEF InHand
<1> QED  BY <1>1, <1>2

LEMMA OwedParts ==
  ASSUME OneHandler, MinIncrement > 0, Climbing, NEW u \in Users
  PROVE  /\ \A a \in Auctions : Leads(u)[a] \in Nat
         /\ \A r \in Requests : Hands(u)[r] \in Nat
         /\ SumFunctionOnSet(Leads(u), Auctions) \in Int
         /\ SumFunctionOnSet(Hands(u), Requests) \in Int
         /\ Owed(u) = SumFunctionOnSet(Leads(u), Auctions) + SumFunctionOnSet(Hands(u), Requests)
<1>1. \A a \in Auctions : Leads(u)[a] \in Nat
  BY LeaderOf DEF Leads
<1>2. \A r \in Requests : Hands(u)[r] \in Nat
  BY HandType DEF Hands, Climbing
<1>3. SumFunctionOnSet(Leads(u), Auctions) \in Int
  BY <1>1, Constants, SumInt
<1>4. SumFunctionOnSet(Hands(u), Requests) \in Int
  BY <1>2, OneIsFinite, SumInt
<1>5. Owed(u) = SumFunctionOnSet(Leads(u), Auctions) + SumFunctionOnSet(Hands(u), Requests)
  BY DEF Owed, Leads, Hands
<1> QED  BY <1>1, <1>2, <1>3, <1>4, <1>5

(* Who leads an auction whose bids stay: nobody, once it is sold.          *)
LEMMA LeadsStay ==
  ASSUME MinIncrement > 0, Climbing, [Next]_vars, NEW u \in Users, NEW a \in Auctions,
         bids'[a] = bids[a]
  PROVE  Leads(u)'[a] = IF orders'[a] = orders[a] THEN Leads(u)[a] ELSE 0
<1>1. Leads(u)'[a] = Leading(u, a)' /\ Leads(u)[a] = Leading(u, a)
  BY DEF Leads
<1>2. TopBids(a)' = TopBids(a)
  BY DEF TopBids
<1>3. CASE orders'[a] = orders[a]
  BY <1>1, <1>2, <1>3 DEF Leading, Unsold
<1>4. CASE orders'[a] # orders[a]
  <2>1. ~Unsold(a)'
    BY <1>4, OrdersStay DEF Climbing
  <2> QED  BY <1>1, <1>4, <2>1 DEF Leading
<1> QED  BY <1>3, <1>4

LEMMA HandsFall ==
  ASSUME Well, [Next]_vars, NEW u \in Users, NEW r \in Requests,
         UNCHANGED request[r] \/ request'[r].pc \notin {"write", "release"}
  PROVE  Hands(u)'[r] \in Nat /\ Hands(u)'[r] <= Hands(u)[r]
<1>0. Hands(u)[r] = InHand(u, request[r]) /\ Hands(u)'[r] = InHand(u, request[r])'
  BY DEF Hands
<1>1. InHand(u, request[r]) \in Nat
  BY HandType
<1>2. CASE request'[r].pc \notin {"write", "release"}
  <2>1. InHand(u, request[r])' = 0
    BY <1>2 DEF InHand
  <2> QED  BY <1>0, <1>1, <2>1
<1>3. CASE UNCHANGED request[r] /\ request[r].pc \in {"write", "release"}
  <2>1. request[r].auction \in Auctions
    BY <1>3, RequestHasRead DEF Reading
  <2>2. Unsold(request[r].auction)' => Unsold(request[r].auction)
    <3>1. ~Unsold(request[r].auction) => ~Unsold(request[r].auction)'
      BY <1>3, <2>1, OrdersStay DEF Unsold
    <3> QED  BY <3>1
  <2>3. InHand(u, request[r])' \in {InHand(u, request[r]), 0}
    BY <1>3, <2>2 DEF InHand, Unsold
  <2> QED  BY <1>0, <1>1, <2>3
<1> QED  BY <1>2, <1>3

(* A step that writes no bid and holds nothing: less is owed.              *)
LEMMA OwedFalls ==
  ASSUME OneHandler, MinIncrement > 0, Climbing, [Next]_vars, NEW u \in Users,
         UNCHANGED bids,
         \A r \in Requests : UNCHANGED request[r] \/ request'[r].pc \notin {"write", "release"}
  PROVE  /\ SumFunctionOnSet(Leads(u)', Auctions) \in Int
         /\ SumFunctionOnSet(Hands(u)', Requests) \in Int
         /\ SumFunctionOnSet(Leads(u)', Auctions) <= SumFunctionOnSet(Leads(u), Auctions)
         /\ SumFunctionOnSet(Hands(u)', Requests) <= SumFunctionOnSet(Hands(u), Requests)
         /\ Owed(u)' = SumFunctionOnSet(Leads(u)', Auctions) + SumFunctionOnSet(Hands(u)', Requests)
<1> DEFINE g == Leads(u)'
           k == Hands(u)'
<1>0. Owed(u)' = SumFunctionOnSet(g, Auctions) + SumFunctionOnSet(k, Requests)
  BY DEF Owed, Leads, Hands
<1>1. \A a \in Auctions : Leads(u)[a] \in Nat
  BY OwedParts
<1>2. \A a \in Auctions : g[a] \in {Leads(u)[a], 0}
  BY LeadsStay
<1>3. \A r \in Requests : Hands(u)[r] \in Nat /\ k[r] \in Nat /\ k[r] <= Hands(u)[r]
  BY OwedParts, HandsFall DEF Climbing
<1> HIDE DEF g, k
<1>4. \A a \in Auctions : Leads(u)[a] \in Int /\ g[a] \in Int /\ g[a] <= Leads(u)[a]
  BY <1>1, <1>2
<1>5. /\ SumFunctionOnSet(g, Auctions) \in Int
      /\ SumFunctionOnSet(g, Auctions) <= SumFunctionOnSet(Leads(u), Auctions)
  BY <1>4, Constants, SumInt, SumLeq
<1>6. /\ SumFunctionOnSet(k, Requests) \in Int
      /\ SumFunctionOnSet(k, Requests) <= SumFunctionOnSet(Hands(u), Requests)
  BY <1>3, OneIsFinite, SumInt, SumLeq
<1> QED  BY <1>0, <1>5, <1>6 DEF g, k

LEMMA QuietCover ==
  ASSUME OneHandler, MinIncrement > 0, Climbing, [Next]_vars, NEW u \in Users, Covered(u),
         UNCHANGED bids,
         \A r \in Requests : UNCHANGED request[r] \/ request'[r].pc \notin {"write", "release"},
         HeldTotal(u)' = HeldTotal(u)
  PROVE  Covered(u)'
<1>1. HeldTotal(u) \in Nat
  BY DEF Climbing, Well, TypeOK
<1> QED  BY <1>1, OwedFalls, OwedParts DEF Covered

(* The one request under way changes hands.                                *)
LEMMA HandChanges ==
  ASSUME OneHandler, Well, NEW u \in Users, NEW r \in Requests, NEW x \in Nat,
         InHand(u, request[r])' = x
  PROVE  SumFunctionOnSet(Hands(u)', Requests)
           = SumFunctionOnSet(Hands(u), Requests) - InHand(u, request[r]) + x
<1> DEFINE h == Hands(u)
           k == Hands(u)'
<1>1. h[r] = InHand(u, request[r]) /\ k[r] = x
  BY DEF Hands
<1>2. \A q \in Requests : h[q] \in Int
  BY HandType DEF Hands
<1>3. \A q \in Requests \ {r} : k[q] = h[q]
  BY DEF OneHandler
<1> HIDE DEF h, k
<1>4. SumFunctionOnSet(k, Requests) = SumFunctionOnSet(h, Requests) - h[r] + k[r]
  BY <1>1, <1>2, <1>3, OneIsFinite, SumUpdate
<1> QED  BY <1>1, <1>4 DEF h, k

LEMMA SameLeads ==
  ASSUME MinIncrement > 0, Climbing, [Next]_vars, NEW u \in Users, UNCHANGED <<bids, orders>>
  PROVE  SumFunctionOnSet(Leads(u)', Auctions) = SumFunctionOnSet(Leads(u), Auctions)
<1> DEFINE g == Leads(u)'
<1>1. \A a \in Auctions : g[a] = Leads(u)[a]
  BY LeadsStay
<1> HIDE DEF g
<1>2. SumFunctionOnSet(g, Auctions) = SumFunctionOnSet(Leads(u), Auctions)
  BY <1>1, Constants, SumSame
<1> QED  BY <1>2 DEF g

LEMMA OwedThen ==
  ASSUME NEW u
  PROVE  Owed(u)' = SumFunctionOnSet(Leads(u)', Auctions) + SumFunctionOnSet(Hands(u)', Requests)
BY DEF Owed, Leads, Hands

(* A hold covers the bid that is about to be written.                      *)
LEMMA HoldCovers ==
  ASSUME OneHandler, MinIncrement > 0, Covering, [Next]_vars, NEW u \in Users, Covered(u),
         NEW r \in Requests, HoldFunds(r)
  PROVE  Covered(u)'
<1> DEFINE c == request[r]
<1>0. /\ Climbing /\ Well /\ FundsType /\ c \in Reading /\ c.pc = "hold"
      /\ request \in [Requests -> RequestState] /\ HeldTotal(u) \in Nat
  BY RequestHasRead DEF Covering, Climbing, HoldFunds, Well, TypeOK, FundsType
<1>1. UNCHANGED <<bids, orders>>
  BY DEF HoldFunds, market
<1>2. CASE UNCHANGED funds /\ request' = [request EXCEPT ![r].pc = "undo"]
  <2>1. request'[r].pc = "undo"
    BY <1>0, <1>2 DEF Reading
  <2>2. \A q \in Requests : request'[q].pc \notin {"write", "release"}
    BY <2>1 DEF OneHandler
  <2>3. HeldTotal(u)' = HeldTotal(u)
    BY <1>2 DEF funds, HeldTotal
  <2> QED  BY <1>0, <1>1, <2>2, <2>3, QuietCover
<1>3. CASE /\ Hold(c.bid.bidder, c.auction, c.bid.amount)
           /\ request' = [request EXCEPT ![r].pc = "write"]
  <2>1. c.bid.bidder \in Users /\ c.bid.amount \in Nat /\ c.auction \in Auctions
    BY <1>0, BidFacts DEF Reading
  <2>2. HeldTotal(u)' = HeldTotal(u) + (IF u = c.bid.bidder THEN c.bid.amount ELSE 0)
    BY <1>0, <1>3, <2>1, HoldHeld
  <2>3. request'[r] = [c EXCEPT !.pc = "write"]
    BY <1>0, <1>3
  <2>4. request'[r].pc = "write" /\ request'[r].bid = c.bid /\ request'[r].auction = c.auction
    BY <1>0, <2>3 DEF Reading
  <2> DEFINE x == IF c.bid.bidder = u /\ Unsold(c.auction) THEN c.bid.amount ELSE 0
  <2>5. InHand(u, request[r])' = x /\ x \in Nat
    BY <1>1, <2>1, <2>4 DEF InHand, Unsold
  <2>6. InHand(u, request[r]) = 0
    BY <1>0 DEF InHand
  <2>7. x <= IF u = c.bid.bidder THEN c.bid.amount ELSE 0
    BY <2>1
  <2> HIDE DEF x, c
  <2>8. SumFunctionOnSet(Hands(u)', Requests) = SumFunctionOnSet(Hands(u), Requests) - 0 + x
    BY <1>0, <2>5, <2>6, HandChanges
  <2>9. SumFunctionOnSet(Leads(u)', Auctions) = SumFunctionOnSet(Leads(u), Auctions)
    BY <1>0, <1>1, SameLeads
  <2>10. /\ SumFunctionOnSet(Leads(u), Auctions) \in Int
         /\ SumFunctionOnSet(Hands(u), Requests) \in Int
         /\ Owed(u) = SumFunctionOnSet(Leads(u), Auctions) + SumFunctionOnSet(Hands(u), Requests)
         /\ HeldTotal(u) >= Owed(u)
    BY <1>0, OwedParts DEF Covered
  <2>11. Owed(u)' = Owed(u) + x
    BY <2>5, <2>8, <2>9, <2>10, OwedThen
  <2>12. HeldTotal(u)' >= Owed(u)'
    BY <1>0, <2>1, <2>2, <2>5, <2>7, <2>10, <2>11
  <2> QED  BY <2>12 DEF Covered
<1> QED  BY <1>2, <1>3 DEF HoldFunds

(* A bid takes the top, and whom it outbids is still to be released.       *)
LEMMA WriteCovers ==
  ASSUME OneHandler, MinIncrement > 0, Covering, [Next]_vars, NEW u \in Users, Covered(u),
         NEW r \in Requests, WriteBid(r)
  PROVE  Covered(u)'
<1> DEFINE c == request[r]
<1>a. PICK a \in Auctions : a = c.auction
  BY RequestHasRead DEF Covering, Climbing, WriteBid, Reading
<1> DEFINE lead == IF Unsold(a) /\ c.bid.bidder = u THEN c.bid.amount ELSE 0
           out == IF Unsold(a) /\ c.prev.bidder = u THEN c.prev.amount ELSE 0
<1>0. /\ Climbing /\ Well /\ c \in Reading /\ c.pc = "write"
      /\ request \in [Requests -> RequestState] /\ bids \in [Auctions -> Seq(Bid)]
  BY RequestHasRead DEF Covering, Climbing, WriteBid, Well, TypeOK
<1>1. /\ a = c.auction /\ c.bid \in Bid /\ c.prev \in MaybeBid
      /\ c.bid.amount \in Nat /\ c.prev.amount \in Nat
  BY <1>0, <1>a, BidFacts DEF Reading
<1>2. UNCHANGED <<orders, funds>>
  BY DEF WriteBid
<1>3. InHand(u, request[r]) = lead
  BY <1>0, <1>1 DEF InHand
<1>4. InHand(u, request[r])' = out
  <2>1. CASE c.prev = NoBid
    <3>1. request'[r].pc = "idle"
      BY <1>0, <2>1 DEF WriteBid
    <3> QED  BY <2>1, <3>1, BidFacts DEF InHand
  <2>2. CASE c.prev # NoBid
    <3>1. request'[r] = [c EXCEPT !.pc = "release"]
      BY <1>0, <2>2 DEF WriteBid
    <3>2. request'[r].pc = "release" /\ request'[r].prev = c.prev /\ request'[r].auction = a
      BY <1>0, <1>1, <3>1 DEF Reading
    <3> QED  BY <1>2, <3>2 DEF InHand, Unsold
  <2> QED  BY <2>1, <2>2
<1>5. Leads(u)[a] = out
  <2>1. c.prev \in TopBids(a)
    BY <1>0, <1>1 DEF Covering, StillOnTop
  <2>2. PICK top \in MaybeBid :
          /\ TopBids(a) = {top}
          /\ Leading(u, a) = IF Unsold(a) /\ top.bidder = u THEN top.amount ELSE 0
    BY <1>0, <1>1, LeaderOf
  <2>3. top = c.prev
    BY <2>1, <2>2
  <2> QED  BY <1>1, <2>2, <2>3 DEF Leads
<1>6. Leads(u)'[a] = lead
  <2>1. bids'[a] = Append(bids[a], c.bid)
    BY <1>0, <1>1 DEF WriteBid
  <2>2. Climbs(bids[a], auction[a].price) /\ Outbids(c.bid, bids[a], auction[a].price)
    BY <1>0, <1>1 DEF Covering, Climbing, AllClimb, StillOutbids
  <2>3. bids[a] \in Seq(Bid) /\ auction[a].price \in Nat
    BY <1>0, <1>1, AuctionFacts
  <2> DEFINE b == c.bid
             s == bids[a]
             t == Append(s, b)
  <2>4. b \in Bid /\ b.amount \in Nat /\ s \in Seq(Bid)
    BY <1>1, <2>3
  <2>5. Climbs(t, b.amount)
    BY <2>2, <2>3, <2>4, ClimbsOn
  <2>6. t \in Seq(Bid) /\ t # <<>> /\ t[Len(t)] = b
    <3> HIDE DEF s, b
    <3> QED  BY <2>4
  <2> HIDE DEF t
  <2>7. Tops(t) = {b}
    BY <2>4, <2>5, <2>6, OneTop
  <2>8. TopBids(a)' = {b}
    <3>1. TopBids(a)' = Tops(bids'[a])
      BY DEF TopBids, Tops
    <3> QED  BY <2>1, <2>7, <3>1 DEF t
  <2>9. Leading(u, a)' = lead
    <3> DEFINE new == CHOOSE x \in TopBids(a)' : TRUE
    <3>1. new = b
      BY <2>8
    <3>2. Leading(u, a)' = IF Unsold(a)' /\ new.bidder = u THEN new.amount ELSE 0
      BY DEF Leading
    <3> HIDE DEF new
    <3> QED  BY <1>2, <3>1, <3>2 DEF Unsold
  <2> QED  BY <1>1, <2>9 DEF Leads
<1>7. \A d \in Auctions \ {a} : Leads(u)'[d] = Leads(u)[d]
  <2>1. ASSUME NEW d \in Auctions \ {a}  PROVE bids'[d] = bids[d]
    BY <1>0, <1>1, <2>1 DEF WriteBid
  <2> QED  BY <1>0, <1>2, <2>1, LeadsStay
<1>8. /\ lead \in Nat /\ out \in Nat
  BY <1>1
<1>9. /\ \A d \in Auctions : Leads(u)[d] \in Int
      /\ SumFunctionOnSet(Leads(u), Auctions) \in Int
      /\ SumFunctionOnSet(Hands(u), Requests) \in Int
      /\ Owed(u) = SumFunctionOnSet(Leads(u), Auctions) + SumFunctionOnSet(Hands(u), Requests)
  BY <1>0, OwedParts
<1> HIDE DEF lead, out, c
<1>10. SumFunctionOnSet(Hands(u)', Requests) = SumFunctionOnSet(Hands(u), Requests) - lead + out
  BY <1>0, <1>3, <1>4, <1>8, HandChanges
<1>11. SumFunctionOnSet(Leads(u)', Auctions) = SumFunctionOnSet(Leads(u), Auctions) - out + lead
  <2> DEFINE h == Leads(u)
             g == Leads(u)'
  <2>1. h[a] = out /\ g[a] = lead /\ \A d \in Auctions \ {a} : g[d] = h[d]
    BY <1>5, <1>6, <1>7
  <2>2. \A d \in Auctions : h[d] \in Int
    BY <1>9
  <2> HIDE DEF h, g
  <2>3. SumFunctionOnSet(g, Auctions) = SumFunctionOnSet(h, Auctions) - h[a] + g[a]
    BY <1>1, <1>8, <2>1, <2>2, Constants, SumUpdate
  <2> QED  BY <2>1, <2>3 DEF h, g
<1>12. Owed(u)' = Owed(u)
  BY <1>8, <1>9, <1>10, <1>11, OwedThen
<1>13. HeldTotal(u)' = HeldTotal(u)
  BY <1>2 DEF funds, HeldTotal
<1> QED  BY <1>12, <1>13 DEF Covered

(* The outbid bidder's release takes what the request still owed him.      *)
LEMMA PreviousCovers ==
  ASSUME OneHandler, MinIncrement > 0, Covering, [Next]_vars, NEW u \in Users, Covered(u),
         \A a \in Auctions : ~LateRelease(u, a),
         NEW r \in Requests, ReleasePrevious(r)
  PROVE  Covered(u)'
<1> DEFINE c == request[r]
<1>0. /\ Climbing /\ Well /\ FundsType /\ c \in Reading /\ c.pc = "release"
      /\ request \in [Requests -> RequestState] /\ HeldTotal(u) \in Nat
  BY RequestHasRead DEF Covering, Climbing, ReleasePrevious, Well, TypeOK, FundsType
<1>1. c.prev.bidder \in Users /\ c.prev.amount \in Nat /\ c.auction \in Auctions
  BY <1>0, BidFacts DEF Reading
<1>2. UNCHANGED <<bids, orders>> /\ request'[r].pc = "idle"
  BY <1>0 DEF ReleasePrevious, market
<1>3. Release(c.prev.bidder, c.auction, c.prev.amount)
  BY DEF ReleasePrevious
<1>4. ASSUME HeldTotal(u)' = HeldTotal(u)  PROVE Covered(u)'
  <2>1. \A q \in Requests : request'[q].pc \notin {"write", "release"}
    BY <1>2 DEF OneHandler
  <2> QED  BY <1>0, <1>2, <1>4, <2>1, QuietCover
<1>5. CASE c.prev.bidder # u
  BY <1>0, <1>1, <1>3, <1>4, <1>5, ReleaseHeld
<1>6. CASE c.prev.bidder = u /\ ~Unsold(c.auction)
  <2>1. held'[u][c.auction] = held[u][c.auction]
    BY <1>1, <1>6 DEF LateRelease
  <2> QED  BY <1>0, <1>1, <1>3, <1>4, <1>6, <2>1, ReleaseHeld
<1>7. CASE c.prev.bidder = u /\ Unsold(c.auction)
  <2>1. InHand(u, request[r]) = c.prev.amount
    BY <1>0, <1>7 DEF InHand
  <2>2. InHand(u, request[r])' = 0
    BY <1>2 DEF InHand
  <2>3. SumFunctionOnSet(Hands(u)', Requests)
          = SumFunctionOnSet(Hands(u), Requests) - c.prev.amount + 0
    BY <1>0, <2>1, <2>2, HandChanges
  <2>4. SumFunctionOnSet(Leads(u)', Auctions) = SumFunctionOnSet(Leads(u), Auctions)
    BY <1>0, <1>2, SameLeads
  <2>5. HeldTotal(u)' \in Int /\ HeldTotal(u)' >= HeldTotal(u) - c.prev.amount
    BY <1>0, <1>1, <1>3, <1>7, ReleaseHeld
  <2>6. /\ SumFunctionOnSet(Leads(u), Auctions) \in Int
        /\ SumFunctionOnSet(Hands(u), Requests) \in Int
        /\ HeldTotal(u) >= SumFunctionOnSet(Leads(u), Auctions) + SumFunctionOnSet(Hands(u), Requests)
    BY <1>0, OwedParts DEF Covered
  <2> HIDE DEF c
  <2>7. HeldTotal(u)' >= SumFunctionOnSet(Leads(u)', Auctions) + SumFunctionOnSet(Hands(u)', Requests)
    BY <1>0, <1>1, <2>3, <2>4, <2>5, <2>6
  <2> QED  BY <2>7, OwedThen DEF Covered
<1> QED  BY <1>5, <1>6, <1>7

(* The charge of a sale takes what its top bid was owed.                   *)
LEMMA SaleCovers ==
  ASSUME OneHandler, MinIncrement > 0, Covering, [Next]_vars, NEW u \in Users, Covered(u),
         NEW a \in Auctions, NEW b \in Bid, NEW pct \in FeePercents, SaleOf(a, b, pct),
         UNCHANGED <<bids, request>>, ~(StaleSale(a) /\ orders'[a].buyer = u)
  PROVE  Covered(u)'
<1>0. /\ Climbing /\ Well /\ FundsType /\ HeldTotal(u) \in Nat
      /\ orders \in [Auctions -> OrderRow]
      /\ b.bidder \in Users /\ b.amount \in Nat /\ Net(b.amount, pct) \in Nat
  BY BidFacts, SaleSplits DEF Covering, Climbing, Well, TypeOK, FundsType, OrderRow
<1>1. HeldTotal(u)' = HeldTotal(u) - (IF u = b.bidder THEN b.amount ELSE 0)
  BY <1>0, SaleMoves DEF SaleOf
<1>2. CASE b.bidder # u
  <2>1. HeldTotal(u)' = HeldTotal(u)
    BY <1>0, <1>1, <1>2
  <2> QED  BY <1>0, <2>1, QuietCover
<1>3. CASE b.bidder = u
  <2>1. /\ orders'[a] = Charged(b, pct) /\ orders[a] = NoOrder
        /\ \A d \in Auctions \ {a} : orders'[d] = orders[d]
    BY <1>0 DEF SaleOf
  <2>2. orders'[a] # orders[a] /\ orders'[a].buyer = u /\ orders'[a].total = b.amount
    BY <1>3, <2>1 DEF Charged, NoOrder
  <2>3. [bidder |-> u, amount |-> b.amount] \in TopBids(a)
    BY <2>2 DEF StaleSale
  <2>4. PICK top \in MaybeBid :
          /\ TopBids(a) = {top}
          /\ Leading(u, a) = IF Unsold(a) /\ top.bidder = u THEN top.amount ELSE 0
    BY <1>0, LeaderOf
  <2>5. Leads(u)[a] = b.amount
    BY <2>1, <2>3, <2>4 DEF Leads, Unsold
  <2>6. Leads(u)'[a] = 0 /\ \A d \in Auctions \ {a} : Leads(u)'[d] = Leads(u)[d]
    BY <1>0, <2>1, <2>2, LeadsStay
  <2>7. /\ \A d \in Auctions : Leads(u)[d] \in Int
        /\ SumFunctionOnSet(Leads(u), Auctions) \in Int
        /\ SumFunctionOnSet(Hands(u), Requests) \in Int
        /\ HeldTotal(u) >= SumFunctionOnSet(Leads(u), Auctions) + SumFunctionOnSet(Hands(u), Requests)
    BY <1>0, OwedParts DEF Covered
  <2>8. SumFunctionOnSet(Leads(u)', Auctions) = SumFunctionOnSet(Leads(u), Auctions) - b.amount
    <3> DEFINE h == Leads(u)
               g == Leads(u)'
    <3>1. h[a] = b.amount /\ g[a] = 0 /\ \A d \in Auctions \ {a} : g[d] = h[d]
      BY <2>5, <2>6
    <3>2. \A d \in Auctions : h[d] \in Int
      BY <2>7
    <3>3. SumFunctionOnSet(h, Auctions) \in Int
      BY <2>7
    <3> HIDE DEF h, g
    <3>4. SumFunctionOnSet(g, Auctions) = SumFunctionOnSet(h, Auctions) - h[a] + g[a]
      BY <3>1, <3>2, Constants, SumUpdate
    <3>5. SumFunctionOnSet(g, Auctions) = SumFunctionOnSet(h, Auctions) - b.amount
      BY <1>0, <3>1, <3>3, <3>4
    <3> QED  BY <3>5 DEF h, g
  <2>9. /\ SumFunctionOnSet(Hands(u)', Requests) \in Int
        /\ SumFunctionOnSet(Hands(u)', Requests) <= SumFunctionOnSet(Hands(u), Requests)
    BY <1>0, OwedFalls
  <2>10. HeldTotal(u)' >= SumFunctionOnSet(Leads(u)', Auctions) + SumFunctionOnSet(Hands(u)', Requests)
    BY <1>0, <1>1, <1>3, <2>7, <2>8, <2>9
  <2> QED  BY <2>10, OwedThen DEF Covered
<1> QED  BY <1>2, <1>3

(* The steps the property excuses.                                         *)
UndoOf(u) ==
  \E r \in Requests : /\ request[r].pc = "undo" /\ request'[r].pc = "idle"
                      /\ request[r].bid.bidder = u
SpentOf(u) ==
  \E a \in Auctions : (StaleSale(a) /\ orders'[a].buyer = u) \/ LateRelease(u, a)

LEMMA RequestCovers ==
  ASSUME OneHandler, MinIncrement > 0, Covering, [Next]_vars, NEW u \in Users, Covered(u),
         ~UndoOf(u), ~SpentOf(u), NEW r \in Requests, RequestStep(r)
  PROVE  Covered(u)'
<1>0. Climbing /\ Well /\ FundsType /\ request \in [Requests -> RequestState]
  BY DEF Covering, Climbing, Well, TypeOK, FundsType
<1>1. ASSUME UNCHANGED bids, request'[r].pc \notin {"write", "release"},
             HeldTotal(u)' = HeldTotal(u)
      PROVE  Covered(u)'
  <2>1. \A q \in Requests : request'[q].pc \notin {"write", "release"}
    BY <1>1 DEF OneHandler
  <2> QED  BY <1>0, <1>1, <2>1, QuietCover
<1>2. ASSUME \/ \E v \in Users, a \in Auctions, amount \in Amounts : ReadAuction(r, v, a, amount)
             \/ WriteFails(r) \/ RequestDies(r)
      PROVE  Covered(u)'
  <2>1. UNCHANGED <<bids, funds>>
    BY <1>2 DEF ReadAuction, WriteFails, RequestDies, market
  <2>2. request'[r].pc \notin {"write", "release"}
    <3>1. CASE WriteFails(r)
      <4>1. request[r] \in Reading /\ request'[r] = [request[r] EXCEPT !.pc = "undo"]
        BY <1>0, <3>1, RequestHasRead DEF WriteFails
      <4> QED  BY <4>1 DEF Reading
    <3>2. ASSUME NEW v \in Users, NEW a \in Auctions, NEW amount \in Amounts,
                 ReadAuction(r, v, a, amount)
          PROVE  request'[r].pc \notin {"write", "release"}
      BY <1>0, <3>2 DEF ReadAuction
    <3>3. CASE RequestDies(r)
      BY <1>0, <3>3 DEF RequestDies
    <3> QED  BY <1>2, <3>1, <3>2, <3>3
  <2>3. HeldTotal(u)' = HeldTotal(u)
    BY <2>1 DEF funds, HeldTotal
  <2> QED  BY <1>1, <2>1, <2>2, <2>3
<1>3. ASSUME Compensate(r)  PROVE Covered(u)'
  <2>1. request[r] \in Reading /\ request[r].pc = "undo" /\ request'[r].pc = "idle"
    BY <1>0, <1>3, RequestHasRead DEF Compensate
  <2>2. request[r].bid.bidder # u
    BY <2>1 DEF UndoOf
  <2>3. /\ request[r].bid.bidder \in Users /\ request[r].bid.amount \in Nat
        /\ request[r].auction \in Auctions
    BY <2>1, BidFacts DEF Reading
  <2>4. HeldTotal(u)' = HeldTotal(u)
    BY <1>0, <1>3, <2>2, <2>3, ReleaseHeld DEF Compensate
  <2>5. UNCHANGED bids
    BY <1>3 DEF Compensate, market
  <2> QED  BY <1>1, <2>1, <2>4, <2>5
<1>4. \A a \in Auctions : ~LateRelease(u, a)
  BY DEF SpentOf
<1> QED  BY <1>2, <1>3, <1>4, HoldCovers, WriteCovers, PreviousCovers DEF RequestStep

LEMMA JobCovers ==
  ASSUME OneHandler, MinIncrement > 0, Covering, [Next]_vars, NEW u \in Users, Covered(u),
         ~SpentOf(u), NEW s \in Schedulers, JobStep(s)
  PROVE  Covered(u)'
<1>0. Climbing /\ Well /\ FundsType
  BY DEF Covering, Climbing, Well, TypeOK, FundsType
<1>1. UNCHANGED <<bids, request>>
  BY DEF JobStep, StartScheduled, AcquireLock, FindExpired, CloseAuction, CloseFails,
     FindLosers, ReleaseLoser, ReleaseLock, market
<1>2. ASSUME HeldTotal(u)' = HeldTotal(u)  PROVE Covered(u)'
  BY <1>0, <1>1, <1>2, QuietCover
<1>3. ASSUME UNCHANGED funds  PROVE Covered(u)'
  BY <1>2, <1>3 DEF funds, HeldTotal
<1>4. ASSUME CloseAuction(s)  PROVE Covered(u)'
  <2>1. ASSUME NEW a \in Auctions, NEW b \in Bid, NEW pct \in FeePercents, SaleOf(a, b, pct)
        PROVE  Covered(u)'
    <3>1. ~(StaleSale(a) /\ orders'[a].buyer = u)
      BY DEF SpentOf
    <3> QED  BY <1>1, <2>1, <3>1, SaleCovers
  <2> QED  BY <1>0, <1>3, <1>4, <2>1, CloseMoney
<1>5. ASSUME ReleaseLoser(s)  PROVE Covered(u)'
  <2>1. job[s] \in Releasing /\ job[s].pc = "release" /\ ~Unsold(job[s].auction)
    BY <1>0, <1>5, JobHasFound DEF ReleaseLoser, Covering, SoldFirst
  <2>2. job[s].auction \in Auctions /\ job[s].losers \subseteq Bid
    BY <2>1 DEF Releasing
  <2>3. ASSUME NEW b \in job[s].losers, Release(b.bidder, job[s].auction, b.amount)
        PROVE  Covered(u)'
    <3>1. b.bidder \in Users /\ b.amount \in Nat
      BY <2>2, BidFacts
    <3>2. held'[u][job[s].auction] = held[u][job[s].auction]
      BY <2>1, <2>2 DEF SpentOf, LateRelease
    <3>3. HeldTotal(u)' = HeldTotal(u)
      BY <1>0, <2>2, <2>3, <3>1, <3>2, ReleaseHeld
    <3> QED  BY <1>2, <3>3
  <2> QED  BY <1>3, <1>5, <2>3 DEF ReleaseLoser
<1>6. CloseAuction(s) \/ ReleaseLoser(s) \/ UNCHANGED funds
  BY DEF JobStep, StartScheduled, AcquireLock, FindExpired, CloseFails, FindLosers, ReleaseLock
<1> QED  BY <1>3, <1>4, <1>5, <1>6

(* Where requests to bid do not overlap and an increment is configured, a  *)
(* user whose holds cover what he leads keeps them, whatever the closing   *)
(* job, the seller, the panel and faults do: only a compensation of his    *)
(* own bid, a sale to one who no longer leads and a release for an auction *)
(* already sold can take it.                                               *)
THEOREM CoverSafety ==
  ASSUME OneHandler, MinIncrement > 0
  PROVE  Spec => LeadersStayCovered
<1>1. ASSUME Covering, [Next]_vars, NEW u \in Users, Covered(u), ~UndoOf(u), ~SpentOf(u)
      PROVE  Covered(u)'
  <2>0. Climbing
    BY <1>1 DEF Covering
  <2>1. ASSUME \/ \E s \in Schedulers : SchedulerDies(s)
               \/ \E a \in Auctions : PanelStep(a)
               \/ PanelWrites \/ SellerStep \/ LockExpires \/ Tick \/ UNCHANGED vars
        PROVE  Covered(u)'
    <3>1. UNCHANGED <<bids, request, funds>>
      BY <2>1 DEF SchedulerDies, PanelStep, PanelChecks, Moderate, CreateFromAuction,
         PanelWrites, SellerStep, SellerReads, Publish, Update, LockExpires, Tick, vars, market
    <3>2. HeldTotal(u)' = HeldTotal(u)
      BY <3>1 DEF funds, HeldTotal
    <3> QED  BY <1>1, <2>0, <3>1, <3>2, QuietCover
  <2> QED  BY <1>1, <2>1, RequestCovers, JobCovers DEF Next
<1>2. Covering /\ [Next]_vars
      => [\A u \in Users :
            Covered(u) => \/ Covered(u)'
                          \/ \E r \in Requests : /\ request[r].pc = "undo"
                                                 /\ request'[r].pc = "idle"
                                                 /\ request[r].bid.bidder = u
                          \/ \E a \in Auctions : \/ StaleSale(a) /\ orders'[a].buyer = u
                                                 \/ LateRelease(u, a)]_vars
  BY <1>1 DEF UndoOf, SpentOf
<1> QED  BY <1>2, AlwaysCovering, PTL DEF Spec, LeadersStayCovered
=============================================================================
