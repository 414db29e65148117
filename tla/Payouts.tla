------------------------------- MODULE Payouts -------------------------------
(***************************************************************************)
(* WithdrawalsService and KycService over AccountVerification: a seller    *)
(* with approved documents and a verified account asks for a withdrawal,   *)
(* which reserves the money; the panel approves, rejects or marks it paid. *)
(*                                                                         *)
(* Every handler reads, then writes.  The wallet's withdraw and            *)
(* refundWithdrawal are single steps, as Wallet states.                    *)
(***************************************************************************)
EXTENDS AccountVerification

CONSTANTS
  Requests,        \* ids of withdrawal requests
  Amounts,         \* amounts asked for
  Fee,             \* IMPORTE_MXN: the balance a verification asks for
  DailyLimit,      \* WITHDRAWAL_DAILY_LIMIT
  Sellers,         \* withdrawal requests of the seller under way at once
  Admins,          \* decisions of the panel under way at once
  MaxBalance,      \* bound: what the seller ever has
  MaxSubmissions,  \* bound: submissions of documents
  MaxDeaths        \* bound: handlers that die

ASSUME PayoutsAssumption ==
  /\ Amounts \subseteq Nat \ {0}
  /\ {Fee, DailyLimit, MaxBalance, MaxSubmissions, MaxDeaths} \subseteq Nat

VARIABLES
  balance,     \* wallets.balance of the seller
  withdrawn,   \* the WITHDRAWAL entries of his ledger of the last 24 h
  kyc,         \* table kyc_submissions: statuses, oldest first
  withdrawal,  \* table withdrawal_requests
  asking,      \* per request of the seller: what it does next
  deciding,    \* per decision of the panel: the request it read
  deaths,
  returned,    \* history: how often a request's money was given back
  paid,        \* history: requests that were marked paid
  torn         \* history: a rejection died between its two writes

payVars == <<balance, withdrawn, kyc, withdrawal, asking, deciding, deaths,
             returned, paid, torn>>
vars == <<verVars, payVars>>

NoRequest == [status |-> "none", amount |-> 0]

Init ==
  /\ VerInit
  /\ balance = 0
  /\ withdrawn = 0
  /\ kyc = <<>>
  /\ withdrawal = [w \in Requests |-> NoRequest]
  /\ asking = [s \in Sellers |-> Idle]
  /\ deciding = [d \in Admins |-> Idle]
  /\ deaths = 0
  /\ returned = [w \in Requests |-> 0]
  /\ paid = {}
  /\ torn = {}

-----------------------------------------------------------------------------
(* KycService: a submission, and the panel's verdict on any of them.       *)
Submit ==
  /\ Len(kyc) < MaxSubmissions
  /\ kyc' = Append(kyc, "PENDING")
  /\ UNCHANGED <<verVars, balance, withdrawn, withdrawal, asking, deciding, deaths,
                 returned, paid, torn>>

Review(i, verdict) ==
  /\ kyc' = [kyc EXCEPT ![i] = verdict]
  /\ UNCHANGED <<verVars, balance, withdrawn, withdrawal, asking, deciding, deaths,
                 returned, paid, torn>>

(* The latest submission decides.                                          *)
KycApproved == kyc # <<>> /\ kyc[Len(kyc)] = "APPROVED"

(* Deposits, sales, bids and releases move the balance meanwhile.          *)
BalanceMoves(to) ==
  /\ balance' = to
  /\ to # balance
  /\ UNCHANGED <<verVars, withdrawn, kyc, withdrawal, asking, deciding, deaths,
                 returned, paid, torn>>

DayPasses ==
  /\ withdrawn # 0
  /\ withdrawn' = 0
  /\ UNCHANGED <<verVars, balance, kyc, withdrawal, asking, deciding, deaths,
                 returned, paid, torn>>

-----------------------------------------------------------------------------
Ask(s, r) == asking' = [asking EXCEPT ![s] = r]

(* Fault: what was withdrawn today is not added to the amount.             *)
WithinLimitAlone(amount) == amount <= DailyLimit

WithinLimit(amount) == withdrawn + amount <= DailyLimit

(* request: the five gates.                                                *)
AskWithdrawal(s, amount, m) ==
  /\ asking[s] = Idle
  /\ KycApproved
  /\ account[m].registered /\ account[m].verified
  /\ balance >= amount
  /\ WithinLimit(amount)
  /\ Ask(s, [op |-> "create", amount |-> amount])
  /\ UNCHANGED <<verVars, balance, withdrawn, kyc, withdrawal, deciding, deaths,
                 returned, paid, torn>>

CreateRequest(s, w) ==
  /\ asking[s].op = "create"
  /\ withdrawal[w] = NoRequest
  /\ withdrawal' = [withdrawal EXCEPT ![w] =
       [status |-> "REQUESTED", amount |-> asking[s].amount]]
  /\ Ask(s, [op |-> "reserve", request |-> w])
  /\ UNCHANGED <<verVars, balance, withdrawn, kyc, deciding, deaths, returned, paid, torn>>

(* Fault: the balance is not compared again.                               *)
ReserveUnchecked(s) ==
  /\ asking[s].op = "reserve"
  /\ LET w == asking[s].request IN
       /\ balance' = balance - withdrawal[w].amount
       /\ withdrawn' = withdrawn + withdrawal[w].amount
  /\ Ask(s, Idle)
  /\ UNCHANGED <<verVars, kyc, withdrawal, deciding, deaths, returned, paid, torn>>

(* WalletService.withdraw: when it fails the request stays as it is.       *)
Reserve(s) ==
  /\ asking[s].op = "reserve"
  /\ LET w == asking[s].request
         amount == withdrawal[w].amount
     IN \/ /\ balance >= amount
           /\ balance' = balance - amount
           /\ withdrawn' = withdrawn + amount
        \/ /\ balance < amount
           /\ UNCHANGED <<balance, withdrawn>>
  /\ Ask(s, Idle)
  /\ UNCHANGED <<verVars, kyc, withdrawal, deciding, deaths, returned, paid, torn>>

SellerDies(s) ==
  /\ asking[s] # Idle
  /\ deaths < MaxDeaths
  /\ deaths' = deaths + 1
  /\ Ask(s, Idle)
  /\ UNCHANGED <<verVars, balance, withdrawn, kyc, withdrawal, deciding, returned, paid, torn>>

-----------------------------------------------------------------------------
Decide(d, r) == deciding' = [deciding EXCEPT ![d] = r]

(* Fault: a request that was paid may still be rejected.                   *)
MayDecideAnyRejection(verdict, status) ==
  CASE verdict = "approve" -> status = "REQUESTED"
    [] verdict = "reject"  -> status # "REJECTED"
    [] verdict = "pay"     -> status = "APPROVED"

(* The guards of approve, reject and markPaid.                             *)
MayDecide(verdict, status) ==
  CASE verdict = "approve" -> status = "REQUESTED"
    [] verdict = "reject"  -> status \in {"REQUESTED", "APPROVED"}
    [] verdict = "pay"     -> status = "APPROVED"

ReadRequest(d, w, verdict) ==
  /\ deciding[d] = Idle
  /\ withdrawal[w] # NoRequest
  /\ MayDecide(verdict, withdrawal[w].status)
  /\ Decide(d, [op |-> verdict, request |-> w])
  /\ UNCHANGED <<verVars, balance, withdrawn, kyc, withdrawal, asking, deaths,
                 returned, paid, torn>>

WriteStatus(d, status) ==
  /\ withdrawal' = [withdrawal EXCEPT ![deciding[d].request].status = status]
  /\ paid' = IF status = "PAID" THEN paid \union {deciding[d].request} ELSE paid
  /\ Decide(d, Idle)
  /\ UNCHANGED <<verVars, balance, withdrawn, kyc, asking, deaths, returned, torn>>

Approve(d) == deciding[d].op = "approve" /\ WriteStatus(d, "APPROVED")
MarkPaid(d) == deciding[d].op = "pay" /\ WriteStatus(d, "PAID")

(* reject: the money first, then the status.                               *)
RefundWithdrawal(d) ==
  /\ deciding[d].op = "reject"
  /\ LET w == deciding[d].request IN
       /\ balance' = balance + withdrawal[w].amount
       /\ returned' = [returned EXCEPT ![w] = @ + 1]
       /\ Decide(d, [op |-> "rejected", request |-> w])
  /\ UNCHANGED <<verVars, withdrawn, kyc, withdrawal, asking, deaths, paid, torn>>

Reject(d) == deciding[d].op = "rejected" /\ WriteStatus(d, "REJECTED")

AdminDies(d) ==
  /\ deciding[d] # Idle
  /\ deaths < MaxDeaths
  /\ deaths' = deaths + 1
  /\ torn' = IF deciding[d].op = "rejected" THEN torn \union {deciding[d].request} ELSE torn
  /\ Decide(d, Idle)
  /\ UNCHANGED <<verVars, balance, withdrawn, kyc, withdrawal, asking, returned, paid>>

-----------------------------------------------------------------------------
PayNext ==
  \/ Submit
  \/ \E i \in DOMAIN kyc, verdict \in {"APPROVED", "REJECTED", "CORRECTION_NEEDED"} :
       Review(i, verdict)
  \/ \E to \in 0..MaxBalance : BalanceMoves(to)
  \/ DayPasses
  \/ \E s \in Sellers :
       \/ \E amount \in Amounts, m \in Accounts : AskWithdrawal(s, amount, m)
       \/ \E w \in Requests : CreateRequest(s, w)
       \/ Reserve(s) \/ SellerDies(s)
  \/ \E d \in Admins :
       \/ \E w \in Requests, verdict \in {"approve", "reject", "pay"} : ReadRequest(d, w, verdict)
       \/ Approve(d) \/ MarkPaid(d) \/ RefundWithdrawal(d) \/ Reject(d) \/ AdminDies(d)

Next == PayNext \/ (VerNext(balance >= Fee) /\ UNCHANGED payVars)

Spec == Init /\ [][Next]_vars

-----------------------------------------------------------------------------
WithdrawalStatuses == {"REQUESTED", "APPROVED", "PAID", "REJECTED"}

TypeOK ==
  /\ VerTypeOK
  /\ balance \in Nat /\ withdrawn \in Nat
  /\ kyc \in Seq({"PENDING", "APPROVED", "REJECTED", "CORRECTION_NEEDED"})
  /\ withdrawal \in [Requests -> [status : WithdrawalStatuses \union {"none"},
                                  amount : Amounts \union {0}]]
  /\ \A s \in Sellers : asking[s] = Idle \/ asking[s].op \in {"create", "reserve"}
  /\ \A d \in Admins : deciding[d] = Idle \/ withdrawal[deciding[d].request] # NoRequest
  /\ deaths \in 0..MaxDeaths
  /\ {paid, torn} \subseteq SUBSET Requests
  /\ returned \in [Requests -> Nat]

(* The money of a request is given back once when it is rejected, and not  *)
(* at all when it is open or was ever paid; the exceptions are requests    *)
(* whose rejection died between the money and the status.                  *)
EndsOnce ==
  \A w \in Requests \ torn :
    LET rejected == \/ withdrawal[w].status = "REJECTED"
                    \/ \E d \in Admins : deciding[d] = [op |-> "rejected", request |-> w]
    IN /\ returned[w] = IF rejected THEN 1 ELSE 0
       /\ w \in paid => ~rejected

(* With one request at a time no more than the limit leaves in a day,      *)
(* although the money is taken after the limit was looked at.              *)
WithinDailyLimit == withdrawn <= DailyLimit
=============================================================================
