------------------------ MODULE AccountVerification ------------------------
(***************************************************************************)
(* AccountVerificationService: a payout account is proven by a small       *)
(* movement of money that carries a code, which the seller then declares;  *)
(* and the registration of accounts in PaymentsService.                    *)
(*                                                                         *)
(* A CLABE waits for the panel to send the deposit; a PayPal account is    *)
(* charged at once.  The codes are the positions of the verifications of   *)
(* an account: a seller knows those whose movement left.                   *)
(***************************************************************************)
EXTENDS Integers, Sequences, FiniteSets

CONSTANTS
  Accounts,          \* payout accounts a seller may register
  PayPal,            \* those of type PAYPAL, the others are CLABEs
  Callers,           \* requests of the seller under way at once
  Panels,            \* requests of the panel under way at once
  MaxAttempts,       \* MAX_INTENTOS
  MaxVerifications   \* bound: verifications of one account

ASSUME VerificationAssumption ==
  /\ PayPal \subseteq Accounts
  /\ {MaxAttempts, MaxVerifications} \subseteq Nat \ {0}

VARIABLES
  account,        \* table user_payment_methods
  verification,   \* table account_verifications, oldest first
  calls,          \* per caller: what it read and does next
  marks,          \* per panel request: the verification it found pending
  moved,          \* history: verifications whose movement left
  misses          \* history: wrong codes answered for each verification

verVars == <<account, verification, calls, marks, moved, misses>>

Idle == [op |-> "idle"]
NoAccount == [registered |-> FALSE, verified |-> FALSE]
New == [status |-> "PENDING", attempts |-> 0, late |-> FALSE]

Open(v) == v.status \in {"PENDING", "SENT"}

VerInit ==
  /\ account = [m \in Accounts |-> NoAccount]
  /\ verification = [m \in Accounts |-> <<>>]
  /\ calls = [c \in Callers |-> Idle]
  /\ marks = [p \in Panels |-> Idle]
  /\ moved = [m \in Accounts |-> {}]
  /\ misses = [m \in Accounts |-> [i \in 1..MaxVerifications |-> 0]]

Continue(c, r) == calls' = [calls EXCEPT ![c] = r]

-----------------------------------------------------------------------------
(* addBankAccount: unique by CLABE.                                        *)
AddBankAccount(m) ==
  /\ m \notin PayPal
  /\ account[m] = NoAccount
  /\ account' = [account EXCEPT ![m].registered = TRUE]
  /\ UNCHANGED <<verification, calls, marks, moved, misses>>

(* addPaypalAccount: only one, by a query that precedes the insert.        *)
AskPaypalAccount(c, m) ==
  /\ calls[c] = Idle
  /\ m \in PayPal
  /\ \A other \in PayPal : ~account[other].registered
  /\ Continue(c, [op |-> "add paypal", account |-> m])
  /\ UNCHANGED <<account, verification, marks, moved, misses>>

AddPaypalAccount(c) ==
  /\ calls[c].op = "add paypal"
  /\ account' = [account EXCEPT ![calls[c].account].registered = TRUE]
  /\ Continue(c, Idle)
  /\ UNCHANGED <<verification, marks, moved, misses>>

(* start: the checks.  The balance is only read: nothing is taken from it. *)
AskStart(c, m, available) ==
  /\ calls[c] = Idle
  /\ account[m].registered
  /\ ~account[m].verified
  /\ available
  /\ Len(verification[m]) < MaxVerifications
  /\ Continue(c, [op |-> "start", account |-> m])
  /\ UNCHANGED <<account, verification, marks, moved, misses>>

(* Fault: the look for an open verification is left out.                   *)
OpenAlways(c) ==
  /\ calls[c].op = "start"
  /\ LET m == calls[c].account IN
       /\ Len(verification[m]) < MaxVerifications
       /\ verification' = [verification EXCEPT ![m] = Append(@, New)]
       /\ Continue(c, Idle)
  /\ UNCHANGED <<account, marks, moved, misses>>

(* Fault: the row is lost to a rollback and PayPal is charged all the same. *)
OpenRolledBack(c) ==
  /\ calls[c].op = "start"
  /\ LET m == calls[c].account IN
       Continue(c, IF m \in PayPal
                   THEN [op |-> "charge", account |-> m, i |-> Len(verification[m]) + 1]
                   ELSE Idle)
  /\ UNCHANGED <<account, verification, marks, moved, misses>>

(* The transaction that locks the account's row: it finds the open         *)
(* verification or creates one; PayPal is then charged.                    *)
OpenVerification(c) ==
  /\ calls[c].op = "start"
  /\ LET m == calls[c].account
         created == ~\E i \in DOMAIN verification[m] : Open(verification[m][i])
     IN /\ created => Len(verification[m]) < MaxVerifications
        /\ verification' = IF created THEN [verification EXCEPT ![m] = Append(@, New)]
                           ELSE verification
        /\ Continue(c, IF created /\ m \in PayPal
                       THEN [op |-> "charge", account |-> m, i |-> Len(verification[m]) + 1]
                       ELSE Idle)
  /\ UNCHANGED <<account, marks, moved, misses>>

Note(r, to) == [op |-> "note", account |-> r.account, i |-> r.i, to |-> to]

(* createVerificationCharge answers or throws; noting that it was sent may *)
(* fail as well, and is then noted as a failed charge.                     *)
Charge(c) ==
  /\ calls[c].op = "charge"
  /\ LET r == calls[c] IN
       \/ /\ moved' = [moved EXCEPT ![r.account] = @ \union {r.i}]
          /\ \E to \in {"SENT", "FAILED"} : Continue(c, Note(r, to))
       \/ /\ Continue(c, Note(r, "FAILED"))
          /\ UNCHANGED moved
  /\ UNCHANGED <<account, verification, marks, misses>>

NoteCharge(c) ==
  /\ calls[c].op = "note"
  /\ LET r == calls[c] IN
       verification' = [verification EXCEPT ![r.account][r.i].status = r.to]
  /\ Continue(c, Idle)
  /\ UNCHANGED <<account, marks, moved, misses>>

-----------------------------------------------------------------------------
(* confirm reads the latest verification and decides; a code the seller    *)
(* can declare is one he saw, or a guess (0).                              *)
Decision(m, code) ==
  LET i == Len(verification[m])
      v == verification[m][i]
  IN CASE v.late -> [op |-> "expire", account |-> m, i |-> i]
       [] ~v.late /\ code = i -> [op |-> "verify", account |-> m, i |-> i]
       [] OTHER -> [op |-> "miss", account |-> m, i |-> i, attempts |-> v.attempts + 1]

AskConfirm(c, m, code) ==
  /\ calls[c] = Idle
  /\ account[m].registered
  /\ verification[m] # <<>>
  /\ verification[m][Len(verification[m])].status \notin {"PENDING", "BLOCKED"}
  /\ code \in {0} \union moved[m]
  /\ Continue(c, Decision(m, code))
  /\ UNCHANGED <<account, verification, marks, moved, misses>>

(* Fault: one attempt too many before it blocks.                           *)
BlocksLate(attempts) == attempts > MaxAttempts

Blocks(attempts) == attempts >= MaxAttempts

Expire(c) ==
  /\ calls[c].op = "expire"
  /\ verification' = [verification EXCEPT ![calls[c].account][calls[c].i].status = "EXPIRED"]
  /\ Continue(c, Idle)
  /\ UNCHANGED <<account, marks, moved, misses>>

(* Absolute values computed from what was read.                            *)
Miss(c) ==
  /\ calls[c].op = "miss"
  /\ LET r == calls[c] IN
       verification' = [verification EXCEPT
         ![r.account][r.i].attempts = r.attempts,
         ![r.account][r.i].status = IF Blocks(r.attempts) THEN "BLOCKED" ELSE @]
  /\ misses' = [misses EXCEPT ![calls[c].account][calls[c].i] = @ + 1]
  /\ Continue(c, Idle)
  /\ UNCHANGED <<account, marks, moved>>

Verify(c) ==
  /\ calls[c].op = "verify"
  /\ LET r == calls[c] IN
       /\ verification' = [verification EXCEPT ![r.account][r.i].status = "VERIFIED"]
       /\ Continue(c, [op |-> "prove", account |-> r.account])
  /\ UNCHANGED <<account, marks, moved, misses>>

Prove(c) ==
  /\ calls[c].op = "prove"
  /\ account' = [account EXCEPT ![calls[c].account].verified = TRUE]
  /\ Continue(c, Idle)
  /\ UNCHANGED <<verification, marks, moved, misses>>

(* markSent: the panel's queue shows what is PENDING; the deposit is made, *)
(* then noted, and the deadline counts anew.                               *)
AskSent(p, m, i) ==
  /\ marks[p] = Idle
  /\ verification[m][i].status = "PENDING"
  /\ marks' = [marks EXCEPT ![p] = [op |-> "sent", account |-> m, i |-> i]]
  /\ moved' = [moved EXCEPT ![m] = @ \union {i}]
  /\ UNCHANGED <<account, verification, calls, misses>>

MarkSent(p) ==
  /\ marks[p].op = "sent"
  /\ LET r == marks[p] IN
       verification' = [verification EXCEPT ![r.account][r.i].status = "SENT",
                                            ![r.account][r.i].late = FALSE]
  /\ marks' = [marks EXCEPT ![p] = Idle]
  /\ UNCHANGED <<account, calls, moved, misses>>

(* VIGENCIA_DIAS have gone by.                                             *)
DeadlinePasses(m, i) ==
  /\ ~verification[m][i].late
  /\ verification' = [verification EXCEPT ![m][i].late = TRUE]
  /\ UNCHANGED <<account, calls, marks, moved, misses>>

CallDies(c) ==
  /\ calls[c] # Idle
  /\ Continue(c, Idle)
  /\ UNCHANGED <<account, verification, marks, moved, misses>>

VerNext(available) ==
  \/ \E m \in Accounts : AddBankAccount(m)
  \/ \E c \in Callers, m \in Accounts :
       \/ AskPaypalAccount(c, m)
       \/ AskStart(c, m, available)
       \/ \E code \in {0} \union moved[m] : AskConfirm(c, m, code)
  \/ \E c \in Callers :
       \/ AddPaypalAccount(c) \/ OpenVerification(c) \/ Charge(c) \/ NoteCharge(c)
       \/ Expire(c) \/ Miss(c) \/ Verify(c) \/ Prove(c) \/ CallDies(c)
  \/ \E p \in Panels : MarkSent(p)
  \/ \E m \in Accounts : \E i \in DOMAIN verification[m] :
       DeadlinePasses(m, i) \/ \E p \in Panels : AskSent(p, m, i)

(* On its own: a seller who has the balance that start asks for.           *)
VerSpec == VerInit /\ [][VerNext(TRUE)]_verVars

-----------------------------------------------------------------------------
VerificationStatuses == {"PENDING", "SENT", "VERIFIED", "BLOCKED", "EXPIRED", "FAILED"}

VerTypeOK ==
  /\ account \in [Accounts -> [registered : BOOLEAN, verified : BOOLEAN]]
  /\ \A m \in Accounts : verification[m] \in Seq([status : VerificationStatuses,
                                                 attempts : Nat, late : BOOLEAN])
  /\ \A c \in Callers : calls[c] = Idle \/ calls[c].account \in Accounts
  /\ \A p \in Panels : marks[p] = Idle \/ marks[p].account \in Accounts
  /\ \A m \in Accounts : moved[m] \subseteq 1..Len(verification[m])
  /\ misses \in [Accounts -> [1..MaxVerifications -> Nat]]

(* At most one verification of a CLABE is under way, whatever requests     *)
(* overlap (PT-145): each would send money once more.                      *)
OneOpenVerification ==
  \A m \in Accounts \ PayPal :
    Cardinality({i \in DOMAIN verification[m] : Open(verification[m][i])}) <= 1

(* A verification of a CLABE is blocked after MaxAttempts wrong codes,      *)
(* however they alternate with deadlines, new verifications and the panel. *)
AttemptsCapped ==
  \A m \in Accounts \ PayPal, i \in 1..MaxVerifications : misses[m][i] <= MaxAttempts
=============================================================================
