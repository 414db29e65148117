------------------------------- MODULE Accounts -------------------------------
(***************************************************************************)
(* The account of a person: AuthService (registration, verification of the *)
(* e-mail, login, passwords), UsersService (profile, seller), KycService   *)
(* and the panel's updateUser, over one row of users.                      *)
(*                                                                         *)
(* Every handler reads the row, then writes what it decided.  Only the     *)
(* last link sent can be in the row: it is "lost" when the mail failed,    *)
(* "mailed" when it arrived and gone when it was used or has expired.      *)
(***************************************************************************)
EXTENDS Integers, Sequences

CONSTANTS
  Handlers,        \* requests under way at once
  Refusals,        \* verdicts on documents besides APPROVED
  MaxPasswords,    \* bound: passwords the account ever has
  MaxSubmissions,  \* bound: submissions of documents
  MaxPanel         \* bound: updates by the panel

ASSUME AccountsAssumption ==
  /\ Refusals \subseteq {"REJECTED", "CORRECTION_NEEDED"}
  /\ MaxPasswords \in Nat \ {0}
  /\ {MaxSubmissions, MaxPanel} \subseteq Nat

VARIABLES
  user,        \* table users: the row of the e-mail, if there is one
  complete,    \* table profiles: the fields a seller needs are filled
  kyc,         \* table kyc_submissions: statuses, oldest first
  live,        \* table sessions: those not revoked, by what opened them
  op,          \* per request: what it does next
  panel,       \* counts updates by the panel
  floor,       \* history: the password the last reset set
  approved     \* history: the panel approved a submission or made him a seller

vars == <<user, complete, kyc, live, op, panel, floor, approved>>

NoUser == [state |-> "none"]
Idle == [step |-> "idle"]
Exists == user # NoUser

Init ==
  /\ user = NoUser
  /\ complete = FALSE
  /\ kyc = <<>>
  /\ live = {}
  /\ op = [h \in Handlers |-> Idle]
  /\ panel = 0
  /\ floor = 0
  /\ approved = FALSE

Do(h, r) == op' = [op EXCEPT ![h] = r]
Ask(h, guard, step) == op[h] = Idle /\ guard /\ Do(h, [step |-> step])
Set(h, step, row) == op[h].step = step /\ user' = row /\ Do(h, Idle)

Mail == {"lost", "mailed"}

-----------------------------------------------------------------------------
(* register: the look for the e-mail, then the row under a unique key.     *)
AskRegister(h) ==
  /\ Ask(h, ~Exists, "create")
  /\ UNCHANGED <<user, complete, kyc, live, panel, floor, approved>>

(* Fault: the unique key of the e-mail is missing.                         *)
CreateUserOver(h) ==
  /\ op[h].step = "create"
  /\ user' = [state |-> "PENDING_VERIFICATION", verified |-> FALSE, link |-> "mailed",
              reset |-> FALSE, password |-> 1, seller |-> FALSE]
  /\ Do(h, [step |-> "open", password |-> 1, overlapped |-> FALSE])
  /\ UNCHANGED <<complete, kyc, live, panel, floor, approved>>

(* The mail goes last and its failure is swallowed; the request may end    *)
(* before it.                                                              *)
CreateUser(h) ==
  /\ op[h].step = "create"
  /\ IF Exists THEN UNCHANGED user /\ Do(h, Idle)
     ELSE /\ \E mail \in Mail :
               user' = [state |-> "PENDING_VERIFICATION", verified |-> FALSE, link |-> mail,
                        reset |-> FALSE, password |-> 1, seller |-> FALSE]
          /\ Do(h, [step |-> "open", password |-> 1, overlapped |-> FALSE])
  /\ UNCHANGED <<complete, kyc, live, panel, floor, approved>>

(* generateTokens: a session for a registration or a login.                *)
OpenSession(h) ==
  /\ op[h].step = "open"
  /\ live' = live \union {[password |-> op[h].password, overlapped |-> op[h].overlapped]}
  /\ Do(h, Idle)
  /\ UNCHANGED <<user, complete, kyc, panel, floor, approved>>

(* login, with the password in force.                                      *)
Login(h) ==
  /\ op[h] = Idle
  /\ Exists
  /\ user.state = "ACTIVE"
  /\ Do(h, [step |-> "open", password |-> user.password, overlapped |-> FALSE])
  /\ UNCHANGED <<user, complete, kyc, live, panel, floor, approved>>

-----------------------------------------------------------------------------
(* Fault: the link there was is sent again, with the time it had.          *)
RenewsOld(mail) == user.link # "none" /\ mail \in Mail

Renews(mail) == mail \in Mail

(* resendVerification of AuthService asks for the state, the one of        *)
(* UsersService whether the e-mail was verified.                           *)
AskResend(h) ==
  /\ Ask(h, Exists /\ (user.state = "PENDING_VERIFICATION" \/ ~user.verified), "resend")
  /\ UNCHANGED <<user, complete, kyc, live, panel, floor, approved>>

Resend(h, mail) ==
  /\ Set(h, "resend", [user EXCEPT !.link = mail])
  /\ Renews(mail)
  /\ UNCHANGED <<complete, kyc, live, panel, floor, approved>>

(* verifyEmail: by the link; the state becomes ACTIVE whatever it is.      *)
AskVerify(h) ==
  /\ Ask(h, Exists /\ user.link = "mailed", "verify")
  /\ UNCHANGED <<user, complete, kyc, live, panel, floor, approved>>

Verify(h) ==
  /\ Set(h, "verify", [user EXCEPT !.state = "ACTIVE", !.verified = TRUE, !.link = "none"])
  /\ UNCHANGED <<complete, kyc, live, panel, floor, approved>>

LinkExpires ==
  /\ Exists
  /\ user.link # "none"
  /\ user' = [user EXCEPT !.link = "none"]
  /\ UNCHANGED <<complete, kyc, live, op, panel, floor, approved>>

-----------------------------------------------------------------------------
(* forgotPassword, when the mail arrives; the link may be used once.       *)
ForgotPassword ==
  /\ Exists
  /\ user' = [user EXCEPT !.reset = TRUE]
  /\ UNCHANGED <<complete, kyc, live, op, panel, floor, approved>>

(* It expires, or another takes its place whose mail is lost.              *)
ResetLinkGone ==
  /\ Exists
  /\ user' = [user EXCEPT !.reset = FALSE]
  /\ UNCHANGED <<complete, kyc, live, op, panel, floor, approved>>

AskReset(h) ==
  /\ Ask(h, Exists /\ user.reset, "reset")
  /\ UNCHANGED <<user, complete, kyc, live, panel, floor, approved>>

NewPassword == [user EXCEPT !.password = @ + 1]

(* Fault: the sessions are left as they are.                               *)
ResetKeepsSessions(h) ==
  /\ Set(h, "reset", [NewPassword EXCEPT !.reset = FALSE])
  /\ user.password < MaxPasswords
  /\ floor' = user.password + 1
  /\ UNCHANGED <<complete, kyc, live, panel, approved>>

(* resetPassword: one transaction for the password and all sessions.       *)
ResetPassword(h) ==
  /\ op[h].step = "reset"
  /\ user.password < MaxPasswords
  /\ user' = [NewPassword EXCEPT !.reset = FALSE]
  /\ live' = {}
  /\ floor' = user.password + 1
  /\ op' = [g \in Handlers |->
       CASE g = h -> Idle
         [] g # h /\ op[g].step = "open" -> [op[g] EXCEPT !.overlapped = TRUE]
         [] OTHER -> op[g]]
  /\ UNCHANGED <<complete, kyc, panel, approved>>

(* changePassword: the sessions stay.                                      *)
AskChange(h) ==
  /\ Ask(h, Exists /\ user.state # "BANNED", "change")
  /\ UNCHANGED <<user, complete, kyc, live, panel, floor, approved>>

ChangePassword(h) ==
  /\ Set(h, "change", NewPassword)
  /\ user.password < MaxPasswords
  /\ UNCHANGED <<complete, kyc, live, panel, floor, approved>>

-----------------------------------------------------------------------------
(* updateProfile, for an active user.                                      *)
AskProfile(h) ==
  /\ Ask(h, Exists /\ user.state = "ACTIVE" /\ ~complete, "profile")
  /\ UNCHANGED <<user, complete, kyc, live, panel, floor, approved>>

UpdateProfile(h) ==
  /\ op[h].step = "profile"
  /\ complete' = TRUE
  /\ Do(h, Idle)
  /\ UNCHANGED <<user, kyc, live, panel, floor, approved>>

KycApproved == kyc # <<>> /\ kyc[Len(kyc)] = "APPROVED"

(* Fault: the documents need only have been handed in.                     *)
ClearedToSellBySubmission == user.state = "ACTIVE" /\ user.verified /\ complete /\ kyc # <<>>

(* checkSellerRequirements and the gate of the documents.                  *)
ClearedToSell == user.state = "ACTIVE" /\ user.verified /\ complete /\ KycApproved

AskSeller(h) ==
  /\ Ask(h, Exists /\ ~user.seller /\ ClearedToSell, "seller")
  /\ UNCHANGED <<user, complete, kyc, live, panel, floor, approved>>

EnableSeller(h) ==
  /\ Set(h, "seller", [user EXCEPT !.seller = TRUE])
  /\ UNCHANGED <<complete, kyc, live, panel, floor, approved>>

Submit ==
  /\ Exists
  /\ Len(kyc) < MaxSubmissions
  /\ kyc' = Append(kyc, "PENDING")
  /\ UNCHANGED <<user, complete, live, op, panel, floor, approved>>

(* Approval makes him a seller in the same transaction.                    *)
Approve(i) ==
  /\ kyc' = [kyc EXCEPT ![i] = "APPROVED"]
  /\ user' = [user EXCEPT !.seller = TRUE]
  /\ approved' = TRUE
  /\ UNCHANGED <<complete, live, op, panel, floor>>

Reject(i, status) ==
  /\ kyc' = [kyc EXCEPT ![i] = status]
  /\ UNCHANGED <<user, complete, live, op, panel, floor, approved>>

(* updateUser of the panel: any state and flag, over whatever there is.    *)
UpdateUser(state, seller) ==
  /\ Exists
  /\ panel < MaxPanel
  /\ panel' = panel + 1
  /\ user' = [user EXCEPT !.state = state, !.seller = seller]
  /\ approved' = (approved \/ seller)
  /\ UNCHANGED <<complete, kyc, live, op, floor>>

Dies(h) ==
  /\ op[h] # Idle
  /\ Do(h, Idle)
  /\ UNCHANGED <<user, complete, kyc, live, panel, floor, approved>>

-----------------------------------------------------------------------------
States == {"PENDING_VERIFICATION", "ACTIVE", "SUSPENDED", "BANNED"}

Next ==
  \/ \E h \in Handlers :
       \/ AskRegister(h) \/ CreateUser(h) \/ OpenSession(h) \/ Login(h)
       \/ AskResend(h) \/ (\E mail \in Mail : Resend(h, mail))
       \/ AskVerify(h) \/ Verify(h)
       \/ AskReset(h) \/ ResetPassword(h) \/ AskChange(h) \/ ChangePassword(h)
       \/ AskProfile(h) \/ UpdateProfile(h) \/ AskSeller(h) \/ EnableSeller(h)
       \/ Dies(h)
  \/ ForgotPassword \/ ResetLinkGone \/ LinkExpires \/ Submit
  \/ \E i \in DOMAIN kyc :
       Approve(i) \/ \E status \in Refusals : Reject(i, status)
  \/ \E state \in States, seller \in BOOLEAN : UpdateUser(state, seller)

Spec == Init /\ [][Next]_vars

(* Requests end; someone who waits for his link asks again and opens it,   *)
(* and a mail that is tried again and again arrives at last.               *)
FairSpec ==
  /\ Spec
  /\ \A h \in Handlers :
       WF_vars(CreateUser(h) \/ OpenSession(h) \/ ResetPassword(h) \/ ChangePassword(h)
               \/ UpdateProfile(h) \/ EnableSeller(h) \/ Dies(h))
  /\ SF_vars(\E h \in Handlers : AskResend(h))
  /\ SF_vars(\E h \in Handlers : AskVerify(h))
  /\ SF_vars(\E h \in Handlers : Resend(h, "mailed"))
  /\ SF_vars(\E h \in Handlers : Verify(h))

-----------------------------------------------------------------------------
Links == Mail \union {"none"}

TypeOK ==
  /\ \/ user = NoUser
     \/ user \in [state : States, verified : BOOLEAN, link : Links, reset : BOOLEAN,
                  password : 1..MaxPasswords, seller : BOOLEAN]
  /\ complete \in BOOLEAN
  /\ kyc \in Seq({"PENDING", "APPROVED"} \union Refusals)
  /\ live \subseteq [password : 1..MaxPasswords, overlapped : BOOLEAN]
  /\ ~Exists => kyc = <<>> /\ live = {} /\ ~complete
  /\ Exists => floor <= user.password
  /\ panel \in 0..MaxPanel /\ floor \in 0..MaxPasswords /\ approved \in BOOLEAN

(* After a reset no session lives that was opened with an earlier password *)
(* (RN-06), except by a login that had begun before the reset.             *)
ResetEndsSessions == \A s \in live : s.password >= floor \/ s.overlapped

(* Nobody sells whom the panel did not approve, whatever verdicts change   *)
(* between the look at them and the write (PT-069).                        *)
SellerWasApproved == Exists /\ user.seller => approved

(* A registration whose mail was lost is not stuck: who asks again gets in *)
(* (PT-214).                                                               *)
PendingIsVerified ==
  user.state = "PENDING_VERIFICATION" ~> user.state # "PENDING_VERIFICATION"
=============================================================================
