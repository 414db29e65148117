--------------------------- MODULE AccountsProofs ---------------------------
(***************************************************************************)
(* Proofs about the account of a person, for every number of requests      *)
(* under way, whatever mail is lost, whoever dies and whatever the panel   *)
(* sets.                                                                   *)
(***************************************************************************)
EXTENDS Accounts, TLAPS

Row == [state : States, verified : BOOLEAN, link : Links, reset : BOOLEAN,
        password : 1..MaxPasswords, seller : BOOLEAN]

Verdicts == {"PENDING", "APPROVED"} \union Refusals
Sessions == [password : 1..MaxPasswords, overlapped : BOOLEAN]

(* What a request does next.                                               *)
Asked == {"create", "resend", "verify", "reset", "change", "profile", "seller"}
Opening == [step : {"open"}, password : 1..MaxPasswords, overlapped : BOOLEAN]
OpState == {Idle} \union [step : Asked] \union Opening

(* A request under way is about an account there is, the session it will   *)
(* open is one a reset has not ended or has seen, and one that will make a *)
(* seller has seen an approval.                                            *)
Justified(o) ==
  /\ o.step \notin {"idle", "create"} => Exists
  /\ o.step = "open" => o.password >= floor \/ o.overlapped
  /\ o.step = "seller" => approved

Sound ==
  /\ TypeOK
  /\ op \in [Handlers -> OpState]
  /\ ~Exists => floor = 0
  /\ \A h \in Handlers : Justified(op[h])
  /\ ResetEndsSessions
  /\ \A i \in DOMAIN kyc : kyc[i] = "APPROVED" => approved
  /\ SellerWasApproved

LEMMA Bounds == MaxPasswords \in Nat /\ MaxPasswords > 0 /\ MaxPanel \in Nat
BY AccountsAssumption

LEMMA RowExists == \A row \in Row : row # NoUser
BY DEF Row, NoUser, States

LEMMA UserFacts ==
  ASSUME Sound, Exists
  PROVE  /\ user \in Row /\ user.password \in 1..MaxPasswords
         /\ floor \in Nat /\ floor <= user.password
         /\ user.seller => approved
BY Bounds DEF Sound, TypeOK, Exists, Row, SellerWasApproved

LEMMA OpFacts ==
  ASSUME Sound, NEW h \in Handlers
  PROVE  /\ op[h] \in OpState /\ Justified(op[h])
         /\ op[h].step = "open" => op[h] \in Opening
BY DEF Sound, OpState, Opening, Asked, Idle

(* The row of the user, and what it may sell.                              *)
UserFine ==
  /\ user' = NoUser \/ user' \in Row
  /\ Exists => Exists'
  /\ floor' \in 0..MaxPasswords /\ approved' \in BOOLEAN
  /\ Exists' => floor' <= user'.password
  /\ ~Exists' => floor' = 0
  /\ approved => approved'
  /\ Exists' /\ user'.seller => approved'

LEMMA RowWritten ==
  ASSUME Sound, Exists, user' \in Row, user'.password \in {user.password, user.password + 1},
         UNCHANGED <<floor, approved>>, user'.seller => approved
  PROVE  UserFine
<1>1. Exists'
  BY RowExists DEF Exists
<1>2. user.password \in Nat /\ floor \in Nat /\ floor <= user.password
  BY UserFacts, Bounds
<1>3. floor' \in 0..MaxPasswords /\ approved' \in BOOLEAN
  BY DEF Sound, TypeOK
<1>4. floor' <= user'.password
  BY <1>2
<1> QED  BY <1>1, <1>3, <1>4 DEF UserFine

LEMMA UserStep ==
  ASSUME Sound, [Next]_vars
  PROVE  UserFine
<1>1. ASSUME UNCHANGED <<user, floor, approved>>  PROVE UserFine
  BY <1>1 DEF UserFine, Sound, TypeOK, Exists, Row, SellerWasApproved
<1>2. ASSUME NEW h \in Handlers, CreateUser(h)  PROVE UserFine
  <2>1. CASE Exists
    BY <1>1, <1>2, <2>1 DEF CreateUser
  <2>2. CASE ~Exists
    <3>1. PICK mail \in Mail :
            user' = [state |-> "PENDING_VERIFICATION", verified |-> FALSE, link |-> mail,
                     reset |-> FALSE, password |-> 1, seller |-> FALSE]
      BY <1>2, <2>2 DEF CreateUser
    <3>2. user' \in Row /\ user'.password = 1 /\ user'.seller = FALSE
      BY <3>1, Bounds DEF Row, States, Links
    <3>3. floor = 0 /\ UNCHANGED <<floor, approved>> /\ approved \in BOOLEAN
      BY <1>2, <2>2 DEF CreateUser, Sound, TypeOK
    <3>4. Exists'
      BY <3>2, RowExists DEF Exists
    <3>5. floor' \in 0..MaxPasswords /\ floor' <= user'.password
      BY <3>2, <3>3, Bounds
    <3>6. user'.seller => approved'
      BY <3>2
    <3> QED  BY <2>2, <3>2, <3>3, <3>4, <3>5, <3>6 DEF UserFine
  <2> QED  BY <2>1, <2>2
<1>3. ASSUME NEW h \in Handlers, op[h].step \in Asked \ {"create"}  PROVE Exists
  BY <1>3, OpFacts DEF Justified, Asked
<1>4. ASSUME NEW h \in Handlers, NEW mail \in Mail, Resend(h, mail)  PROVE UserFine
  <2>1. Exists /\ user' = [user EXCEPT !.link = mail] /\ UNCHANGED <<floor, approved>>
    BY <1>3, <1>4 DEF Resend, Set, Asked
  <2>2. user' \in Row /\ user'.password = user.password /\ user'.seller = user.seller
    BY <2>1, UserFacts DEF Row, Links
  <2> QED  BY <2>1, <2>2, UserFacts, RowWritten
<1>5. ASSUME NEW h \in Handlers, Verify(h)  PROVE UserFine
  <2>1. /\ Exists /\ UNCHANGED <<floor, approved>>
        /\ user' = [user EXCEPT !.state = "ACTIVE", !.verified = TRUE, !.link = "none"]
    BY <1>3, <1>5 DEF Verify, Set, Asked
  <2>2. user' \in Row /\ user'.password = user.password /\ user'.seller = user.seller
    BY <2>1, UserFacts DEF Row, Links, States
  <2> QED  BY <2>1, <2>2, UserFacts, RowWritten
<1>6. ASSUME LinkExpires \/ ForgotPassword \/ ResetLinkGone  PROVE UserFine
  <2>1. /\ Exists /\ UNCHANGED <<floor, approved>>
        /\ \/ user' = [user EXCEPT !.link = "none"]
           \/ \E b \in BOOLEAN : user' = [user EXCEPT !.reset = b]
    BY <1>6 DEF LinkExpires, ForgotPassword, ResetLinkGone
  <2>2. user' \in Row /\ user'.password = user.password /\ user'.seller = user.seller
    BY <2>1, UserFacts DEF Row, Links
  <2> QED  BY <2>1, <2>2, UserFacts, RowWritten
<1>7. ASSUME Exists, user.password < MaxPasswords
      PROVE  /\ NewPassword \in Row /\ NewPassword.password = user.password + 1
             /\ NewPassword.seller = user.seller
  BY <1>7, UserFacts, Bounds DEF Row, NewPassword
<1>8. ASSUME NEW h \in Handlers, ChangePassword(h)  PROVE UserFine
  <2>1. Exists /\ user' = NewPassword /\ user.password < MaxPasswords /\ UNCHANGED <<floor, approved>>
    BY <1>3, <1>8 DEF ChangePassword, Set, Asked
  <2> QED  BY <1>7, <2>1, UserFacts, RowWritten
<1>9. ASSUME NEW h \in Handlers, ResetPassword(h)  PROVE UserFine
  <2>1. /\ Exists /\ user' = [NewPassword EXCEPT !.reset = FALSE] /\ user.password < MaxPasswords
        /\ floor' = user.password + 1 /\ UNCHANGED approved
    BY <1>3, <1>9 DEF ResetPassword, Asked
  <2>2. user' \in Row /\ user'.password = user.password + 1 /\ user'.seller = user.seller
    BY <1>7, <2>1 DEF Row
  <2>3. user' # NoUser
    BY <2>2, RowExists
  <2>4. floor' \in 0..MaxPasswords /\ floor' <= user'.password
    BY <2>1, <2>2, UserFacts, Bounds
  <2> QED  BY <2>1, <2>2, <2>3, <2>4, UserFacts DEF UserFine, Exists, Sound, TypeOK
<1>10. ASSUME NEW h \in Handlers, EnableSeller(h)  PROVE UserFine
  <2>1. Exists /\ user' = [user EXCEPT !.seller = TRUE] /\ UNCHANGED <<floor, approved>>
    BY <1>3, <1>10 DEF EnableSeller, Set, Asked
  <2>2. user' \in Row /\ user'.password = user.password
    BY <2>1, UserFacts DEF Row
  <2>3. approved
    BY <1>10, OpFacts DEF EnableSeller, Set, Justified
  <2> QED  BY <2>1, <2>2, <2>3, UserFacts, RowWritten
<1>11. ASSUME UNCHANGED floor, Exists, NEW row \in Row, user' = row, row.password = user.password,
              approved' \in BOOLEAN, approved => approved', row.seller => approved'
       PROVE  UserFine
  BY <1>11, RowExists, UserFacts DEF UserFine, Exists, Sound, TypeOK
<1>12. ASSUME NEW i \in DOMAIN kyc, Approve(i)  PROVE UserFine
  <2>1. Exists
    BY <1>12 DEF Sound, TypeOK
  <2>2. user' = [user EXCEPT !.seller = TRUE] /\ approved' = TRUE /\ UNCHANGED floor
    BY <1>12 DEF Approve
  <2>3. user' \in Row /\ user'.password = user.password
    BY <2>1, <2>2, UserFacts DEF Row
  <2> QED  BY <1>11, <2>1, <2>2, <2>3
<1>13. ASSUME NEW state \in States, NEW seller \in BOOLEAN, UpdateUser(state, seller)  PROVE UserFine
  <2>1. /\ Exists /\ user' = [user EXCEPT !.state = state, !.seller = seller]
        /\ approved' = (approved \/ seller) /\ UNCHANGED floor
    BY <1>13 DEF UpdateUser
  <2>2. user' \in Row /\ user'.password = user.password /\ user'.seller = seller
    BY <2>1, UserFacts DEF Row
  <2>3. approved' \in BOOLEAN /\ (approved => approved') /\ (seller => approved')
    BY <2>1
  <2> QED  BY <1>11, <2>1, <2>2, <2>3
<1>14. ASSUME NEW h \in Handlers,
              \/ AskRegister(h) \/ OpenSession(h) \/ Login(h) \/ AskResend(h) \/ AskVerify(h)
              \/ AskReset(h) \/ AskChange(h) \/ AskProfile(h) \/ UpdateProfile(h) \/ AskSeller(h)
              \/ Dies(h)
       PROVE  UserFine
  BY <1>1, <1>14 DEF AskRegister, OpenSession, Login, AskResend, AskVerify, AskReset, AskChange,
     AskProfile, UpdateProfile, AskSeller, Dies
<1>15. ASSUME \/ Submit \/ UNCHANGED vars
              \/ \E i \in DOMAIN kyc : \E status \in Refusals : Reject(i, status)
       PROVE  UserFine
  BY <1>1, <1>15 DEF Submit, Reject, vars
<1> QED
  BY <1>2, <1>4, <1>5, <1>6, <1>8, <1>9, <1>10, <1>12, <1>13, <1>14, <1>15 DEF Next

(* The requests.                                                           *)
LEMMA StillJustified ==
  ASSUME Sound, UserFine, UNCHANGED floor, NEW o, Justified(o)
  PROVE  Justified(o)'
BY DEF Justified, UserFine

LEMMA Does ==
  ASSUME Sound, UserFine, UNCHANGED floor, NEW h \in Handlers, NEW o \in OpState,
         Do(h, o), Justified(o)'
  PROVE  op' \in [Handlers -> OpState] /\ \A g \in Handlers : Justified(op[g])'
<1>1. op \in [Handlers -> OpState]
  BY DEF Sound
<1>2. op' \in [Handlers -> OpState] /\ op'[h] = o /\ \A g \in Handlers \ {h} : op'[g] = op[g]
  BY <1>1 DEF Do
<1>3. ASSUME NEW g \in Handlers \ {h}  PROVE Justified(op[g])'
  <2>1. PICK p : p = op[g]
    OBVIOUS
  <2>2. Justified(p) /\ op'[g] = p
    BY <1>2, <2>1, OpFacts
  <2>3. Justified(p)'
    BY <2>2, StillJustified
  <2> QED  BY <2>2, <2>3 DEF Justified
<1> QED  BY <1>2, <1>3 DEF Justified

LEMMA IdleJustified == Justified(Idle)' /\ Idle \in OpState
BY DEF Justified, Idle, OpState

LEMMA OpStep ==
  ASSUME Sound, [Next]_vars
  PROVE  op' \in [Handlers -> OpState] /\ \A h \in Handlers : Justified(op[h])'
<1> DEFINE Fine == op' \in [Handlers -> OpState] /\ \A h \in Handlers : Justified(op[h])'
<1>0. UserFine
  BY UserStep
<1>1. ASSUME UNCHANGED <<op, floor>>  PROVE Fine
  <2>1. op' \in [Handlers -> OpState]
    BY <1>1 DEF Sound
  <2>2. ASSUME NEW g \in Handlers  PROVE Justified(op[g])'
    <3>1. PICK p : p = op[g]
      OBVIOUS
    <3>2. Justified(p) /\ op'[g] = p
      BY <1>1, <3>1, OpFacts
    <3>3. Justified(p)'
      BY <1>0, <1>1, <3>2, StillJustified
    <3> QED  BY <3>2, <3>3 DEF Justified
  <2> QED  BY <2>1, <2>2
<1>2. ASSUME NEW h \in Handlers, Do(h, Idle), UNCHANGED floor  PROVE Fine
  BY <1>0, <1>2, IdleJustified, Does
<1>3. ASSUME NEW h \in Handlers, NEW step \in Asked, Do(h, [step |-> step]), UNCHANGED floor,
             step # "create" => Exists, step = "seller" => approved
      PROVE  Fine
  <2> DEFINE o == [step |-> step]
  <2>1. o \in OpState
    BY DEF OpState
  <2>2. Justified(o)'
    BY <1>0, <1>3 DEF Justified, UserFine, Asked
  <2> HIDE DEF o
  <2>3. Do(h, o)
    BY <1>3 DEF o
  <2> QED  BY <1>0, <1>3, <2>1, <2>2, <2>3, Does
<1>4. ASSUME NEW h \in Handlers,
             \/ AskRegister(h) \/ AskResend(h) \/ AskVerify(h) \/ AskReset(h)
             \/ AskChange(h) \/ AskProfile(h)
      PROVE  Fine
  <2>1. PICK step \in Asked \ {"seller"} : /\ Do(h, [step |-> step]) /\ UNCHANGED floor
                                           /\ step # "create" => Exists
    BY <1>4 DEF AskRegister, AskResend, AskVerify, AskReset, AskChange, AskProfile, Ask, Asked
  <2> QED  BY <1>3, <2>1
<1>5. ASSUME NEW h \in Handlers, AskSeller(h)  PROVE Fine
  <2>1. Do(h, [step |-> "seller"]) /\ UNCHANGED floor /\ Exists /\ KycApproved
    BY <1>5 DEF AskSeller, Ask, ClearedToSell
  <2>2. approved
    BY <2>1 DEF KycApproved, Sound, TypeOK
  <2>3. "seller" \in Asked
    BY DEF Asked
  <2> QED  BY <1>3, <2>1, <2>2, <2>3
<1>6. ASSUME NEW h \in Handlers, NEW password \in 1..MaxPasswords, password >= floor, Exists',
             Do(h, [step |-> "open", password |-> password, overlapped |-> FALSE]), UNCHANGED floor
      PROVE  Fine
  <2> DEFINE o == [step |-> "open", password |-> password, overlapped |-> FALSE]
  <2>1. o \in OpState
    BY DEF OpState, Opening
  <2>2. Justified(o)'
    BY <1>6 DEF Justified
  <2> HIDE DEF o
  <2>3. Do(h, o)
    BY <1>6 DEF o
  <2> QED  BY <1>0, <1>6, <2>1, <2>2, <2>3, Does
<1>7. ASSUME NEW h \in Handlers, CreateUser(h)  PROVE Fine
  <2>1. CASE Exists
    BY <1>2, <1>7, <2>1 DEF CreateUser
  <2>2. CASE ~Exists
    <3>1. /\ Do(h, [step |-> "open", password |-> 1, overlapped |-> FALSE]) /\ UNCHANGED floor
          /\ \E mail \in Mail :
               user' = [state |-> "PENDING_VERIFICATION", verified |-> FALSE, link |-> mail,
                        reset |-> FALSE, password |-> 1, seller |-> FALSE]
      BY <1>7, <2>2 DEF CreateUser
    <3>2. Exists'
      BY <3>1 DEF Exists, NoUser
    <3>3. floor = 0 /\ 1 \in 1..MaxPasswords
      BY <2>2, Bounds DEF Sound
    <3> QED  BY <1>6, <3>1, <3>2, <3>3
  <2> QED  BY <2>1, <2>2
<1>8. ASSUME NEW h \in Handlers, Login(h)  PROVE Fine
  <2>1. /\ Exists /\ UNCHANGED <<user, floor>>
        /\ Do(h, [step |-> "open", password |-> user.password, overlapped |-> FALSE])
    BY <1>8 DEF Login
  <2>2. PICK password \in 1..MaxPasswords : password = user.password
    BY <2>1, UserFacts
  <2>3. password >= floor
    BY <2>1, <2>2, UserFacts, Bounds
  <2>4. Exists'
    BY <2>1 DEF Exists
  <2> QED  BY <1>6, <2>1, <2>2, <2>3, <2>4
<1>9. ASSUME NEW h \in Handlers,
             \/ OpenSession(h) \/ (\E mail \in Mail : Resend(h, mail)) \/ Verify(h)
             \/ ChangePassword(h) \/ UpdateProfile(h) \/ EnableSeller(h) \/ Dies(h)
      PROVE  Fine
  <2>1. Do(h, Idle) /\ UNCHANGED floor
    BY <1>9 DEF OpenSession, Resend, Verify, ChangePassword, UpdateProfile, EnableSeller, Dies, Set
  <2> QED  BY <1>2, <2>1
<1>10. ASSUME NEW h \in Handlers, ResetPassword(h)  PROVE Fine
  <2>1. op' = [g \in Handlers |->
          CASE g = h -> Idle
            [] g # h /\ op[g].step = "open" -> [op[g] EXCEPT !.overlapped = TRUE]
            [] OTHER -> op[g]]
    BY <1>10 DEF ResetPassword
  <2>2. ASSUME NEW g \in Handlers  PROVE op'[g] \in OpState /\ Justified(op[g])'
    <3>0. op[g] \in OpState /\ Justified(op[g]) /\ (op[g].step = "open" => op[g] \in Opening)
      BY OpFacts
    <3>1. CASE g = h
      <4>1. op'[g] = Idle
        BY <2>1, <3>1
      <4> QED  BY <4>1, IdleJustified DEF Justified
    <3>2. CASE g # h /\ op[g].step = "open"
      <4>1. op'[g] = [op[g] EXCEPT !.overlapped = TRUE]
        BY <2>1, <3>2
      <4>2. op'[g] \in Opening /\ op'[g].overlapped = TRUE /\ op'[g].step = "open"
        BY <3>0, <3>2, <4>1 DEF Opening
      <4>3. Exists'
        BY <1>0, <3>0, <3>2 DEF Justified, UserFine
      <4> QED  BY <4>2, <4>3 DEF OpState, Justified
    <3>3. CASE g # h /\ op[g].step # "open"
      <4>1. op'[g] = op[g]
        BY <2>1, <3>3
      <4> QED  BY <1>0, <3>0, <3>3, <4>1 DEF Justified, UserFine
    <3> QED  BY <3>1, <3>2, <3>3
  <2>3. op' = [g \in Handlers |-> op'[g]]
    BY <2>1
  <2> QED  BY <2>2, <2>3
<1>11. ASSUME \/ ForgotPassword \/ ResetLinkGone \/ LinkExpires \/ Submit \/ UNCHANGED vars
              \/ \E i \in DOMAIN kyc :
                   Approve(i) \/ \E status \in Refusals : Reject(i, status)
              \/ \E state \in States, seller \in BOOLEAN : UpdateUser(state, seller)
       PROVE  UNCHANGED <<op, floor>>
  BY <1>11 DEF ForgotPassword, ResetLinkGone, LinkExpires, Submit, Approve, Reject, UpdateUser, vars
<1> HIDE DEF Fine
<1>12. Fine
  BY <1>1, <1>4, <1>5, <1>7, <1>8, <1>9, <1>10, <1>11 DEF Next
<1> QED  BY <1>12 DEF Fine

(* The sessions.                                                           *)
LEMMA LiveStep ==
  ASSUME Sound, [Next]_vars
  PROVE  /\ live' \subseteq Sessions
         /\ live' # {} => Exists'
         /\ \A s \in live' : s.password >= floor' \/ s.overlapped
<1>0. /\ live \subseteq Sessions /\ (live # {} => Exists) /\ UserFine
      /\ \A s \in live : s.password >= floor \/ s.overlapped
  BY UserStep DEF Sound, TypeOK, Sessions, ResetEndsSessions
<1>1. CASE UNCHANGED <<live, floor>>
  BY <1>0, <1>1 DEF UserFine
<1>2. ASSUME NEW h \in Handlers, ResetPassword(h)  PROVE live' = {}
  BY <1>2 DEF ResetPassword
<1>3. ASSUME NEW h \in Handlers, OpenSession(h)
      PROVE  /\ live' \subseteq Sessions
             /\ live' # {} => Exists'
             /\ \A s \in live' : s.password >= floor' \/ s.overlapped
  <2>1. op[h] \in Opening /\ Justified(op[h]) /\ op[h].step = "open"
    BY <1>3, OpFacts DEF OpenSession
  <2>2. /\ live' = live \union {[password |-> op[h].password, overlapped |-> op[h].overlapped]}
        /\ UNCHANGED <<user, floor>>
    BY <1>3 DEF OpenSession
  <2>3. [password |-> op[h].password, overlapped |-> op[h].overlapped] \in Sessions
    BY <2>1 DEF Opening, Sessions
  <2> QED  BY <1>0, <2>1, <2>2, <2>3 DEF Justified, Exists
<1>4. \/ \E h \in Handlers : ResetPassword(h) \/ OpenSession(h)
      \/ UNCHANGED <<live, floor>>
  BY DEF Next, AskRegister, CreateUser, Login, AskResend, Resend, AskVerify, Verify, AskReset,
     AskChange, ChangePassword, AskProfile, UpdateProfile, AskSeller, EnableSeller, Dies, Set,
     ForgotPassword, ResetLinkGone, LinkExpires, Submit, Approve, Reject, UpdateUser, vars
<1> QED  BY <1>1, <1>2, <1>3, <1>4

(* The documents, the profile and the panel's count.                       *)
LEMMA DocumentStep ==
  ASSUME Sound, [Next]_vars
  PROVE  /\ kyc' \in Seq(Verdicts) /\ (kyc' # <<>> => Exists')
         /\ \A i \in DOMAIN kyc' : kyc'[i] = "APPROVED" => approved'
         /\ complete' \in BOOLEAN /\ (complete' => Exists')
         /\ panel' \in 0..MaxPanel
<1>0. /\ kyc \in Seq(Verdicts) /\ (kyc # <<>> => Exists) /\ UserFine
      /\ \A i \in DOMAIN kyc : kyc[i] = "APPROVED" => approved
      /\ complete \in BOOLEAN /\ (complete => Exists) /\ panel \in 0..MaxPanel
  BY UserStep DEF Sound, TypeOK, Verdicts
<1>1. CASE UNCHANGED <<kyc, complete, panel>>
  BY <1>0, <1>1 DEF UserFine
<1>2. ASSUME NEW h \in Handlers, UpdateProfile(h)
      PROVE  complete' /\ complete' \in BOOLEAN /\ Exists' /\ UNCHANGED <<kyc, panel>>
  <2>1. Exists
    BY <1>2, OpFacts DEF UpdateProfile, Justified
  <2> QED  BY <1>0, <1>2, <2>1 DEF UpdateProfile, UserFine
<1>3. ASSUME Submit
      PROVE  /\ kyc' \in Seq(Verdicts) /\ Exists' /\ UNCHANGED <<complete, panel>>
             /\ \A i \in DOMAIN kyc' : kyc'[i] = "APPROVED" => approved'
  <2>1. kyc' = Append(kyc, "PENDING") /\ Exists /\ UNCHANGED <<complete, panel>>
    BY <1>3 DEF Submit
  <2>2. kyc' \in Seq(Verdicts)
    BY <1>0, <2>1 DEF Verdicts
  <2>3. \A i \in DOMAIN kyc' : kyc'[i] = "PENDING" \/ (i \in DOMAIN kyc /\ kyc'[i] = kyc[i])
    BY <1>0, <2>1
  <2> QED  BY <1>0, <2>1, <2>2, <2>3 DEF UserFine
<1>4. ASSUME NEW i \in DOMAIN kyc, Approve(i) \/ \E status \in Refusals : Reject(i, status)
      PROVE  /\ kyc' \in Seq(Verdicts) /\ Exists' /\ UNCHANGED <<complete, panel>>
             /\ \A j \in DOMAIN kyc' : kyc'[j] = "APPROVED" => approved'
  <2>1. PICK status \in {"APPROVED"} \union Refusals :
          /\ kyc' = [kyc EXCEPT ![i] = status] /\ UNCHANGED <<complete, panel>>
          /\ status = "APPROVED" => approved'
    BY <1>4, AccountsAssumption DEF Approve, Reject
  <2>2. kyc' \in Seq(Verdicts) /\ \A j \in DOMAIN kyc' :
          j \in DOMAIN kyc /\ (kyc'[j] = kyc[j] \/ kyc'[j] = status)
    BY <1>0, <2>1 DEF Verdicts
  <2>3. Exists
    BY <1>0, <1>4
  <2> QED  BY <1>0, <2>1, <2>2, <2>3 DEF UserFine
<1>5. ASSUME NEW state \in States, NEW seller \in BOOLEAN, UpdateUser(state, seller)
      PROVE  panel' \in 0..MaxPanel /\ UNCHANGED <<kyc, complete>>
  BY <1>0, <1>5, Bounds DEF UpdateUser
<1>6. \/ \E h \in Handlers : UpdateProfile(h)
      \/ Submit
      \/ \E i \in DOMAIN kyc : Approve(i) \/ \E status \in Refusals : Reject(i, status)
      \/ \E state \in States, seller \in BOOLEAN : UpdateUser(state, seller)
      \/ UNCHANGED <<kyc, complete, panel>>
  BY DEF Next, AskRegister, CreateUser, OpenSession, Login, AskResend, Resend, AskVerify, Verify,
     AskReset, ResetPassword, AskChange, ChangePassword, AskProfile, AskSeller, EnableSeller, Dies,
     Set, ForgotPassword, ResetLinkGone, LinkExpires, vars
<1> QED  BY <1>0, <1>1, <1>2, <1>3, <1>4, <1>5, <1>6 DEF UserFine

-----------------------------------------------------------------------------
LEMMA InitSound == Init => Sound
<1> SUFFICES ASSUME Init PROVE Sound
  OBVIOUS
<1>1. TypeOK
  <2>1. user = NoUser /\ ~Exists
    BY DEF Init, Exists
  <2>2. kyc \in Seq({"PENDING", "APPROVED"} \union Refusals) /\ kyc = <<>>
    BY DEF Init
  <2>3. panel = 0 /\ floor = 0 /\ approved = FALSE
    BY DEF Init
  <2>4. panel \in 0..MaxPanel /\ floor \in 0..MaxPasswords
    BY <2>3, Bounds
  <2>5. complete = FALSE /\ live = {}
    BY DEF Init
  <2> QED  BY <2>1, <2>2, <2>3, <2>4, <2>5 DEF TypeOK
<1>2. op \in [Handlers -> OpState] /\ \A h \in Handlers : Justified(op[h])
  BY DEF Init, OpState, Justified, Idle
<1>3. ~Exists
  BY DEF Init, Exists
<1>4. ResetEndsSessions /\ SellerWasApproved /\ floor = 0 /\ kyc = <<>>
  BY <1>3 DEF Init, ResetEndsSessions, SellerWasApproved
<1> QED  BY <1>1, <1>2, <1>3, <1>4 DEF Sound

LEMMA NextSound == Sound /\ [Next]_vars => Sound'
<1> SUFFICES ASSUME Sound, [Next]_vars PROVE Sound'
  OBVIOUS
<1>1. UserFine
  BY UserStep
<1>2. op' \in [Handlers -> OpState] /\ \A h \in Handlers : Justified(op[h])'
  BY OpStep
<1>3. /\ live' \subseteq Sessions /\ (live' # {} => Exists') /\ ResetEndsSessions'
  BY LiveStep DEF ResetEndsSessions
<1>4. /\ kyc' \in Seq(Verdicts) /\ (kyc' # <<>> => Exists')
      /\ \A i \in DOMAIN kyc' : kyc'[i] = "APPROVED" => approved'
      /\ complete' \in BOOLEAN /\ (complete' => Exists') /\ panel' \in 0..MaxPanel
  BY DocumentStep
<1>5. TypeOK'
  BY <1>1, <1>3, <1>4 DEF TypeOK, UserFine, Row, Verdicts, Sessions
<1> QED
  BY <1>1, <1>2, <1>3, <1>4, <1>5 DEF Sound, UserFine, SellerWasApproved

LEMMA AlwaysSound == Spec => []Sound
BY InitSound, NextSound, PTL DEF Spec

(* Whatever requests, mails and updates of the panel do to each other, the *)
(* row, the documents and the sessions keep their types, nothing belongs   *)
(* to an account that does not exist, and no password is older than the    *)
(* one the last reset set.                                                 *)
THEOREM AccountTypes == Spec => []TypeOK
<1>1. Sound => TypeOK
  BY DEF Sound
<1> QED  BY <1>1, AlwaysSound, PTL

(* RN-06: a session that lives after a reset of the password was opened    *)
(* with a password as new as the reset, or by a login that had begun       *)
(* before it and was overtaken.                                            *)
THEOREM ResetSafety == Spec => []ResetEndsSessions
<1>1. Sound => ResetEndsSessions
  BY DEF Sound
<1> QED  BY <1>1, AlwaysSound, PTL

(* PT-069: who may sell was approved by the panel, though the handler that *)
(* makes him a seller looks at the documents before it writes and verdicts *)
(* change in between.                                                      *)
THEOREM SellerSafety == Spec => []SellerWasApproved
<1>1. Sound => SellerWasApproved
  BY DEF Sound
<1> QED  BY <1>1, AlwaysSound, PTL
=============================================================================
