--------------------------- MODULE SessionsProofs ---------------------------
(***************************************************************************)
(* Theorems about the sessions: the tables keep their form, a revoked      *)
(* session gives no tokens, and one portal never expels its own user.      *)
(***************************************************************************)
EXTENDS Sessions, TLAPS, FiniteSetTheorems, SequenceTheorems

-----------------------------------------------------------------------------
(* What the tables hold.                                                   *)
Rows == [step : {"open"}, current : Nat, previous : Nat, age : 0..Grace + 1,
         revoked : BOOLEAN, expired : BOOLEAN]

WaitingRequests == [step : {"waiting"}, kind : {"page", "fetch"}, call : Handlers,
                    age : 0..Patience]

Replies == [step : {"reply"}, kind : {"page", "fetch"}, age : 0..Patience,
            outcome : {"tokens", "dead", "unknown"}, token : Nat]

Calls == [step : {"read", "rotate", "revoke", "answer", "dead"}, at : Instances,
          token : Nat, gives : Nat, late : BOOLEAN]

Jars == [access : {"valid", "expired", "none"}, refresh : Nat, age : 0..AccessLife]

Shapes ==
  /\ session \in [SessionIds -> Rows \union {Idle}]
  /\ mintedFor \in Seq(SessionIds)
  /\ active \in BOOLEAN
  /\ jar \in Jars
  /\ request \in [Requests -> WaitingRequests \union Replies \union {Idle}]
  /\ call \in [Handlers -> Calls \union {Idle}]
  /\ closed \in SUBSET SessionIds
  /\ endings \in Nat /\ faults \in Nat
  /\ hurt \in BOOLEAN

Busy == {h \in Handlers : call[h] # Idle}

(* Every token in use was minted, for the session that holds it.           *)
RowTokens ==
  /\ \A s \in Existing :
       /\ session[s].current \in 1..Minted /\ mintedFor[session[s].current] = s
       /\ session[s].previous # None =>
            session[s].previous \in 1..Minted /\ mintedFor[session[s].previous] = s
       /\ session[s].previous # session[s].current
  /\ \A t \in 1..Minted : mintedFor[t] \in Existing

UsedTokens ==
  /\ jar.refresh \in 0..Minted
  /\ \A r \in Requests : request[r].step = "reply" =>
       /\ request[r].token \in 0..Minted
       /\ request[r].token # None => request[r].outcome = "tokens"
  /\ \A h \in Busy :
       /\ call[h].token \in 1..Minted /\ call[h].gives \in 0..Minted
       /\ call[h].gives # None => mintedFor[call[h].gives] = mintedFor[call[h].token]

WaitsForCall == \A r \in Requests : request[r].step = "waiting" => request[r].call \in Busy

(* A refresh that may still mint a token has room for it.                  *)
Minting == {h \in Handlers : call[h].step \in {"read", "rotate"}}
Room == Minted + Cardinality(Minting) <= MaxTokens

TypeInv == Shapes /\ RowTokens /\ UsedTokens /\ WaitsForCall /\ Room

-----------------------------------------------------------------------------
(* A call that began on a revoked session.                                 *)
LateIsDenied ==
  \A h \in Busy :
    call[h].late =>
      /\ call[h].step # "rotate" /\ call[h].gives = None
      /\ session[mintedFor[call[h].token]].revoked

-----------------------------------------------------------------------------
(* While no call was given up and no answer was lost: what one portal and  *)
(* its browser hold of a session that nobody ended.                        *)
Kept == Existing \ closed

Cur(s) == session[s].current
Prev(s) == session[s].previous

CallsOf(s) == {h \in Busy : mintedFor[call[h].token] = s}
Waits(r) == request[r].step = "waiting"
ReplyOf(r, s) ==
  request[r].step = "reply" /\ request[r].token # None /\ mintedFor[request[r].token] = s
JarOf(s) == jar.refresh # None /\ mintedFor[jar.refresh] = s

(* Every call has someone waiting, and no other call presents its token.   *)
CallsShared ==
  /\ \A h \in Busy : Waiting(h) # {}
  /\ \A h, g \in Busy : call[h].token = call[g].token => h = g

JarRenewsLate == jar.refresh # None /\ jar.access # "valid" => jar.age = AccessLife

EndedIsClosed ==
  /\ ~active => Existing \subseteq closed
  /\ \A s \in Existing : session[s].revoked \/ session[s].expired => s \in closed

(* Only the current token and the one before it are in use.                *)
KnownTokens(s) ==
  /\ JarOf(s) => jar.refresh \in {Cur(s), Prev(s)}
  /\ \A r \in Requests : ReplyOf(r, s) => request[r].token = Cur(s)
  /\ \A h \in CallsOf(s) :
       /\ call[h].token \in {Cur(s), Prev(s)}
       /\ call[h].step # "revoke"
       /\ call[h].step = "rotate" => call[h].token = Cur(s)
       /\ call[h].step \in {"read", "rotate"} => call[h].gives = None
       /\ call[h].gives # None => call[h].token = Prev(s) /\ call[h].gives = Cur(s)

(* When the current token is presented nothing older is left.              *)
NothingOlder(s) ==
  (\E h \in CallsOf(s) : call[h].token = Cur(s)) =>
    /\ \A g \in CallsOf(s) : call[g].token = Cur(s)
    /\ \A r \in Requests : ~ReplyOf(r, s)
    /\ JarOf(s) => jar.refresh = Cur(s)

(* What is older than the token of the browser is under way since before.  *)
OlderFirst(s) ==
  JarOf(s) /\ jar.refresh = Cur(s) =>
    \A r \in Requests :
      /\ ReplyOf(r, s) => request[r].age >= jar.age
      /\ Waits(r) /\ request[r].call \in CallsOf(s) /\ call[request[r].call].token # Cur(s)
           => request[r].age >= jar.age

(* While the browser holds the token before, the answer is under way.      *)
Brings(r, s) ==
  /\ \/ ReplyOf(r, s)
     \/ Waits(r) /\ request[r].call \in CallsOf(s) /\ call[request[r].call].gives # None
  /\ request[r].age >= session[s].age

AnswerComes(s) ==
  JarOf(s) /\ jar.refresh # Cur(s) => \E r \in Requests : Brings(r, s)

(* The token before is presented soon after it was replaced.               *)
PresentedSoon(s) ==
  \A r \in Requests :
    Waits(r) /\ request[r].call \in CallsOf(s) /\ call[request[r].call].step = "read"
      /\ call[request[r].call].token # Cur(s)
      => session[s].age <= Patience + request[r].age

Served(s) ==
  KnownTokens(s) /\ NothingOlder(s) /\ OlderFirst(s) /\ AnswerComes(s) /\ PresentedSoon(s)

HandedInv ==
  /\ JarRenewsLate
  /\ ~hurt => CallsShared /\ EndedIsClosed /\ \A s \in Kept : Served(s)

-----------------------------------------------------------------------------
(* The types.                                                              *)
LEMMA Constants ==
  /\ IsFiniteSet(Handlers) /\ Grace \in Nat /\ Patience \in Nat /\ AccessLife \in Nat
  /\ MaxTokens \in Nat /\ MaxTokens > 0
BY SessionsAssumption

LEMMA IdleIsNone ==
  /\ Idle.step = "idle"
  /\ \A row \in Rows : row # Idle
  /\ \A c \in Calls : c # Idle /\ c.step # "idle"
  /\ \A w \in WaitingRequests : w # Idle /\ w.step = "waiting"
  /\ \A p \in Replies : p # Idle /\ p.step = "reply"
<1>1. Idle.step = "idle"
  BY DEF Idle
<1>2. \A row \in Rows : row.step = "open"
  BY DEF Rows
<1>3. \A c \in Calls : c.step # "idle"
  BY DEF Calls
<1>4. \A w \in WaitingRequests : w.step = "waiting"
  BY DEF WaitingRequests
<1>5. \A p \in Replies : p.step = "reply"
  BY DEF Replies
<1> QED  BY <1>1, <1>2, <1>3, <1>4, <1>5

LEMMA MintedFacts ==
  ASSUME Shapes
  PROVE  /\ Minted \in Nat /\ DOMAIN mintedFor = 1..Minted
         /\ \A t \in 1..Minted : mintedFor[t] \in SessionIds
<1>1. mintedFor \in Seq(SessionIds)
  BY DEF Shapes
<1> QED  BY <1>1 DEF Minted

LEMMA CallFacts ==
  ASSUME Shapes, NEW h \in Handlers
  PROVE  /\ h \in Busy <=> call[h] \in Calls
         /\ h \in Busy <=> call[h].step # "idle"
<1>1. call[h] \in Calls \/ call[h] = Idle
  BY DEF Shapes
<1> QED  BY <1>1, IdleIsNone DEF Busy

LEMMA RequestFacts ==
  ASSUME Shapes, NEW r \in Requests
  PROVE  /\ request[r] = Idle \/ request[r] \in WaitingRequests \/ request[r] \in Replies
         /\ request[r] = Idle <=> request[r].step = "idle"
         /\ request[r].step = "waiting" <=> request[r] \in WaitingRequests
         /\ request[r].step = "reply" <=> request[r] \in Replies
<1>1. request[r] \in WaitingRequests \/ request[r] \in Replies \/ request[r] = Idle
  BY DEF Shapes
<1> QED  BY <1>1, IdleIsNone

LEMMA SessionFacts ==
  ASSUME Shapes, NEW s \in SessionIds
  PROVE  s \in Existing <=> session[s] \in Rows
<1>1. session[s] \in Rows \/ session[s] = Idle
  BY DEF Shapes
<1> QED  BY <1>1, IdleIsNone DEF Existing

(* What the browser, the requests and the calls carry.                     *)
LEMMA CallTokens ==
  ASSUME TypeInv, NEW h \in Busy
  PROVE  /\ h \in Handlers /\ call[h] \in Calls
         /\ call[h].token \in 1..Minted /\ call[h].gives \in 0..Minted
         /\ call[h].gives # None => mintedFor[call[h].gives] = mintedFor[call[h].token]
         /\ mintedFor[call[h].token] \in Existing
BY CallFacts DEF TypeInv, UsedTokens, RowTokens, Busy

(* What a refresh finds is the session that its token was minted for.      *)
LEMMA FoundIsItsOwn ==
  ASSUME TypeInv, NEW t \in 1..Minted
  PROVE  Found(t) \subseteq {mintedFor[t]}
<1>1. SUFFICES ASSUME NEW s \in Found(t)  PROVE s = mintedFor[t]
  OBVIOUS
<1>2. s \in Existing /\ t \in {session[s].current, session[s].previous}
  BY DEF Found
<1>3. t # None
  BY MintedFacts DEF TypeInv, None
<1> QED  BY <1>2, <1>3 DEF TypeInv, RowTokens

LEMMA ReadOutcome ==
  ASSUME TypeInv, NEW h \in Handlers, ReadSession(h)
  PROVE  LET s == mintedFor[call[h].token]
             row == session[s]
         IN /\ h \in Busy
            /\ \/ call' = [call EXCEPT ![h] = Deny(h)] /\ (Dead(s) \/ s \notin Found(call[h].token))
               \/ /\ call' = [call EXCEPT ![h] = Grant(h, row.current)]
                  /\ ~Dead(s) /\ s \in Found(call[h].token)
                  /\ row.previous = call[h].token /\ row.age <= Grace
               \/ /\ call' = [call EXCEPT ![h] = Then(h, "revoke")]
                  /\ ~Dead(s) /\ s \in Found(call[h].token)
                  /\ row.previous = call[h].token /\ row.age > Grace
               \/ /\ call' = [call EXCEPT ![h] = Then(h, "rotate")]
                  /\ ~Dead(s) /\ s \in Found(call[h].token)
                  /\ row.previous # call[h].token
<1>1. h \in Busy
  BY CallFacts DEF ReadSession, TypeInv
<1>2. Found(call[h].token) \subseteq {mintedFor[call[h].token]}
  BY <1>1, CallTokens, FoundIsItsOwn
<1>3. CASE Found(call[h].token) = {}
  BY <1>1, <1>3 DEF ReadSession
<1>4. CASE Found(call[h].token) # {}
  <2>1. (CHOOSE s \in Found(call[h].token) : TRUE) = mintedFor[call[h].token]
    BY <1>2, <1>4
  <2>2. mintedFor[call[h].token] \in Found(call[h].token)
    BY <1>2, <1>4
  <2>3. call' = [call EXCEPT ![h] = Verdict(h, mintedFor[call[h].token])]
    BY <1>4, <2>1 DEF ReadSession
  <2>4. session[mintedFor[call[h].token]].age \in Int
    BY <1>1, CallTokens, SessionFacts, Constants DEF Existing, Rows, TypeInv
  <2> DEFINE s == mintedFor[call[h].token]
             row == session[s]
             token == call[h].token
  <2>5. CASE Dead(s)
    BY <1>1, <2>3, <2>5 DEF Verdict
  <2>6. CASE ~Dead(s) /\ row.previous = token /\ row.age <= Grace
    <3>1. ~(row.age > Grace)
      BY <2>4, <2>6, Constants
    <3>2. Verdict(h, s) = Grant(h, row.current)
      BY <2>6, <3>1, Zenon DEF Verdict
    <3> QED  BY <1>1, <2>2, <2>3, <2>6, <3>2
  <2>7. CASE ~Dead(s) /\ row.previous = token /\ ~(row.age <= Grace)
    <3>1. row.age > Grace
      BY <2>4, <2>7, Constants
    <3>2. Verdict(h, s) = Then(h, "revoke")
      BY <2>7, <3>1, Zenon DEF Verdict
    <3> QED  BY <1>1, <2>2, <2>3, <2>7, <3>1, <3>2
  <2>8. CASE ~Dead(s) /\ row.previous # token
    <3>1. Verdict(h, s) = Then(h, "rotate")
      BY <2>8, Zenon DEF Verdict
    <3> QED  BY <1>1, <2>2, <2>3, <2>8, <3>1
  <2> QED  BY <2>5, <2>6, <2>7, <2>8, Zenon
<1> QED  BY <1>3, <1>4

-----------------------------------------------------------------------------
(* What the actions do to a table, seen entry by entry.                    *)
CallTable == [Handlers -> Calls \union {Idle}]

CallBecomes(h, step, gives) ==
  /\ call' \in CallTable
  /\ call'[h] \in Calls
  /\ call'[h].step = step /\ call'[h].gives = gives
  /\ call'[h].token = call[h].token /\ call'[h].late = call[h].late
  /\ call'[h].at = call[h].at
  /\ \A g \in Handlers \ {h} : call'[g] = call[g]

CallEnds(h) ==
  /\ call' \in CallTable
  /\ call'[h] = Idle
  /\ \A g \in Handlers \ {h} : call'[g] = call[g]

Steps == {"read", "rotate", "revoke", "answer", "dead"}

LEMMA ThenFields ==
  ASSUME TypeInv, NEW h \in Busy, NEW step \in Steps
  PROVE  /\ Then(h, step) \in Calls
         /\ Then(h, step).step = step
         /\ Then(h, step).gives = call[h].gives /\ Then(h, step).token = call[h].token
         /\ Then(h, step).late = call[h].late /\ Then(h, step).at = call[h].at
BY CallTokens DEF Then, Calls, Steps

LEMMA GrantFields ==
  ASSUME TypeInv, NEW h \in Busy, NEW t \in Nat
  PROVE  /\ Grant(h, t) \in Calls
         /\ Grant(h, t).step = "answer" /\ Grant(h, t).gives = t
         /\ Grant(h, t).token = call[h].token
         /\ Grant(h, t).late = call[h].late /\ Grant(h, t).at = call[h].at
<1>1. PICK q : q = Then(h, "answer")
  OBVIOUS
<1>2. /\ q \in Calls /\ q.step = "answer" /\ q.token = call[h].token
      /\ q.late = call[h].late /\ q.at = call[h].at
  BY <1>1, ThenFields DEF Steps
<1>3. Grant(h, t) = [q EXCEPT !.gives = t]
  BY <1>1 DEF Grant
<1> QED  BY <1>2, <1>3 DEF Calls

LEMMA CallSet ==
  ASSUME TypeInv, NEW h \in Handlers, NEW q, call' = [call EXCEPT ![h] = q],
         q \in Calls \union {Idle}
  PROVE  call' \in CallTable /\ call'[h] = q /\ \A g \in Handlers \ {h} : call'[g] = call[g]
BY DEF TypeInv, Shapes, CallTable

LEMMA StepTaken ==
  ASSUME TypeInv, NEW h \in Busy, NEW step \in Steps, call' = [call EXCEPT ![h] = Then(h, step)]
  PROVE  CallBecomes(h, step, call[h].gives)
<1>1. PICK q : q = Then(h, step)
  OBVIOUS
<1>2. h \in Handlers
  BY DEF Busy
<1>3. call' = [call EXCEPT ![h] = q] /\ q \in Calls
  BY <1>1, ThenFields
<1>4. call' \in CallTable /\ call'[h] = q /\ \A g \in Handlers \ {h} : call'[g] = call[g]
  BY <1>2, <1>3, CallSet
<1>5. /\ q.step = step /\ q.gives = call[h].gives /\ q.token = call[h].token
      /\ q.late = call[h].late /\ q.at = call[h].at
  BY <1>1, ThenFields
<1> QED  BY <1>3, <1>4, <1>5 DEF CallBecomes

LEMMA GrantGiven ==
  ASSUME TypeInv, NEW h \in Busy, NEW t \in Nat, call' = [call EXCEPT ![h] = Grant(h, t)]
  PROVE  CallBecomes(h, "answer", t)
<1>1. PICK q : q = Grant(h, t)
  OBVIOUS
<1>2. h \in Handlers
  BY DEF Busy
<1>3. call' = [call EXCEPT ![h] = q] /\ q \in Calls
  BY <1>1, GrantFields
<1>4. call' \in CallTable /\ call'[h] = q /\ \A g \in Handlers \ {h} : call'[g] = call[g]
  BY <1>2, <1>3, CallSet
<1>5. /\ q.step = "answer" /\ q.gives = t /\ q.token = call[h].token
      /\ q.late = call[h].late /\ q.at = call[h].at
  BY <1>1, GrantFields
<1> QED  BY <1>3, <1>4, <1>5 DEF CallBecomes

LEMMA CallIdled ==
  ASSUME TypeInv, NEW h \in Handlers, call' = [call EXCEPT ![h] = Idle]
  PROVE  CallEnds(h)
BY CallSet DEF CallEnds

(* The four outcomes of a look at the session.                             *)
LEMMA ReadEffect ==
  ASSUME TypeInv, NEW h \in Handlers, ReadSession(h)
  PROVE  LET s == mintedFor[call[h].token]
             row == session[s]
         IN /\ h \in Busy /\ call[h].step = "read" /\ s \in Existing
            /\ \/ CallBecomes(h, "answer", call[h].gives) /\ (Dead(s) \/ s \notin Found(call[h].token))
               \/ /\ CallBecomes(h, "answer", row.current)
                  /\ ~Dead(s) /\ s \in Found(call[h].token)
                  /\ row.previous = call[h].token /\ row.age <= Grace
               \/ /\ CallBecomes(h, "revoke", call[h].gives)
                  /\ ~Dead(s) /\ s \in Found(call[h].token)
                  /\ row.previous = call[h].token /\ row.age > Grace
               \/ /\ CallBecomes(h, "rotate", call[h].gives)
                  /\ ~Dead(s) /\ s \in Found(call[h].token)
                  /\ row.previous # call[h].token
<1> DEFINE s == mintedFor[call[h].token]
           row == session[s]
<1>1. h \in Busy /\ s \in Existing /\ call[h].step = "read"
  BY ReadOutcome, CallTokens DEF ReadSession
<1>2. row.current \in Nat
  BY <1>1, SessionFacts DEF Existing, Rows, TypeInv
<1>3. ASSUME call' = [call EXCEPT ![h] = Deny(h)]  PROVE CallBecomes(h, "answer", call[h].gives)
  BY <1>1, <1>3, StepTaken DEF Deny, Steps
<1>4. ASSUME call' = [call EXCEPT ![h] = Grant(h, row.current)]
      PROVE  CallBecomes(h, "answer", row.current)
  BY <1>1, <1>2, <1>4, GrantGiven
<1>5. ASSUME NEW step \in {"revoke", "rotate"}, call' = [call EXCEPT ![h] = Then(h, step)]
      PROVE  CallBecomes(h, step, call[h].gives)
  BY <1>1, <1>5, StepTaken DEF Steps
<1> QED  BY <1>1, <1>3, <1>4, <1>5, ReadOutcome

RowTable == [SessionIds -> Rows \union {Idle}]
RequestTable == [Requests -> WaitingRequests \union Replies \union {Idle}]

Minting1(s) ==
  /\ mintedFor' \in Seq(SessionIds)
  /\ Minted' = Minted + 1
  /\ mintedFor'[Minted + 1] = s
  /\ \A t \in 1..Minted : mintedFor'[t] = mintedFor[t]

LEMMA TokenMinted ==
  ASSUME TypeInv, NEW s \in SessionIds, mintedFor' = Append(mintedFor, s)
  PROVE  Minting1(s)
<1>1. mintedFor \in Seq(SessionIds)
  BY DEF TypeInv, Shapes
<1> QED  BY <1>1 DEF Minted, Minting1

(* The rows keep their tokens, and a revoked or expired one stays so.      *)
SameTokens ==
  /\ session' \in RowTable
  /\ \A s \in SessionIds :
       /\ session'[s] = Idle <=> session[s] = Idle
       /\ session[s] # Idle =>
            /\ session'[s].current = session[s].current
            /\ session'[s].previous = session[s].previous
            /\ session[s].revoked => session'[s].revoked

LEMMA RowSet ==
  ASSUME TypeInv, NEW s \in SessionIds, NEW row, session' = [session EXCEPT ![s] = row],
         row \in Rows
  PROVE  /\ session' \in RowTable /\ session'[s] = row
         /\ \A q \in SessionIds \ {s} : session'[q] = session[q]
BY DEF TypeInv, Shapes, RowTable

LEMMA RowsRevoked ==
  ASSUME TypeInv, NEW rows \in SUBSET Existing, RevokeRows(rows)
  PROVE  /\ SameTokens /\ closed' = closed \union rows
         /\ \A s \in Existing :
              /\ session'[s].age = session[s].age
              /\ session'[s].expired = session[s].expired
              /\ session'[s].revoked => session[s].revoked \/ s \in closed'
<1>1. closed' = closed \union rows
  BY DEF RevokeRows, Ends
<1>2. session' = [s \in SessionIds |->
         IF s \in rows THEN [session[s] EXCEPT !.revoked = TRUE] ELSE session[s]]
  BY DEF RevokeRows
<1>3. ASSUME NEW s \in SessionIds
      PROVE  /\ session'[s] \in Rows \union {Idle}
             /\ session'[s] = Idle <=> session[s] = Idle
             /\ session[s] # Idle =>
                  /\ session'[s].current = session[s].current
                  /\ session'[s].previous = session[s].previous
                  /\ session[s].revoked => session'[s].revoked
                  /\ session'[s].age = session[s].age
                  /\ session'[s].expired = session[s].expired
                  /\ session'[s].revoked => session[s].revoked \/ s \in rows
  <2>1. CASE s \in rows
    <3>1. session[s] \in Rows /\ session[s] # Idle
      BY <2>1, SessionFacts, IdleIsNone DEF TypeInv
    <3>2. session'[s] = [session[s] EXCEPT !.revoked = TRUE]
      BY <1>2, <2>1
    <3>3. session'[s] \in Rows
      BY <3>1, <3>2 DEF Rows
    <3> QED  BY <2>1, <3>1, <3>2, <3>3, IdleIsNone DEF Rows
  <2>2. CASE s \notin rows
    <3>1. session'[s] = session[s] /\ session[s] \in Rows \union {Idle}
      BY <1>2, <2>2 DEF TypeInv, Shapes
    <3> QED  BY <3>1
  <2> QED  BY <2>1, <2>2
<1>4. session' \in RowTable
  BY <1>2, <1>3 DEF RowTable
<1> QED  BY <1>1, <1>3, <1>4 DEF SameTokens, Existing

LEMMA RowExpired ==
  ASSUME TypeInv, NEW s \in SessionIds, SessionExpires(s)
  PROVE  /\ SameTokens /\ closed' = closed \union {s}
         /\ \A q \in Existing :
              /\ session'[q].age = session[q].age
              /\ session'[q].revoked = session[q].revoked
              /\ session'[q].expired => session[q].expired \/ q \in closed'
<1>1. PICK row : row = [session[s] EXCEPT !.expired = TRUE]
  OBVIOUS
<1>2. session[s] \in Rows
  BY SessionFacts DEF SessionExpires, TypeInv
<1>3. /\ row \in Rows /\ row.current = session[s].current /\ row.previous = session[s].previous
      /\ row.age = session[s].age /\ row.revoked = session[s].revoked
  BY <1>1, <1>2 DEF Rows
<1>4. session' = [session EXCEPT ![s] = row] /\ closed' = closed \union {s}
  BY <1>1 DEF SessionExpires, Ends
<1>5. /\ session' \in RowTable /\ session'[s] = row
      /\ \A q \in SessionIds \ {s} : session'[q] = session[q]
  BY <1>3, <1>4, RowSet
<1> QED  BY <1>2, <1>3, <1>4, <1>5, IdleIsNone DEF SameTokens, Existing

LEMMA TickRows ==
  ASSUME TypeInv, Tick
  PROVE  /\ SameTokens
         /\ \A s \in Existing :
              /\ session'[s].age <= session[s].age + 1
              /\ session'[s].revoked = session[s].revoked
              /\ session'[s].expired = session[s].expired
<1>2. session' = [s \in SessionIds |->
         IF session[s] = Idle THEN Idle
         ELSE [session[s] EXCEPT !.age = Min2(@ + 1, Grace + 1)]]
  BY DEF Tick
<1>3. ASSUME NEW s \in SessionIds
      PROVE  /\ session'[s] \in Rows \union {Idle}
             /\ session'[s] = Idle <=> session[s] = Idle
             /\ session[s] # Idle =>
                  /\ session'[s].current = session[s].current
                  /\ session'[s].previous = session[s].previous
                  /\ session'[s].age <= session[s].age + 1
                  /\ session'[s].revoked = session[s].revoked
                  /\ session'[s].expired = session[s].expired
  <2>1. CASE session[s] # Idle
    <3>1. session[s] \in Rows
      BY <2>1 DEF TypeInv, Shapes
    <3>2. PICK a : a = Min2(session[s].age + 1, Grace + 1)
      OBVIOUS
    <3>3. a \in 0..Grace + 1 /\ a <= session[s].age + 1
      BY <3>1, <3>2, Constants DEF Min2, Rows
    <3>4. session'[s] = [session[s] EXCEPT !.age = a]
      BY <1>2, <2>1, <3>2
    <3>5. session'[s] \in Rows
      BY <3>1, <3>3, <3>4 DEF Rows
    <3> QED  BY <2>1, <3>1, <3>3, <3>4, <3>5, IdleIsNone DEF Rows
  <2>2. CASE session[s] = Idle
    <3>1. session'[s] = Idle
      BY <1>2, <2>2
    <3> QED  BY <2>2, <3>1
  <2> QED  BY <2>1, <2>2
<1>4. session' \in RowTable
  BY <1>2, <1>3 DEF RowTable
<1> QED  BY <1>3, <1>4 DEF SameTokens, Existing

LEMMA RevokeRow ==
  ASSUME TypeInv, NEW h \in Handlers, Revoke(h)
  PROVE  LET s == mintedFor[call[h].token]
         IN /\ h \in Busy /\ call[h].step = "revoke" /\ s \in Existing
            /\ SameTokens
            /\ \A q \in Existing :
                 /\ session'[q].age = session[q].age
                 /\ session'[q].expired = session[q].expired
                 /\ q # s => session'[q].revoked = session[q].revoked
            /\ CallBecomes(h, "answer", call[h].gives)
<1> DEFINE s == mintedFor[call[h].token]
<1>1. h \in Busy /\ call[h].step = "revoke"
  BY CallFacts DEF Revoke, TypeInv
<1>2. s \in Existing /\ s \in SessionIds
  BY <1>1, CallTokens DEF Existing
<1>3. PICK row : row = [session[s] EXCEPT !.revoked = TRUE]
  OBVIOUS
<1>4. session[s] \in Rows
  BY <1>2, SessionFacts DEF TypeInv
<1>5. /\ row \in Rows /\ row.current = session[s].current /\ row.previous = session[s].previous
      /\ row.age = session[s].age /\ row.expired = session[s].expired /\ row.revoked
  BY <1>3, <1>4 DEF Rows
<1>6. session' = [session EXCEPT ![s] = row]
  BY <1>3 DEF Revoke
<1>7. /\ session' \in RowTable /\ session'[s] = row
      /\ \A q \in SessionIds \ {s} : session'[q] = session[q]
  BY <1>2, <1>5, <1>6, RowSet
<1>8. SameTokens
  BY <1>4, <1>5, <1>7, IdleIsNone DEF SameTokens
<1>9. CallBecomes(h, "answer", call[h].gives)
  BY <1>1, StepTaken DEF Revoke, Deny, Steps
<1> QED  BY <1>1, <1>2, <1>5, <1>7, <1>8, <1>9 DEF Existing

LEMMA RotateEffect ==
  ASSUME TypeInv, NEW h \in Handlers, Rotate(h)
  PROVE  LET s == mintedFor[call[h].token]
         IN /\ h \in Busy /\ call[h].step = "rotate" /\ s \in Existing
            /\ Minting1(s)
            /\ session' \in RowTable /\ session'[s] \in Rows
            /\ session'[s].current = Minted + 1 /\ session'[s].previous = call[h].token
            /\ session'[s].age = 0
            /\ session'[s].revoked = session[s].revoked
            /\ session'[s].expired = session[s].expired
            /\ \A q \in SessionIds \ {s} : session'[q] = session[q]
            /\ CallBecomes(h, "answer", Minted + 1)
<1> DEFINE s == mintedFor[call[h].token]
<1>1. h \in Busy /\ call[h].step = "rotate"
  BY CallFacts DEF Rotate, TypeInv
<1>2. s \in Existing /\ s \in SessionIds /\ call[h].token \in Nat /\ Minted + 1 \in Nat
  BY <1>1, CallTokens, MintedFacts DEF Existing, TypeInv
<1>3. PICK p, c, row : /\ p = [session[s] EXCEPT !.previous = call[h].token]
                       /\ c = [p EXCEPT !.current = Minted + 1]
                       /\ row = [c EXCEPT !.age = 0]
  OBVIOUS
<1>4. session[s] \in Rows
  BY <1>2, SessionFacts DEF TypeInv
<1>5. /\ row \in Rows /\ row.current = Minted + 1 /\ row.previous = call[h].token
      /\ row.age = 0 /\ row.expired = session[s].expired /\ row.revoked = session[s].revoked
  <2>1. /\ p \in Rows /\ p.previous = call[h].token
        /\ p.expired = session[s].expired /\ p.revoked = session[s].revoked
    BY <1>2, <1>3, <1>4 DEF Rows
  <2>2. /\ c \in Rows /\ c.current = Minted + 1 /\ c.previous = p.previous
        /\ c.expired = p.expired /\ c.revoked = p.revoked
    BY <1>2, <1>3, <2>1 DEF Rows
  <2>3. 0 \in 0..Grace + 1
    BY Constants
  <2> QED  BY <1>3, <2>1, <2>2, <2>3 DEF Rows
<1>6. session' = [session EXCEPT ![s] = row]
  <2>1. session' = [session EXCEPT ![s].previous = call[h].token,
                                   ![s].current = Minted + 1, ![s].age = 0]
    BY DEF Rotate
  <2>2. session \in [SessionIds -> Rows \union {Idle}]
    BY DEF TypeInv, Shapes
  <2> QED  BY <1>2, <1>3, <2>1, <2>2
<1>7. /\ session' \in RowTable /\ session'[s] = row
      /\ \A q \in SessionIds \ {s} : session'[q] = session[q]
  BY <1>2, <1>5, <1>6, RowSet
<1>8. Minting1(s)
  BY <1>2, TokenMinted DEF Rotate
<1>9. CallBecomes(h, "answer", Minted + 1)
  BY <1>1, <1>2, GrantGiven DEF Rotate
<1> QED  BY <1>1, <1>2, <1>5, <1>7, <1>8, <1>9

LEMMA RequestSet ==
  ASSUME TypeInv, NEW r \in Requests, NEW w, request' = [request EXCEPT ![r] = w],
         w \in WaitingRequests \union Replies \union {Idle}
  PROVE  /\ request' \in RequestTable /\ request'[r] = w
         /\ \A q \in Requests \ {r} : request'[q] = request[q]
BY DEF TypeInv, Shapes, RequestTable

LEMMA SendEffect ==
  ASSUME TypeInv, NEW r \in Requests, NEW i \in Instances, NEW kind \in {"page", "fetch"},
         Send(r, i, kind)
  PROVE  LET token == jar.refresh
         IN /\ token \in 1..Minted /\ jar.access # "valid"
            /\ Minted + Cardinality(Busy) < MaxTokens
            /\ request[r] = Idle /\ request' \in RequestTable
            /\ \A q \in Requests \ {r} : request'[q] = request[q]
            /\ \E h \in Handlers :
                 /\ request'[r] \in WaitingRequests
                 /\ request'[r].call = h /\ request'[r].age = 0
                 /\ \/ InFlight(i, token, h) /\ call' = call
                    \/ /\ Joins(i, token) = {} /\ call[h] = Idle
                       /\ call' \in CallTable /\ call'[h] \in Calls
                       /\ call'[h].step = "read" /\ call'[h].token = token
                       /\ call'[h].gives = None
                       /\ call'[h].late = session[mintedFor[token]].revoked
                       /\ \A g \in Handlers \ {h} : call'[g] = call[g]
<1> DEFINE token == jar.refresh
<1>1. token \in 1..Minted /\ jar.access # "valid" /\ request[r] = Idle
  BY MintedFacts DEF Send, Renews, TypeInv, UsedTokens, None
<1>2. Minted + Cardinality(Busy) < MaxTokens
  BY DEF Send, Busy
<1>3. PICK h \in IF Joins(i, token) # {} THEN Joins(i, token)
                 ELSE {f \in Handlers : call[f] = Idle} :
        /\ request' = [request EXCEPT ![r] =
             [step |-> "waiting", kind |-> kind, call |-> h, age |-> 0]]
        /\ call' = IF Joins(i, token) # {} THEN call ELSE [call EXCEPT ![h] =
             [step |-> "read", at |-> i, token |-> token, gives |-> None,
              late |-> session[mintedFor[token]].revoked]]
  BY DEF Send
<1>4. h \in Handlers
  BY <1>3 DEF Joins
<1>5. PICK w : w = [step |-> "waiting", kind |-> kind, call |-> h, age |-> 0]
  OBVIOUS
<1>6. w \in WaitingRequests /\ w.call = h /\ w.age = 0
  BY <1>4, <1>5, Constants DEF WaitingRequests
<1>7. /\ request' \in RequestTable /\ request'[r] = w
      /\ \A q \in Requests \ {r} : request'[q] = request[q]
  BY <1>3, <1>5, <1>6, RequestSet
<1>8. CASE Joins(i, token) # {}
  BY <1>1, <1>2, <1>3, <1>4, <1>6, <1>7, <1>8 DEF Joins
<1>9. CASE Joins(i, token) = {}
  <2>1. call[h] = Idle
    BY <1>3, <1>9
  <2>2. PICK c : c = [step |-> "read", at |-> i, token |-> token, gives |-> None,
                      late |-> session[mintedFor[token]].revoked]
    OBVIOUS
  <2>3. session[mintedFor[token]].revoked \in BOOLEAN
    <3>1. mintedFor[token] \in Existing
      BY <1>1 DEF TypeInv, RowTokens
    <3> QED  BY <3>1, SessionFacts DEF TypeInv, Existing, Rows
  <2>4. token \in Nat /\ None \in Nat
    BY <1>1, MintedFacts DEF TypeInv, None
  <2>5. c \in Calls /\ c.step = "read" /\ c.token = token /\ c.gives = None
        /\ c.late = session[mintedFor[token]].revoked
    BY <2>2, <2>3, <2>4 DEF Calls
  <2>6. call' = [call EXCEPT ![h] = c]
    BY <1>3, <1>9, <2>2
  <2>7. call' \in CallTable /\ call'[h] = c /\ \A g \in Handlers \ {h} : call'[g] = call[g]
    BY <1>4, <2>5, <2>6, CallSet
  <2> QED  BY <1>1, <1>2, <1>4, <1>6, <1>7, <1>9, <2>1, <2>5, <2>7
<1> QED  BY <1>8, <1>9

(* The requests that waited for a call have its outcome.                   *)
Told(h, token) ==
  /\ request' \in RequestTable
  /\ \A r \in Waiting(h) :
       /\ request'[r] \in Replies
       /\ request'[r].token = token /\ request'[r].age = request[r].age
       /\ token # None => request'[r].outcome = "tokens"
  /\ \A r \in Requests \ Waiting(h) : request'[r] = request[r]

LEMMA AllTold ==
  ASSUME TypeInv, NEW h \in Handlers, NEW token \in Nat,
         NEW outcome \in {"tokens", "dead", "unknown"}, token # None => outcome = "tokens",
         request' = [r \in Requests |->
           IF r \in Waiting(h)
           THEN [step |-> "reply", kind |-> request[r].kind, age |-> request[r].age,
                 outcome |-> outcome, token |-> token]
           ELSE request[r]]
  PROVE  Told(h, token)
<1>1. ASSUME NEW r \in Waiting(h)
      PROVE  /\ request'[r] \in Replies /\ request'[r].token = token
             /\ request'[r].age = request[r].age /\ request'[r].outcome = outcome
  <2>1. r \in Requests /\ request[r] \in WaitingRequests
    BY RequestFacts DEF Waiting, TypeInv
  <2>2. request'[r] = [step |-> "reply", kind |-> request[r].kind, age |-> request[r].age,
                       outcome |-> outcome, token |-> token]
    BY <2>1
  <2>3. request[r].kind \in {"page", "fetch"} /\ request[r].age \in 0..Patience
    BY <2>1 DEF WaitingRequests
  <2> QED  BY <2>2, <2>3 DEF Replies
<1>2. ASSUME NEW r \in Requests \ Waiting(h)
      PROVE  request'[r] = request[r] /\ request[r] \in WaitingRequests \union Replies \union {Idle}
  BY DEF TypeInv, Shapes
<1>3. request' \in RequestTable
  <2>1. ASSUME NEW r \in Requests
        PROVE  request'[r] \in WaitingRequests \union Replies \union {Idle}
    BY <1>1, <1>2
  <2> QED  BY <2>1 DEF RequestTable
<1> QED  BY <1>1, <1>2, <1>3 DEF Told

LEMMA AnswerEffect ==
  ASSUME TypeInv, NEW h \in Handlers, Answer(h)
  PROVE  h \in Busy /\ call[h].step = "answer" /\ CallEnds(h) /\ Told(h, call[h].gives)
<1>1. h \in Busy /\ call[h].step = "answer"
  BY CallFacts DEF Answer, TypeInv
<1>2. call[h].gives \in Nat
  BY <1>1, CallTokens DEF Calls
<1>3. PICK outcome \in {"tokens", "dead", "unknown"} :
        outcome = IF call[h].gives = None THEN "dead" ELSE "tokens"
  OBVIOUS
<1>4. Told(h, call[h].gives)
  BY <1>2, <1>3, AllTold DEF Answer
<1>5. CallEnds(h)
  BY CallIdled DEF Answer
<1> QED  BY <1>1, <1>4, <1>5

LEMMA AbortEffect ==
  ASSUME TypeInv, NEW h \in Handlers, Abort(h)
  PROVE  /\ h \in Busy /\ Told(h, None) /\ hurt'
         /\ call' = call \/ CallEnds(h)
<1>1. PICK r \in Requests : request[r].step = "waiting" /\ request[r].call = h
  BY DEF Abort, Waiting
<1>2. h \in Busy
  BY <1>1 DEF TypeInv, WaitsForCall
<1>3. Told(h, None)
  BY AllTold DEF Abort, None
<1>4. call' = call \/ CallEnds(h)
  <2>1. CASE call[h].step = "dead"
    <3>1. call' = [call EXCEPT ![h] = Idle]
      BY <2>1 DEF Abort
    <3> QED  BY <3>1, CallIdled
  <2>2. CASE call[h].step # "dead"
    <3>1. call' = [call EXCEPT ![h] = call[h]]
      BY <2>2 DEF Abort
    <3> QED  BY <3>1 DEF TypeInv, Shapes
  <2> QED  BY <2>1, <2>2
<1> QED  BY <1>2, <1>3, <1>4 DEF Abort

LEMMA DieEffect ==
  ASSUME TypeInv, NEW h \in Handlers, HandlerDies(h)
  PROVE  /\ h \in Busy
         /\ \/ Waiting(h) = {} /\ CallEnds(h)
            \/ Waiting(h) # {} /\ CallBecomes(h, "dead", call[h].gives)
<1>1. h \in Busy
  BY CallFacts DEF HandlerDies, TypeInv
<1>2. CASE Waiting(h) = {}
  BY <1>1, <1>2, CallIdled DEF HandlerDies
<1>3. CASE Waiting(h) # {}
  BY <1>1, <1>3, StepTaken DEF HandlerDies, Steps
<1> QED  BY <1>1, <1>2, <1>3

RequestEnds(r) ==
  /\ request' \in RequestTable
  /\ request[r] \in Replies /\ request'[r] = Idle
  /\ \A q \in Requests \ {r} : request'[q] = request[q]

LEMMA ReplyEffect ==
  ASSUME TypeInv, NEW r \in Requests, Reply(r)
  PROVE  /\ RequestEnds(r)
         /\ \/ jar' = FullJar(request[r].token)
            \/ jar' = EmptyJar
            \/ jar' = jar
         /\ request[r].outcome = "tokens" => jar' = FullJar(request[r].token)
         /\ request[r].outcome # "tokens" => jar' = EmptyJar \/ jar' = jar
<1>1. request[r] \in Replies /\ request' = [request EXCEPT ![r] = Idle]
  BY RequestFacts DEF Reply, TypeInv
<1>2. RequestEnds(r)
  BY <1>1, RequestSet DEF RequestEnds
<1>3. jar' = CASE request[r].outcome = "tokens" -> FullJar(request[r].token)
              [] request[r].outcome # "tokens" /\ request[r].kind = "page" -> EmptyJar
              [] OTHER -> jar
  BY DEF Reply
<1>4. CASE request[r].outcome = "tokens"
  BY <1>2, <1>3, <1>4
<1>5. CASE request[r].outcome # "tokens"
  BY <1>2, <1>3, <1>5
<1> QED  BY <1>4, <1>5

LEMMA ReplyLostEffect ==
  ASSUME TypeInv, NEW r \in Requests, ReplyLost(r)
  PROVE  RequestEnds(r) /\ hurt'
<1>1. request[r] \in Replies /\ request' = [request EXCEPT ![r] = Idle]
  BY RequestFacts DEF ReplyLost, TypeInv
<1> QED  BY <1>1, RequestSet DEF RequestEnds, ReplyLost

(* Every request under way grows older, and none past its patience.        *)
Older ==
  /\ request' \in RequestTable
  /\ \A r \in Requests :
       /\ request[r] = Idle => request'[r] = Idle
       /\ request[r] # Idle =>
            /\ request'[r].step = request[r].step /\ request'[r].age = request[r].age + 1
            /\ request[r].step = "waiting" => request'[r].call = request[r].call
            /\ request[r].step = "reply" =>
                 request'[r].token = request[r].token /\ request'[r].outcome = request[r].outcome

LEMMA TickRequests ==
  ASSUME TypeInv, Tick
  PROVE  Older
<1>1. ASSUME NEW r \in Requests, request[r] # Idle
      PROVE  /\ request'[r] \in WaitingRequests \union Replies
             /\ request'[r].step = request[r].step /\ request'[r].age = request[r].age + 1
             /\ request[r].step = "waiting" => request'[r].call = request[r].call
             /\ request[r].step = "reply" =>
                  request'[r].token = request[r].token /\ request'[r].outcome = request[r].outcome
  <2>1. request[r].age < Patience /\ request'[r] = [request[r] EXCEPT !.age = @ + 1]
    BY <1>1 DEF Tick, Sent
  <2>2. CASE request[r] \in WaitingRequests
    <3>1. request[r].age + 1 \in 0..Patience
      BY <2>1, <2>2, Constants DEF WaitingRequests
    <3>2. request'[r] \in WaitingRequests
      BY <2>1, <2>2, <3>1 DEF WaitingRequests
    <3> QED  BY <2>1, <2>2, <3>2 DEF WaitingRequests
  <2>3. CASE request[r] \in Replies
    <3>1. request[r].age + 1 \in 0..Patience
      BY <2>1, <2>3, Constants DEF Replies
    <3>2. request'[r] \in Replies
      BY <2>1, <2>3, <3>1 DEF Replies
    <3> QED  BY <2>1, <2>3, <3>2 DEF Replies
  <2> QED  BY <1>1, <2>2, <2>3, RequestFacts DEF TypeInv
<1>2. ASSUME NEW r \in Requests, request[r] = Idle  PROVE request'[r] = Idle
  BY <1>2 DEF Tick, Sent
<1>3. request' \in RequestTable
  <2>1. ASSUME NEW r \in Requests
        PROVE  request'[r] \in WaitingRequests \union Replies \union {Idle}
    BY <1>1, <1>2
  <2>2. request' = [r \in Requests |-> request'[r]]
    BY DEF Tick
  <2> QED  BY <2>1, <2>2 DEF RequestTable
<1> QED  BY <1>1, <1>2, <1>3 DEF Older

-----------------------------------------------------------------------------
(* The types are kept, one table at a time.                                *)
LEMMA LoginEffect ==
  ASSUME TypeInv, NEW s \in SessionIds, Login(s)
  PROVE  /\ s \notin Existing /\ Minting1(s)
         /\ session' \in RowTable /\ session'[s] \in Rows
         /\ session'[s].current = Minted + 1 /\ session'[s].previous = None
         /\ ~session'[s].revoked /\ ~session'[s].expired
         /\ \A q \in SessionIds \ {s} : session'[q] = session[q]
         /\ jar' = FullJar(Minted + 1)
         /\ Minted + Cardinality(Busy) < MaxTokens
<1>1. PICK row : row = [step |-> "open", current |-> Minted + 1, previous |-> None,
                        age |-> Grace + 1, revoked |-> FALSE, expired |-> FALSE]
  OBVIOUS
<1>2. row \in Rows /\ row.current = Minted + 1 /\ row.previous = None
      /\ ~row.revoked /\ ~row.expired
  BY <1>1, Constants, MintedFacts DEF Rows, None, TypeInv
<1>3. session' = [session EXCEPT ![s] = row]
  BY <1>1 DEF Login
<1>4. /\ session' \in RowTable /\ session'[s] = row
      /\ \A q \in SessionIds \ {s} : session'[q] = session[q]
  BY <1>2, <1>3, RowSet
<1>5. Minting1(s)
  BY TokenMinted DEF Login
<1>6. Minted + Cardinality(Busy) < MaxTokens
  BY DEF Login, Busy
<1> QED  BY <1>2, <1>4, <1>5, <1>6 DEF Login, Existing

LEMMA JarShapes ==
  ASSUME TypeInv, NEW token \in Nat
  PROVE  FullJar(token) \in Jars /\ EmptyJar \in Jars
BY Constants DEF FullJar, EmptyJar, Jars, None

LEMMA JarFacts ==
  ASSUME TypeInv
  PROVE  jar \in Jars /\ jar.age \in 0..AccessLife
BY DEF TypeInv, Shapes, Jars

LEMMA TickJar ==
  ASSUME TypeInv, Tick
  PROVE  /\ jar' \in Jars /\ jar'.refresh = jar.refresh /\ jar'.access = jar.access
         /\ jar'.age <= jar.age + 1
         /\ jar.age = AccessLife => jar'.age = AccessLife
<1>1. PICK a : a = Min2(jar.age + 1, AccessLife)
  OBVIOUS
<1>2. a \in 0..AccessLife /\ a <= jar.age + 1 /\ (jar.age = AccessLife => a = AccessLife)
  BY <1>1, JarFacts, Constants DEF Min2
<1>3. jar' = [jar EXCEPT !.age = a]
  BY <1>1 DEF Tick
<1> QED  BY <1>2, <1>3, JarFacts DEF Jars

LEMMA CookieEffect ==
  ASSUME TypeInv, AccessExpires \/ CookieExpires
  PROVE  /\ jar' \in Jars /\ jar'.refresh = jar.refresh /\ jar'.age = jar.age
         /\ AccessExpires => jar.age = AccessLife
         /\ CookieExpires => jar.access # "valid"
<1>1. PICK access \in {"expired", "none"} : jar' = [jar EXCEPT !.access = access]
  BY DEF AccessExpires, CookieExpires
<1> QED  BY <1>1, JarFacts DEF Jars, AccessExpires, CookieExpires

(* Where a table is written, it keeps its shape.                           *)
LEMMA SessionKept ==
  ASSUME TypeInv, [Next]_vars
  PROVE  session' \in RowTable
<1>1. session \in RowTable
  BY DEF TypeInv, Shapes, RowTable
<1>2. ASSUME NEW s \in SessionIds, Login(s)  PROVE session' \in RowTable
  BY <1>2, LoginEffect
<1>3. ASSUME NEW s \in SessionIds, SessionExpires(s)  PROVE session' \in RowTable
  BY <1>3, RowExpired DEF SameTokens
<1>4. ASSUME NEW rows \in SUBSET Existing, RevokeRows(rows)  PROVE session' \in RowTable
  BY <1>4, RowsRevoked DEF SameTokens
<1>5. CASE Logout
  <2>1. {s \in Existing : jar.access = "valid" /\ session[s].current = jar.refresh} \in SUBSET Existing
    OBVIOUS
  <2> QED  BY <1>4, <1>5, <2>1 DEF Logout
<1>6. CASE RevokeAll
  BY <1>4, <1>6 DEF RevokeAll
<1>7. ASSUME NEW h \in Handlers, Rotate(h)  PROVE session' \in RowTable
  BY <1>7, RotateEffect
<1>8. ASSUME NEW h \in Handlers, Revoke(h)  PROVE session' \in RowTable
  BY <1>8, RevokeRow DEF SameTokens
<1>9. CASE Tick
  BY <1>9, TickRows DEF SameTokens
<1>10. CASE UNCHANGED session
  BY <1>1, <1>10
<1>11. ASSUME NEW h \in Handlers, ReadSession(h) \/ Answer(h) \/ HandlerDies(h) \/ Abort(h)
       PROVE  UNCHANGED session
  BY <1>11, Zenon DEF ReadSession, Answer, HandlerDies, Abort
<1>12. ASSUME NEW r \in Requests, Reply(r) \/ ReplyLost(r)  PROVE UNCHANGED session
  BY <1>12, Zenon DEF Reply, ReplyLost
<1>13. ASSUME NEW r \in Requests, NEW i \in Instances, NEW kind \in {"page", "fetch"}, Send(r, i, kind)
       PROVE  UNCHANGED session
  BY <1>13, Zenon DEF Send
<1>14. ASSUME (\E to \in BOOLEAN : SetState(to)) \/ AccessExpires \/ CookieExpires \/ UNCHANGED vars
       PROVE  UNCHANGED session
  BY <1>14, Zenon DEF SetState, AccessExpires, CookieExpires, vars
<1> QED
  BY <1>2, <1>3, <1>5, <1>6, <1>7, <1>8, <1>9, <1>10, <1>11, <1>12, <1>13, <1>14, Zenon
  DEF Next, ApiStep

LEMMA CallKept ==
  ASSUME TypeInv, [Next]_vars
  PROVE  call' \in CallTable
<1>1. call \in CallTable
  BY DEF TypeInv, Shapes, CallTable
<1>2. ASSUME NEW h \in Handlers, ReadSession(h)  PROVE call' \in CallTable
  BY <1>2, ReadEffect DEF CallBecomes
<1>3. ASSUME NEW h \in Handlers, Rotate(h)  PROVE call' \in CallTable
  BY <1>3, RotateEffect DEF CallBecomes
<1>4. ASSUME NEW h \in Handlers, Revoke(h)  PROVE call' \in CallTable
  BY <1>4, RevokeRow DEF CallBecomes
<1>5. ASSUME NEW h \in Handlers, Answer(h)  PROVE call' \in CallTable
  BY <1>5, AnswerEffect DEF CallEnds
<1>6. ASSUME NEW h \in Handlers, HandlerDies(h)  PROVE call' \in CallTable
  BY <1>6, DieEffect DEF CallBecomes, CallEnds
<1>7. ASSUME NEW h \in Handlers, Abort(h)  PROVE call' \in CallTable
  BY <1>1, <1>7, AbortEffect DEF CallEnds
<1>8. ASSUME NEW r \in Requests, NEW i \in Instances, NEW kind \in {"page", "fetch"}, Send(r, i, kind)
      PROVE  call' \in CallTable
  BY <1>1, <1>8, SendEffect
<1>9. CASE UNCHANGED call
  BY <1>1, <1>9
<1>10. ASSUME NEW s \in SessionIds, Login(s) \/ SessionExpires(s)  PROVE UNCHANGED call
  BY <1>10, Zenon DEF Login, SessionExpires
<1>11. ASSUME NEW r \in Requests, Reply(r) \/ ReplyLost(r)  PROVE UNCHANGED call
  BY <1>11, Zenon DEF Reply, ReplyLost
<1>12. ASSUME Logout \/ RevokeAll \/ (\E to \in BOOLEAN : SetState(to))
       PROVE  UNCHANGED call
  BY <1>12, Zenon DEF Logout, RevokeAll, SetState
<1>13. ASSUME AccessExpires \/ CookieExpires \/ Tick \/ UNCHANGED vars
       PROVE  UNCHANGED call
  BY <1>13, Zenon DEF AccessExpires, CookieExpires, Tick, vars
<1> QED
  BY <1>2, <1>3, <1>4, <1>5, <1>6, <1>7, <1>8, <1>9, <1>10, <1>11, <1>12, <1>13, Zenon
  DEF Next, ApiStep

LEMMA RequestKept ==
  ASSUME TypeInv, [Next]_vars
  PROVE  request' \in RequestTable
<1>1. request \in RequestTable
  BY DEF TypeInv, Shapes, RequestTable
<1>2. ASSUME NEW r \in Requests, NEW i \in Instances, NEW kind \in {"page", "fetch"}, Send(r, i, kind)
      PROVE  request' \in RequestTable
  BY <1>2, SendEffect
<1>3. ASSUME NEW h \in Handlers, Answer(h)  PROVE request' \in RequestTable
  BY <1>3, AnswerEffect DEF Told
<1>4. ASSUME NEW h \in Handlers, Abort(h)  PROVE request' \in RequestTable
  BY <1>4, AbortEffect DEF Told
<1>5. ASSUME NEW r \in Requests, Reply(r)  PROVE request' \in RequestTable
  BY <1>5, ReplyEffect DEF RequestEnds
<1>6. ASSUME NEW r \in Requests, ReplyLost(r)  PROVE request' \in RequestTable
  BY <1>6, ReplyLostEffect DEF RequestEnds
<1>7. CASE Tick
  BY <1>7, TickRequests DEF Older
<1>8. CASE UNCHANGED request
  BY <1>1, <1>8
<1>9. ASSUME NEW s \in SessionIds, Login(s) \/ SessionExpires(s)  PROVE UNCHANGED request
  BY <1>9, Zenon DEF Login, SessionExpires
<1>10. ASSUME NEW h \in Handlers, ReadSession(h) \/ Rotate(h) \/ Revoke(h) \/ HandlerDies(h)
       PROVE  UNCHANGED request
  BY <1>10, Zenon DEF ReadSession, Rotate, Revoke, HandlerDies
<1>11. ASSUME Logout \/ RevokeAll \/ (\E to \in BOOLEAN : SetState(to))
       PROVE  UNCHANGED request
  BY <1>11, Zenon DEF Logout, RevokeAll, SetState
<1>12. ASSUME AccessExpires \/ CookieExpires \/ UNCHANGED vars
       PROVE  UNCHANGED request
  BY <1>12, Zenon DEF AccessExpires, CookieExpires, vars
<1> QED
  BY <1>2, <1>3, <1>4, <1>5, <1>6, <1>7, <1>8, <1>9, <1>10, <1>11, <1>12, Zenon
  DEF Next, ApiStep

(* Who writes the tokens.                                                  *)
LEMMA MintedStep ==
  ASSUME TypeInv, [Next]_vars
  PROVE  \/ UNCHANGED mintedFor /\ SameTokens
         \/ \E s \in SessionIds : Login(s)
         \/ \E h \in Handlers : Rotate(h)
<1>1. ASSUME UNCHANGED session  PROVE SameTokens
  <2>1. session' \in RowTable
    BY SessionKept
  <2> QED  BY <1>1, <2>1 DEF SameTokens
<1>2. ASSUME NEW s \in SessionIds, SessionExpires(s)  PROVE UNCHANGED mintedFor /\ SameTokens
  <2>1. SameTokens
    BY <1>2, RowExpired
  <2> QED  BY <1>2, <2>1, Zenon DEF SessionExpires
<1>3. ASSUME Logout  PROVE UNCHANGED mintedFor /\ SameTokens
  <2>1. {s \in Existing : jar.access = "valid" /\ session[s].current = jar.refresh} \in SUBSET Existing
    OBVIOUS
  <2>2. SameTokens
    BY <1>3, <2>1, RowsRevoked DEF Logout
  <2> QED  BY <1>3, <2>2, Zenon DEF Logout
<1>4. ASSUME RevokeAll  PROVE UNCHANGED mintedFor /\ SameTokens
  <2>1. SameTokens
    BY <1>4, RowsRevoked DEF RevokeAll
  <2> QED  BY <1>4, <2>1, Zenon DEF RevokeAll
<1>5. ASSUME NEW h \in Handlers, Revoke(h)  PROVE UNCHANGED mintedFor /\ SameTokens
  <2>1. SameTokens
    BY <1>5, RevokeRow
  <2> QED  BY <1>5, <2>1, Zenon DEF Revoke
<1>6. ASSUME Tick  PROVE UNCHANGED mintedFor /\ SameTokens
  <2>1. SameTokens
    BY <1>6, TickRows
  <2> QED  BY <1>6, <2>1, Zenon DEF Tick
<1>7. ASSUME NEW h \in Handlers, ReadSession(h) \/ Answer(h) \/ HandlerDies(h) \/ Abort(h)
      PROVE  UNCHANGED <<session, mintedFor>>
  BY <1>7, Zenon DEF ReadSession, Answer, HandlerDies, Abort
<1>8. ASSUME NEW r \in Requests, Reply(r) \/ ReplyLost(r)  PROVE UNCHANGED <<session, mintedFor>>
  BY <1>8, Zenon DEF Reply, ReplyLost
<1>9. ASSUME NEW r \in Requests, NEW i \in Instances, NEW kind \in {"page", "fetch"}, Send(r, i, kind)
      PROVE  UNCHANGED <<session, mintedFor>>
  BY <1>9, Zenon DEF Send
<1>10. ASSUME (\E to \in BOOLEAN : SetState(to)) \/ AccessExpires \/ CookieExpires \/ UNCHANGED vars
       PROVE  UNCHANGED <<session, mintedFor>>
  BY <1>10, Zenon DEF SetState, AccessExpires, CookieExpires, vars
<1> QED
  BY <1>1, <1>2, <1>3, <1>4, <1>5, <1>6, <1>7, <1>8, <1>9, <1>10, Zenon DEF Next, ApiStep

LEMMA MintedGrows ==
  ASSUME TypeInv, [Next]_vars
  PROVE  /\ mintedFor' \in Seq(SessionIds) /\ Minted' \in Nat /\ Minted' >= Minted
         /\ \A t \in 1..Minted : mintedFor'[t] = mintedFor[t]
<1>1. mintedFor \in Seq(SessionIds) /\ Minted \in Nat
  BY MintedFacts DEF TypeInv, Shapes
<1>2. CASE UNCHANGED mintedFor
  BY <1>1, <1>2 DEF Minted
<1>3. ASSUME NEW s, Minting1(s)
      PROVE  /\ mintedFor' \in Seq(SessionIds) /\ Minted' \in Nat /\ Minted' >= Minted
             /\ \A t \in 1..Minted : mintedFor'[t] = mintedFor[t]
  BY <1>1, <1>3 DEF Minting1
<1> QED  BY <1>2, <1>3, MintedStep, LoginEffect, RotateEffect

LEMMA RowTokensKept ==
  ASSUME TypeInv, [Next]_vars
  PROVE  RowTokens'
<1>0. RowTokens /\ Minted \in Nat
  BY MintedFacts DEF TypeInv
<1>1. CASE UNCHANGED mintedFor /\ SameTokens
  BY <1>0, <1>1 DEF RowTokens, SameTokens, Existing, Minted
<1>2. ASSUME NEW s \in SessionIds, Minting1(s), session'[s] \in Rows,
             session'[s].current = Minted + 1, s \in Existing \/ session'[s].previous = None,
             session'[s].previous # None =>
               session'[s].previous \in 1..Minted /\ mintedFor[session'[s].previous] = s,
             \A q \in SessionIds \ {s} : session'[q] = session[q]
      PROVE  RowTokens'
  <2>1. /\ Minted' = Minted + 1 /\ mintedFor'[Minted + 1] = s
        /\ \A t \in 1..Minted : mintedFor'[t] = mintedFor[t]
    BY <1>2 DEF Minting1
  <2>2. Existing' = Existing \union {s}
    BY <1>2, IdleIsNone DEF Existing
  <2>3. \A q \in Existing' :
          /\ session'[q].current \in 1..Minted' /\ mintedFor'[session'[q].current] = q
          /\ session'[q].previous # None =>
               session'[q].previous \in 1..Minted' /\ mintedFor'[session'[q].previous] = q
          /\ session'[q].previous # session'[q].current
    <3>1. ASSUME NEW q \in Existing, q # s
          PROVE  /\ session'[q] = session[q]
                 /\ session[q].current \in 1..Minted /\ mintedFor[session[q].current] = q
                 /\ session[q].previous # None =>
                      session[q].previous \in 1..Minted /\ mintedFor[session[q].previous] = q
                 /\ session[q].previous # session[q].current
      BY <1>0, <1>2, <3>1 DEF RowTokens, Existing
    <3>2. ASSUME NEW q \in Existing, q # s
          PROVE  /\ session'[q].current \in 1..Minted' /\ mintedFor'[session'[q].current] = q
                 /\ session'[q].previous # None =>
                      session'[q].previous \in 1..Minted' /\ mintedFor'[session'[q].previous] = q
                 /\ session'[q].previous # session'[q].current
      BY <3>1, <3>2, <2>1, <1>0
    <3>3. /\ session'[s].current \in 1..Minted' /\ mintedFor'[session'[s].current] = s
          /\ session'[s].previous # None =>
               session'[s].previous \in 1..Minted' /\ mintedFor'[session'[s].previous] = s
          /\ session'[s].previous # session'[s].current
      BY <1>0, <1>2, <2>1 DEF None
    <3> QED  BY <2>2, <3>2, <3>3
  <2>4. \A t \in 1..Minted' : mintedFor'[t] \in Existing'
    BY <1>0, <2>1, <2>2 DEF RowTokens
  <2> QED  BY <2>3, <2>4 DEF RowTokens
<1>3. ASSUME NEW s \in SessionIds, Login(s)  PROVE RowTokens'
  BY <1>2, <1>3, LoginEffect
<1>4. ASSUME NEW h \in Handlers, Rotate(h)  PROVE RowTokens'
  <2>1. /\ mintedFor[call[h].token] \in SessionIds /\ call[h].token \in 1..Minted
        /\ mintedFor[call[h].token] \in Existing
    BY <1>4, RotateEffect, CallTokens DEF Existing
  <2> QED  BY <1>2, <1>4, <2>1, RotateEffect
<1> QED  BY <1>1, <1>3, <1>4, MintedStep

(* Who writes the cookies.                                                 *)
LEMMA JarStep ==
  ASSUME TypeInv, [Next]_vars
  PROVE  \/ UNCHANGED jar
         \/ \E s \in SessionIds : Login(s)
         \/ \E r \in Requests : Reply(r)
         \/ jar' = EmptyJar
         \/ (AccessExpires \/ CookieExpires)
         \/ Tick
<1>1. ASSUME NEW h \in Handlers, ApiStep(h) \/ HandlerDies(h) \/ Abort(h)
      PROVE  UNCHANGED jar
  BY <1>1, Zenon DEF ApiStep, ReadSession, Rotate, Revoke, Answer, HandlerDies, Abort
<1>2. ASSUME NEW s \in SessionIds, SessionExpires(s)  PROVE UNCHANGED jar
  BY <1>2, Zenon DEF SessionExpires
<1>3. ASSUME NEW r \in Requests, ReplyLost(r)  PROVE UNCHANGED jar
  BY <1>3, Zenon DEF ReplyLost
<1>4. ASSUME NEW r \in Requests, NEW i \in Instances, NEW kind \in {"page", "fetch"}, Send(r, i, kind)
      PROVE  UNCHANGED jar
  BY <1>4, Zenon DEF Send
<1>5. ASSUME RevokeAll \/ (\E to \in BOOLEAN : SetState(to)) \/ UNCHANGED vars
      PROVE  UNCHANGED jar
  BY <1>5, Zenon DEF RevokeAll, SetState, vars
<1>6. ASSUME Logout  PROVE jar' = EmptyJar
  BY <1>6, Zenon DEF Logout
<1> QED  BY <1>1, <1>2, <1>3, <1>4, <1>5, <1>6, Zenon DEF Next

LEMMA JarKept ==
  ASSUME TypeInv, [Next]_vars
  PROVE  jar' \in Jars /\ jar'.refresh \in 0..Minted'
<1>0. /\ jar \in Jars /\ jar.refresh \in 0..Minted /\ Minted \in Nat
      /\ Minted' \in Nat /\ Minted' >= Minted
  BY JarFacts, MintedFacts, MintedGrows DEF TypeInv, UsedTokens
<1>1. ASSUME NEW token \in 0..Minted'
      PROVE  /\ FullJar(token) \in Jars /\ FullJar(token).refresh = token
             /\ EmptyJar \in Jars /\ EmptyJar.refresh = 0
  <2>1. token \in Nat
    BY <1>0
  <2> QED  BY <2>1, JarShapes DEF FullJar, EmptyJar, None
<1>2. ASSUME NEW s \in SessionIds, Login(s)  PROVE jar' \in Jars /\ jar'.refresh \in 0..Minted'
  <2>1. jar' = FullJar(Minted + 1) /\ Minted' = Minted + 1
    BY <1>2, LoginEffect DEF Minting1
  <2> QED  BY <1>0, <1>1, <2>1
<1>3. ASSUME NEW r \in Requests, Reply(r)  PROVE jar' \in Jars /\ jar'.refresh \in 0..Minted'
  <2>1. request[r].token \in 0..Minted
    BY <1>3 DEF Reply, TypeInv, UsedTokens
  <2>2. request[r].token \in 0..Minted'
    BY <1>0, <2>1
  <2> QED  BY <1>0, <1>1, <1>3, <2>2, ReplyEffect
<1>4. CASE jar' = EmptyJar
  BY <1>0, <1>1, <1>4
<1>5. CASE AccessExpires \/ CookieExpires
  BY <1>0, <1>5, CookieEffect
<1>6. CASE Tick
  BY <1>0, <1>6, TickJar
<1> QED  BY <1>0, <1>2, <1>3, <1>4, <1>5, <1>6, JarStep

(* What a step makes of a call: nothing, it moves on, it is new, it ends.  *)
Gives(h, token) ==
  /\ token \in 0..Minted'
  /\ token # None => mintedFor'[token] = mintedFor'[call[h].token]

Moves(h) ==
  /\ h \in Busy /\ call'[h] \in Calls
  /\ call'[h].token = call[h].token /\ call'[h].late = call[h].late
  /\ Gives(h, call'[h].gives)
  /\ call[h].step \notin {"read", "rotate"} => call'[h].step \notin {"read", "rotate"}

Begins(h) ==
  /\ call[h] = Idle /\ call'[h] \in Calls
  /\ call'[h].step = "read" /\ call'[h].token = jar.refresh /\ call'[h].gives = None
  /\ jar.refresh \in 1..Minted
  /\ call'[h].late = session[mintedFor[jar.refresh]].revoked
  /\ UNCHANGED <<mintedFor, session>>
  /\ \A g \in Handlers \ {h} : call'[g] = call[g]
  /\ Minted + Cardinality(Busy) < MaxTokens

LEMMA CallStep ==
  ASSUME TypeInv, [Next]_vars, NEW g \in Handlers
  PROVE  call'[g] = call[g] \/ call'[g] = Idle \/ Moves(g) \/ Begins(g)
<1>0. /\ Minted \in Nat /\ Minted' \in Nat /\ Minted' >= Minted
      /\ g \in Busy => call[g].gives \in 0..Minted
  BY MintedFacts, MintedGrows, CallTokens DEF TypeInv
<1>1. ASSUME NEW h \in Busy, NEW step \in {"answer", "revoke", "rotate", "dead"}, NEW gives,
             Gives(h, gives), CallBecomes(h, step, gives), step = "rotate" => call[h].step = "read"
      PROVE  call'[g] = call[g] \/ Moves(g)
  <2>1. CASE g = h
    BY <1>1, <2>1 DEF CallBecomes, Moves
  <2>2. CASE g # h
    BY <2>2, <1>1 DEF CallBecomes
  <2> QED  BY <2>1, <2>2
<1>2. ASSUME NEW h \in Handlers, CallEnds(h)  PROVE call'[g] = call[g] \/ call'[g] = Idle
  BY <1>2 DEF CallEnds
<1>3. ASSUME NEW h \in Busy  PROVE Gives(h, call[h].gives)
  <2>1. /\ call[h].gives \in 0..Minted /\ call[h].token \in 1..Minted
        /\ call[h].gives # None => mintedFor[call[h].gives] = mintedFor[call[h].token]
    BY CallTokens
  <2> QED  BY <1>0, <2>1, MintedGrows DEF Gives, None
<1>4. ASSUME NEW h \in Handlers, ReadSession(h)  PROVE call'[g] = call[g] \/ Moves(g)
  <2>1. h \in Busy /\ mintedFor[call[h].token] \in Existing /\ call[h].step = "read"
    BY <1>4, ReadEffect
  <2>2. Gives(h, session[mintedFor[call[h].token]].current)
    <3>1. /\ session[mintedFor[call[h].token]].current \in 1..Minted
          /\ mintedFor[session[mintedFor[call[h].token]].current] = mintedFor[call[h].token]
          /\ call[h].token \in 1..Minted
      BY <2>1, CallTokens DEF TypeInv, RowTokens
    <3> QED  BY <1>0, <3>1, MintedGrows DEF Gives
  <2> QED  BY <1>1, <1>3, <1>4, <2>1, <2>2, ReadEffect
<1>5. ASSUME NEW h \in Handlers, Rotate(h)  PROVE call'[g] = call[g] \/ Moves(g)
  <2>1. /\ h \in Busy /\ CallBecomes(h, "answer", Minted + 1) /\ Minted' = Minted + 1
        /\ mintedFor'[Minted + 1] = mintedFor[call[h].token]
    BY <1>5, RotateEffect DEF Minting1
  <2>2. Gives(h, Minted + 1)
    BY <1>0, <2>1, CallTokens, MintedGrows DEF Gives
  <2> QED  BY <1>1, <2>1, <2>2
<1>6. ASSUME NEW h \in Handlers, Revoke(h)  PROVE call'[g] = call[g] \/ Moves(g)
  BY <1>1, <1>3, <1>6, RevokeRow
<1>7. ASSUME NEW h \in Handlers, Answer(h)  PROVE call'[g] = call[g] \/ call'[g] = Idle
  BY <1>2, <1>7, AnswerEffect
<1>8. ASSUME NEW h \in Handlers, HandlerDies(h)
      PROVE  call'[g] = call[g] \/ call'[g] = Idle \/ Moves(g)
  BY <1>1, <1>2, <1>3, <1>8, DieEffect
<1>9. ASSUME NEW h \in Handlers, Abort(h)  PROVE call'[g] = call[g] \/ call'[g] = Idle
  BY <1>2, <1>9, AbortEffect
<1>10. ASSUME NEW r \in Requests, NEW i \in Instances, NEW kind \in {"page", "fetch"}, Send(r, i, kind)
       PROVE  call'[g] = call[g] \/ Begins(g)
  <2>1. UNCHANGED <<mintedFor, session>>
    BY <1>10 DEF Send
  <2> QED  BY <1>10, <2>1, SendEffect DEF Begins
<1>11. ASSUME NEW s \in SessionIds, Login(s) \/ SessionExpires(s)  PROVE UNCHANGED call
  BY <1>11, Zenon DEF Login, SessionExpires
<1>12. ASSUME NEW r \in Requests, Reply(r) \/ ReplyLost(r)  PROVE UNCHANGED call
  BY <1>12, Zenon DEF Reply, ReplyLost
<1>13. ASSUME Logout \/ RevokeAll \/ (\E to \in BOOLEAN : SetState(to))
       PROVE  UNCHANGED call
  BY <1>13, Zenon DEF Logout, RevokeAll, SetState
<1>14. ASSUME AccessExpires \/ CookieExpires \/ Tick \/ UNCHANGED vars
       PROVE  UNCHANGED call
  BY <1>14, Zenon DEF AccessExpires, CookieExpires, Tick, vars
<1> QED
  BY <1>4, <1>5, <1>6, <1>7, <1>8, <1>9, <1>10, <1>11, <1>12, <1>13, <1>14, Zenon
  DEF Next, ApiStep

(* Who writes the requests.                                                *)
LEMMA RequestStep ==
  ASSUME TypeInv, [Next]_vars
  PROVE  \/ UNCHANGED request
         \/ \E r \in Requests, i \in Instances, kind \in {"page", "fetch"} : Send(r, i, kind)
         \/ \E h \in Handlers : Answer(h) \/ Abort(h)
         \/ \E r \in Requests : RequestEnds(r)
         \/ Tick
<1>1. ASSUME NEW r \in Requests, Reply(r) \/ ReplyLost(r)  PROVE RequestEnds(r)
  BY <1>1, ReplyEffect, ReplyLostEffect
<1>2. ASSUME NEW s \in SessionIds, Login(s) \/ SessionExpires(s)  PROVE UNCHANGED request
  BY <1>2, Zenon DEF Login, SessionExpires
<1>3. ASSUME NEW h \in Handlers, ReadSession(h) \/ Rotate(h) \/ Revoke(h) \/ HandlerDies(h)
      PROVE  UNCHANGED request
  BY <1>3, Zenon DEF ReadSession, Rotate, Revoke, HandlerDies
<1>4. ASSUME Logout \/ RevokeAll \/ (\E to \in BOOLEAN : SetState(to))
      PROVE  UNCHANGED request
  BY <1>4, Zenon DEF Logout, RevokeAll, SetState
<1>5. ASSUME AccessExpires \/ CookieExpires \/ UNCHANGED vars
      PROVE  UNCHANGED request
  BY <1>5, Zenon DEF AccessExpires, CookieExpires, vars
<1> QED  BY <1>1, <1>2, <1>3, <1>4, <1>5, Zenon DEF Next, ApiStep

LEMMA UsedTokensKept ==
  ASSUME TypeInv, [Next]_vars
  PROVE  UsedTokens'
<1>0. /\ UsedTokens /\ Minted \in Nat /\ Minted' \in Nat /\ Minted' >= Minted
  BY MintedFacts, MintedGrows DEF TypeInv
<1> DEFINE Fits(r) == /\ request'[r].token \in 0..Minted'
                      /\ request'[r].token # None => request'[r].outcome = "tokens"
<1>1. ASSUME NEW r \in Requests, request'[r].step = "reply"
      PROVE  Fits(r)
  <2>0. request[r].step = "reply" => /\ request[r].token \in 0..Minted'
                                     /\ request[r].token # None => request[r].outcome = "tokens"
    BY <1>0 DEF UsedTokens
  <2>1. CASE request'[r] = request[r]
    BY <1>1, <2>0, <2>1
  <2>2. ASSUME NEW h \in Handlers, NEW token \in 0..Minted, Told(h, token)
        PROVE  Fits(r)
    BY <1>0, <1>1, <2>0, <2>2 DEF Told
  <2>3. ASSUME NEW h \in Handlers, Answer(h)  PROVE Fits(r)
    BY <2>2, <2>3, AnswerEffect, CallTokens
  <2>4. ASSUME NEW h \in Handlers, Abort(h)  PROVE Fits(r)
    BY <1>0, <2>2, <2>4, AbortEffect DEF None
  <2>5. ASSUME NEW q \in Requests, RequestEnds(q)  PROVE Fits(r)
    <3>1. r # q
      BY <1>1, <2>5, IdleIsNone DEF RequestEnds
    <3> QED  BY <2>1, <2>5, <3>1 DEF RequestEnds
  <2>6. CASE Tick
    <3>1. request[r] # Idle
      BY <1>1, <2>6, TickRequests, IdleIsNone DEF Older
    <3> QED  BY <1>1, <2>0, <2>6, <3>1, TickRequests DEF Older
  <2>7. ASSUME NEW q \in Requests, NEW i \in Instances, NEW kind \in {"page", "fetch"}, Send(q, i, kind)
        PROVE  Fits(r)
    <3>1. request'[q].step = "waiting" /\ \A p \in Requests \ {q} : request'[p] = request[p]
      BY <2>7, SendEffect, IdleIsNone
    <3> QED  BY <1>1, <2>1, <3>1
  <2> QED  BY <2>1, <2>3, <2>4, <2>5, <2>6, <2>7, RequestStep
<1>2. ASSUME NEW h \in Handlers, call'[h] # Idle
      PROVE  /\ call'[h].token \in 1..Minted' /\ call'[h].gives \in 0..Minted'
             /\ call'[h].gives # None => mintedFor'[call'[h].gives] = mintedFor'[call'[h].token]
  <2>1. CASE call'[h] = call[h]
    <3>1. h \in Busy
      BY <1>2, <2>1 DEF Busy
    <3> QED  BY <1>0, <2>1, <3>1, CallTokens, MintedGrows DEF None
  <2>2. CASE Moves(h)
    BY <1>0, <2>2, CallTokens DEF Moves, Gives
  <2>3. CASE Begins(h)
    BY <1>0, <2>3 DEF Begins, None
  <2> QED  BY <1>2, <2>1, <2>2, <2>3, CallStep
<1> QED  BY <1>1, <1>2, JarKept DEF UsedTokens, Busy

(* A call that someone waits for is not let go.                            *)
LEMMA CallLetGo ==
  ASSUME TypeInv, [Next]_vars, NEW g \in Busy, call'[g] = Idle
  PROVE  \/ Waiting(g) = {}
         \/ Told(g, call[g].gives) \/ Told(g, None)
<1>0. g \in Handlers /\ call[g] # Idle
  BY DEF Busy
<1>1. ASSUME NEW h \in Handlers, Answer(h)  PROVE Told(g, call[g].gives)
  <2>1. h = g
    BY <1>0, <1>1, AnswerEffect DEF CallEnds
  <2> QED  BY <1>1, <2>1, AnswerEffect
<1>2. ASSUME NEW h \in Handlers, Abort(h)  PROVE Told(g, None)
  <2>1. h = g
    BY <1>0, <1>2, AbortEffect DEF CallEnds
  <2> QED  BY <1>2, <2>1, AbortEffect
<1>3. ASSUME NEW h \in Handlers, HandlerDies(h)  PROVE Waiting(g) = {}
  <2>1. ~CallBecomes(h, "dead", call[h].gives)
    BY <1>0, <1>3, IdleIsNone DEF CallBecomes
  <2>2. Waiting(h) = {} /\ CallEnds(h)
    BY <1>3, <2>1, DieEffect
  <2> QED  BY <1>0, <2>2 DEF CallEnds
<1>4. ASSUME NEW h \in Handlers, NEW step, NEW gives, CallBecomes(h, step, gives)  PROVE FALSE
  BY <1>0, <1>4, IdleIsNone DEF CallBecomes
<1>5. ASSUME NEW h \in Handlers, ReadSession(h) \/ Rotate(h) \/ Revoke(h)  PROVE FALSE
  BY <1>4, <1>5, ReadEffect, RotateEffect, RevokeRow
<1>6. ASSUME NEW r \in Requests, NEW i \in Instances, NEW kind \in {"page", "fetch"}, Send(r, i, kind)
      PROVE  FALSE
  BY <1>0, <1>6, SendEffect, IdleIsNone
<1>7. ASSUME UNCHANGED call  PROVE FALSE
  BY <1>0, <1>7
<1>8. ASSUME NEW s \in SessionIds, Login(s) \/ SessionExpires(s)  PROVE UNCHANGED call
  BY <1>8, Zenon DEF Login, SessionExpires
<1>9. ASSUME NEW r \in Requests, Reply(r) \/ ReplyLost(r)  PROVE UNCHANGED call
  BY <1>9, Zenon DEF Reply, ReplyLost
<1>10. ASSUME Logout \/ RevokeAll \/ (\E to \in BOOLEAN : SetState(to))
       PROVE  UNCHANGED call
  BY <1>10, Zenon DEF Logout, RevokeAll, SetState
<1>11. ASSUME AccessExpires \/ CookieExpires \/ Tick \/ UNCHANGED vars
       PROVE  UNCHANGED call
  BY <1>11, Zenon DEF AccessExpires, CookieExpires, Tick, vars
<1> QED
  BY <1>1, <1>2, <1>3, <1>5, <1>6, <1>7, <1>8, <1>9, <1>10, <1>11, Zenon
  DEF Next, ApiStep

(* Whoever waits tomorrow waits today, or asks now.                        *)
LEMMA WhoWaits ==
  ASSUME TypeInv, [Next]_vars, NEW r \in Requests, request'[r].step = "waiting"
  PROVE  \/ request[r].step = "waiting" /\ request'[r].call = request[r].call
         \/ \E i \in Instances, kind \in {"page", "fetch"} : Send(r, i, kind)
<1>1. CASE request'[r] = request[r]
  BY <1>1
<1>2. ASSUME NEW h \in Handlers, NEW token, Told(h, token)
      PROVE  request'[r] = request[r]
  <2>1. r \notin Waiting(h)
    BY <1>2, IdleIsNone DEF Told
  <2> QED  BY <1>2, <2>1 DEF Told
<1>3. ASSUME NEW h \in Handlers, Answer(h) \/ Abort(h)  PROVE request'[r] = request[r]
  BY <1>2, <1>3, AnswerEffect, AbortEffect
<1>4. ASSUME NEW q \in Requests, RequestEnds(q)  PROVE request'[r] = request[r]
  BY <1>4, IdleIsNone DEF RequestEnds
<1>5. CASE Tick
  <2>1. request[r] # Idle
    BY <1>5, TickRequests, IdleIsNone DEF Older
  <2> QED  BY <1>5, <2>1, TickRequests DEF Older
<1>6. ASSUME NEW q \in Requests, NEW i \in Instances, NEW kind \in {"page", "fetch"}, Send(q, i, kind)
      PROVE  q = r \/ request'[r] = request[r]
  BY <1>6, SendEffect
<1> QED  BY <1>1, <1>3, <1>4, <1>5, <1>6, RequestStep

LEMMA WaitsForCallKept ==
  ASSUME TypeInv, [Next]_vars
  PROVE  WaitsForCall'
<1>1. ASSUME NEW r \in Requests, request'[r].step = "waiting"
      PROVE  request'[r].call \in Handlers /\ call'[request'[r].call] # Idle
  <2>1. CASE request[r].step = "waiting" /\ request'[r].call = request[r].call
    <3>1. PICK h \in Busy : request[r].call = h
      BY <2>1 DEF TypeInv, WaitsForCall
    <3>2. ASSUME call'[h] = Idle  PROVE FALSE
      <4>1. r \in Waiting(h)
        BY <2>1, <3>1 DEF Waiting
      <4>2. Told(h, call[h].gives) \/ Told(h, None)
        BY <3>2, <4>1, CallLetGo
      <4>3. request'[r] \in Replies
        BY <4>1, <4>2 DEF Told
      <4> QED  BY <1>1, <4>3, IdleIsNone
    <3> QED  BY <2>1, <3>1, <3>2 DEF Busy
  <2>2. ASSUME NEW i \in Instances, NEW kind \in {"page", "fetch"}, Send(r, i, kind)
        PROVE  request'[r].call \in Handlers /\ call'[request'[r].call] # Idle
    BY <2>2, SendEffect, IdleIsNone DEF InFlight
  <2> QED  BY <1>1, <2>1, <2>2, WhoWaits
<1> QED  BY <1>1 DEF WaitsForCall, Busy

(* Room for the tokens still to be minted.                                 *)
LEMMA MintingIsFinite ==
  ASSUME NEW S \in SUBSET Handlers
  PROVE  IsFiniteSet(S) /\ Cardinality(S) \in Nat
BY Constants, FS_Subset, FS_CardinalityType

LEMMA MintingIsBusy ==
  ASSUME TypeInv
  PROVE  Minting \subseteq Busy
BY CallFacts DEF Minting, TypeInv

LEMMA RoomKept ==
  ASSUME TypeInv, [Next]_vars
  PROVE  Room'
<1>0. /\ Room /\ Minted \in Nat /\ Cardinality(Minting) \in Nat /\ Cardinality(Busy) \in Nat
      /\ IsFiniteSet(Minting) /\ IsFiniteSet(Busy) /\ IsFiniteSet(Minting')
      /\ Minting \subseteq Handlers /\ Busy \subseteq Handlers /\ Minting' \subseteq Handlers
      /\ Cardinality(Minting') \in Nat
  <2>1. Minting \subseteq Handlers /\ Busy \subseteq Handlers /\ Minting' \subseteq Handlers
    BY DEF Minting, Busy
  <2> QED  BY <2>1, MintedFacts, MintingIsFinite DEF TypeInv
<1>1. Cardinality(Minting) <= Cardinality(Busy)
  BY <1>0, MintingIsBusy, FS_Subset
<1>2. ASSUME NEW h \in Handlers, Rotate(h)  PROVE Room'
  <2>1. /\ Minted' = Minted + 1 /\ h \in Minting /\ call'[h].step = "answer"
        /\ \A g \in Handlers \ {h} : call'[g] = call[g]
    BY <1>2, RotateEffect DEF Minting1, CallBecomes, Minting
  <2>2. Minting' = Minting \ {h}
    BY <1>0, <2>1 DEF Minting
  <2>3. Cardinality(Minting') = Cardinality(Minting) - 1
    BY <1>0, <2>1, <2>2, FS_RemoveElement
  <2> QED  BY <1>0, <2>1, <2>3, Constants DEF Room
<1>3. ASSUME NEW s \in SessionIds, Login(s)  PROVE Room'
  <2>1. Minted' = Minted + 1 /\ Minted + Cardinality(Busy) < MaxTokens
    BY <1>3, LoginEffect DEF Minting1
  <2>2. call' = call
    BY <1>3 DEF Login
  <2>3. Minting' = Minting
    BY <2>2 DEF Minting
  <2> QED  BY <1>0, <1>1, <2>1, <2>3, Constants DEF Room
<1>4. ASSUME UNCHANGED mintedFor, NEW h \in Handlers, Begins(h)  PROVE Room'
  <2>1. Minting' = Minting \union {h} /\ h \notin Minting
    BY <1>4, IdleIsNone DEF Begins, Minting
  <2>2. Cardinality(Minting') = Cardinality(Minting) + 1
    BY <1>0, <2>1, FS_AddElement
  <2>3. Minted' = Minted /\ Minted + Cardinality(Busy) < MaxTokens
    BY <1>4 DEF Begins, Minted
  <2> QED  BY <1>0, <1>1, <2>2, <2>3, Constants DEF Room
<1>5. ASSUME UNCHANGED mintedFor, \A h \in Handlers : ~Begins(h)  PROVE Room'
  <2>1. ASSUME NEW h \in Minting'  PROVE h \in Minting
    <3>1. h \in Handlers /\ call'[h].step \in {"read", "rotate"}
      BY <2>1 DEF Minting
    <3>2. call'[h] # Idle
      BY <3>1, IdleIsNone
    <3>3. call'[h] = call[h] \/ Moves(h)
      BY <1>5, <3>1, <3>2, CallStep
    <3> QED  BY <3>1, <3>3 DEF Moves, Minting
  <2>2. Cardinality(Minting') <= Cardinality(Minting)
    BY <1>0, <2>1, FS_Subset
  <2>3. Minted' = Minted
    BY <1>5 DEF Minted
  <2> QED  BY <1>0, <2>2, <2>3, Constants DEF Room
<1> QED  BY <1>2, <1>3, <1>4, <1>5, MintedStep

(* The rest: switches and histories.                                       *)
LEMMA HistoryKept ==
  ASSUME TypeInv, [Next]_vars
  PROVE  /\ active' \in BOOLEAN /\ closed' \in SUBSET SessionIds /\ closed \subseteq closed'
         /\ endings' \in Nat /\ faults' \in Nat /\ hurt' \in BOOLEAN /\ (hurt => hurt')
<1>0. /\ active \in BOOLEAN /\ closed \in SUBSET SessionIds
      /\ endings \in Nat /\ faults \in Nat /\ hurt \in BOOLEAN
      /\ Existing \subseteq SessionIds
  BY DEF TypeInv, Shapes, Existing
<1> DEFINE Goal == /\ active' \in BOOLEAN /\ closed' \in SUBSET SessionIds /\ closed \subseteq closed'
                   /\ endings' \in Nat /\ faults' \in Nat /\ hurt' \in BOOLEAN /\ (hurt => hurt')
<1>1. ASSUME NEW rows \in SUBSET SessionIds, Ends(rows), UNCHANGED <<faults, hurt>>, active' \in BOOLEAN
      PROVE  Goal
  BY <1>0, <1>1 DEF Ends
<1>2. ASSUME NEW s \in SessionIds, SessionExpires(s)  PROVE Goal
  <2>1. Ends({s}) /\ UNCHANGED <<faults, hurt>> /\ active' \in BOOLEAN
    BY <1>0, <1>2 DEF SessionExpires
  <2> QED  BY <1>1, <2>1
<1>3. ASSUME Logout  PROVE Goal
  <2>1. {s \in Existing : jar.access = "valid" /\ session[s].current = jar.refresh} \in SUBSET SessionIds
    BY <1>0
  <2> QED  BY <1>0, <1>1, <1>3, <2>1 DEF Logout, RevokeRows
<1>4. ASSUME RevokeAll  PROVE Goal
  BY <1>0, <1>1, <1>4 DEF RevokeAll, RevokeRows
<1>5. ASSUME NEW to \in BOOLEAN, SetState(to)  PROVE Goal
  BY <1>0, <1>1, <1>5 DEF SetState
<1>6. ASSUME NEW h \in Handlers, HandlerDies(h) \/ Abort(h)  PROVE Goal
  <2>1. UNCHANGED <<active, closed, endings>>
    BY <1>6, Zenon DEF HandlerDies, Abort
  <2>2. faults' = faults \/ faults' = faults + 1
    BY <1>6, Zenon DEF HandlerDies, Abort
  <2>3. hurt' \in BOOLEAN /\ (hurt => hurt')
    BY <1>0, <1>6, Zenon DEF HandlerDies, Abort
  <2>4. faults' \in Nat
    BY <1>0, <2>2
  <2> QED  BY <1>0, <2>1, <2>3, <2>4, Zenon
<1>7. ASSUME NEW r \in Requests, ReplyLost(r)  PROVE Goal
  BY <1>0, <1>7 DEF ReplyLost
<1>8. ASSUME UNCHANGED <<active, closed, endings, faults, hurt>>  PROVE Goal
  BY <1>0, <1>8
<1>14. ASSUME NEW s \in SessionIds, Login(s) \/ SessionExpires(s)  PROVE Goal
  BY <1>2, <1>8, <1>14, Zenon DEF Login
<1> HIDE DEF Goal
<1>9. ASSUME NEW h \in Handlers, ApiStep(h)  PROVE Goal
  BY <1>8, <1>9, Zenon DEF ApiStep, ReadSession, Rotate, Revoke, Answer
<1>11. ASSUME NEW r \in Requests, Reply(r)  PROVE Goal
  BY <1>8, <1>11, Zenon DEF Reply
<1>12. ASSUME NEW r \in Requests, NEW i \in Instances, NEW kind \in {"page", "fetch"}, Send(r, i, kind)
       PROVE  Goal
  BY <1>8, <1>12, Zenon DEF Send
<1>13. ASSUME AccessExpires \/ CookieExpires \/ Tick \/ UNCHANGED vars  PROVE Goal
  BY <1>8, <1>13, Zenon DEF AccessExpires, CookieExpires, Tick, vars
<1>15. ASSUME Next  PROVE Goal
  <2>1. ASSUME NEW h \in Handlers, ApiStep(h) \/ HandlerDies(h) \/ Abort(h)  PROVE Goal
    BY <1>6, <1>9, <2>1, Zenon
  <2>2. ASSUME NEW r \in Requests, Reply(r) \/ ReplyLost(r)  PROVE Goal
    BY <1>7, <1>11, <2>2, Zenon
  <2> QED
    BY <1>3, <1>4, <1>5, <1>12, <1>13, <1>14, <1>15, <2>1, <2>2, Zenon DEF Next
<1> QED  BY <1>13, <1>15 DEF Goal

LEMMA TypeInvKept ==
  ASSUME TypeInv, [Next]_vars
  PROVE  TypeInv'
<1>1. Shapes'
  BY SessionKept, MintedGrows, HistoryKept, JarKept, RequestKept, CallKept
  DEF Shapes, RowTable, RequestTable, CallTable
<1> QED  BY <1>1, RowTokensKept, UsedTokensKept, WaitsForCallKept, RoomKept DEF TypeInv

LEMMA TypeInvAtStart ==
  Init => TypeInv
<1>1. SUFFICES ASSUME Init  PROVE TypeInv
  OBVIOUS
<1>2. Minted = 0 /\ Existing = {} /\ Busy = {} /\ Minting = {}
  BY <1>1 DEF Init, Minted, Existing, Busy, Minting, Idle
<1>3. Cardinality(Minting) = 0
  BY <1>2, FS_EmptySet
<1>4. Shapes
  <2>1. jar = EmptyJar /\ EmptyJar \in Jars
    BY <1>1, Constants DEF Init, EmptyJar, Jars, None
  <2>2. /\ session \in [SessionIds -> Rows \union {Idle}]
        /\ request \in [Requests -> WaitingRequests \union Replies \union {Idle}]
        /\ call \in [Handlers -> Calls \union {Idle}]
    BY <1>1 DEF Init
  <2>3. mintedFor \in Seq(SessionIds)
    BY <1>1 DEF Init
  <2> QED  BY <1>1, <2>1, <2>2, <2>3 DEF Init, Shapes
<1>5. RowTokens /\ UsedTokens /\ WaitsForCall
  BY <1>1, <1>2 DEF Init, RowTokens, UsedTokens, WaitsForCall, EmptyJar, None, Idle
<1>6. Room
  BY <1>2, <1>3, Constants DEF Room
<1> QED  BY <1>4, <1>5, <1>6 DEF TypeInv

LEMMA TypeInvSuffices ==
  TypeInv => TypeOK
<1>1. SUFFICES ASSUME TypeInv  PROVE TypeOK
  OBVIOUS
<1>2. \A s \in Existing : /\ session[s].current \in 1..Minted
                          /\ session[s].previous \in 0..Minted
                          /\ session[s].age \in 0..Grace + 1
  <2>1. ASSUME NEW s \in Existing
        PROVE  /\ session[s].current \in 1..Minted
               /\ session[s].previous = None \/ session[s].previous \in 1..Minted
               /\ session[s].age \in 0..Grace + 1
    BY <1>1, SessionFacts DEF TypeInv, RowTokens, Existing, Rows
  <2> QED  BY <1>1, <2>1, MintedFacts DEF None, TypeInv
<1>3. mintedFor \in Seq(SessionIds) /\ Minted <= MaxTokens
  <2>1. Minted + Cardinality(Minting) <= MaxTokens /\ Minted \in Nat /\ Cardinality(Minting) \in Nat
    BY <1>1, MintedFacts, MintingIsFinite DEF TypeInv, Room, Minting
  <2> QED  BY <1>1, <2>1, Constants DEF TypeInv, Shapes
<1>4. jar \in [access : {"valid", "expired", "none"}, refresh : 0..Minted, age : 0..AccessLife]
  BY <1>1 DEF TypeInv, Shapes, Jars, UsedTokens
<1>5. \A r \in Requests :
        \/ request[r] = Idle
        \/ request[r].step = "waiting" /\ call[request[r].call] # Idle
        \/ request[r].step = "reply" /\ request[r].age <= Patience
  <2>1. ASSUME NEW r \in Requests, request[r] \in WaitingRequests
        PROVE  request[r].step = "waiting" /\ call[request[r].call] # Idle
    BY <1>1, <2>1, IdleIsNone DEF TypeInv, WaitsForCall, Busy
  <2>2. ASSUME NEW r \in Requests, request[r] \in Replies
        PROVE  request[r].step = "reply" /\ request[r].age <= Patience
    BY <2>2, Constants DEF Replies
  <2> QED  BY <1>1, <2>1, <2>2, RequestFacts DEF TypeInv
<1>6. closed \in SUBSET SessionIds /\ hurt \in BOOLEAN
  BY <1>1 DEF TypeInv, Shapes
<1> QED  BY <1>2, <1>3, <1>4, <1>5, <1>6 DEF TypeOK

(* The rows, cookies, requests and calls always have their form: a request *)
(* that waits has a call to wait for, and is under way no longer than      *)
(* TOPE_REFRESCO_MS.                                                       *)
THEOREM SessionTypes == Spec => []TypeOK
<1>1. Spec => []TypeInv
  <2>1. TypeInv /\ [Next]_vars => TypeInv'
    BY TypeInvKept
  <2> QED  BY TypeInvAtStart, <2>1, PTL DEF Spec
<1> QED  BY <1>1, TypeInvSuffices, PTL

-----------------------------------------------------------------------------
(* What is revoked stays revoked, and a call that began then gets nothing. *)
LEMMA RevokedPersists ==
  ASSUME TypeInv, [Next]_vars, NEW t \in 1..Minted, session[mintedFor[t]].revoked
  PROVE  mintedFor'[t] = mintedFor[t] /\ session'[mintedFor'[t]].revoked
<1> DEFINE s == mintedFor[t]
<1>1. mintedFor'[t] = s
  BY MintedGrows
<1>2. s \in Existing /\ s \in SessionIds /\ session[s] # Idle
  BY DEF TypeInv, RowTokens, Existing
<1>3. CASE SameTokens
  BY <1>1, <1>2, <1>3 DEF SameTokens
<1>4. ASSUME NEW q \in SessionIds, Login(q)  PROVE session'[s] = session[s]
  BY <1>2, <1>4, LoginEffect
<1>5. ASSUME NEW h \in Handlers, Rotate(h)  PROVE session'[s].revoked = session[s].revoked
  BY <1>2, <1>5, RotateEffect
<1> QED  BY <1>1, <1>3, <1>4, <1>5, MintedStep

LEMMA LateCallGetsNothing ==
  ASSUME TypeInv, LateIsDenied, [Next]_vars, NEW g \in Busy, call[g].late, call'[g] # Idle
  PROVE  call'[g] = call[g] \/ (call'[g].step # "rotate" /\ call'[g].gives = None)
<1>0. /\ g \in Handlers /\ call[g] # Idle /\ call[g].step # "rotate" /\ call[g].gives = None
      /\ session[mintedFor[call[g].token]].revoked
  BY DEF LateIsDenied, Busy
<1> DEFINE Goal == call'[g] = call[g] \/ (call'[g].step # "rotate" /\ call'[g].gives = None)
<1>1. ASSUME NEW h \in Handlers, NEW step, NEW gives, CallBecomes(h, step, gives),
             h = g => step # "rotate" /\ gives = None
      PROVE  Goal
  BY <1>0, <1>1 DEF CallBecomes
<1>2. ASSUME NEW h \in Handlers, CallEnds(h)  PROVE Goal
  BY <1>0, <1>2 DEF CallEnds
<1>3. ASSUME NEW h \in Handlers, ReadSession(h)  PROVE Goal
  <2>1. CASE h = g
    <3>1. Dead(mintedFor[call[g].token])
      BY <1>0 DEF Dead
    <3>2. CallBecomes(h, "answer", call[h].gives)
      BY <1>3, <2>1, <3>1, ReadEffect
    <3> QED  BY <1>0, <1>1, <2>1, <3>2
  <2>2. CASE h # g
    <3>1. PICK step, gives : CallBecomes(h, step, gives)
      BY <1>3, ReadEffect
    <3> QED  BY <1>1, <2>2, <3>1
  <2> QED  BY <2>1, <2>2
<1>4. ASSUME NEW h \in Handlers, Rotate(h)  PROVE Goal
  <2>1. h # g /\ CallBecomes(h, "answer", Minted + 1)
    BY <1>0, <1>4, RotateEffect
  <2> QED  BY <1>1, <2>1
<1>5. ASSUME NEW h \in Handlers, Revoke(h)  PROVE Goal
  <2>1. CallBecomes(h, "answer", call[h].gives)
    BY <1>5, RevokeRow
  <2> QED  BY <1>0, <1>1, <2>1
<1>6. ASSUME NEW h \in Handlers, HandlerDies(h)  PROVE Goal
  <2>1. CallEnds(h) \/ CallBecomes(h, "dead", call[h].gives)
    BY <1>6, DieEffect
  <2> QED  BY <1>0, <1>1, <1>2, <2>1
<1>7. ASSUME NEW h \in Handlers, Answer(h)  PROVE Goal
  BY <1>2, <1>7, AnswerEffect
<1>8. ASSUME NEW h \in Handlers, Abort(h)  PROVE Goal
  BY <1>2, <1>8, AbortEffect
<1>9. ASSUME NEW r \in Requests, NEW i \in Instances, NEW kind \in {"page", "fetch"}, Send(r, i, kind)
      PROVE  Goal
  BY <1>0, <1>9, SendEffect
<1>10. ASSUME UNCHANGED call  PROVE Goal
  BY <1>10
<1> HIDE DEF Goal
<1>11. ASSUME NEW s \in SessionIds, Login(s) \/ SessionExpires(s)  PROVE Goal
  BY <1>10, <1>11, Zenon DEF Login, SessionExpires
<1>12. ASSUME NEW r \in Requests, Reply(r) \/ ReplyLost(r)  PROVE Goal
  BY <1>10, <1>12, Zenon DEF Reply, ReplyLost
<1>13. ASSUME Logout \/ RevokeAll \/ (\E to \in BOOLEAN : SetState(to))  PROVE Goal
  BY <1>10, <1>13, Zenon DEF Logout, RevokeAll, SetState
<1>14. ASSUME AccessExpires \/ CookieExpires \/ Tick \/ UNCHANGED vars  PROVE Goal
  BY <1>10, <1>14, Zenon DEF AccessExpires, CookieExpires, Tick, vars
<1>15. Goal
  BY <1>3, <1>4, <1>5, <1>6, <1>7, <1>8, <1>9, <1>11, <1>12, <1>13, <1>14, Zenon
  DEF Next, ApiStep
<1> QED  BY <1>15 DEF Goal

LEMMA LateKept ==
  ASSUME TypeInv, LateIsDenied, [Next]_vars
  PROVE  LateIsDenied'
<1>1. SUFFICES ASSUME NEW h \in Handlers, call'[h] # Idle, call'[h].late
               PROVE  /\ call'[h].step # "rotate" /\ call'[h].gives = None
                      /\ session'[mintedFor'[call'[h].token]].revoked
  BY DEF LateIsDenied, Busy
<1>2. CASE Begins(h)
  BY <1>1, <1>2 DEF Begins
<1>3. CASE call'[h] = call[h] \/ Moves(h)
  <2>1. h \in Busy /\ call[h].late /\ call'[h].token = call[h].token
    BY <1>1, <1>3 DEF Moves, Busy
  <2>2. /\ call[h].step # "rotate" /\ call[h].gives = None
        /\ session[mintedFor[call[h].token]].revoked /\ call[h].token \in 1..Minted
    BY <2>1, CallTokens DEF LateIsDenied
  <2>3. session'[mintedFor'[call'[h].token]].revoked
    BY <2>1, <2>2, RevokedPersists
  <2> QED  BY <1>1, <2>1, <2>2, <2>3, LateCallGetsNothing
<1> QED  BY <1>1, <1>2, <1>3, CallStep

(* A refresh that begins on a revoked session gets no tokens, neither new  *)
(* ones nor the current one, whatever else is under way on that session.   *)
THEOREM RevokedSafety == Spec => []RevokedStaysDead
<1>1. Init => TypeInv /\ LateIsDenied
  BY TypeInvAtStart DEF Init, LateIsDenied, Busy
<1>2. TypeInv /\ LateIsDenied /\ [Next]_vars => (TypeInv /\ LateIsDenied)'
  BY TypeInvKept, LateKept
<1>3. LateIsDenied => RevokedStaysDead
  BY DEF LateIsDenied, RevokedStaysDead, Busy
<1> QED  BY <1>1, <1>2, <1>3, PTL DEF Spec

-----------------------------------------------------------------------------
(* One portal keeps its user.  The portal is one process; the API remembers *)
(* the token before for as long as two requests may take one after the     *)
(* other, and an access token outlives a request.                          *)
OneInstance == \A i, j \in Instances : i = j
GraceIsEnough == Patience < AccessLife /\ 2 * Patience <= Grace

RowStands(s) ==
  /\ session'[s] # Idle
  /\ session'[s].current = session[s].current /\ session'[s].previous = session[s].previous

LEMMA KeptFacts ==
  ASSUME TypeInv, NEW s \in Kept
  PROVE  /\ s \in SessionIds /\ s \in Existing /\ session[s] \in Rows
         /\ Cur(s) \in 1..Minted /\ mintedFor[Cur(s)] = s /\ Cur(s) # Prev(s)
         /\ Prev(s) # None => Prev(s) \in 1..Minted /\ mintedFor[Prev(s)] = s
         /\ session[s].age \in 0..Grace + 1
BY SessionFacts DEF TypeInv, RowTokens, Kept, Existing, Cur, Prev, Rows

LEMMA SameJar ==
  ASSUME TypeInv, [Next]_vars, NEW s, jar'.refresh = jar.refresh
  PROVE  JarOf(s)' <=> JarOf(s)
<1>1. jar.refresh # None => jar.refresh \in 1..Minted
  BY MintedFacts DEF TypeInv, UsedTokens, None
<1>2. jar.refresh # None => mintedFor'[jar.refresh] = mintedFor[jar.refresh]
  BY <1>1, MintedGrows
<1> QED  BY <1>2 DEF JarOf

LEMMA SameReply ==
  ASSUME TypeInv, [Next]_vars, NEW s, NEW r \in Requests, request'[r].step = request[r].step,
         request[r].step = "reply" => request'[r].token = request[r].token
  PROVE  ReplyOf(r, s)' <=> ReplyOf(r, s)
<1>1. request[r].step = "reply" /\ request[r].token # None => request[r].token \in 1..Minted
  BY MintedFacts DEF TypeInv, UsedTokens, None
<1>2. request[r].step = "reply" /\ request[r].token # None =>
        mintedFor'[request[r].token] = mintedFor[request[r].token]
  BY <1>1, MintedGrows
<1> QED  BY <1>2 DEF ReplyOf

LEMMA SameOwner ==
  ASSUME TypeInv, [Next]_vars, NEW s, NEW h \in Busy, call'[h] # Idle,
         call'[h].token = call[h].token
  PROVE  h \in CallsOf(s)' <=> h \in CallsOf(s)
<1>1. mintedFor'[call[h].token] = mintedFor[call[h].token]
  BY CallTokens, MintedGrows
<1>2. h \in Busy'
  BY DEF Busy
<1> QED  BY <1>1, <1>2 DEF CallsOf

(* A call of another session moves, or one of this in good order.          *)
InOrder(h, s, step, gives) ==
  /\ step # "revoke" /\ step # "read"
  /\ step = "rotate" => call[h].token = Cur(s)
  /\ step = "rotate" => gives = None
  /\ gives # None => call[h].token = Prev(s) /\ gives = Cur(s)
  /\ call[h].gives # None => gives # None

LEMMA ServedWhileCallMoves ==
  ASSUME TypeInv, [Next]_vars, NEW s \in Kept, Served(s), NEW h \in Busy, NEW step, NEW gives,
         CallBecomes(h, step, gives), h \in CallsOf(s) => InOrder(h, s, step, gives),
         RowStands(s), session'[s].age = session[s].age, UNCHANGED <<jar, request>>
  PROVE  Served(s)'
<1>1. /\ Cur(s)' = Cur(s) /\ Prev(s)' = Prev(s)
      /\ JarOf(s)' <=> JarOf(s)
      /\ \A r \in Requests : /\ ReplyOf(r, s)' <=> ReplyOf(r, s)
                             /\ Waits(r)' <=> Waits(r)
  BY SameJar, SameReply DEF RowStands, Cur, Prev, Waits
<1>2. ASSUME NEW g \in Busy
      PROVE  /\ call'[g] # Idle /\ call'[g].token = call[g].token
             /\ g # h => call'[g] = call[g]
  <2>1. g \in Handlers /\ call[g] # Idle
    BY DEF Busy
  <2> QED  BY <2>1, IdleIsNone DEF CallBecomes
<1>3. CallsOf(s)' = CallsOf(s)
  <2>1. Busy' = Busy
    <3>1. ASSUME NEW g \in Busy'  PROVE g \in Busy
      BY <3>1 DEF Busy, CallBecomes
    <3> QED  BY <1>2, <3>1 DEF Busy
  <2> QED  BY <1>2, <2>1, SameOwner DEF CallsOf
<1>4. \A g \in CallsOf(s) : g \in Busy
  BY DEF CallsOf
<1>5. KnownTokens(s)'
  <2>1. ASSUME NEW g \in CallsOf(s)
        PROVE  /\ call'[g].token \in {Cur(s), Prev(s)}
               /\ call'[g].step # "revoke"
               /\ call'[g].step = "rotate" => call'[g].token = Cur(s)
               /\ call'[g].step \in {"read", "rotate"} => call'[g].gives = None
               /\ call'[g].gives # None => call'[g].token = Prev(s) /\ call'[g].gives = Cur(s)
    <3>1. CASE g = h
      BY <3>1, <2>1 DEF Served, KnownTokens, InOrder, CallBecomes
    <3>2. CASE g # h
      BY <3>2, <2>1, <1>2, <1>4 DEF Served, KnownTokens
    <3> QED  BY <3>1, <3>2
  <2> QED  BY <1>1, <1>3, <2>1 DEF Served, KnownTokens
<1>6. NothingOlder(s)'
  BY <1>1, <1>2, <1>3, <1>4 DEF Served, NothingOlder
<1>7. OlderFirst(s)'
  BY <1>1, <1>2, <1>3, <1>4 DEF Served, OlderFirst
<1>8. AnswerComes(s)'
  <2>1. ASSUME NEW r \in Requests, Brings(r, s)  PROVE Brings(r, s)'
    <3>1. CASE ReplyOf(r, s)
      BY <1>1, <2>1, <3>1 DEF Brings
    <3>2. CASE Waits(r) /\ request[r].call \in CallsOf(s) /\ call[request[r].call].gives # None
      <4>1. call'[request[r].call].gives # None
        <5>1. CASE request[r].call = h
          BY <3>2, <5>1 DEF InOrder, CallBecomes
        <5>2. CASE request[r].call # h
          BY <3>2, <5>2, <1>2, <1>4
        <5> QED  BY <5>1, <5>2
      <4> QED  BY <1>1, <1>3, <2>1, <3>2, <4>1 DEF Brings
    <3> QED  BY <2>1, <3>1, <3>2 DEF Brings
  <2> QED  BY <1>1, <2>1 DEF Served, AnswerComes
<1>9. PresentedSoon(s)'
  <2>1. ASSUME NEW r \in Requests, Waits(r), request[r].call \in CallsOf(s),
               call'[request[r].call].step = "read", call'[request[r].call].token # Cur(s)
        PROVE  session[s].age <= Patience + request[r].age
    <3>1. request[r].call # h
      BY <2>1 DEF InOrder, CallBecomes
    <3>2. call'[request[r].call] = call[request[r].call]
      BY <1>2, <1>4, <2>1, <3>1
    <3> QED  BY <2>1, <3>2 DEF Served, PresentedSoon
  <2> QED  BY <1>1, <1>3, <2>1 DEF PresentedSoon
<1> QED  BY <1>5, <1>6, <1>7, <1>8, <1>9 DEF Served

LEMMA ServedWhenRotated ==
  ASSUME TypeInv, [Next]_vars, CallsShared, NEW h \in Handlers, Rotate(h),
         NEW s \in Kept, s = mintedFor[call[h].token], Served(s)
  PROVE  Served(s)'
<1>1. /\ h \in Busy /\ h \in CallsOf(s) /\ call[h].step = "rotate"
      /\ call[h].token = Cur(s) /\ call[h].token \in 1..Minted /\ Minted \in Nat
  BY RotateEffect, CallTokens, MintedFacts DEF CallsOf, Served, KnownTokens, TypeInv
<1>2. /\ \A g \in CallsOf(s) : g = h
      /\ \A r \in Requests : ~ReplyOf(r, s)
      /\ JarOf(s) => jar.refresh = Cur(s)
  BY <1>1 DEF Served, NothingOlder, CallsShared, CallsOf
<1>3. /\ Cur(s)' = Minted + 1 /\ Prev(s)' = Cur(s) /\ session'[s].age = 0
      /\ CallBecomes(h, "answer", Minted + 1)
  BY <1>1, RotateEffect DEF Cur, Prev
<1>4. UNCHANGED <<jar, request>>
  BY DEF Rotate
<1>5. /\ JarOf(s)' <=> JarOf(s)
      /\ \A r \in Requests : ~ReplyOf(r, s)' /\ (Waits(r)' <=> Waits(r))
  BY <1>2, <1>4, SameJar, SameReply DEF Waits
<1>6. \A g \in CallsOf(s)' : g = h
  <2>1. ASSUME NEW g \in CallsOf(s)', g # h  PROVE FALSE
    <3>1. g \in Handlers /\ call'[g] # Idle
      BY <2>1 DEF CallsOf, Busy
    <3>2. call'[g] = call[g] /\ g \in Busy
      BY <1>3, <2>1, <3>1 DEF CallBecomes, Busy
    <3>3. g \in CallsOf(s)
      BY <2>1, <3>1, <3>2, SameOwner
    <3> QED  BY <1>2, <2>1, <3>3
  <2> QED  BY <2>1
<1>7. call'[h].step = "answer" /\ call'[h].gives = Minted + 1 /\ call'[h].token = Cur(s)
  BY <1>1, <1>3 DEF CallBecomes
<1>8. h \in CallsOf(s)'
  <2>1. call'[h] # Idle
    BY <1>3, IdleIsNone DEF CallBecomes
  <2> QED  BY <1>1, <1>7, <2>1, SameOwner
<1>9. KnownTokens(s)'
  BY <1>2, <1>3, <1>4, <1>5, <1>6, <1>7 DEF KnownTokens
<1>10. NothingOlder(s)'
  BY <1>1, <1>3, <1>6, <1>7 DEF NothingOlder
<1>11. OlderFirst(s)'
  <2>1. JarOf(s) => jar.refresh # Minted + 1
    BY <1>1, <1>2
  <2> QED  BY <1>3, <1>4, <1>5, <2>1 DEF OlderFirst
<1>12. AnswerComes(s)'
  <2>1. PICK r \in Requests : Waits(r) /\ request[r].call = h
    BY <1>1 DEF CallsShared, Waiting, Waits
  <2>2. request[r].age >= 0
    <3>1. request[r] \in WaitingRequests
      BY <2>1, RequestFacts DEF Waits, TypeInv
    <3> QED  BY <3>1, Constants DEF WaitingRequests
  <2>3. Brings(r, s)'
    <3>1. Waits(r)' /\ request'[r].call = h /\ request'[r].age >= session'[s].age
      BY <1>3, <1>4, <1>5, <2>1, <2>2
    <3>2. call'[h].gives # None
      BY <1>1, <1>7 DEF None
    <3> QED  BY <1>8, <3>1, <3>2 DEF Brings
  <2> QED  BY <2>3 DEF AnswerComes
<1>13. PresentedSoon(s)'
  BY <1>6, <1>7 DEF PresentedSoon
<1> QED  BY <1>9, <1>10, <1>11, <1>12, <1>13 DEF Served

LEMMA ServedWhenAnswered ==
  ASSUME TypeInv, [Next]_vars, NEW h \in Handlers, Answer(h), NEW s \in Kept, Served(s)
  PROVE  Served(s)'
<1>1. /\ h \in Busy /\ call[h].step = "answer" /\ CallEnds(h) /\ Told(h, call[h].gives)
      /\ call[h].gives \in 0..Minted /\ call[h].token \in 1..Minted
  BY AnswerEffect, CallTokens
<1>2. UNCHANGED <<session, mintedFor, jar>>
  BY DEF Answer
<1>3. /\ Cur(s)' = Cur(s) /\ Prev(s)' = Prev(s)
      /\ JarOf(s)' <=> JarOf(s)
  BY <1>2, SameJar DEF Cur, Prev
<1>4. CallsOf(s)' = CallsOf(s) \ {h}
  <2>1. ASSUME NEW g \in CallsOf(s)'  PROVE g \in CallsOf(s) \ {h}
    <3>1. g \in Handlers /\ call'[g] # Idle
      BY <2>1 DEF CallsOf, Busy
    <3>2. g # h /\ call'[g] = call[g] /\ g \in Busy
      BY <1>1, <3>1 DEF CallEnds, Busy
    <3> QED  BY <2>1, <3>1, <3>2, SameOwner
  <2>2. ASSUME NEW g \in CallsOf(s) \ {h}  PROVE g \in CallsOf(s)'
    <3>1. g \in Busy /\ g \in Handlers /\ call[g] # Idle /\ call'[g] = call[g]
      BY <1>1, <2>2 DEF CallsOf, Busy, CallEnds
    <3> QED  BY <2>2, <3>1, SameOwner
  <2> QED  BY <2>1, <2>2
<1>5. ASSUME NEW g \in CallsOf(s) \ {h}  PROVE call'[g] = call[g]
  BY <1>1, <1>5 DEF CallsOf, Busy, CallEnds
<1>6. ASSUME NEW r \in Waiting(h)
      PROVE  /\ ~Waits(r)' /\ request'[r].age = request[r].age
             /\ ReplyOf(r, s)' => h \in CallsOf(s) /\ request'[r].token = Cur(s)
                                  /\ call[h].gives # None
             /\ h \in CallsOf(s) /\ call[h].gives # None => ReplyOf(r, s)'
  <2>1. /\ request'[r].step = "reply" /\ request'[r].token = call[h].gives
        /\ request'[r].age = request[r].age
    BY <1>1, IdleIsNone DEF Told
  <2>2. ReplyOf(r, s)' <=> call[h].gives # None /\ mintedFor[call[h].gives] = s
    BY <1>2, <2>1 DEF ReplyOf
  <2>3. call[h].gives # None => (mintedFor[call[h].gives] = s <=> h \in CallsOf(s))
    BY <1>1, CallTokens DEF CallsOf
  <2>4. h \in CallsOf(s) /\ call[h].gives # None => call[h].gives = Cur(s)
    BY DEF Served, KnownTokens
  <2> QED  BY <2>1, <2>2, <2>3, <2>4 DEF Waits
<1>7. ASSUME NEW r \in Requests \ Waiting(h)
      PROVE  /\ request'[r] = request[r]
             /\ Waits(r)' <=> Waits(r)
             /\ ReplyOf(r, s)' <=> ReplyOf(r, s)
             /\ Waits(r) => request[r].call # h
  BY <1>1, <1>7, SameReply DEF Told, Waiting, Waits
<1>8. \A r \in Waiting(h) : r \in Requests /\ Waits(r) /\ request[r].call = h
  BY DEF Waiting, Waits
<1>9. h \in CallsOf(s) /\ call[h].gives # None => call[h].token = Prev(s)
  BY DEF Served, KnownTokens
<1>10. KnownTokens(s)'
  <2>1. \A r \in Requests : ReplyOf(r, s)' => request'[r].token = Cur(s)
    BY <1>6, <1>7 DEF Served, KnownTokens
  <2> QED  BY <1>2, <1>3, <1>4, <1>5, <2>1 DEF Served, KnownTokens
<1>11. NothingOlder(s)'
  <2>1. SUFFICES ASSUME NEW g \in CallsOf(s) \ {h}, call[g].token = Cur(s)
                 PROVE  /\ \A f \in CallsOf(s)' : call'[f].token = Cur(s)
                        /\ \A r \in Requests : ~ReplyOf(r, s)'
                        /\ JarOf(s)' => jar'.refresh = Cur(s)
    BY <1>3, <1>4, <1>5 DEF NothingOlder
  <2>2. /\ \A f \in CallsOf(s) : call[f].token = Cur(s)
        /\ \A r \in Requests : ~ReplyOf(r, s)
        /\ JarOf(s) => jar.refresh = Cur(s)
    BY <2>1 DEF Served, NothingOlder
  <2>3. ASSUME NEW r \in Waiting(h)  PROVE ~ReplyOf(r, s)'
    BY <1>6, <1>9, <2>2, KeptFacts
  <2> QED  BY <1>2, <1>3, <1>4, <1>5, <1>7, <2>2, <2>3
<1>12. OlderFirst(s)'
  <2>1. SUFFICES ASSUME JarOf(s), jar.refresh = Cur(s), NEW r \in Requests
                 PROVE  /\ ReplyOf(r, s)' => request'[r].age >= jar.age
                        /\ Waits(r)' /\ request'[r].call \in CallsOf(s)'
                             /\ call'[request'[r].call].token # Cur(s)
                             => request'[r].age >= jar.age
    BY <1>2, <1>3 DEF OlderFirst
  <2>2. /\ ReplyOf(r, s) => request[r].age >= jar.age
        /\ Waits(r) /\ request[r].call \in CallsOf(s) /\ call[request[r].call].token # Cur(s)
             => request[r].age >= jar.age
    BY <2>1 DEF Served, OlderFirst
  <2>3. CASE r \in Waiting(h)
    BY <1>6, <1>8, <1>9, <2>2, <2>3, KeptFacts
  <2>4. CASE r \notin Waiting(h)
    BY <1>4, <1>5, <1>7, <2>2, <2>4
  <2> QED  BY <2>3, <2>4
<1>13. AnswerComes(s)'
  <2>1. ASSUME NEW r \in Requests, Brings(r, s)  PROVE Brings(r, s)'
    <3>1. CASE r \in Waiting(h)
      <4>1. ~ReplyOf(r, s) /\ request[r].call = h
        BY <1>8, <3>1 DEF ReplyOf, Waits
      <4>2. h \in CallsOf(s) /\ call[h].gives # None /\ request[r].age >= session[s].age
        BY <2>1, <4>1 DEF Brings
      <4> QED  BY <1>2, <1>6, <3>1, <4>2 DEF Brings
    <3>2. CASE r \notin Waiting(h)
      BY <1>2, <1>4, <1>5, <1>7, <2>1, <3>2 DEF Brings
    <3> QED  BY <3>1, <3>2
  <2> QED  BY <1>2, <1>3, <2>1 DEF Served, AnswerComes
<1>14. PresentedSoon(s)'
  <2>1. ASSUME NEW r \in Requests, Waits(r)', request'[r].call \in CallsOf(s)',
               call'[request'[r].call].step = "read", call'[request'[r].call].token # Cur(s)
        PROVE  session[s].age <= Patience + request'[r].age
    <3>1. r \notin Waiting(h)
      BY <1>6, <2>1
    <3> QED  BY <1>4, <1>5, <1>7, <2>1, <3>1 DEF Served, PresentedSoon
  <2> QED  BY <1>2, <1>3, <2>1 DEF PresentedSoon
<1> QED  BY <1>10, <1>11, <1>12, <1>13, <1>14 DEF Served

(* The browser takes an answer, or loses its cookies.                      *)
LEMMA ServedWhenReplied ==
  ASSUME TypeInv, [Next]_vars, NEW q \in Requests, Reply(q), NEW s \in Kept, Served(s)
  PROVE  Served(s)'
<1>1. /\ RequestEnds(q) /\ request[q].step = "reply"
      /\ request[q].outcome = "tokens" => jar' = FullJar(request[q].token)
      /\ request[q].outcome # "tokens" => jar' = EmptyJar \/ jar' = jar
      /\ request[q].token # None => request[q].outcome = "tokens"
      /\ request[q].token \in 0..Minted
  BY ReplyEffect DEF Reply, TypeInv, UsedTokens
<1>2. UNCHANGED <<session, mintedFor, call>>
  BY DEF Reply
<1>3. /\ Cur(s)' = Cur(s) /\ Prev(s)' = Prev(s) /\ CallsOf(s)' = CallsOf(s)
  BY <1>2 DEF Cur, Prev, CallsOf, Busy
<1>4. request'[q] = Idle /\ ~Waits(q)' /\ ~ReplyOf(q, s)' /\ ~Waits(q)
  BY <1>1, IdleIsNone DEF RequestEnds, Waits, ReplyOf
<1>5. \A r \in Requests \ {q} : /\ request'[r] = request[r]
                                /\ ReplyOf(r, s)' <=> ReplyOf(r, s)
                                /\ Waits(r)' <=> Waits(r)
  BY <1>1, <1>2 DEF RequestEnds, ReplyOf, Waits
<1>6. FullJar(request[q].token).refresh = request[q].token /\ FullJar(request[q].token).age = 0
      /\ EmptyJar.refresh = None
  BY DEF FullJar, EmptyJar
<1>7. CASE ReplyOf(q, s)
  <2>1. jar'.refresh = Cur(s) /\ jar'.age = 0 /\ JarOf(s)'
    BY <1>1, <1>2, <1>6, <1>7 DEF ReplyOf, Served, KnownTokens, JarOf
  <2>2. KnownTokens(s)'
    BY <1>2, <1>3, <1>4, <1>5, <2>1 DEF Served, KnownTokens
  <2>3. NothingOlder(s)'
    BY <1>2, <1>3, <1>4, <1>5, <2>1 DEF Served, NothingOlder
  <2>4. OlderFirst(s)'
    <3>1. \A r \in Requests : ReplyOf(r, s)' \/ Waits(r)' => request'[r].age >= 0
      <4>1. ASSUME NEW r \in Requests, request[r].step \in {"reply", "waiting"}
            PROVE  request[r].age >= 0
        BY <4>1, RequestFacts, Constants DEF TypeInv, Replies, WaitingRequests
      <4> QED  BY <1>4, <1>5, <4>1 DEF ReplyOf, Waits
    <3> QED  BY <2>1, <3>1 DEF OlderFirst
  <2>5. AnswerComes(s)'
    BY <1>3, <2>1 DEF AnswerComes
  <2>6. PresentedSoon(s)'
    BY <1>2, <1>3, <1>4, <1>5 DEF Served, PresentedSoon
  <2> QED  BY <2>2, <2>3, <2>4, <2>5, <2>6 DEF Served
<1>8. CASE ~ReplyOf(q, s)
  <2>1. JarOf(s)' => jar' = jar /\ JarOf(s)
    <3>1. CASE request[q].outcome = "tokens"
      BY <1>1, <1>2, <1>6, <1>8, <3>1 DEF ReplyOf, JarOf
    <3>2. CASE request[q].outcome # "tokens"
      BY <1>1, <1>2, <1>6, <3>2 DEF JarOf
    <3> QED  BY <3>1, <3>2
  <2>2. KnownTokens(s)'
    BY <1>2, <1>3, <1>4, <1>5, <2>1 DEF Served, KnownTokens
  <2>3. NothingOlder(s)'
    BY <1>2, <1>3, <1>4, <1>5, <2>1 DEF Served, NothingOlder
  <2>4. OlderFirst(s)'
    BY <1>2, <1>3, <1>4, <1>5, <2>1 DEF Served, OlderFirst
  <2>5. AnswerComes(s)'
    <3>1. ASSUME NEW r \in Requests, Brings(r, s)  PROVE Brings(r, s)'
      <4>1. r # q
        BY <1>4, <1>8, <3>1 DEF Brings
      <4> QED  BY <1>2, <1>3, <1>5, <3>1, <4>1 DEF Brings
    <3> QED  BY <1>3, <2>1, <3>1 DEF Served, AnswerComes
  <2>6. PresentedSoon(s)'
    BY <1>2, <1>3, <1>4, <1>5 DEF Served, PresentedSoon
  <2> QED  BY <2>2, <2>3, <2>4, <2>5, <2>6 DEF Served
<1> QED  BY <1>7, <1>8

(* A moment passes.                                                        *)
LEMMA ServedWhenTicks ==
  ASSUME TypeInv, [Next]_vars, Tick, GraceIsEnough, NEW s \in Kept, Served(s)
  PROVE  Served(s)'
<1>1. Older /\ SameTokens /\ UNCHANGED <<mintedFor, call>>
  BY TickRequests, TickRows DEF Tick
<1>2. /\ session'[s].age <= session[s].age + 1 /\ session[s].age \in Int
      /\ session'[s].age \in Int
  <2>1. s \in Existing /\ s \in SessionIds /\ session[s].age \in 0..Grace + 1
    BY KeptFacts
  <2>2. session'[s] \in Rows
    BY <1>1, <2>1, SessionKept DEF SameTokens, Existing, RowTable
  <2> QED  BY <2>1, <2>2, TickRows, Constants DEF Rows
<1>3. /\ Cur(s)' = Cur(s) /\ Prev(s)' = Prev(s) /\ CallsOf(s)' = CallsOf(s)
      /\ JarOf(s)' <=> JarOf(s)
      /\ jar'.refresh = jar.refresh /\ jar'.age <= jar.age + 1 /\ jar.age \in Int /\ jar'.age \in Int
  <2>1. s \in SessionIds /\ session[s] # Idle
    BY KeptFacts DEF Existing
  <2>2. Cur(s)' = Cur(s) /\ Prev(s)' = Prev(s)
    BY <1>1, <2>1 DEF SameTokens, Cur, Prev
  <2>3. jar'.age \in Int /\ jar.age \in Int
    BY TickJar, JarFacts, Constants DEF Jars
  <2> QED  BY <1>1, <2>2, <2>3, TickJar, SameJar DEF CallsOf, Busy
<1>4. ASSUME NEW r \in Requests
      PROVE  /\ ReplyOf(r, s)' <=> ReplyOf(r, s)
             /\ Waits(r)' <=> Waits(r)
             /\ Waits(r) => request'[r].call = request[r].call
             /\ ReplyOf(r, s) => request'[r].token = request[r].token
             /\ Waits(r) \/ ReplyOf(r, s) =>
                  request'[r].age = request[r].age + 1 /\ request[r].age \in Int
  <2>1. CASE request[r] = Idle
    <3>1. request'[r] = Idle
      BY <1>1, <2>1 DEF Older
    <3> QED  BY <2>1, <3>1, IdleIsNone DEF ReplyOf, Waits
  <2>2. CASE request[r] # Idle
    <3>1. /\ request'[r].step = request[r].step /\ request'[r].age = request[r].age + 1
          /\ request[r].step = "waiting" => request'[r].call = request[r].call
          /\ request[r].step = "reply" => request'[r].token = request[r].token
      BY <1>1, <2>2 DEF Older
    <3>2. request[r].age \in Int
      BY <2>2, RequestFacts, Constants DEF TypeInv, WaitingRequests, Replies
    <3> QED  BY <3>1, <3>2, SameReply DEF ReplyOf, Waits
  <2> QED  BY <2>1, <2>2
<1>5. KnownTokens(s)'
  BY <1>1, <1>3, <1>4 DEF Served, KnownTokens
<1>6. NothingOlder(s)'
  BY <1>1, <1>3, <1>4 DEF Served, NothingOlder
<1>7. OlderFirst(s)'
  <2>1. SUFFICES ASSUME JarOf(s), jar.refresh = Cur(s), NEW r \in Requests,
                        ReplyOf(r, s) \/ (Waits(r) /\ request[r].call \in CallsOf(s)
                                           /\ call[request[r].call].token # Cur(s))
                 PROVE  request'[r].age >= jar'.age
    BY <1>1, <1>3, <1>4 DEF OlderFirst
  <2>2. request[r].age >= jar.age
    BY <2>1 DEF Served, OlderFirst
  <2> QED  BY <1>3, <1>4, <2>1, <2>2
<1>8. AnswerComes(s)'
  <2>1. ASSUME NEW r \in Requests, Brings(r, s)  PROVE Brings(r, s)'
    <3>1. request'[r].age >= session'[s].age
      BY <1>2, <1>4, <2>1 DEF Brings
    <3> QED  BY <1>1, <1>3, <1>4, <2>1, <3>1 DEF Brings
  <2> QED  BY <1>3, <2>1 DEF Served, AnswerComes
<1>9. PresentedSoon(s)'
  <2>1. SUFFICES ASSUME NEW r \in Requests, Waits(r), request[r].call \in CallsOf(s),
                        call[request[r].call].step = "read",
                        call[request[r].call].token # Cur(s)
                 PROVE  session'[s].age <= Patience + request'[r].age
    BY <1>1, <1>3, <1>4 DEF PresentedSoon
  <2>2. session[s].age <= Patience + request[r].age
    BY <2>1 DEF Served, PresentedSoon
  <2> QED  BY <1>2, <1>4, <2>1, <2>2, Constants
<1> QED  BY <1>5, <1>6, <1>7, <1>8, <1>9 DEF Served

(* The browser presents what it holds: nothing older than a current token  *)
(* is left by then, or the token before has just been replaced.            *)
LEMMA YoungRequests ==
  ASSUME TypeInv, NEW r \in Requests, request[r].step \in {"waiting", "reply"}
  PROVE  request[r].age \in 0..Patience /\ request[r] # Idle
BY RequestFacts, IdleIsNone DEF TypeInv, WaitingRequests, Replies

LEMMA NothingOlderIsLeft ==
  ASSUME TypeInv, GraceIsEnough, CallsShared, NEW s \in Kept, Served(s),
         JarOf(s), jar.refresh = Cur(s), jar.age = AccessLife
  PROVE  /\ \A g \in CallsOf(s) : call[g].token = Cur(s)
         /\ \A r \in Requests : ~ReplyOf(r, s)
<1>1. ASSUME NEW r \in Requests, request[r].step \in {"waiting", "reply"}
      PROVE  ~(request[r].age >= jar.age)
  BY <1>1, YoungRequests, Constants DEF GraceIsEnough
<1>2. \A r \in Requests : ~ReplyOf(r, s)
  BY <1>1 DEF Served, OlderFirst, ReplyOf
<1>3. ASSUME NEW g \in CallsOf(s), call[g].token # Cur(s)  PROVE FALSE
  <2>1. PICK r \in Requests : Waits(r) /\ request[r].call = g
    BY <1>3 DEF CallsOf, CallsShared, Waiting, Waits
  <2>2. request[r].age >= jar.age
    BY <1>3, <2>1 DEF Served, OlderFirst
  <2> QED  BY <1>1, <2>1, <2>2 DEF Waits
<1> QED  BY <1>2, <1>3

LEMMA ReplacedJustNow ==
  ASSUME TypeInv, NEW s \in Kept, Served(s), JarOf(s), jar.refresh # Cur(s)
  PROVE  session[s].age <= Patience
<1>1. PICK r \in Requests : Brings(r, s)
  BY DEF Served, AnswerComes
<1>2. request[r].age \in 0..Patience
  BY <1>1, YoungRequests DEF Brings, ReplyOf, Waits
<1> QED  BY <1>1, <1>2, KeptFacts, Constants DEF Brings

LEMMA ServedWhenSent ==
  ASSUME TypeInv, [Next]_vars, GraceIsEnough, JarRenewsLate, CallsShared,
         NEW q \in Requests, NEW i \in Instances, NEW kind \in {"page", "fetch"}, Send(q, i, kind),
         NEW s \in Kept, Served(s)
  PROVE  Served(s)'
<1> DEFINE token == jar.refresh
<1>1. /\ token \in 1..Minted /\ jar.access # "valid" /\ request[q] = Idle
      /\ \A r \in Requests \ {q} : request'[r] = request[r]
  BY SendEffect
<1>2. PICK h \in Handlers :
        /\ request'[q] \in WaitingRequests /\ request'[q].call = h /\ request'[q].age = 0
        /\ \/ InFlight(i, token, h) /\ call' = call
           \/ /\ Joins(i, token) = {} /\ call[h] = Idle /\ call'[h] \in Calls
              /\ call'[h].step = "read" /\ call'[h].token = token /\ call'[h].gives = None
              /\ \A g \in Handlers \ {h} : call'[g] = call[g]
  BY SendEffect
<1>3. UNCHANGED <<session, mintedFor, jar>>
  BY DEF Send
<1>4. token # None /\ jar.age = AccessLife
  BY <1>1, MintedFacts DEF JarRenewsLate, None, TypeInv
<1>5. /\ Cur(s)' = Cur(s) /\ Prev(s)' = Prev(s) /\ (JarOf(s)' <=> JarOf(s))
      /\ JarOf(s) <=> mintedFor[token] = s
  BY <1>3, <1>4 DEF Cur, Prev, JarOf
<1>6. /\ Waits(q)' /\ ~ReplyOf(q, s)' /\ ~Waits(q) /\ ~ReplyOf(q, s)
      /\ \A r \in Requests \ {q} : /\ request'[r] = request[r]
                                   /\ ReplyOf(r, s)' <=> ReplyOf(r, s)
                                   /\ Waits(r)' <=> Waits(r)
  BY <1>1, <1>2, <1>3, IdleIsNone DEF Waits, ReplyOf
\* The call of q presents the token of the browser.
<1>7. /\ call'[h] # Idle /\ call'[h].token = token
      /\ \A g \in Busy : call'[g] = call[g]
      /\ Busy' = Busy \union {h}
      /\ h \notin Busy => call'[h].gives = None /\ call'[h].step = "read" /\ Joins(i, token) = {}
  <2>1. CASE InFlight(i, token, h) /\ call' = call
    BY <2>1 DEF InFlight, Busy
  <2>2. CASE /\ Joins(i, token) = {} /\ call[h] = Idle /\ call'[h] \in Calls
             /\ call'[h].step = "read" /\ call'[h].token = token /\ call'[h].gives = None
             /\ \A g \in Handlers \ {h} : call'[g] = call[g]
    BY <2>2, IdleIsNone DEF Busy
  <2> QED  BY <1>2, <2>1, <2>2
<1>8. /\ \A g \in CallsOf(s) : g \in CallsOf(s)' /\ call'[g] = call[g]
      /\ \A g \in CallsOf(s)' : g \in CallsOf(s) \/ (g = h /\ JarOf(s))
      /\ h \in CallsOf(s)' => JarOf(s)
  BY <1>3, <1>5, <1>7 DEF CallsOf
<1>9. /\ h \in CallsOf(s)' /\ h \notin CallsOf(s) =>
           call'[h].gives = None /\ call'[h].step = "read" /\ h \notin Busy
  BY <1>3, <1>7 DEF CallsOf
<1>10. \A r \in Requests : request[r].step = "waiting" => request[r].call \in Busy
  BY DEF TypeInv, WaitsForCall
<1>11. ASSUME NEW r \in Requests \ {q}, Waits(r)
       PROVE  /\ request[r].call \in CallsOf(s)' <=> request[r].call \in CallsOf(s)
              /\ call'[request[r].call] = call[request[r].call]
  <2>1. request[r].call \in Busy
    BY <1>10, <1>11 DEF Waits
  <2> QED  BY <1>3, <1>7, <2>1 DEF CallsOf
<1>12. KnownTokens(s)'
  BY <1>3, <1>5, <1>6, <1>7, <1>8, <1>9 DEF Served, KnownTokens
<1>13. NothingOlder(s)'
  <2>1. CASE h \in CallsOf(s)' /\ h \notin CallsOf(s) /\ token = Cur(s)
    <3>1. JarOf(s)
      BY <1>8, <2>1
    <3>2. /\ \A g \in CallsOf(s) : call[g].token = Cur(s)
          /\ \A r \in Requests : ~ReplyOf(r, s)
      BY <1>4, <2>1, <3>1, NothingOlderIsLeft
    <3> QED  BY <1>3, <1>5, <1>6, <1>7, <1>8, <2>1, <3>2 DEF NothingOlder
  <2>2. CASE h \in CallsOf(s)' /\ h \notin CallsOf(s) /\ token # Cur(s)
    <3>1. \A g \in CallsOf(s) : call[g].token # Cur(s)
      BY <1>8, <2>2 DEF Served, NothingOlder
    <3> QED  BY <1>5, <1>7, <1>8, <2>2, <3>1 DEF NothingOlder
  <2>3. CASE ~(h \in CallsOf(s)' /\ h \notin CallsOf(s))
    <3>1. CallsOf(s)' = CallsOf(s)
      BY <1>8, <2>3
    <3> QED  BY <1>3, <1>5, <1>6, <1>8, <3>1 DEF Served, NothingOlder
  <2> QED  BY <2>1, <2>2, <2>3
<1>14. OlderFirst(s)'
  <2>1. SUFFICES ASSUME JarOf(s), token = Cur(s), NEW r \in Requests,
                        ReplyOf(r, s)' \/ (Waits(r)' /\ request'[r].call \in CallsOf(s)'
                                           /\ call'[request'[r].call].token # Cur(s))
                 PROVE  request'[r].age >= jar.age
    BY <1>3, <1>5 DEF OlderFirst
  <2>2. r # q
    BY <1>2, <1>6, <1>7, <2>1
  <2>3. request'[r] = request[r]
    BY <1>6, <2>2
  <2>4. ReplyOf(r, s) \/ (Waits(r) /\ request[r].call \in CallsOf(s)
                          /\ call[request[r].call].token # Cur(s))
    BY <1>6, <1>11, <2>1, <2>2, <2>3
  <2> QED  BY <2>1, <2>3, <2>4 DEF Served, OlderFirst
<1>15. AnswerComes(s)'
  <2>1. ASSUME NEW r \in Requests, Brings(r, s)  PROVE Brings(r, s)'
    <3>1. r # q
      BY <1>6, <2>1 DEF Brings
    <3>2. request'[r] = request[r] /\ (ReplyOf(r, s)' <=> ReplyOf(r, s)) /\ (Waits(r)' <=> Waits(r))
      BY <1>6, <3>1
    <3>3. Waits(r) => /\ request[r].call \in CallsOf(s)' <=> request[r].call \in CallsOf(s)
                      /\ call'[request[r].call] = call[request[r].call]
      BY <1>11, <3>1
    <3> QED  BY <1>3, <2>1, <3>2, <3>3 DEF Brings
  <2> QED  BY <1>3, <1>5, <2>1 DEF Served, AnswerComes
<1>16. PresentedSoon(s)'
  <2>1. SUFFICES ASSUME NEW r \in Requests, Waits(r)', request'[r].call \in CallsOf(s)',
                        call'[request'[r].call].step = "read",
                        call'[request'[r].call].token # Cur(s)
                 PROVE  session[s].age <= Patience + request'[r].age
    BY <1>3, <1>5 DEF PresentedSoon
  <2>2. CASE r = q
    <3>1. JarOf(s) /\ token # Cur(s) /\ request'[r].age = 0
      BY <1>2, <1>7, <1>8, <2>1, <2>2
    <3>2. session[s].age <= Patience
      BY <3>1, ReplacedJustNow
    <3> QED  BY <3>1, <3>2, Constants
  <2>3. CASE r # q
    <3>1. request'[r] = request[r] /\ Waits(r)
      BY <1>6, <2>1, <2>3
    <3>2. /\ request[r].call \in CallsOf(s)
          /\ call[request[r].call].step = "read"
          /\ call[request[r].call].token # Cur(s)
      BY <1>11, <2>1, <2>3, <3>1
    <3> QED  BY <3>1, <3>2 DEF Served, PresentedSoon
  <2> QED  BY <2>2, <2>3
<1> QED  BY <1>12, <1>13, <1>14, <1>15, <1>16 DEF Served

(* The calls and the requests stand, and the cookies stand or are of       *)
(* another session.                                                        *)
LEMMA ServedWhileQuiet ==
  ASSUME TypeInv, [Next]_vars, NEW s \in Kept, Served(s), UNCHANGED <<request, call>>,
         RowStands(s), session'[s].age = session[s].age,
         (jar'.refresh = jar.refresh /\ jar'.age = jar.age) \/ ~JarOf(s)'
  PROVE  Served(s)'
<1>1. /\ Cur(s)' = Cur(s) /\ Prev(s)' = Prev(s)
      /\ JarOf(s)' => JarOf(s) /\ jar'.refresh = jar.refresh /\ jar'.age = jar.age
  BY SameJar DEF RowStands, Cur, Prev
<1>2. \A r \in Requests : (ReplyOf(r, s)' <=> ReplyOf(r, s)) /\ (Waits(r)' <=> Waits(r))
  BY SameReply DEF Waits
<1>3. CallsOf(s)' = CallsOf(s)
  <2>1. Busy' = Busy
    BY DEF Busy
  <2>2. ASSUME NEW g \in Busy  PROVE g \in CallsOf(s)' <=> g \in CallsOf(s)
    <3>1. call'[g] # Idle /\ call'[g].token = call[g].token
      BY DEF Busy
    <3> QED  BY <3>1, SameOwner
  <2> QED  BY <2>1, <2>2 DEF CallsOf
<1>4. KnownTokens(s)'
  BY <1>1, <1>2, <1>3 DEF Served, KnownTokens
<1>5. NothingOlder(s)'
  BY <1>1, <1>2, <1>3 DEF Served, NothingOlder
<1>6. OlderFirst(s)'
  BY <1>1, <1>2, <1>3 DEF Served, OlderFirst
<1>7. AnswerComes(s)'
  BY <1>1, <1>2, <1>3 DEF Served, AnswerComes, Brings
<1>8. PresentedSoon(s)'
  BY <1>1, <1>2, <1>3 DEF Served, PresentedSoon
<1> QED  BY <1>4, <1>5, <1>6, <1>7, <1>8 DEF Served

(* A session begins: nobody else has its token.                            *)
LEMMA ServedFromLogin ==
  ASSUME TypeInv, [Next]_vars, NEW s \in SessionIds, Login(s)
  PROVE  Served(s)'
<1>1. /\ s \notin Existing /\ Minting1(s) /\ Minted \in Nat
      /\ Cur(s)' = Minted + 1 /\ jar' = FullJar(Minted + 1)
  BY LoginEffect, MintedFacts DEF Cur, TypeInv
<1>2. UNCHANGED <<request, call>>
  BY DEF Login
<1>3. \A t \in 1..Minted : mintedFor'[t] # s
  BY <1>1 DEF TypeInv, RowTokens, Minting1
<1>4. \A r \in Requests : ~ReplyOf(r, s)'
  <2>1. ASSUME NEW r \in Requests, request[r].step = "reply", request[r].token # None
        PROVE  mintedFor'[request[r].token] # s
    <3>1. request[r].token \in 1..Minted
      BY <1>1, <2>1 DEF TypeInv, UsedTokens, None
    <3> QED  BY <1>3, <3>1
  <2> QED  BY <1>2, <2>1 DEF ReplyOf
<1>5. CallsOf(s)' = {}
  <2>1. ASSUME NEW g \in Busy  PROVE mintedFor'[call[g].token] # s
    BY <1>3, CallTokens
  <2> QED  BY <1>2, <2>1 DEF CallsOf, Busy
<1>6. jar'.refresh = Cur(s)'
  BY <1>1 DEF FullJar
<1>7. KnownTokens(s)' /\ NothingOlder(s)' /\ AnswerComes(s)'
  BY <1>4, <1>5, <1>6 DEF KnownTokens, NothingOlder, AnswerComes
<1>8. OlderFirst(s)' /\ PresentedSoon(s)'
  BY <1>4, <1>5 DEF OlderFirst, PresentedSoon
<1> QED  BY <1>7, <1>8 DEF Served

(* The API reads, or rotates, or ends a session, for whichever it is.      *)
LEMMA ReadInOrder ==
  ASSUME TypeInv, GraceIsEnough, CallsShared, EndedIsClosed,
         NEW h \in Handlers, ReadSession(h), NEW s \in Kept, Served(s), h \in CallsOf(s)
  PROVE  \E step, gives : CallBecomes(h, step, gives) /\ InOrder(h, s, step, gives)
<1>1. /\ h \in Busy /\ call[h].step = "read" /\ mintedFor[call[h].token] = s
      /\ call[h].token \in {Cur(s), Prev(s)} /\ call[h].gives = None
  BY ReadEffect DEF CallsOf, Served, KnownTokens
<1>2. ~Dead(s)
  BY KeptFacts DEF EndedIsClosed, Kept, Dead
<1>3. s \in Found(call[h].token)
  BY <1>1, KeptFacts DEF Found, Cur, Prev
<1>4. Cur(s) # Prev(s)
  BY KeptFacts
<1>5. CASE /\ CallBecomes(h, "answer", session[s].current)
           /\ session[s].previous = call[h].token
  BY <1>1, <1>5 DEF InOrder, Cur, Prev
<1>6. CASE session[s].previous = call[h].token /\ session[s].age > Grace
  <2>1. PICK r \in Requests : Waits(r) /\ request[r].call = h
    BY <1>1 DEF CallsShared, Waiting, Waits
  <2>2. session[s].age <= Patience + request[r].age
    BY <1>1, <1>4, <1>6, <2>1 DEF Served, PresentedSoon, Prev
  <2>3. request[r].age \in 0..Patience
    BY <2>1, YoungRequests DEF Waits
  <2> QED  BY <1>6, <2>2, <2>3, KeptFacts, Constants DEF GraceIsEnough
<1>7. CASE /\ CallBecomes(h, "rotate", call[h].gives)
           /\ session[s].previous # call[h].token
  BY <1>1, <1>7 DEF InOrder, Cur, Prev
<1> QED  BY <1>1, <1>2, <1>3, <1>5, <1>6, <1>7, ReadEffect

LEMMA ServedWhenApiActs ==
  ASSUME TypeInv, [Next]_vars, GraceIsEnough, CallsShared, EndedIsClosed,
         NEW h \in Handlers, ReadSession(h) \/ Rotate(h) \/ Revoke(h) \/ Answer(h) \/ HandlerDies(h),
         NEW s \in Kept, Served(s)
  PROVE  Served(s)'
<1>0. s \in SessionIds /\ s \in Existing /\ session[s] # Idle
  BY KeptFacts DEF Existing
<1>1. CASE ReadSession(h)
  <2>1. UNCHANGED <<session, jar, request>> /\ h \in Busy
    BY <1>1, ReadEffect DEF ReadSession
  <2>2. RowStands(s) /\ session'[s].age = session[s].age
    BY <1>0, <2>1 DEF RowStands
  <2>3. PICK step, gives : CallBecomes(h, step, gives) /\ (h \in CallsOf(s) => InOrder(h, s, step, gives))
    <3>1. CASE h \in CallsOf(s)
      BY <1>1, <3>1, ReadInOrder
    <3>2. CASE h \notin CallsOf(s)
      BY <1>1, <3>2, ReadEffect
    <3> QED  BY <3>1, <3>2
  <2> QED  BY <2>1, <2>2, <2>3, ServedWhileCallMoves
<1>2. CASE Rotate(h)
  <2>1. CASE s = mintedFor[call[h].token]
    BY <1>2, <2>1, ServedWhenRotated
  <2>2. CASE s # mintedFor[call[h].token]
    <3>1. UNCHANGED <<jar, request>> /\ h \in Busy /\ CallBecomes(h, "answer", Minted + 1)
      BY <1>2, RotateEffect DEF Rotate
    <3>2. RowStands(s) /\ session'[s].age = session[s].age
      BY <1>0, <1>2, <2>2, RotateEffect DEF RowStands
    <3>3. h \notin CallsOf(s)
      BY <2>2 DEF CallsOf
    <3> QED  BY <3>1, <3>2, <3>3, ServedWhileCallMoves
  <2> QED  BY <2>1, <2>2
<1>3. CASE Revoke(h)
  <2>1. UNCHANGED <<jar, request>> /\ h \in Busy /\ CallBecomes(h, "answer", call[h].gives)
    BY <1>3, RevokeRow DEF Revoke
  <2>2. RowStands(s) /\ session'[s].age = session[s].age
    BY <1>0, <1>3, RevokeRow DEF RowStands, SameTokens
  <2>3. h \notin CallsOf(s)
    BY <1>3 DEF Served, KnownTokens, Revoke
  <2> QED  BY <2>1, <2>2, <2>3, ServedWhileCallMoves
<1>4. CASE Answer(h)
  BY <1>4, ServedWhenAnswered
<1>5. CASE HandlerDies(h)
  <2>1. UNCHANGED <<session, jar, request>> /\ h \in Busy
    BY <1>5, DieEffect DEF HandlerDies
  <2>2. RowStands(s) /\ session'[s].age = session[s].age
    BY <1>0, <2>1 DEF RowStands
  <2>3. CallBecomes(h, "dead", call[h].gives)
    BY <1>5, <2>1, DieEffect DEF CallsShared
  <2>4. h \in CallsOf(s) => InOrder(h, s, "dead", call[h].gives)
    BY DEF Served, KnownTokens, InOrder
  <2> QED  BY <2>1, <2>2, <2>3, <2>4, ServedWhileCallMoves
<1> QED  BY <1>1, <1>2, <1>3, <1>4, <1>5

(* A step that spares the calls, the requests and the token of the browser *)
(* or takes it away.                                                       *)
LEMMA EndsQuietly ==
  ASSUME TypeInv, NEW s \in Existing,
         (\E q \in SessionIds : SessionExpires(q)) \/ Logout \/ RevokeAll
           \/ (\E to \in BOOLEAN : SetState(to)) \/ AccessExpires \/ CookieExpires \/ UNCHANGED vars
  PROVE  /\ UNCHANGED <<request, call>>
         /\ RowStands(s) /\ session'[s].age = session[s].age
         /\ \/ jar'.refresh = jar.refresh /\ jar'.age = jar.age
            \/ jar'.refresh = None
<1>0. s \in SessionIds /\ session[s] # Idle
  BY DEF Existing
<1>1. ASSUME NEW q \in SessionIds, SessionExpires(q)
      PROVE  RowStands(s) /\ session'[s].age = session[s].age /\ UNCHANGED <<request, call, jar>>
  <2>1. UNCHANGED <<request, call, jar>>
    BY <1>1 DEF SessionExpires
  <2> QED  BY <1>0, <1>1, <2>1, RowExpired DEF RowStands, SameTokens
<1>2. ASSUME NEW rows \in SUBSET Existing, RevokeRows(rows)
      PROVE  RowStands(s) /\ session'[s].age = session[s].age
  BY <1>0, <1>2, RowsRevoked DEF RowStands, SameTokens
<1>3. CASE Logout
  <2>1. {q \in Existing : jar.access = "valid" /\ session[q].current = jar.refresh} \in SUBSET Existing
    OBVIOUS
  <2>2. RowStands(s) /\ session'[s].age = session[s].age
    BY <1>2, <1>3, <2>1 DEF Logout
  <2>3. UNCHANGED <<request, call>> /\ jar' = EmptyJar /\ EmptyJar.refresh = None
    BY <1>3 DEF Logout, EmptyJar
  <2> QED  BY <2>2, <2>3
<1>4. CASE RevokeAll
  <2>1. RowStands(s) /\ session'[s].age = session[s].age
    BY <1>2, <1>4 DEF RevokeAll
  <2>2. UNCHANGED <<request, call, jar>>
    BY <1>4 DEF RevokeAll
  <2> QED  BY <2>1, <2>2
<1>5. CASE (\E to \in BOOLEAN : SetState(to)) \/ UNCHANGED vars
  <2>1. UNCHANGED <<request, call, jar, session>>
    BY <1>5, Zenon DEF SetState, vars
  <2> QED  BY <1>0, <2>1 DEF RowStands
<1>6. CASE AccessExpires \/ CookieExpires
  <2>1. UNCHANGED <<request, call, session>>
    BY <1>6, Zenon DEF AccessExpires, CookieExpires
  <2> QED  BY <1>0, <1>6, <2>1, CookieEffect DEF RowStands
<1> QED  BY <1>1, <1>3, <1>4, <1>5, <1>6

LEMMA StillExisting ==
  ASSUME TypeInv, [Next]_vars, NEW s \in Existing'
  PROVE  s \in Existing \/ (s \in SessionIds /\ Login(s))
<1>0. s \in SessionIds /\ session'[s] # Idle
  BY DEF Existing
<1>1. CASE SameTokens
  BY <1>0, <1>1 DEF SameTokens, Existing
<1>2. ASSUME NEW q \in SessionIds, Login(q)  PROVE s \in Existing \/ Login(s)
  <2>1. CASE s = q
    BY <1>2, <2>1
  <2>2. CASE s # q
    BY <1>0, <1>2, <2>2, LoginEffect DEF Existing
  <2> QED  BY <2>1, <2>2
<1>3. ASSUME NEW h \in Handlers, Rotate(h)  PROVE s \in Existing
  <2>1. CASE s = mintedFor[call[h].token]
    BY <1>3, <2>1, RotateEffect
  <2>2. CASE s # mintedFor[call[h].token]
    BY <1>0, <1>3, <2>2, RotateEffect DEF Existing
  <2> QED  BY <2>1, <2>2
<1> QED  BY <1>0, <1>1, <1>2, <1>3, MintedStep

LEMMA ServedKept ==
  ASSUME TypeInv, [Next]_vars, OneInstance, GraceIsEnough, HandedInv, ~hurt', NEW s \in Kept'
  PROVE  Served(s)'
<1>0. ~hurt /\ CallsShared /\ EndedIsClosed /\ JarRenewsLate
  BY HistoryKept DEF HandedInv
<1>1. CASE s \in SessionIds /\ Login(s)
  BY <1>1, ServedFromLogin
<1>2. CASE s \in Existing
  <2>1. s \in Kept /\ Served(s) /\ s \in SessionIds
    BY <1>0, <1>2, HistoryKept DEF Kept, HandedInv, Existing
  <2>2. ASSUME NEW q \in SessionIds, Login(q)  PROVE Served(s)'
    <3>1. q # s
      BY <1>2, <2>2, LoginEffect
    <3>2. RowStands(s) /\ session'[s].age = session[s].age /\ UNCHANGED <<request, call>>
      BY <1>2, <2>1, <2>2, <3>1, LoginEffect DEF RowStands, Existing, Login
    <3>3. ~JarOf(s)'
      BY <2>2, <3>1, LoginEffect DEF JarOf, Minting1, FullJar
    <3> QED  BY <2>1, <3>2, <3>3, ServedWhileQuiet
  <2>3. ASSUME (\E q \in SessionIds : SessionExpires(q)) \/ Logout \/ RevokeAll
                 \/ (\E to \in BOOLEAN : SetState(to)) \/ AccessExpires \/ CookieExpires \/ UNCHANGED vars
        PROVE  Served(s)'
    <3>1. /\ UNCHANGED <<request, call>>
          /\ RowStands(s) /\ session'[s].age = session[s].age
          /\ \/ jar'.refresh = jar.refresh /\ jar'.age = jar.age
             \/ jar'.refresh = None
      BY <1>2, <2>3, EndsQuietly
    <3>2. jar'.refresh = None => ~JarOf(s)'
      BY DEF JarOf
    <3> QED  BY <2>1, <3>1, <3>2, ServedWhileQuiet
  <2>4. ASSUME NEW r \in Requests, NEW i \in Instances, NEW kind \in {"page", "fetch"}, Send(r, i, kind)
        PROVE  Served(s)'
    BY <1>0, <2>1, <2>4, ServedWhenSent
  <2>5. ASSUME NEW h \in Handlers,
               ReadSession(h) \/ Rotate(h) \/ Revoke(h) \/ Answer(h) \/ HandlerDies(h)
        PROVE  Served(s)'
    BY <1>0, <2>1, <2>5, ServedWhenApiActs
  <2>6. ASSUME NEW h \in Handlers, Abort(h)  PROVE Served(s)'
    BY <2>6, AbortEffect
  <2>7. ASSUME NEW r \in Requests, Reply(r) \/ ReplyLost(r)  PROVE Served(s)'
    BY <2>1, <2>7, ServedWhenReplied, ReplyLostEffect
  <2>8. ASSUME Tick  PROVE Served(s)'
    BY <2>1, <2>8, ServedWhenTicks
  <2> QED  BY <2>2, <2>3, <2>4, <2>5, <2>6, <2>7, <2>8, Zenon DEF Next, ApiStep
<1>3. s \in Existing'
  BY DEF Kept
<1> QED  BY <1>1, <1>2, <1>3, StillExisting

(* The cookie of the access token goes when it is old.                     *)
LEMMA JarRenewsLateKept ==
  ASSUME TypeInv, [Next]_vars, JarRenewsLate
  PROVE  JarRenewsLate'
<1>1. ASSUME NEW token  PROVE FullJar(token).access = "valid" /\ EmptyJar.refresh = None
  BY DEF FullJar, EmptyJar
<1>2. ASSUME NEW s \in SessionIds, Login(s)  PROVE JarRenewsLate'
  BY <1>1, <1>2, LoginEffect DEF JarRenewsLate
<1>3. ASSUME NEW r \in Requests, Reply(r)  PROVE JarRenewsLate'
  BY <1>1, <1>3, ReplyEffect DEF JarRenewsLate
<1>4. CASE AccessExpires \/ CookieExpires
  BY <1>4, CookieEffect DEF JarRenewsLate
<1>5. CASE Tick
  BY <1>5, TickJar DEF JarRenewsLate
<1>6. CASE UNCHANGED jar \/ jar' = EmptyJar
  BY <1>1, <1>6 DEF JarRenewsLate
<1> QED  BY <1>2, <1>3, <1>4, <1>5, <1>6, JarStep

(* One call for each token, and someone waits for it.                      *)
LEMMA CallsSharedKept ==
  ASSUME TypeInv, [Next]_vars, OneInstance, CallsShared, ~hurt'
  PROVE  CallsShared'
<1>1. ASSUME NEW g \in Handlers, UNCHANGED request  PROVE Waiting(g)' = Waiting(g)
  BY <1>1 DEF Waiting
<1>2. ASSUME NEW h \in Busy, NEW step, NEW gives, CallBecomes(h, step, gives), UNCHANGED request
      PROVE  CallsShared'
  <2>1. ASSUME NEW g \in Busy'  PROVE g \in Busy /\ call'[g].token = call[g].token
    BY <1>2, <2>1 DEF Busy, CallBecomes
  <2>2. ASSUME NEW g \in Busy'  PROVE Waiting(g)' # {}
    <3>1. Waiting(g) # {}
      BY <2>1, <2>2 DEF CallsShared
    <3>2. g \in Handlers
      BY <2>2 DEF Busy
    <3> QED  BY <1>1, <1>2, <3>1, <3>2
  <2>3. ASSUME NEW f \in Busy', NEW g \in Busy', call'[f].token = call'[g].token  PROVE f = g
    BY <2>1, <2>3 DEF CallsShared
  <2> QED  BY <2>2, <2>3 DEF CallsShared
<1>3. ASSUME NEW h \in Handlers, ReadSession(h) \/ Rotate(h) \/ Revoke(h)  PROVE CallsShared'
  <2>1. UNCHANGED request
    BY <1>3, Zenon DEF ReadSession, Rotate, Revoke
  <2>2. h \in Busy /\ \E step, gives : CallBecomes(h, step, gives)
    BY <1>3, ReadEffect, RotateEffect, RevokeRow
  <2> QED  BY <1>2, <2>1, <2>2
<1>4. ASSUME NEW h \in Handlers, HandlerDies(h)  PROVE CallsShared'
  <2>1. UNCHANGED request
    BY <1>4 DEF HandlerDies
  <2>2. h \in Busy /\ CallBecomes(h, "dead", call[h].gives)
    BY <1>4, DieEffect DEF CallsShared
  <2> QED  BY <1>2, <2>1, <2>2
<1>5. ASSUME NEW h \in Handlers, Answer(h)  PROVE CallsShared'
  <2>1. CallEnds(h) /\ Told(h, call[h].gives)
    BY <1>5, AnswerEffect
  <2>2. ASSUME NEW g \in Busy'  PROVE g # h /\ g \in Busy /\ call'[g] = call[g]
    BY <2>1, <2>2 DEF Busy, CallEnds
  <2>3. ASSUME NEW g \in Busy', NEW r \in Waiting(g)  PROVE r \in Waiting(g)'
    <3>1. r \notin Waiting(h) /\ r \in Requests
      BY <2>2, <2>3 DEF Waiting
    <3>2. request'[r] = request[r]
      BY <2>1, <3>1 DEF Told
    <3> QED  BY <2>3, <3>2 DEF Waiting
  <2>4. \A g \in Busy' : Waiting(g)' # {}
    BY <2>2, <2>3 DEF CallsShared
  <2> QED  BY <2>2, <2>4 DEF CallsShared
<1>6. ASSUME NEW q \in Requests, NEW i \in Instances, NEW kind \in {"page", "fetch"}, Send(q, i, kind)
      PROVE  CallsShared'
  <2>1. PICK h \in Handlers :
          /\ request'[q] \in WaitingRequests /\ request'[q].call = h
          /\ \/ InFlight(i, jar.refresh, h) /\ call' = call
             \/ /\ Joins(i, jar.refresh) = {} /\ call[h] = Idle /\ call'[h] \in Calls
                /\ call'[h].token = jar.refresh
                /\ \A g \in Handlers \ {h} : call'[g] = call[g]
    BY <1>6, SendEffect
  <2>2. request[q] = Idle /\ \A r \in Requests \ {q} : request'[r] = request[r]
    BY <1>6, SendEffect
  <2>3. ASSUME NEW g, NEW r \in Waiting(g)  PROVE r \in Waiting(g)'
    <3>1. r # q /\ r \in Requests
      BY <2>2, <2>3, IdleIsNone DEF Waiting
    <3> QED  BY <2>2, <2>3, <3>1 DEF Waiting
  <2>4. q \in Waiting(h)'
    BY <2>1, IdleIsNone DEF Waiting
  <2>5. CASE InFlight(i, jar.refresh, h) /\ call' = call
    BY <2>3, <2>5 DEF CallsShared, Busy
  <2>6. CASE /\ Joins(i, jar.refresh) = {} /\ call[h] = Idle /\ call'[h] \in Calls
             /\ call'[h].token = jar.refresh
             /\ \A g \in Handlers \ {h} : call'[g] = call[g]
    <3>1. ASSUME NEW g \in Busy'  PROVE g = h \/ (g \in Busy /\ call'[g] = call[g])
      BY <2>6, <3>1 DEF Busy
    <3>2. ASSUME NEW g \in Busy, call[g].token = jar.refresh  PROVE FALSE
      <4>1. g \in Handlers /\ call[g] # Idle /\ call[g].at \in Instances /\ Waiting(g) # {}
        BY <3>2, CallTokens DEF Calls, CallsShared, Busy
      <4>2. InFlight(i, jar.refresh, g)
        BY <3>2, <4>1 DEF InFlight, OneInstance
      <4> QED  BY <2>6, <4>1, <4>2 DEF Joins
    <3>3. \A g \in Busy' : Waiting(g)' # {}
      BY <2>3, <2>4, <3>1 DEF CallsShared
    <3>4. ASSUME NEW f \in Busy', NEW g \in Busy', call'[f].token = call'[g].token  PROVE f = g
      BY <2>6, <3>1, <3>2, <3>4 DEF CallsShared
    <3> QED  BY <3>3, <3>4 DEF CallsShared
  <2> QED  BY <2>1, <2>5, <2>6
<1>7. ASSUME \A g \in Handlers : Waiting(g) \subseteq Waiting(g)', UNCHANGED call
      PROVE  CallsShared'
  <2>1. Busy' = Busy /\ Busy \subseteq Handlers
    BY <1>7 DEF Busy
  <2> QED  BY <1>7, <2>1 DEF CallsShared
<1>8. ASSUME NEW q \in Requests, Reply(q)  PROVE CallsShared'
  <2>1. RequestEnds(q) /\ UNCHANGED call
    BY <1>8, ReplyEffect DEF Reply
  <2>2. ASSUME NEW g \in Handlers, NEW r \in Waiting(g)  PROVE r \in Waiting(g)'
    <3>1. r # q /\ r \in Requests
      BY <2>1, <2>2, IdleIsNone DEF Waiting, RequestEnds
    <3> QED  BY <2>1, <2>2, <3>1 DEF Waiting, RequestEnds
  <2> QED  BY <1>7, <2>1, <2>2
<1>9. CASE Tick
  <2>1. Older /\ UNCHANGED call
    BY <1>9, TickRequests DEF Tick
  <2>2. ASSUME NEW g \in Handlers, NEW r \in Waiting(g)  PROVE r \in Waiting(g)'
    BY <2>1, <2>2, IdleIsNone DEF Waiting, Older
  <2> QED  BY <1>7, <2>1, <2>2
<1>10. ASSUME NEW h \in Handlers, Abort(h)  PROVE CallsShared'
  BY <1>10, AbortEffect
<1>11. ASSUME NEW r \in Requests, ReplyLost(r)  PROVE CallsShared'
  BY <1>11, ReplyLostEffect
<1>12. CASE UNCHANGED <<request, call>>
  BY <1>12 DEF CallsShared, Busy, Waiting
<1>13. ASSUME NEW s \in SessionIds, Login(s) \/ SessionExpires(s)  PROVE UNCHANGED <<request, call>>
  BY <1>13, Zenon DEF Login, SessionExpires
<1>14. ASSUME Logout \/ RevokeAll \/ (\E to \in BOOLEAN : SetState(to))
       PROVE  UNCHANGED <<request, call>>
  BY <1>14, Zenon DEF Logout, RevokeAll, SetState
<1>15. ASSUME AccessExpires \/ CookieExpires \/ UNCHANGED vars  PROVE UNCHANGED <<request, call>>
  BY <1>15, Zenon DEF AccessExpires, CookieExpires, vars
<1> QED
  BY <1>3, <1>4, <1>5, <1>6, <1>8, <1>9, <1>10, <1>11, <1>12, <1>13, <1>14, <1>15, Zenon
  DEF Next, ApiStep

(* Nobody ends a session but the user, the panel and its age.              *)
LEMMA EndedIsClosedKept ==
  ASSUME TypeInv, [Next]_vars, HandedInv, ~hurt'
  PROVE  EndedIsClosed'
<1>0. EndedIsClosed /\ closed \subseteq closed' /\ \A s \in Kept : Served(s)
  BY HistoryKept DEF HandedInv
<1>1. ASSUME UNCHANGED <<active, session>>  PROVE EndedIsClosed'
  BY <1>0, <1>1 DEF EndedIsClosed, Existing
<1>2. ASSUME UNCHANGED active, \A s \in Existing' : s \in Existing,
             \A s \in Existing' : session'[s].revoked \/ session'[s].expired =>
               session[s].revoked \/ session[s].expired \/ s \in closed'
      PROVE  EndedIsClosed'
  BY <1>0, <1>2 DEF EndedIsClosed
<1>3. ASSUME SameTokens  PROVE \A s \in Existing' : s \in Existing
  BY <1>3 DEF SameTokens, Existing
<1>4. ASSUME NEW s \in SessionIds, Login(s)  PROVE EndedIsClosed'
  <2>1. active /\ active'
    BY <1>4 DEF Login
  <2>2. ASSUME NEW q \in Existing', session'[q].revoked \/ session'[q].expired  PROVE q \in closed'
    <3>1. q # s
      BY <1>4, <2>2, LoginEffect
    <3>2. q \in Existing /\ session'[q] = session[q]
      BY <1>4, <2>2, <3>1, LoginEffect DEF Existing
    <3> QED  BY <1>0, <2>2, <3>2 DEF EndedIsClosed
  <2> QED  BY <2>1, <2>2 DEF EndedIsClosed
<1>5. ASSUME NEW s \in SessionIds, SessionExpires(s)  PROVE EndedIsClosed'
  <2>1. UNCHANGED active
    BY <1>5 DEF SessionExpires
  <2> QED  BY <1>2, <1>3, <1>5, <2>1, RowExpired
<1>6. ASSUME NEW rows \in SUBSET Existing, RevokeRows(rows), UNCHANGED active  PROVE EndedIsClosed'
  BY <1>2, <1>3, <1>6, RowsRevoked
<1>7. CASE Logout
  <2>1. {s \in Existing : jar.access = "valid" /\ session[s].current = jar.refresh} \in SUBSET Existing
    OBVIOUS
  <2> QED  BY <1>6, <1>7, <2>1 DEF Logout
<1>8. CASE RevokeAll
  BY <1>6, <1>8 DEF RevokeAll
<1>9. ASSUME NEW to \in BOOLEAN, SetState(to)  PROVE EndedIsClosed'
  <2>1. UNCHANGED session /\ active' = to
    BY <1>9 DEF SetState
  <2>2. ~to => closed' = closed \union Existing
    BY <1>9 DEF SetState, Ends
  <2> QED  BY <1>0, <2>1, <2>2 DEF EndedIsClosed, Existing
<1>10. ASSUME NEW h \in Handlers, Rotate(h)  PROVE EndedIsClosed'
  <2>1. UNCHANGED active
    BY <1>10 DEF Rotate
  <2>2. \A s \in Existing' : s \in Existing
    BY <1>10, RotateEffect DEF Existing
  <2>3. \A s \in Existing' : session'[s].revoked = session[s].revoked
                             /\ session'[s].expired = session[s].expired
    BY <1>10, RotateEffect DEF Existing
  <2> QED  BY <1>2, <2>1, <2>2, <2>3
<1>11. ASSUME NEW h \in Handlers, Revoke(h)  PROVE EndedIsClosed'
  <2> DEFINE s == mintedFor[call[h].token]
  <2>1. h \in CallsOf(s) /\ s \in Existing /\ call[h].step = "revoke"
    BY <1>11, RevokeRow DEF CallsOf
  <2>2. s \in closed
    BY <1>0, <2>1 DEF Kept, Served, KnownTokens
  <2>3. UNCHANGED active /\ SameTokens
    BY <1>11, RevokeRow DEF Revoke
  <2> QED  BY <1>0, <1>2, <1>3, <1>11, <2>2, <2>3, RevokeRow
<1>12. CASE Tick
  <2>1. UNCHANGED active
    BY <1>12 DEF Tick
  <2> QED  BY <1>2, <1>3, <1>12, <2>1, TickRows
<1>13. ASSUME NEW h \in Handlers, ReadSession(h) \/ Answer(h) \/ HandlerDies(h) \/ Abort(h)
       PROVE  UNCHANGED <<active, session>>
  BY <1>13, Zenon DEF ReadSession, Answer, HandlerDies, Abort
<1>14. ASSUME NEW r \in Requests, Reply(r) \/ ReplyLost(r)  PROVE UNCHANGED <<active, session>>
  BY <1>14, Zenon DEF Reply, ReplyLost
<1>15. ASSUME NEW r \in Requests, NEW i \in Instances, NEW kind \in {"page", "fetch"}, Send(r, i, kind)
       PROVE  UNCHANGED <<active, session>>
  BY <1>15, Zenon DEF Send
<1>16. ASSUME AccessExpires \/ CookieExpires \/ UNCHANGED vars  PROVE UNCHANGED <<active, session>>
  BY <1>16, Zenon DEF AccessExpires, CookieExpires, vars
<1> QED
  BY <1>1, <1>4, <1>5, <1>7, <1>8, <1>9, <1>10, <1>11, <1>12, <1>13, <1>14, <1>15, <1>16, Zenon
  DEF Next, ApiStep

(* What the browser holds, or is being given, works.                       *)
LEMMA ServedTokensWork ==
  ASSUME TypeInv, HandedInv, GraceIsEnough
  PROVE  HandedIsKnown
<1>1. SUFFICES ASSUME ~hurt, NEW t \in Handed \ {None}, mintedFor[t] \notin closed
               PROVE  Works(t)
  BY DEF HandedIsKnown
<1> DEFINE s == mintedFor[t]
<1>2. t = jar.refresh \/ \E r \in Requests : request[r].step = "reply" /\ request[r].token = t
  BY <1>1 DEF Handed
<1>3. t \in 1..Minted
  BY <1>1, <1>2, MintedFacts DEF TypeInv, UsedTokens, None
<1>4. s \in Kept /\ Served(s) /\ EndedIsClosed
  BY <1>1, <1>3 DEF TypeInv, RowTokens, Kept, HandedInv
<1>5. ~session[s].revoked
  BY <1>4, KeptFacts DEF EndedIsClosed, Kept
<1>6. CASE t = Cur(s)
  BY <1>5, <1>6 DEF Works, Cur
<1>7. CASE t # Cur(s)
  <2>1. JarOf(s) /\ jar.refresh = t
    BY <1>1, <1>2, <1>4, <1>7 DEF JarOf, ReplyOf, Served, KnownTokens
  <2>2. t = Prev(s)
    BY <1>4, <1>7, <2>1 DEF Served, KnownTokens
  <2>3. session[s].age <= Patience
    BY <1>4, <1>7, <2>1, ReplacedJustNow
  <2>4. session[s].age <= Grace
    BY <1>4, <2>3, KeptFacts, Constants DEF GraceIsEnough
  <2> QED  BY <1>5, <2>2, <2>4 DEF Works, Prev
<1> QED  BY <1>6, <1>7

(* Nobody is expelled by requests of his own that overlap: with one portal *)
(* whose calls were answered in time, a token the browser holds or is      *)
(* being given renews the session, unless the session was ended.           *)
THEOREM HandedSafety ==
  ASSUME OneInstance, GraceIsEnough
  PROVE  Spec => []HandedIsKnown
<1>1. Init => TypeInv /\ HandedInv
  <2>1. SUFFICES ASSUME Init  PROVE TypeInv /\ HandedInv
    OBVIOUS
  <2>2. Existing = {} /\ Busy = {} /\ jar.refresh = None /\ active
    BY <2>1 DEF Init, Existing, Busy, EmptyJar
  <2>3. JarRenewsLate /\ CallsShared /\ EndedIsClosed /\ Kept = {}
    BY <2>2 DEF JarRenewsLate, CallsShared, EndedIsClosed, Kept
  <2> QED  BY <2>1, <2>3, TypeInvAtStart DEF HandedInv
<1>2. TypeInv /\ HandedInv /\ [Next]_vars => (TypeInv /\ HandedInv)'
  <2>1. SUFFICES ASSUME TypeInv, HandedInv, [Next]_vars  PROVE TypeInv' /\ HandedInv'
    OBVIOUS
  <2>2. JarRenewsLate'
    BY <2>1, JarRenewsLateKept DEF HandedInv
  <2>3. ASSUME ~hurt'  PROVE CallsShared' /\ EndedIsClosed' /\ \A s \in Kept' : Served(s)'
    <3>1. CallsShared
      BY <2>1, <2>3, HistoryKept DEF HandedInv
    <3> QED  BY <2>1, <2>3, <3>1, CallsSharedKept, EndedIsClosedKept, ServedKept
  <2> QED  BY <2>1, <2>2, <2>3, TypeInvKept DEF HandedInv
<1>3. TypeInv /\ HandedInv => HandedIsKnown
  BY ServedTokensWork
<1> QED  BY <1>1, <1>2, <1>3, PTL DEF Spec

=============================================================================
