------------------------------- MODULE Sessions -------------------------------
(***************************************************************************)
(* The session of a user: rows of the table sessions, whose refresh token  *)
(* AuthService rotates, and the private portal (CLIENT), whose instances   *)
(* renew it for the requests of one browser: the guard of a page and the   *)
(* proxy of a fetch share one call per token.                              *)
(*                                                                         *)
(* Tokens are numbered as they are minted; mintedFor[t] is the session of  *)
(* token t.  Time is kept as ages, none of which counts past its bound.    *)
(***************************************************************************)
EXTENDS Integers, Sequences, FiniteSets

CONSTANTS
  SessionIds,    \* rows of sessions
  Instances,     \* processes of the portal
  Requests,      \* requests of the browser under way at once
  Handlers,      \* refreshes the API serves at once
  Grace,         \* ROTATION_GRACE_SEC
  Patience,      \* TOPE_REFRESCO_MS: how long a request is under way
  AccessLife,    \* JWT_ACCESS_EXPIRY
  MaxTokens,     \* bound: refresh tokens minted
  MaxEndings,    \* bound: times the user, the panel or the age end sessions
  MaxFaults      \* bound: handlers that die, or are slow, and answers lost

ASSUME SessionsAssumption ==
  /\ IsFiniteSet(Handlers)
  /\ {Grace, Patience, AccessLife, MaxEndings, MaxFaults} \subseteq Nat
  /\ MaxTokens \in Nat \ {0}

VARIABLES
  session,     \* table sessions
  mintedFor,   \* history: the session of each token, oldest first
  active,      \* users.state = ACTIVE
  jar,         \* the two cookies of the browser
  request,     \* per request of the browser: where it is
  call,        \* per refresh the API serves: what it read and does next
  closed,      \* history: sessions ended by the user, the panel or their age
  endings,     \* counts such endings
  faults,      \* counts deaths, slow calls and lost answers
  hurt         \* history: a call was given up or an answer was lost

vars == <<session, mintedFor, active, jar, request, call, closed, endings, faults, hurt>>

Idle == [step |-> "idle"]
None == 0
EmptyJar == [access |-> "none", refresh |-> None, age |-> 0]
FullJar(token) == [access |-> "valid", refresh |-> token, age |-> 0]

Min2(a, b) == IF a < b THEN a ELSE b
Minted == Len(mintedFor)

Init ==
  /\ session = [s \in SessionIds |-> Idle]
  /\ mintedFor = <<>>
  /\ active = TRUE
  /\ jar = EmptyJar
  /\ request = [r \in Requests |-> Idle]
  /\ call = [h \in Handlers |-> Idle]
  /\ closed = {}
  /\ endings = 0
  /\ faults = 0
  /\ hurt = FALSE

Existing == {s \in SessionIds : session[s] # Idle}

-----------------------------------------------------------------------------
(* login: generateTokens creates a row; BASE writes both cookies.          *)
Login(s) ==
  /\ session[s] = Idle
  /\ active
  /\ jar.access = "none"
  /\ Minted + Cardinality({h \in Handlers : call[h] # Idle}) < MaxTokens
  /\ mintedFor' = Append(mintedFor, s)
  /\ session' = [session EXCEPT ![s] =
       [step |-> "open", current |-> Minted + 1, previous |-> None, age |-> Grace + 1,
        revoked |-> FALSE, expired |-> FALSE]]
  /\ jar' = FullJar(Minted + 1)
  /\ UNCHANGED <<active, request, call, closed, endings, faults, hurt>>

Ends(rows) ==
  /\ endings < MaxEndings
  /\ endings' = endings + 1
  /\ closed' = closed \union rows

RevokeRows(rows) ==
  /\ session' = [s \in SessionIds |->
       IF s \in rows THEN [session[s] EXCEPT !.revoked = TRUE] ELSE session[s]]
  /\ Ends(rows)

(* Leaving the portal: the API refuses a stale access token and the portal *)
(* does not look at its answer; the cookies go in any case.                *)
Logout ==
  /\ jar.refresh # None
  /\ RevokeRows({s \in Existing : jar.access = "valid" /\ session[s].current = jar.refresh})
  /\ jar' = EmptyJar
  /\ UNCHANGED <<mintedFor, active, request, call, faults, hurt>>

(* resetPassword, and logout without a token.                              *)
RevokeAll ==
  /\ \E s \in Existing : ~session[s].revoked
  /\ RevokeRows(Existing)
  /\ UNCHANGED <<mintedFor, active, jar, request, call, faults, hurt>>

(* updateUser of the panel: suspends, and lifts the suspension.            *)
SetState(to) ==
  /\ active # to
  /\ active' = to
  /\ IF to THEN UNCHANGED <<closed, endings>> ELSE Ends(Existing)
  /\ UNCHANGED <<session, mintedFor, jar, request, call, faults, hurt>>

SessionExpires(s) ==
  /\ s \in Existing
  /\ ~session[s].expired
  /\ session' = [session EXCEPT ![s].expired = TRUE]
  /\ Ends({s})
  /\ UNCHANGED <<mintedFor, active, jar, request, call, faults, hurt>>

-----------------------------------------------------------------------------
Waiting(h) == {r \in Requests : request[r].step = "waiting" /\ request[r].call = h}

(* enVuelo: the call of this instance for this token that is under way,    *)
(* also while its answer is on the way.                                    *)
InFlight(i, token, h) ==
  call[h] # Idle /\ call[h].at = i /\ call[h].token = token /\ Waiting(h) # {}

(* Fault: every request makes its own call.                                *)
JoinsNone(i, token) == {}

Joins(i, token) == {h \in Handlers : InFlight(i, token, h)}

(* The guard renews for a page whose access token is there and has         *)
(* expired; the proxy for any fetch that the API answers with 401.         *)
Renews(kind) ==
  /\ jar.refresh # None
  /\ IF kind = "page" THEN jar.access = "expired" ELSE jar.access # "valid"

Send(r, i, kind) ==
  /\ request[r] = Idle
  /\ Renews(kind)
  /\ Minted + Cardinality({h \in Handlers : call[h] # Idle}) < MaxTokens
  /\ LET token == jar.refresh
         under == Joins(i, token)
     IN \E h \in IF under # {} THEN under ELSE {f \in Handlers : call[f] = Idle} :
          /\ request' = [request EXCEPT ![r] =
               [step |-> "waiting", kind |-> kind, call |-> h, age |-> 0]]
          /\ call' = IF under # {} THEN call ELSE [call EXCEPT ![h] =
               [step |-> "read", at |-> i, token |-> token, gives |-> None,
                late |-> session[mintedFor[token]].revoked]]
  /\ UNCHANGED <<session, mintedFor, active, jar, closed, endings, faults, hurt>>

-----------------------------------------------------------------------------
(* AuthService.refreshToken.                                               *)
Found(token) == {s \in Existing : token \in {session[s].current, session[s].previous}}

Then(h, step) == [call[h] EXCEPT !.step = step]
Deny(h) == Then(h, "answer")
Grant(h, token) == [Then(h, "answer") EXCEPT !.gives = token]

(* Fault: a revoked session is not told from another.                      *)
DeadIfExpired(s) == session[s].expired \/ ~active

Dead(s) == session[s].revoked \/ session[s].expired \/ ~active

(* Which of the four cases it is, for the row it found.                    *)
Verdict(h, s) ==
  LET row == session[s]
      token == call[h].token
  IN IF Dead(s) THEN Deny(h) ELSE
     CASE row.previous = token /\ row.age <= Grace -> Grant(h, row.current)
       [] row.previous = token /\ row.age > Grace  -> Then(h, "revoke")
       [] OTHER                                    -> Then(h, "rotate")

ReadSession(h) ==
  /\ call[h].step = "read"
  /\ call' = [call EXCEPT ![h] =
       IF Found(call[h].token) = {} THEN Deny(h)
       ELSE Verdict(h, CHOOSE s \in Found(call[h].token) : TRUE)]
  /\ UNCHANGED <<session, mintedFor, active, jar, request, closed, endings, faults, hurt>>

(* Fault: the token given before is forgotten.                             *)
RotateForgets(h) ==
  /\ call[h].step = "rotate"
  /\ LET s == mintedFor[call[h].token]
         token == Minted + 1
     IN /\ mintedFor' = Append(mintedFor, s)
        /\ session' = [session EXCEPT ![s].current = token, ![s].age = 0]
        /\ call' = [call EXCEPT ![h] = Grant(h, token)]
  /\ UNCHANGED <<active, jar, request, closed, endings, faults, hurt>>

(* The transaction locks the row, and writes what was read before it.      *)
Rotate(h) ==
  /\ call[h].step = "rotate"
  /\ LET s == mintedFor[call[h].token]
         token == Minted + 1
     IN /\ mintedFor' = Append(mintedFor, s)
        /\ session' = [session EXCEPT ![s].previous = call[h].token,
                                      ![s].current = token, ![s].age = 0]
        /\ call' = [call EXCEPT ![h] = Grant(h, token)]
  /\ UNCHANGED <<active, jar, request, closed, endings, faults, hurt>>

(* Reuse: the whole session is revoked.                                    *)
Revoke(h) ==
  /\ call[h].step = "revoke"
  /\ session' = [session EXCEPT ![mintedFor[call[h].token]].revoked = TRUE]
  /\ call' = [call EXCEPT ![h] = Deny(h)]
  /\ UNCHANGED <<mintedFor, active, jar, request, closed, endings, faults, hurt>>

(* Fault: of the requests that share the call one is answered.             *)
AnswerFirst(h) ==
  /\ call[h].step = "answer"
  /\ \E r \in Waiting(h) : request' = [request EXCEPT ![r] =
       [step |-> "reply", kind |-> request[r].kind, age |-> request[r].age,
        outcome |-> IF call[h].gives = None THEN "dead" ELSE "tokens",
        token |-> call[h].gives]]
  /\ call' = [call EXCEPT ![h] = Idle]
  /\ UNCHANGED <<session, mintedFor, active, jar, closed, endings, faults, hurt>>

(* The answer reaches the portal, and every request that shares the call.  *)
Answer(h) ==
  /\ call[h].step = "answer"
  /\ request' = [r \in Requests |->
       IF r \in Waiting(h)
       THEN [step |-> "reply", kind |-> request[r].kind, age |-> request[r].age,
             outcome |-> IF call[h].gives = None THEN "dead" ELSE "tokens",
             token |-> call[h].gives]
       ELSE request[r]]
  /\ call' = [call EXCEPT ![h] = Idle]
  /\ UNCHANGED <<session, mintedFor, active, jar, closed, endings, faults, hurt>>

(* The API dies, or the network eats its answer.                           *)
HandlerDies(h) ==
  /\ call[h].step \in {"read", "rotate", "revoke", "answer"}
  /\ faults < MaxFaults
  /\ faults' = faults + 1
  /\ call' = [call EXCEPT ![h] = IF Waiting(h) = {} THEN Idle ELSE Then(h, "dead")]
  /\ UNCHANGED <<session, mintedFor, active, jar, request, closed, endings, hurt>>

(* Fault: nothing aborts a call that is not answered.                      *)
AbortNever(h) == h \in {} /\ UNCHANGED vars

(* After TOPE_REFRESCO_MS the portal gives up; the API does not notice.    *)
Abort(h) ==
  /\ \E r \in Waiting(h) : request[r].age >= Patience
  /\ IF call[h].step = "dead" THEN UNCHANGED faults
     ELSE faults < MaxFaults /\ faults' = faults + 1
  /\ request' = [r \in Requests |->
       IF r \in Waiting(h)
       THEN [step |-> "reply", kind |-> request[r].kind, age |-> request[r].age,
             outcome |-> "unknown", token |-> None]
       ELSE request[r]]
  /\ call' = [call EXCEPT ![h] = IF @.step = "dead" THEN Idle ELSE @]
  /\ hurt' = TRUE
  /\ UNCHANGED <<session, mintedFor, active, jar, closed, endings>>

-----------------------------------------------------------------------------
(* The response reaches the browser: new cookies; or a page takes them     *)
(* away and leads to the login, and a fetch leaves them alone.             *)
Reply(r) ==
  /\ request[r].step = "reply"
  /\ jar' = CASE request[r].outcome = "tokens" -> FullJar(request[r].token)
              [] request[r].outcome # "tokens" /\ request[r].kind = "page" -> EmptyJar
              [] OTHER -> jar
  /\ request' = [request EXCEPT ![r] = Idle]
  /\ UNCHANGED <<session, mintedFor, active, call, closed, endings, faults, hurt>>

ReplyLost(r) ==
  /\ request[r].step = "reply"
  /\ faults < MaxFaults
  /\ faults' = faults + 1
  /\ request' = [request EXCEPT ![r] = Idle]
  /\ hurt' = TRUE
  /\ UNCHANGED <<session, mintedFor, active, jar, call, closed, endings>>

(* The access token expires, and a moment later the cookie that holds it.  *)
AccessExpires ==
  /\ jar.access = "valid" /\ jar.age = AccessLife
  /\ jar' = [jar EXCEPT !.access = "expired"]
  /\ UNCHANGED <<session, mintedFor, active, request, call, closed, endings, faults, hurt>>

CookieExpires ==
  /\ jar.access = "expired"
  /\ jar' = [jar EXCEPT !.access = "none"]
  /\ UNCHANGED <<session, mintedFor, active, request, call, closed, endings, faults, hurt>>

Sent == {r \in Requests : request[r] # Idle}

(* A request is under way no longer than Patience.                         *)
Tick ==
  /\ \A r \in Sent : request[r].age < Patience
  /\ session' = [s \in SessionIds |->
       IF session[s] = Idle THEN Idle
       ELSE [session[s] EXCEPT !.age = Min2(@ + 1, Grace + 1)]]
  /\ jar' = [jar EXCEPT !.age = Min2(@ + 1, AccessLife)]
  /\ request' = [r \in Requests |->
       IF r \in Sent THEN [request[r] EXCEPT !.age = @ + 1] ELSE Idle]
  /\ UNCHANGED <<mintedFor, active, call, closed, endings, faults, hurt>>

-----------------------------------------------------------------------------
ApiStep(h) == ReadSession(h) \/ Rotate(h) \/ Revoke(h) \/ Answer(h)

Next ==
  \/ \E s \in SessionIds : Login(s) \/ SessionExpires(s)
  \/ Logout \/ RevokeAll
  \/ \E to \in BOOLEAN : SetState(to)
  \/ \E r \in Requests, i \in Instances, kind \in {"page", "fetch"} : Send(r, i, kind)
  \/ \E h \in Handlers : ApiStep(h) \/ HandlerDies(h) \/ Abort(h)
  \/ \E r \in Requests : Reply(r) \/ ReplyLost(r)
  \/ AccessExpires \/ CookieExpires \/ Tick

Spec == Init /\ [][Next]_vars

(* The event loops of the portal and the API run on, timers fire and a     *)
(* response is delivered or lost.                                          *)
FairSpec ==
  /\ Spec
  /\ \A h \in Handlers : WF_vars(ApiStep(h)) /\ WF_vars(Abort(h))
  /\ \A r \in Requests : WF_vars(Reply(r))
  /\ WF_vars(Tick)

-----------------------------------------------------------------------------
TypeOK ==
  /\ \A s \in Existing :
       /\ session[s].current \in 1..Minted
       /\ session[s].previous \in 0..Minted
       /\ session[s].age \in 0..Grace + 1
  /\ mintedFor \in Seq(SessionIds) /\ Minted <= MaxTokens
  /\ jar \in [access : {"valid", "expired", "none"}, refresh : 0..Minted, age : 0..AccessLife]
  /\ \A r \in Requests :
       \/ request[r] = Idle
       \/ request[r].step = "waiting" /\ call[request[r].call] # Idle
       \/ request[r].step = "reply" /\ request[r].age <= Patience
  /\ closed \in SUBSET SessionIds /\ hurt \in BOOLEAN

Handed == {jar.refresh} \union {request[r].token : r \in {q \in Requests : request[q].step = "reply"}}

Works(token) ==
  LET row == session[mintedFor[token]] IN
    ~row.revoked /\ (row.current = token \/ (row.previous = token /\ row.age <= Grace))

(* A token the browser holds, or is being given, renews the session, unless *)
(* the user, the panel or its age ended it: nobody is expelled by requests  *)
(* of his own that overlap.  (One instance; no answer was lost or late.)    *)
HandedIsKnown ==
  ~hurt => \A t \in Handed \ {None} : mintedFor[t] \in closed \/ Works(t)

(* A call that begins when its session was revoked gets no tokens, neither  *)
(* new ones nor the current one, whatever is under way on the same session. *)
RevokedStaysDead ==
  \A h \in Handlers :
    call[h] # Idle /\ call[h].late => call[h].step # "rotate" /\ call[h].gives = None

(* Every request is answered, also when the API never answers the call it   *)
(* shares with others.                                                      *)
Answered == \A r \in Requests : request[r] # Idle ~> request[r] = Idle
=============================================================================
