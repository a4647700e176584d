------------------------------ MODULE RestToken ------------------------------
(***************************************************************************)
(* The session tokens of the REST client (zfssarest/zfssa_rest.go):        *)
(* LookUpToken, getToken, createZfssaSession and MakeRequest, for the      *)
(* requests of one user to one appliance.                                  *)
(*                                                                         *)
(* All requests of a user share a token, which holds the session the       *)
(* appliance wants to see in every REST call.  Whoever finds no session    *)
(* creates one, without token.mtx; the others wait on the condition        *)
(* variable.  A session may expire at any time; a call refused with status *)
(* 401 asks for another session and is sent once more.                     *)
(*                                                                         *)
(* A critical section of token.mtx is one action, from Lock to Unlock or   *)
(* Wait.  What is done to the token without the mutex is an action of its  *)
(* own: storing and reading the session of a creation, and marking the     *)
(* token as invalid when the certificate of the appliance cannot be        *)
(* verified, which also drops the list of tokens (resetHttpTlsClient).     *)
(***************************************************************************)
EXTENDS FiniteSets

CONSTANTS Proc,       \* goroutines that make REST calls
          Token,      \* token structures in memory
          Session,    \* sessions of the appliance
          NoToken,
          NoSession,  \* the empty string in xAuthSession
          Faults      \* what can fail: "expire", "net", "cert"

ASSUME TokenAssumption ==
    /\ NoToken \notin Token
    /\ NoSession \notin Session
    /\ Faults \subseteq {"expire", "net", "cert"}

VARIABLES
    list,          \* tokens.list of the user: a token, or NoToken
    state,         \* state of a token
    xAuthSession,  \* session of a token
    waiters,       \* the goroutines in cv.Wait that no Broadcast has woken
    live,          \* the sessions the appliance accepts
    pc,            \* where a goroutine is
    token,         \* the token a goroutine has looked up, or NoToken
    session,       \* the session a goroutine got from getToken
    previous,      \* the session its call was refused with, or NoSession
    refresh,       \* getToken was called because of status 401
    try,           \* first or second makeRequest of MakeRequest
    unverified     \* history: the certificate of the appliance was refused

tokenVars == <<list, state, xAuthSession, waiters>>
locals    == <<session, previous, refresh, try>>
callVars  == <<pc, token, locals>>
vars      == <<tokenVars, live, callVars, unverified>>

(* "get": takes token.mtx in getToken, or waits there.                     *)
(* "create", "read", "relock": creates a session, reads it back, takes     *)
(* token.mtx again; "failed": takes it after a failure.  "do": sends the   *)
(* call.                                                                   *)
Creating == {"create", "read", "relock", "failed"}

TypeOK ==
    /\ list \in Token \cup {NoToken}
    /\ state \in [Token -> {"invalid", "creating", "valid"}]
    /\ xAuthSession \in [Token -> Session \cup {NoSession}]
    /\ waiters \subseteq Proc
    /\ live \subseteq Session
    /\ pc \in [Proc -> {"idle", "get", "do"} \cup Creating]
    /\ token \in [Proc -> Token \cup {NoToken}]
    /\ session \in [Proc -> Session \cup {NoSession}]
    /\ previous \in [Proc -> Session \cup {NoSession}]
    /\ refresh \in [Proc -> BOOLEAN]
    /\ try \in [Proc -> {1, 2}]
    /\ unverified \in BOOLEAN

Init ==
    /\ list = NoToken
    /\ state = [t \in Token |-> "invalid"]
    /\ xAuthSession = [t \in Token |-> NoSession]
    /\ waiters = {}
    /\ live = {}
    /\ pc = [p \in Proc |-> "idle"]
    /\ token = [p \in Proc |-> NoToken]
    /\ session = [p \in Proc |-> NoSession]
    /\ previous = [p \in Proc |-> NoSession]
    /\ refresh = [p \in Proc |-> FALSE]
    /\ try = [p \in Proc |-> 1]
    /\ unverified = FALSE

Goto(p, where) == pc' = [pc EXCEPT ![p] = where]

\* A session nobody remembers stands for one the appliance has not given out.
Fresh(s) ==
    /\ \A t \in Token : t = list \/ (\E p \in Proc : token[p] = t) => xAuthSession[t] # s
    /\ \A p \in Proc : session[p] # s /\ previous[p] # s

-----------------------------------------------------------------------------
\* LookUpToken, at the start of a gRPC request.
LookUp(p) ==
    /\ pc[p] = "idle" /\ token[p] = NoToken
    /\ IF list # NoToken
       THEN token' = [token EXCEPT ![p] = list] /\ UNCHANGED tokenVars
       ELSE \E t \in Token :
              /\ \A q \in Proc : token[q] # t
              /\ list' = t
              /\ state' = [state EXCEPT ![t] = "invalid"]
              /\ xAuthSession' = [xAuthSession EXCEPT ![t] = NoSession]
              /\ token' = [token EXCEPT ![p] = t]
              /\ UNCHANGED waiters
    /\ UNCHANGED <<live, unverified, pc, locals>>

\* A gRPC request makes as many REST calls as it wants with its token.
MakeRequest(p) ==
    /\ pc[p] = "idle" /\ token[p] # NoToken
    /\ Goto(p, "get")
    /\ UNCHANGED <<tokenVars, live, unverified, token, locals>>

EndOfRequest(p) ==
    /\ pc[p] = "idle" /\ token[p] # NoToken
    /\ token' = [token EXCEPT ![p] = NoToken]
    /\ UNCHANGED <<tokenVars, live, unverified, pc, locals>>

\* MakeRequest returns.
Return(p) ==
    /\ Goto(p, "idle")
    /\ session' = [session EXCEPT ![p] = NoSession]
    /\ previous' = [previous EXCEPT ![p] = NoSession]
    /\ refresh' = [refresh EXCEPT ![p] = FALSE]
    /\ try' = [try EXCEPT ![p] = 1]

\* getToken returns session s: to send the call with; or, after status 401,
\* to be left, as makeRequest returns and is called again, but only once.
GotSession(p, s) ==
    \/ /\ ~refresh[p]
       /\ Goto(p, "do")
       /\ session' = [session EXCEPT ![p] = s]
       /\ UNCHANGED <<previous, refresh, try>>
    \/ /\ refresh[p] /\ try[p] = 1
       /\ Goto(p, "get")
       /\ session' = [session EXCEPT ![p] = NoSession]
       /\ refresh' = [refresh EXCEPT ![p] = FALSE]
       /\ try' = [try EXCEPT ![p] = 2]
       /\ UNCHANGED previous
    \/ refresh[p] /\ try[p] = 2 /\ Return(p)

-----------------------------------------------------------------------------
(* getToken.                                                               *)

\* Mutants of Usable: after status 401 any session will do; or none.
AnyUsable(p, t)       == TRUE
NoneAfterRefusal(p, t) == ~refresh[p]

\* The session of token t is not the one that was refused.
Usable(p, t) == ~refresh[p] \/ previous[p] # xAuthSession[t]

\* p has token.mtx, for the first time or after a Broadcast.
Locks(p) == pc[p] = "get" /\ p \notin waiters

GetValid(p) ==
    /\ Locks(p)
    /\ state[token[p]] = "valid"
    /\ Usable(p, token[p])
    /\ GotSession(p, xAuthSession[token[p]])
    /\ UNCHANGED <<tokenVars, live, unverified, token>>

\* Mutants of GetInvalid: it does not wait for another goroutine that is
\* creating; it does not say that it is creating.
GetWithoutWait(p) ==
    /\ Locks(p)
    /\ state[token[p]] # "valid" \/ ~Usable(p, token[p])
    /\ state' = [state EXCEPT ![token[p]] = "creating"]
    /\ Goto(p, "create")
    /\ UNCHANGED <<list, xAuthSession, waiters, live, unverified, token, locals>>

GetSilently(p) ==
    /\ Locks(p)
    /\ \/ state[token[p]] = "invalid"
       \/ state[token[p]] = "valid" /\ ~Usable(p, token[p])
    /\ Goto(p, "create")
    /\ UNCHANGED <<tokenVars, live, unverified, token, locals>>

\* No session, or one that was refused: this goroutine creates the next.
GetInvalid(p) ==
    /\ Locks(p)
    /\ \/ state[token[p]] = "invalid"
       \/ state[token[p]] = "valid" /\ ~Usable(p, token[p])
    /\ state' = [state EXCEPT ![token[p]] = "creating"]
    /\ Goto(p, "create")
    /\ UNCHANGED <<list, xAuthSession, waiters, live, unverified, token, locals>>

\* Another goroutine is creating a session: cv.Wait.
GetCreating(p) ==
    /\ Locks(p)
    /\ state[token[p]] = "creating"
    /\ waiters' = waiters \cup {p}
    /\ UNCHANGED <<list, state, xAuthSession, live, unverified, callVars>>

\* resetHttpTlsClient: the list of tokens is dropped, unless the new
\* certificate cannot be read.
ResetClient == list' \in {list, NoToken}

\* createZfssaSession returns, and its results are stored in the token.
CreateSession(p) ==
    /\ pc[p] = "create"
    /\ \E s \in Session :
         /\ Fresh(s)
         /\ live' = {r \in live : ~Fresh(r)} \cup {s}
         /\ xAuthSession' = [xAuthSession EXCEPT ![token[p]] = s]
    /\ Goto(p, "read")
    /\ UNCHANGED <<list, state, waiters, token, locals, unverified>>

CreateFails(p) ==
    /\ pc[p] = "create"
    /\ \/ "net" \in Faults /\ UNCHANGED <<list, unverified>>
       \/ "cert" \in Faults /\ ResetClient /\ unverified' = TRUE
    /\ xAuthSession' = [xAuthSession EXCEPT ![token[p]] = NoSession]
    /\ Goto(p, "failed")
    /\ UNCHANGED <<state, waiters, live, token, locals>>

\* xAuthSession := token.xAuthSession
ReadBack(p) ==
    /\ pc[p] = "read"
    /\ session' = [session EXCEPT ![p] = xAuthSession[token[p]]]
    /\ Goto(p, "relock")
    /\ UNCHANGED <<tokenVars, live, unverified, token, previous, refresh, try>>

\* cv.Broadcast: those that wait for token t will look at its state again.
Broadcast(t) == waiters' = {q \in waiters : token[q] # t}

\* Mutants: Created leaves the state as it is; NotCreated wakes nobody.
CreatedUnrecorded(p) ==
    /\ pc[p] = "relock"
    /\ Broadcast(token[p])
    /\ GotSession(p, session[p])
    /\ UNCHANGED <<list, state, xAuthSession, live, unverified, token>>

NotCreatedQuietly(p) ==
    /\ pc[p] = "failed"
    /\ state' = [state EXCEPT ![token[p]] = "invalid"]
    /\ Return(p)
    /\ UNCHANGED <<list, xAuthSession, waiters, live, unverified, token>>

\* The creator takes token.mtx again, records the outcome, wakes the others
\* and returns.
Created(p) ==
    /\ pc[p] = "relock"
    /\ state' = [state EXCEPT ![token[p]] = "valid"]
    /\ Broadcast(token[p])
    /\ GotSession(p, session[p])
    /\ UNCHANGED <<list, xAuthSession, live, unverified, token>>

NotCreated(p) ==
    /\ pc[p] = "failed"
    /\ state' = [state EXCEPT ![token[p]] = "invalid"]
    /\ Broadcast(token[p])
    /\ Return(p)
    /\ UNCHANGED <<list, xAuthSession, live, unverified, token>>

-----------------------------------------------------------------------------
(* The REST call of makeRequest, with the session it has.                  *)

\* The appliance answers, or the call fails without an answer.
Answered(p) ==
    /\ pc[p] = "do"
    /\ session[p] \in live \/ "net" \in Faults
    /\ Return(p)
    /\ UNCHANGED <<tokenVars, live, unverified, token>>

\* Status 401: the session has expired, another one is needed.
Unauthorized(p) ==
    /\ pc[p] = "do"
    /\ session[p] \notin live
    /\ Goto(p, "get")
    /\ previous' = [previous EXCEPT ![p] = session[p]]
    /\ refresh' = [refresh EXCEPT ![p] = TRUE]
    /\ UNCHANGED <<tokenVars, live, unverified, token, session, try>>

\* The certificate of the appliance is not the expected one any more: the
\* state is written without token.mtx.
BadCertificate(p) ==
    /\ pc[p] = "do"
    /\ "cert" \in Faults
    /\ state' = [state EXCEPT ![token[p]] = "invalid"]
    /\ ResetClient
    /\ unverified' = TRUE
    /\ Return(p)
    /\ UNCHANGED <<xAuthSession, waiters, live, token>>

Expire(s) ==
    /\ "expire" \in Faults
    /\ s \in live
    /\ live' = live \ {s}
    /\ UNCHANGED <<tokenVars, callVars, unverified>>

-----------------------------------------------------------------------------
GetToken(p) == GetValid(p) \/ GetInvalid(p) \/ GetCreating(p)
Create(p)   == \/ CreateSession(p) \/ CreateFails(p) \/ ReadBack(p)
               \/ Created(p) \/ NotCreated(p)
Do(p)       == Answered(p) \/ Unauthorized(p) \/ BadCertificate(p)

Next ==
    \/ \E p \in Proc : \/ LookUp(p) \/ MakeRequest(p) \/ EndOfRequest(p)
                      \/ GetToken(p) \/ Create(p) \/ Do(p)
    \/ \E s \in Session : Expire(s)

(* Goroutines are scheduled, and every HTTP call ends.                     *)
Fairness == \A p \in Proc : WF_vars(GetToken(p)) /\ WF_vars(Create(p)) /\ WF_vars(Do(p))

Spec     == Init /\ [][Next]_vars
FairSpec == Spec /\ Fairness
-----------------------------------------------------------------------------
\* At most one goroutine creates a session for a token, and it does so while
\* the token says so ("if another thread is already in the process of
\* creating one, it will wait until the creation has completed",
\* zfssa_rest.go:178).
OneCreator ==
    \A t \in Token :
        LET creators == {p \in Proc : pc[p] \in Creating /\ token[p] = t}
        IN  \/ state[t] = "creating" /\ \E p \in Proc : creators = {p}
            \/ state[t] # "creating" /\ creators = {}

\* Nobody waits for a session that nobody is creating, even if the state of
\* the token has been overwritten without token.mtx or the list of tokens has
\* been dropped: the wait of getToken has no timeout.
NoLostWaiter ==
    \A p \in waiters : \E q \in Proc : pc[q] \in Creating /\ token[q] = token[p]

\* As long as the certificate of the appliance is accepted, a session the
\* appliance accepts is never thrown away: of the goroutines whose calls were
\* refused with the same session, the first replaces it and the others,
\* however late they come, use the new one.
LiveSessionKept ==
    [][~unverified' =>
         \A t \in Token :
           state[t] = "valid" /\ xAuthSession[t] \in live =>
              xAuthSession'[t] = xAuthSession[t] /\ state'[t] = "valid"]_vars

\* The second makeRequest does not use the session the first was refused
\* with, as long as the certificate of the appliance is accepted.
RetryIsFresh ==
    ~unverified =>
      \A p \in Proc : pc[p] = "do" /\ try[p] = 2 => session[p] # previous[p]

\* A goroutine that waits is woken.
WaitEnds == \A p \in Proc : p \in waiters ~> p \notin waiters

\* If from some time on no session expires, no creation fails and the
\* certificate is accepted, every REST call ends.
Calm == <>[][/\ \A s \in Session : ~Expire(s)
             /\ \A p \in Proc : ~CreateFails(p) /\ ~BadCertificate(p)]_vars
EveryCallEnds == Calm => \A p \in Proc : []<>(pc[p] = "idle")
-----------------------------------------------------------------------------
(* The strengthening that makes the properties above inductive.            *)

\* A goroutine in a call has a token, and a token whose session is being
\* created has a creator, if the state has been overwritten perhaps several.
CallHasToken == \A p \in Proc : pc[p] # "idle" => token[p] \in Token
CreatingHasCreator ==
    \A t \in Token : state[t] = "creating" =>
        \E p \in Proc : pc[p] \in Creating /\ token[p] = t
WaitsInGetToken == \A p \in waiters : pc[p] = "get"

\* All requests have the token of the list; before there is one, no token is
\* in use.
OneToken ==
    /\ \A p \in Proc : token[p] \in {list, NoToken}
    /\ list = NoToken => \A t \in Token : state[t] = "invalid"

\* A refused session is never accepted again, and only a call that was
\* refused asks for another session.
RefusedIsDead ==
    \A p \in Proc : refresh[p] =>
        previous[p] \notin live /\ pc[p] \in {"get"} \cup Creating

\* Where a session is expected there is one, and nobody but the creator
\* stores one meanwhile.
SessionSet ==
    /\ \A t \in Token : state[t] = "valid" => xAuthSession[t] \in Session
    /\ \A p \in Proc :
         /\ pc[p] \in {"read", "relock"} => xAuthSession[token[p]] \in Session
         /\ pc[p] = "relock" => session[p] = xAuthSession[token[p]]
         /\ pc[p] = "do" => session[p] \in Session
         /\ refresh[p] \/ try[p] = 2 => previous[p] \in Session

\* Once a creation or a look has shown another session in the token, the
\* refused one does not come back.
NotAgain ==
    \A p \in Proc :
        /\ pc[p] = "idle" => try[p] = 1
        /\ pc[p] \in {"read", "relock"} \/ (try[p] = 2 /\ ~refresh[p]) =>
             xAuthSession[token[p]] # previous[p]
        /\ pc[p] = "do" /\ try[p] = 2 => session[p] # previous[p]

\* What holds whatever happens, and what holds while the certificate of the
\* appliance is accepted.
Always   == TypeOK /\ CallHasToken /\ CreatingHasCreator /\ WaitsInGetToken /\ NoLostWaiter
Verified == OneToken /\ OneCreator /\ RefusedIsDead /\ SessionSet /\ NotAgain
IInv     == Always /\ (~unverified => Verified)

\* While the certificate of the appliance is accepted, one goroutine creates
\* a session at a time.
OneAtATime == ~unverified => OneCreator
=============================================================================
