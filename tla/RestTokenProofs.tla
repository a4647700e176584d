--------------------------- MODULE RestTokenProofs ---------------------------
(***************************************************************************)
(* Nobody waits in vain for a session, whatever happens to the certificate *)
(* of the appliance; and as long as it is accepted, the session of a token *)
(* is created by one goroutine at a time and a session that works is never *)
(* replaced, for any number of goroutines.                                 *)
(***************************************************************************)
EXTENDS RestToken, TLAPS

LEMMA InitIInv == Init => IInv
<1> SUFFICES ASSUME Init
             PROVE  Always /\ Verified
  BY DEF IInv
<1>1. TypeOK /\ CallHasToken
  BY TokenAssumption DEF Init, TypeOK, CallHasToken
<1>2. CreatingHasCreator /\ WaitsInGetToken /\ NoLostWaiter
  BY DEF Init, CreatingHasCreator, WaitsInGetToken, NoLostWaiter
<1>3. OneToken /\ OneCreator
  BY DEF Init, OneToken, OneCreator, Creating
<1>4. RefusedIsDead /\ SessionSet /\ NotAgain
  BY DEF Init, RefusedIsDead, SessionSet, NotAgain
<1> QED
  BY <1>1, <1>2, <1>3, <1>4 DEF Always, Verified

\* getToken leaves p where it sends the call, takes token.mtx once more, or
\* returns; the other goroutines stay where they are.
LEMMA GotSessionTypes ==
    ASSUME TypeOK, NEW p \in Proc, NEW s \in Session \cup {NoSession}, GotSession(p, s) \/ Return(p)
    PROVE  /\ pc' \in [Proc -> {"idle", "get", "do"} \cup Creating]
           /\ session' \in [Proc -> Session \cup {NoSession}]
           /\ previous' \in [Proc -> Session \cup {NoSession}]
           /\ refresh' \in [Proc -> BOOLEAN]
           /\ try' \in [Proc -> {1, 2}]
           /\ pc'[p] \in {"idle", "get", "do"}
           /\ \A q \in Proc \ {p} :
                /\ pc'[q] = pc[q] /\ session'[q] = session[q] /\ previous'[q] = previous[q]
                /\ refresh'[q] = refresh[q] /\ try'[q] = try[q]
<1>1. CASE Return(p)
  BY <1>1 DEF Return, Goto, TypeOK
<1>2. CASE ~refresh[p] /\ GotSession(p, s)
  BY <1>2 DEF GotSession, Return, Goto, TypeOK
<1>3. CASE refresh[p] /\ try[p] = 1 /\ GotSession(p, s)
  <2>1. /\ pc' = [pc EXCEPT ![p] = "get"] /\ session' = [session EXCEPT ![p] = NoSession]
        /\ refresh' = [refresh EXCEPT ![p] = FALSE] /\ try' = [try EXCEPT ![p] = 2]
        /\ previous' = previous
    BY <1>3 DEF GotSession, Goto
  <2> QED
    BY <2>1, <1>3 DEF TypeOK
<1>4. CASE refresh[p] /\ try[p] = 2 /\ GotSession(p, s)
  BY <1>1, <1>4 DEF GotSession
<1> QED
  BY <1>1, <1>2, <1>3, <1>4 DEF TypeOK

-----------------------------------------------------------------------------
(* Waiting, whatever happens to the certificate.                           *)

\* The steps of p that leave alone who is creating and who waits for whom.
LEMMA WaitersStay ==
    ASSUME Always, NEW p \in Proc, p \notin waiters, TypeOK', UNCHANGED <<state, waiters, token>>,
           \A q \in Proc \ {p} : pc'[q] = pc[q],
           pc'[p] \in Creating <=> pc[p] \in Creating,
           pc'[p] # "idle" => token[p] \in Token
    PROVE  Always'
<1>1. CallHasToken' /\ WaitsInGetToken'
  BY DEF Always, CallHasToken, WaitsInGetToken, TypeOK
<1>2. CreatingHasCreator'
  BY DEF Always, CreatingHasCreator
<1>3. NoLostWaiter'
  BY DEF Always, NoLostWaiter
<1> QED
  BY <1>1, <1>2, <1>3 DEF Always

\* LookUpToken makes a token that nobody is creating a session for.
LEMMA LookUpAlways ==
    ASSUME Always, NEW p \in Proc, LookUp(p)
    PROVE  Always'
<1> USE DEF Always
<1>1. PICK t \in Token :
        /\ token' = [token EXCEPT ![p] = t]
        /\ \A u \in Token : state'[u] = state[u] \/ state'[u] = "invalid"
        /\ UNCHANGED <<pc, waiters>> /\ pc[p] = "idle"
  <2>1. CASE list # NoToken
    BY <2>1 DEF LookUp, tokenVars, TypeOK
  <2>2. CASE list = NoToken
    BY <2>2 DEF LookUp, TypeOK
  <2> QED
    BY <2>1, <2>2
<1>2. TypeOK'
  BY DEF LookUp, TypeOK, tokenVars, locals
<1>3. CallHasToken' /\ WaitsInGetToken'
  BY <1>1 DEF CallHasToken, WaitsInGetToken, TypeOK
<1>4. CreatingHasCreator'
  BY <1>1 DEF CreatingHasCreator, Creating, TypeOK
<1>5. NoLostWaiter'
  BY <1>1 DEF NoLostWaiter, WaitsInGetToken, Creating, TypeOK
<1> QED
  BY <1>2, <1>3, <1>4, <1>5

LEMMA EndOfRequestAlways ==
    ASSUME Always, NEW p \in Proc, EndOfRequest(p)
    PROVE  Always'
<1> USE DEF Always
<1>1. /\ pc[p] = "idle" /\ token' = [token EXCEPT ![p] = NoToken]
      /\ UNCHANGED <<state, waiters, pc>>
  BY DEF EndOfRequest, tokenVars
<1>2. TypeOK'
  BY DEF EndOfRequest, TypeOK, tokenVars, locals
<1>3. CallHasToken' /\ WaitsInGetToken'
  BY <1>1 DEF CallHasToken, WaitsInGetToken, TypeOK
<1>4. CreatingHasCreator' /\ NoLostWaiter'
  BY <1>1 DEF CreatingHasCreator, NoLostWaiter, WaitsInGetToken, Creating, TypeOK
<1> QED
  BY <1>2, <1>3, <1>4

\* getToken: p starts a creation, or waits for one that somebody is at.
LEMMA GetTokenAlways ==
    ASSUME Always, NEW p \in Proc, GetToken(p)
    PROVE  Always'
<1> USE DEF Always
<1>1. CASE GetValid(p)
  <2>1. xAuthSession[token[p]] \in Session \cup {NoSession} /\ token[p] \in Token
    BY <1>1 DEF GetValid, Locks, CallHasToken, TypeOK
  <2>2. TypeOK'
    BY <1>1, <2>1, GotSessionTypes DEF GetValid, TypeOK, tokenVars
  <2> QED
    BY <1>1, <2>1, <2>2, GotSessionTypes, WaitersStay DEF GetValid, Locks, tokenVars, Creating
<1>2. CASE GetInvalid(p)
  <2>1. /\ pc[p] = "get" /\ p \notin waiters /\ token[p] \in Token /\ UNCHANGED <<waiters, token>>
        /\ state' = [state EXCEPT ![token[p]] = "creating"] /\ pc' = [pc EXCEPT ![p] = "create"]
    BY <1>2 DEF GetInvalid, Locks, Goto, CallHasToken
  <2>2. TypeOK'
    BY <1>2, <2>1 DEF GetInvalid, TypeOK, Creating, locals
  <2>3. CallHasToken' /\ WaitsInGetToken'
    BY <2>1 DEF CallHasToken, WaitsInGetToken, TypeOK
  <2>4. CreatingHasCreator' /\ NoLostWaiter'
    BY <2>1 DEF CreatingHasCreator, NoLostWaiter, Creating, TypeOK
  <2> QED
    BY <2>2, <2>3, <2>4
<1>3. CASE GetCreating(p)
  <2>1. /\ pc[p] = "get" /\ token[p] \in Token /\ state[token[p]] = "creating"
        /\ waiters' = waiters \cup {p} /\ UNCHANGED <<state, pc, token>>
    BY <1>3 DEF GetCreating, Locks, callVars, CallHasToken
  <2>2. TypeOK'
    BY <1>3, <2>1 DEF GetCreating, TypeOK, callVars, locals
  <2> QED
    BY <2>1, <2>2 DEF CallHasToken, CreatingHasCreator, WaitsInGetToken, NoLostWaiter
<1> QED
  BY <1>1, <1>2, <1>3 DEF GetToken

\* A creation: whoever waits for p is woken when p is done.
LEMMA CreateAlways ==
    ASSUME Always, NEW p \in Proc, Create(p)
    PROVE  Always'
<1> USE DEF Always
<1>1. pc[p] \in Creating /\ token[p] \in Token /\ p \notin waiters
  BY DEF Create, CreateSession, CreateFails, ReadBack, Created, NotCreated, Creating, CallHasToken,
     WaitsInGetToken
<1>2. CASE CreateSession(p) \/ CreateFails(p) \/ ReadBack(p)
  <2>1. /\ UNCHANGED <<state, waiters, token>> /\ pc'[p] \in Creating
        /\ \A q \in Proc \ {p} : pc'[q] = pc[q]
    BY <1>2 DEF CreateSession, CreateFails, ReadBack, Goto, Creating, TypeOK, tokenVars
  <2>2. TypeOK'
    <3>1. CASE CreateSession(p)
      BY <1>1, <3>1 DEF CreateSession, Goto, Creating, TypeOK, locals
    <3>2. CASE CreateFails(p)
      BY <1>1, <3>2 DEF CreateFails, ResetClient, Goto, Creating, TypeOK, locals
    <3>3. CASE ReadBack(p)
      BY <1>1, <3>3 DEF ReadBack, Goto, Creating, TypeOK, tokenVars
    <3> QED
      BY <1>2, <3>1, <3>2, <3>3
  <2> QED
    BY <1>1, <2>1, <2>2, WaitersStay
<1>3. CASE Created(p) \/ NotCreated(p)
  <2>1. PICK st \in {"valid", "invalid"} :
          /\ UNCHANGED token /\ state' = [state EXCEPT ![token[p]] = st]
          /\ waiters' = {q \in waiters : token[q] # token[p]}
    BY <1>3 DEF Created, NotCreated, Broadcast
  <2>2. session[p] \in Session \cup {NoSession} /\ (GotSession(p, session[p]) \/ Return(p))
    BY <1>3 DEF Created, NotCreated, TypeOK
  <2>3. TypeOK'
    <3>1. UNCHANGED <<list, xAuthSession, live, token, unverified>>
      BY <1>3 DEF Created, NotCreated
    <3> QED
      BY <3>1, <2>1, <2>2, GotSessionTypes DEF TypeOK
  <2>4. CallHasToken' /\ WaitsInGetToken'
    BY <1>1, <2>1, <2>2, GotSessionTypes DEF CallHasToken, WaitsInGetToken, TypeOK
  <2>5. CreatingHasCreator'
    <3> SUFFICES ASSUME NEW t \in Token, state'[t] = "creating"
                 PROVE  \E q \in Proc : pc'[q] \in Creating /\ token'[q] = t
      BY DEF CreatingHasCreator
    <3>1. t # token[p] /\ state[t] = "creating"
      BY <1>1, <2>1 DEF TypeOK
    <3>2. PICK q \in Proc : pc[q] \in Creating /\ token[q] = t
      BY <3>1 DEF CreatingHasCreator
    <3> QED
      BY <2>1, <2>2, <3>1, <3>2, GotSessionTypes
  <2>6. NoLostWaiter'
    <3> SUFFICES ASSUME NEW w \in waiters'
                 PROVE  \E q \in Proc : pc'[q] \in Creating /\ token'[q] = token'[w]
      BY DEF NoLostWaiter
    <3>1. w \in waiters /\ token[w] # token[p]
      BY <2>1
    <3>2. PICK q \in Proc : pc[q] \in Creating /\ token[q] = token[w]
      BY <3>1 DEF NoLostWaiter
    <3> QED
      BY <2>1, <2>2, <3>1, <3>2, GotSessionTypes
  <2> QED
    BY <2>3, <2>4, <2>5, <2>6
<1> QED
  BY <1>2, <1>3 DEF Create

\* The REST call: even when it overwrites the state of the token, whoever
\* waits still has a creator to wait for.
LEMMA DoAlways ==
    ASSUME Always, NEW p \in Proc, Do(p)
    PROVE  Always'
<1> USE DEF Always
<1>1. pc[p] = "do" /\ token[p] \in Token /\ p \notin waiters
  BY DEF Do, Answered, Unauthorized, BadCertificate, CallHasToken, WaitsInGetToken
<1>2. CASE Answered(p)
  <2>1. TypeOK'
    BY <1>2, GotSessionTypes DEF Answered, TypeOK, tokenVars
  <2> QED
    BY <1>1, <1>2, <2>1, GotSessionTypes, WaitersStay DEF Answered, tokenVars, Creating
<1>3. CASE Unauthorized(p)
  <2>1. TypeOK'
    BY <1>3 DEF Unauthorized, Goto, TypeOK, tokenVars
  <2> QED
    BY <1>1, <1>3, <2>1, WaitersStay DEF Unauthorized, Goto, TypeOK, tokenVars, Creating
<1>4. CASE BadCertificate(p)
  <2>1. /\ Return(p) /\ UNCHANGED <<waiters, token>>
        /\ state' = [state EXCEPT ![token[p]] = "invalid"]
    BY <1>4 DEF BadCertificate
  <2>2. TypeOK'
    BY <1>4, GotSessionTypes DEF BadCertificate, ResetClient, TypeOK
  <2>3. CallHasToken' /\ WaitsInGetToken'
    BY <1>1, <2>1, GotSessionTypes DEF CallHasToken, WaitsInGetToken, TypeOK
  <2>4. \A q \in Proc : pc[q] \in Creating => pc'[q] \in Creating
    BY <1>1, <2>1, GotSessionTypes DEF Creating
  <2>5. CreatingHasCreator' /\ NoLostWaiter'
    BY <1>1, <2>1, <2>4 DEF CreatingHasCreator, NoLostWaiter, TypeOK
  <2> QED
    BY <2>2, <2>3, <2>5
<1> QED
  BY <1>2, <1>3, <1>4 DEF Do

\* Every step keeps what holds always.
LEMMA StepAlways ==
    ASSUME Always, [Next]_vars
    PROVE  Always'
<1> USE DEF Always
<1>1. ASSUME NEW p \in Proc, MakeRequest(p) PROVE Always'
  <2>1. pc[p] = "idle" /\ p \notin waiters /\ token[p] \in Token
    BY <1>1 DEF MakeRequest, TypeOK, WaitsInGetToken
  <2>2. TypeOK'
    BY <1>1 DEF MakeRequest, Goto, TypeOK, tokenVars, locals
  <2> QED
    BY <1>1, <2>1, <2>2, WaitersStay DEF MakeRequest, Goto, TypeOK, tokenVars, Creating
<1>2. ASSUME NEW s \in Session, Expire(s) PROVE Always'
  BY <1>2 DEF Expire, TypeOK, CallHasToken, CreatingHasCreator, WaitsInGetToken, NoLostWaiter,
     tokenVars, callVars, locals
<1>3. UNCHANGED vars => Always'
  BY DEF vars, TypeOK, CallHasToken, CreatingHasCreator, WaitsInGetToken, NoLostWaiter,
     tokenVars, callVars, locals
<1> QED
  BY <1>1, <1>2, <1>3, LookUpAlways, EndOfRequestAlways, GetTokenAlways, CreateAlways, DoAlways
     DEF Next

-----------------------------------------------------------------------------
(* Sessions, while the certificate is accepted.                            *)

\* Only the creator of a token's session is creating it.
LEMMA CreatorIsOnly ==
    ASSUME OneCreator, NEW p \in Proc, NEW q \in Proc, token[p] \in Token,
           pc[p] \in Creating, pc[q] \in Creating, token[q] = token[p]
    PROVE  p = q /\ state[token[p]] = "creating"
  BY DEF OneCreator

\* The goroutines that are creating stay the same when p neither starts nor
\* stops, and no state changes.
LEMMA CreatorsStay ==
    ASSUME OneCreator, NEW p \in Proc, UNCHANGED <<state, token>>,
           \A q \in Proc \ {p} : pc'[q] = pc[q],
           pc'[p] \in Creating <=> pc[p] \in Creating
    PROVE  OneCreator'
<1> SUFFICES ASSUME NEW t \in Token
             PROVE  LET creators == {q \in Proc : pc'[q] \in Creating /\ token[q] = t}
                    IN  \/ state[t] = "creating" /\ \E q \in Proc : creators = {q}
                        \/ state[t] # "creating" /\ creators = {}
  BY DEF OneCreator
<1>1. {q \in Proc : pc'[q] \in Creating /\ token[q] = t}
        = {q \in Proc : pc[q] \in Creating /\ token[q] = t}
  OBVIOUS
<1> QED
  BY <1>1 DEF OneCreator

\* LookUpToken: the first one makes a token nobody uses.
LEMMA LookUpKeeps ==
    ASSUME Always', Always, Verified, NEW p \in Proc, LookUp(p)
    PROVE  Verified'
<1> USE DEF Always, Verified
<1>1. pc[p] = "idle" /\ UNCHANGED <<waiters, live, pc, locals>>
  BY DEF LookUp, tokenVars
<1>2. CASE list # NoToken
  <2>1. UNCHANGED tokenVars /\ token' = [token EXCEPT ![p] = list]
    BY <1>2 DEF LookUp
  <2>2. OneToken'
    BY <1>1, <2>1 DEF TypeOK, OneToken, CallHasToken, tokenVars, locals
  <2>3. OneCreator'
    <3>1. ASSUME NEW t \in Token
          PROVE  {q \in Proc : pc'[q] \in Creating /\ token'[q] = t}
                   = {q \in Proc : pc[q] \in Creating /\ token[q] = t}
      BY <1>1, <2>1 DEF Creating, TypeOK
    <3> QED
      BY <2>1, <3>1 DEF OneCreator, tokenVars
  <2>4. RefusedIsDead'
    BY <1>1, <2>1 DEF RefusedIsDead, WaitsInGetToken, Creating,
       tokenVars, locals, TypeOK
  <2>5. SessionSet' /\ NotAgain'
    BY <1>1, <2>1 DEF SessionSet, NotAgain, tokenVars, locals, TypeOK
  <2> QED
    BY <2>2, <2>3, <2>4, <2>5
<1>3. CASE list = NoToken
  <2>1. \A q \in Proc : token[q] = NoToken /\ pc[q] = "idle"
    BY <1>3, TokenAssumption DEF OneToken, CallHasToken
  <2>2. PICK t \in Token :
          /\ list' = t /\ state' = [state EXCEPT ![t] = "invalid"]
          /\ xAuthSession' = [xAuthSession EXCEPT ![t] = NoSession]
          /\ token' = [token EXCEPT ![p] = t] /\ UNCHANGED waiters
    BY <1>3 DEF LookUp
  <2>3. \A u \in Token : state'[u] = "invalid"
    BY <1>3, <2>2 DEF OneToken, CallHasToken, TypeOK
  <2>4. OneToken'
    BY <1>1, <2>1, <2>2, TokenAssumption DEF TypeOK, OneToken, CallHasToken, locals
  <2>5. OneCreator'
    BY <1>1, <2>1, <2>3 DEF OneCreator, Creating
  <2>6. RefusedIsDead'
    BY <1>1, <2>1, <2>2 DEF RefusedIsDead, WaitsInGetToken, TypeOK,
       locals
  <2>7. SessionSet' /\ NotAgain'
    BY <1>1, <2>1, <2>3 DEF SessionSet, NotAgain, RefusedIsDead, Creating, locals
  <2> QED
    BY <2>4, <2>5, <2>6, <2>7
<1> QED
  BY <1>2, <1>3

\* MakeRequest is entered; or the gRPC request ends.
LEMMA CallKeeps ==
    ASSUME Always', Always, Verified, NEW p \in Proc, MakeRequest(p) \/ EndOfRequest(p)
    PROVE  Verified'
<1> USE DEF Always, Verified
<1>1. CASE MakeRequest(p)
  <2>1. /\ UNCHANGED <<list, state, xAuthSession, waiters, live, token, locals>>
        /\ pc[p] = "idle" /\ token[p] # NoToken /\ pc' = [pc EXCEPT ![p] = "get"]
    BY <1>1 DEF MakeRequest, Goto, tokenVars
  <2>2. OneCreator'
    BY <2>1, CreatorsStay DEF Creating, TypeOK
  <2>3. OneToken'
    BY <2>1 DEF TypeOK, OneToken, CallHasToken, WaitsInGetToken, locals
  <2>5. RefusedIsDead'
    BY <2>1 DEF RefusedIsDead, Creating, TypeOK, locals
  <2>6. SessionSet' /\ NotAgain'
    BY <2>1 DEF SessionSet, NotAgain, TypeOK, locals
  <2> QED
    BY <2>2, <2>3, <2>5, <2>6
<1>2. CASE EndOfRequest(p)
  <2>1. /\ UNCHANGED <<list, state, xAuthSession, waiters, live, pc, locals>>
        /\ pc[p] = "idle" /\ token' = [token EXCEPT ![p] = NoToken]
    BY <1>2 DEF EndOfRequest, tokenVars
  <2>2. OneCreator'
    <3>1. ASSUME NEW t \in Token
          PROVE  {q \in Proc : pc'[q] \in Creating /\ token'[q] = t}
                   = {q \in Proc : pc[q] \in Creating /\ token[q] = t}
      BY <2>1 DEF Creating, TypeOK
    <3> QED
      BY <2>1, <3>1 DEF OneCreator
  <2>3. OneToken'
    BY <2>1 DEF TypeOK, OneToken, CallHasToken, WaitsInGetToken, locals
  <2>5. RefusedIsDead'
    BY <2>1 DEF RefusedIsDead, locals
  <2>6. SessionSet' /\ NotAgain'
    BY <2>1 DEF SessionSet, NotAgain, RefusedIsDead, Creating, TypeOK, locals
  <2> QED
    BY <2>2, <2>3, <2>5, <2>6
<1> QED
  BY <1>1, <1>2

\* getToken finds a session that can be used.
LEMMA ValidKeeps ==
    ASSUME Always', Always, Verified, NEW p \in Proc, GetValid(p)
    PROVE  Verified'
<1> USE DEF Always, Verified
<1>1. /\ UNCHANGED <<list, state, xAuthSession, waiters, live, token>>
      /\ pc[p] = "get" /\ p \notin waiters /\ token[p] \in Token
      /\ state[token[p]] = "valid" /\ Usable(p, token[p])
      /\ xAuthSession[token[p]] \in Session
  BY DEF GetValid, Locks, tokenVars, OneToken, CallHasToken, SessionSet
<1>2. \A q \in Proc \ {p} :
        /\ pc'[q] = pc[q] /\ session'[q] = session[q] /\ previous'[q] = previous[q]
        /\ refresh'[q] = refresh[q] /\ try'[q] = try[q]
  BY <1>1, GotSessionTypes DEF GetValid
<1>3. /\ refresh'[p] = FALSE
      /\ \/ /\ pc'[p] = "do" /\ session'[p] = xAuthSession[token[p]]
            /\ previous'[p] = previous[p] /\ try'[p] = try[p] /\ ~refresh[p]
         \/ /\ pc'[p] = "get" /\ previous'[p] = previous[p] /\ try'[p] = 2
            /\ previous[p] # xAuthSession[token[p]] /\ refresh[p]
         \/ pc'[p] = "idle" /\ try'[p] = 1
  BY <1>1 DEF GetValid, GotSession, Return, Goto, TypeOK, Usable
<1>4. OneCreator'
  BY <1>1, <1>2, <1>3, CreatorsStay DEF Creating
<1>5. OneToken' /\ RefusedIsDead'
  <2>1. OneToken'
    BY <1>1, <1>2, <1>3 DEF OneToken, CallHasToken
  <2>3. RefusedIsDead'
    BY <1>1, <1>2, <1>3 DEF RefusedIsDead
  <2> QED
    BY <2>1, <2>3
<1>7. SessionSet' /\ NotAgain'
  BY <1>1, <1>2, <1>3 DEF SessionSet, NotAgain
<1> QED
  BY <1>2, <1>4, <1>5, <1>7

\* getToken finds no session, or the refused one: nobody else is creating.
LEMMA InvalidKeeps ==
    ASSUME Always', Always, Verified, NEW p \in Proc, GetInvalid(p)
    PROVE  Verified'
<1> USE DEF Always, Verified
<1>1. /\ UNCHANGED <<list, xAuthSession, waiters, live, token, locals>>
      /\ pc[p] = "get" /\ p \notin waiters /\ token[p] \in Token
      /\ state[token[p]] # "creating" /\ list = token[p]
      /\ state' = [state EXCEPT ![token[p]] = "creating"]
      /\ pc' = [pc EXCEPT ![p] = "create"]
  BY TokenAssumption DEF GetInvalid, Locks, Goto, OneToken, CallHasToken
<1>2. OneCreator'
  <2>1. ASSUME NEW q \in Proc, token[q] = token[p] PROVE pc[q] \notin Creating
    BY <1>1, <2>1 DEF OneCreator
  <2>2. {q \in Proc : pc'[q] \in Creating /\ token'[q] = token[p]} = {p}
    BY <1>1, <2>1 DEF Creating, TypeOK
  <2>3. ASSUME NEW t \in Token, t # token[p]
        PROVE  {q \in Proc : pc'[q] \in Creating /\ token'[q] = t}
                 = {q \in Proc : pc[q] \in Creating /\ token[q] = t}
    BY <1>1, <2>3 DEF TypeOK
  <2>4. state'[token[p]] = "creating" /\ \A t \in Token : t # token[p] => state'[t] = state[t]
    BY <1>1 DEF TypeOK
  <2> QED
    BY <2>2, <2>3, <2>4 DEF OneCreator
<1>3. OneToken'
  BY <1>1, TokenAssumption DEF TypeOK, OneToken, CallHasToken, Creating, locals
<1>5. RefusedIsDead'
  BY <1>1 DEF RefusedIsDead, Creating, TypeOK, locals
<1>6. SessionSet' /\ NotAgain'
  BY <1>1 DEF SessionSet, NotAgain, TypeOK, locals
<1> QED
  BY <1>2, <1>3, <1>5, <1>6

\* getToken finds another goroutine that is creating: it is there to wait for.
LEMMA CreatingKeeps ==
    ASSUME Always', Always, Verified, NEW p \in Proc, GetCreating(p)
    PROVE  Verified'
<1> USE DEF Always, Verified
<1>1. /\ UNCHANGED <<list, state, xAuthSession, live, pc, token, locals>>
      /\ pc[p] = "get" /\ token[p] \in Token /\ state[token[p]] = "creating"
      /\ waiters' = waiters \cup {p}
  BY DEF GetCreating, Locks, OneToken, CallHasToken, callVars
<1>2. \E q \in Proc : pc[q] \in Creating /\ token[q] = token[p]
  BY <1>1 DEF OneCreator
<1>4. OneCreator' /\ OneToken'
  BY <1>1 DEF OneCreator, TypeOK, OneToken, CallHasToken, locals
<1>5. RefusedIsDead' /\ SessionSet' /\ NotAgain'
  BY <1>1 DEF RefusedIsDead, SessionSet, NotAgain, locals
<1> QED
  BY <1>4, <1>5

\* The outcome of a creation is stored, while everybody else keeps away.
LEMMA StoreKeeps ==
    ASSUME ~unverified', Always', Always, Verified, NEW p \in Proc, CreateSession(p) \/ CreateFails(p)
    PROVE  Verified'
<1> USE DEF Always, Verified
<1>1. PICK s \in Session \cup {NoSession} :
        /\ UNCHANGED <<list, state, waiters, token, locals>>
        /\ pc[p] = "create" /\ token[p] \in Token
        /\ xAuthSession' = [xAuthSession EXCEPT ![token[p]] = s]
        /\ \/ s \in Session /\ Fresh(s) /\ live' \subseteq live \cup {s} /\ pc' = [pc EXCEPT ![p] = "read"]
           \/ s = NoSession /\ live' = live /\ pc' = [pc EXCEPT ![p] = "failed"]
  BY DEF CreateSession, CreateFails, Goto, OneToken, CallHasToken
<1>2. OneCreator'
  BY <1>1, CreatorsStay DEF Creating, TypeOK
<1>3. state[token[p]] = "creating" /\ \A q \in Proc \ {p} :
        token[q] = token[p] => pc[q] \notin Creating
  BY <1>1, CreatorIsOnly DEF Creating
<1>4. OneToken'
  BY <1>1 DEF TypeOK, OneToken, CallHasToken, Creating, locals
<1>6. RefusedIsDead'
  BY <1>1 DEF RefusedIsDead, Creating, TypeOK, Fresh, locals
<1>7. SessionSet'
  BY <1>1, <1>3 DEF SessionSet, Creating, TypeOK, locals
<1>8. NotAgain'
  BY <1>1, <1>3, TokenAssumption DEF NotAgain, SessionSet, Creating, TypeOK, Fresh, locals
<1> QED
  BY <1>2, <1>4, <1>6, <1>7, <1>8

\* The creator reads the session back: it is the one it stored.
LEMMA ReadKeeps ==
    ASSUME Always', Always, Verified, NEW p \in Proc, ReadBack(p)
    PROVE  Verified'
<1> USE DEF Always, Verified
<1>1. /\ UNCHANGED <<list, state, xAuthSession, waiters, live, token, previous, refresh, try>>
      /\ pc[p] = "read" /\ pc' = [pc EXCEPT ![p] = "relock"]
      /\ session' = [session EXCEPT ![p] = xAuthSession[token[p]]]
  BY DEF ReadBack, Goto, tokenVars
<1>2. OneCreator'
  BY <1>1, CreatorsStay DEF Creating, TypeOK
<1>3. OneToken'
  BY <1>1 DEF TypeOK, OneToken, CallHasToken, SessionSet, Creating
<1>5. RefusedIsDead'
  BY <1>1 DEF RefusedIsDead, Creating, TypeOK
<1>6. SessionSet' /\ NotAgain'
  BY <1>1 DEF SessionSet, NotAgain, TypeOK
<1> QED
  BY <1>2, <1>3, <1>5, <1>6

\* The creator is done: the token has a session or is invalid, and those who
\* waited have been woken.
LEMMA DoneKeeps ==
    ASSUME Always', Always, Verified, NEW p \in Proc, Created(p) \/ NotCreated(p)
    PROVE  Verified'
<1> USE DEF Always, Verified
<1>1. PICK st \in {"valid", "invalid"} :
        /\ UNCHANGED <<list, xAuthSession, live, token>>
        /\ pc[p] \in {"relock", "failed"} /\ token[p] \in Token
        /\ state' = [state EXCEPT ![token[p]] = st]
        /\ st = "valid" => xAuthSession[token[p]] \in Session
        /\ Broadcast(token[p])
  BY DEF Created, NotCreated, OneToken, CallHasToken, SessionSet
<1>2. \A q \in Proc \ {p} :
        /\ pc'[q] = pc[q] /\ session'[q] = session[q] /\ previous'[q] = previous[q]
        /\ refresh'[q] = refresh[q] /\ try'[q] = try[q]
  <2>1. session[p] \in Session \cup {NoSession} /\ (GotSession(p, session[p]) \/ Return(p))
    BY DEF Created, NotCreated, TypeOK
  <2> QED
    BY <2>1, GotSessionTypes
<1>3. /\ refresh'[p] = FALSE
      /\ \/ /\ pc'[p] = "do" /\ session'[p] = xAuthSession[token[p]]
            /\ session'[p] \in Session
            /\ previous'[p] = previous[p] /\ try'[p] = try[p]
            /\ try[p] = 2 => previous[p] \in Session /\ session'[p] # previous[p]
         \/ /\ pc'[p] = "get" /\ previous'[p] = previous[p] /\ try'[p] = 2
            /\ previous[p] \in Session /\ previous[p] # xAuthSession[token[p]]
         \/ pc'[p] = "idle" /\ try'[p] = 1
  <2>1. CASE Created(p)
    BY <1>1, <2>1 DEF Created, GotSession, Return, Goto, TypeOK, SessionSet, NotAgain
  <2>2. CASE NotCreated(p)
    BY <1>1, <2>2 DEF NotCreated, Return, Goto, TypeOK
  <2> QED
    BY <2>1, <2>2
<1>4. \A q \in Proc \ {p} : token[q] = token[p] => pc[q] \notin Creating
  BY <1>1, CreatorIsOnly DEF Creating
<1>5. OneCreator'
  <2>1. {q \in Proc : pc'[q] \in Creating /\ token'[q] = token[p]} = {}
    BY <1>1, <1>2, <1>3, <1>4 DEF Creating
  <2>2. ASSUME NEW t \in Token, t # token[p]
        PROVE  {q \in Proc : pc'[q] \in Creating /\ token'[q] = t}
                 = {q \in Proc : pc[q] \in Creating /\ token[q] = t}
    BY <1>1, <1>2, <2>2
  <2>3. state'[token[p]] # "creating" /\ \A t \in Token : t # token[p] => state'[t] = state[t]
    BY <1>1 DEF TypeOK
  <2> QED
    BY <2>1, <2>2, <2>3 DEF OneCreator
<1>6. OneToken'
  <2>1. list = token[p] /\ list # NoToken
    BY <1>1, TokenAssumption DEF OneToken, CallHasToken
  <2> QED
    BY <1>1, <1>2, <2>1 DEF OneToken, CallHasToken
<1>8. RefusedIsDead'
  BY <1>1, <1>2, <1>3 DEF RefusedIsDead
<1>9. SessionSet'
  <2>1. ASSUME NEW t \in Token, state'[t] = "valid" PROVE xAuthSession'[t] \in Session
    BY <1>1, <2>1 DEF SessionSet, TypeOK
  <2> QED
    BY <1>1, <1>2, <1>3, <2>1 DEF SessionSet
<1>10. NotAgain'
  BY <1>1, <1>2, <1>3 DEF NotAgain
<1> QED
  BY <1>2, <1>5, <1>6, <1>8, <1>9, <1>10

\* The REST call itself, and the expiry of a session.
LEMMA DoKeeps ==
    ASSUME ~unverified', Always', Always, Verified, NEW p \in Proc, Do(p)
    PROVE  Verified'
<1> USE DEF Always, Verified
<1>1. CASE Answered(p)
  <2>1. /\ UNCHANGED <<list, state, xAuthSession, waiters, live, token>>
        /\ pc[p] = "do" /\ pc' = [pc EXCEPT ![p] = "idle"]
        /\ session' = [session EXCEPT ![p] = NoSession]
        /\ previous' = [previous EXCEPT ![p] = NoSession]
        /\ refresh' = [refresh EXCEPT ![p] = FALSE] /\ try' = [try EXCEPT ![p] = 1]
    BY <1>1 DEF Answered, Return, Goto, tokenVars
  <2>2. OneCreator'
    BY <2>1, CreatorsStay DEF Creating, TypeOK
  <2>3. OneToken'
    BY <2>1 DEF TypeOK, OneToken, CallHasToken
  <2>5. RefusedIsDead' /\ NotAgain'
    BY <2>1 DEF RefusedIsDead, NotAgain, TypeOK
  <2>6. SessionSet'
    BY <2>1 DEF SessionSet, TypeOK
  <2> QED
    BY <2>2, <2>3, <2>5, <2>6
<1>2. CASE Unauthorized(p)
  <2>1. /\ UNCHANGED <<list, state, xAuthSession, waiters, live, token, session, try>>
        /\ pc[p] = "do" /\ pc' = [pc EXCEPT ![p] = "get"] /\ session[p] \notin live
        /\ previous' = [previous EXCEPT ![p] = session[p]]
        /\ refresh' = [refresh EXCEPT ![p] = TRUE]
    BY <1>2 DEF Unauthorized, Goto, tokenVars
  <2>2. OneCreator'
    BY <2>1, CreatorsStay DEF Creating, TypeOK
  <2>3. OneToken'
    BY <2>1 DEF TypeOK, OneToken, CallHasToken
  <2>5. RefusedIsDead' /\ NotAgain'
    BY <2>1 DEF RefusedIsDead, NotAgain, TypeOK
  <2>6. SessionSet'
    BY <2>1 DEF SessionSet, TypeOK
  <2> QED
    BY <2>2, <2>3, <2>5, <2>6
<1>3. ~BadCertificate(p)
  BY DEF BadCertificate
<1> QED
  BY <1>1, <1>2, <1>3 DEF Do

LEMMA ExpireKeeps ==
    ASSUME Always', Always, Verified, NEW s \in Session, Expire(s)
    PROVE  Verified'
  BY DEF Expire, Always, Verified, TypeOK, OneToken, CallHasToken, OneCreator, RefusedIsDead, SessionSet,
     NotAgain, tokenVars, callVars, locals

\* Every step keeps the invariant: the certificate, once refused, stays so.
LEMMA StepIInv ==
    ASSUME IInv, [Next]_vars
    PROVE  IInv' /\ (unverified => unverified')
<1>1. Always'
  BY StepAlways DEF IInv
<1>2. unverified => unverified'
  <2>1. ASSUME NEW p \in Proc, CreateFails(p) \/ BadCertificate(p)
        PROVE  unverified => unverified'
    BY <2>1 DEF CreateFails, BadCertificate
  <2>2. ASSUME NEW p \in Proc,
               LookUp(p) \/ MakeRequest(p) \/ EndOfRequest(p) \/ GetToken(p)
        PROVE  unverified => unverified'
    BY <2>2 DEF LookUp, MakeRequest, EndOfRequest, GetToken, GetValid, GetInvalid, GetCreating
  <2>3. ASSUME NEW p \in Proc,
               \/ CreateSession(p) \/ ReadBack(p) \/ Created(p) \/ NotCreated(p)
               \/ Answered(p) \/ Unauthorized(p)
        PROVE  unverified => unverified'
    BY <2>3 DEF CreateSession, ReadBack, Created, NotCreated, Answered, Unauthorized
  <2>4. ASSUME NEW s \in Session, Expire(s) PROVE unverified => unverified'
    BY <2>4 DEF Expire
  <2>5. UNCHANGED vars => (unverified => unverified')
    BY DEF vars
  <2>6. ASSUME NEW p \in Proc, Create(p) \/ Do(p) PROVE unverified => unverified'
    BY <2>1, <2>3, <2>6 DEF Create, Do
  <2>7. Next => (unverified => unverified')
    BY <2>2, <2>4, <2>6 DEF Next
  <2> QED
    BY <2>5, <2>7
<1>3. ASSUME ~unverified', Verified
      PROVE  Verified'
  <2> USE <1>1, <1>3 DEF IInv
  <2>1. UNCHANGED vars => Verified'
    BY DEF vars, Verified, OneToken, CallHasToken, OneCreator, RefusedIsDead, SessionSet, NotAgain,
       tokenVars, callVars, locals
  <2> QED
    BY <2>1, LookUpKeeps, CallKeeps, ValidKeeps, InvalidKeeps, CreatingKeeps, StoreKeeps,
       ReadKeeps, DoneKeeps, DoKeeps, ExpireKeeps DEF Next, GetToken, Create
<1> QED
  BY <1>1, <1>2, <1>3 DEF IInv

-----------------------------------------------------------------------------
\* A step leaves a session the appliance accepts in its token: only a
\* goroutine that was refused with this very session may take it out, and a
\* refused session is dead.
LEMMA StepKeepsLive ==
    ASSUME ~unverified', Always, Verified, [Next]_vars, NEW t \in Token,
           state[t] = "valid", xAuthSession[t] \in live
    PROVE  xAuthSession'[t] = xAuthSession[t] /\ state'[t] = "valid"
<1> USE DEF Always, Verified
<1> DEFINE Kept == xAuthSession'[t] = xAuthSession[t] /\ state'[t] = state[t]
<1>1. ASSUME NEW p \in Proc, LookUp(p) PROVE Kept
  BY <1>1 DEF LookUp, OneToken, CallHasToken, tokenVars
<1>2. ASSUME NEW p \in Proc, GetInvalid(p) PROVE Kept
  <2>1. token[p] # t
    BY <1>2 DEF GetInvalid, Usable, RefusedIsDead
  <2> QED
    BY <1>2, <2>1 DEF GetInvalid, TypeOK
<1>3. ASSUME NEW p \in Proc, Create(p) PROVE Kept
  <2>1. pc[p] \in Creating
    BY <1>3 DEF Create, CreateSession, CreateFails, ReadBack, Created, NotCreated, Creating
  <2>2. token[p] # t
    BY <2>1, CreatorIsOnly
  <2> QED
    BY <1>3, <2>2 DEF Create, CreateSession, CreateFails, ReadBack, Created, NotCreated, TypeOK,
       tokenVars
<1>4. ASSUME NEW p \in Proc,
             MakeRequest(p) \/ EndOfRequest(p) \/ GetValid(p) \/ GetCreating(p) \/ Do(p)
      PROVE  Kept
  BY <1>4 DEF MakeRequest, EndOfRequest, GetValid, GetCreating, Do, Answered, Unauthorized,
     BadCertificate, tokenVars
<1>5. ASSUME NEW s \in Session, Expire(s) PROVE Kept
  BY <1>5 DEF Expire, tokenVars
<1>6. UNCHANGED vars => Kept
  BY DEF vars, tokenVars
<1> QED
  BY <1>1, <1>2, <1>3, <1>4, <1>5, <1>6 DEF Next, GetToken

-----------------------------------------------------------------------------
\* The inductive invariant: whatever fails, who waits waits for somebody at
\* work; and while the certificate is accepted, there is one token, a creator
\* at most, and refused sessions stay dead (getToken, zfssa_rest.go:178).
THEOREM TokenInvariant == Spec => []IInv
<1>1. IInv /\ [Next]_vars => IInv'
  BY StepIInv
<1> QED
  BY InitIInv, <1>1, PTL DEF Spec

\* Whatever happens, also a refused certificate whose handling overwrites the
\* state without the mutex (zfssa_rest.go:323), a goroutine that waits for a
\* session waits for one that is at work.
THEOREM WaitersAreHeeded == Spec => []NoLostWaiter
<1>1. IInv => NoLostWaiter
  BY DEF IInv, Always
<1> QED
  BY TokenInvariant, <1>1, PTL

\* While the certificate of the appliance is accepted, one goroutine creates a
\* session at a time, although it does so without the mutex
\* (zfssa_rest.go:197).
THEOREM OneCreatesAtATime == Spec => []OneAtATime
<1>1. IInv => OneAtATime
  BY DEF IInv, Verified, OneAtATime
<1> QED
  BY TokenInvariant, <1>1, PTL

\* While the certificate is accepted, the second try of a call has another
\* session than the first (MakeRequest, zfssa_rest.go:364).
THEOREM RetryHasAnother == Spec => []RetryIsFresh
<1>1. IInv => RetryIsFresh
  BY DEF IInv, Verified, RetryIsFresh, NotAgain
<1> QED
  BY TokenInvariant, <1>1, PTL

\* A session that works is not replaced, however late the refusals of the one
\* before come in (the comparison with previous, zfssa_rest.go:225).
THEOREM TokenKeepsLiveSession == Spec => LiveSessionKept
<1> DEFINE Kept == ~unverified' =>
                     \A t \in Token :
                       state[t] = "valid" /\ xAuthSession[t] \in live =>
                         xAuthSession'[t] = xAuthSession[t] /\ state'[t] = "valid"
<1>1. IInv /\ [Next]_vars => IInv'
  BY StepIInv
<1>2. IInv /\ [Next]_vars => Kept
  <2> SUFFICES ASSUME IInv, [Next]_vars, ~unverified'
               PROVE  Kept
    OBVIOUS
  <2>1. Always /\ Verified
    BY StepIInv DEF IInv
  <2> QED
    BY <2>1, StepKeepsLive
<1> QED
  BY InitIInv, <1>1, <1>2, PTL DEF Spec, LiveSessionKept
=============================================================================
