-------------------------- MODULE WebSessionProofs --------------------------
(***************************************************************************)
(* Theorems about WebSession, for any number of browsers, requests,        *)
(* tokens and calls.                                                       *)
(*                                                                         *)
(* What the API's own tables and calls keep is taken from SessionsProofs:  *)
(* every step here is one of the API's or leaves it alone.                 *)
(***************************************************************************)
EXTENDS WebSession, TLAPS

S == INSTANCE SessionsProofs WITH Session <- Browser

\* A request carries a cookie from the moment it is sent.
Sent == \A r \in Request : stage[r] = "idle" <=> jar[r] = None

\* The API as WebSession uses it is the one SessionsProofs is about.
LEMMA SameApi ==
  /\ Api!TypeOK <=> S!TypeOK
  /\ Api!Init <=> S!Init
  /\ \A b \in Browser : (Api!Expire(b) <=> S!Expire(b)) /\ \A t \in Token : Api!Login(b, t) <=> S!Login(b, t)
  /\ \A c \in Call : /\ Api!Step(c) <=> S!Step(c)
                     /\ Api!Lose(c) <=> S!Lose(c)
                     /\ \A t \in Token : (Api!Refresh(c, t) <=> S!Refresh(c, t)) /\ (Api!Logout(c, t) <=> S!Logout(c, t))
<1> USE DEF Api!Revoked, S!Revoked, Api!rows, S!rows, Api!Goto, S!Goto, Api!Finish, S!Finish, Api!Fresh, S!Fresh
<1>1. (Api!TypeOK <=> S!TypeOK) /\ (Api!Init <=> S!Init)
  BY DEF Api!TypeOK, S!TypeOK, Api!Init, S!Init
<1>2. ASSUME NEW b \in Browser
      PROVE  (Api!Expire(b) <=> S!Expire(b)) /\ \A t \in Token : Api!Login(b, t) <=> S!Login(b, t)
  BY DEF Api!Expire, S!Expire, Api!Login, S!Login
<1>3. ASSUME NEW c \in Call PROVE (Api!Step(c) <=> S!Step(c)) /\ (Api!Lose(c) <=> S!Lose(c))
  BY DEF Api!Step, S!Step, Api!Rotate, S!Rotate, Api!Issue, S!Issue, Api!RevokeForReuse, S!RevokeForReuse,
         Api!Subject, S!Subject, Api!RevokeOnLogout, S!RevokeOnLogout, Api!Lose, S!Lose
<1>4. ASSUME NEW c \in Call, NEW t \in Token
      PROVE  (Api!Refresh(c, t) <=> S!Refresh(c, t)) /\ (Api!Logout(c, t) <=> S!Logout(c, t))
  BY DEF Api!Refresh, S!Refresh, Api!Logout, S!Logout, Api!Rejected, S!Rejected, Api!Replayed, S!Replayed,
         Api!Usable, S!Usable
<1> QED BY <1>1, <1>2, <1>3, <1>4

\* What a step of the model is at the API.
LEMMA AtApi ==
  ASSUME TypeOK, Sent, [Next]_vars
  PROVE  \/ UNCHANGED api
         \/ \E c \in Call : S!Step(c) \/ S!Lose(c) \/ \E t \in Token : S!Refresh(c, t) \/ S!Logout(c, t)
         \/ \E b \in Browser : S!Expire(b) \/ \E t \in Token : S!Login(b, t)
<1>1. ASSUME NEW r \in Request, NEW c \in Call, Exchange(r, c) PROVE \E t \in Token : S!Refresh(c, t)
  <2>1. jar[r] \in Token
    BY <1>1 DEF Exchange, TypeOK, Sent
  <2> QED BY <1>1, <2>1, SameApi DEF Exchange
<1>2. ASSUME NEW r \in Request, NEW c \in Call, SignOut(r, c) PROVE \E t \in Token : S!Logout(c, t)
  <2>1. cookie[BrowserOf[r]] \in Token
    BY <1>2, BrowserFacts DEF SignOut, TypeOK
  <2> QED BY <1>2, <2>1, SameApi DEF SignOut
<1>3. ASSUME NEW t \in Token, NEW b \in Browser, SignIn(b, t) PROVE S!Login(b, t)
  BY <1>3, SameApi DEF SignIn
<1>4. CASE ApiStep
  BY <1>4, SameApi DEF ApiStep
<1>5. ASSUME NEW r \in Request,
             Send(r) \/ Read(r) \/ Recall(r) \/ Join(r) \/ Reread(r) \/ Leave(r) \/ Respond(r) \/ LoseResponse(r)
      PROVE  UNCHANGED api
  BY <1>5 DEF Send, Read, Recall, Join, Reread, Leave, Respond, LoseResponse
<1>6. ASSUME NEW t \in Token, Age(t) \/ Settle(t) PROVE UNCHANGED api
  BY <1>6 DEF Age, Settle
<1>7. CASE Restart \/ UNCHANGED vars
  BY <1>7 DEF Restart, vars
<1> QED BY <1>1, <1>2, <1>3, <1>4, <1>5, <1>6, <1>7 DEF Next

LEMMA ApiMoves == ASSUME TypeOK, Sent, [Next]_vars PROVE [S!Next]_(S!vars)
BY AtApi DEF S!Next, S!vars, api

Base == TypeOK /\ Sent /\ S!IInv

LEMMA TypeStep == ASSUME Base, [Next]_vars PROVE Base'
<1> USE NoneIsNothing, BrowserFacts DEF Base, TypeOK, Sent
<1>1. S!IInv'
  <2>1. S!TypeOK' /\ S!Rows' /\ (\A c \in Call : S!Stage(c)') /\ S!Issued' /\ S!Spent'
    BY ApiMoves, S!TypeStep, S!InvStep, S!SpentStep
  <2> QED BY <2>1 DEF S!IInv
<1>2. Api!TypeOK'
  BY <1>1, SameApi DEF S!IInv, S!TypeOK, Api!TypeOK, S!Revoked, Api!Revoked
<1> DEFINE WebOK == TypeOK!2 /\ TypeOK!3 /\ TypeOK!4 /\ TypeOK!5 /\ TypeOK!6 /\ TypeOK!7 /\ TypeOK!8 /\ TypeOK!9 /\ TypeOK!10 /\ Sent
<1>3. WebOK'
  <2>1. ASSUME NEW t \in Token, NEW b \in Browser, SignIn(b, t) PROVE WebOK'
    BY <2>1 DEF SignIn
  <2>2. CASE ApiStep \/ UNCHANGED vars
    BY <2>2 DEF ApiStep, web, vars
  <2>3. ASSUME NEW t \in Token, Age(t) PROVE WebOK'
    BY <2>3 DEF Age
  <2>4. ASSUME NEW r \in Request, Send(r) PROVE WebOK'
    BY <2>4 DEF Send, Goto
  <2>5. ASSUME NEW r \in Request, Read(r) \/ Join(r) \/ Leave(r) \/ LoseResponse(r) PROVE WebOK'
    BY <2>5 DEF Read, Join, Leave, LoseResponse, Goto
  <2>6. ASSUME NEW r \in Request, Recall(r) PROVE WebOK'
    BY <2>6 DEF Recall, Remembered, Goto
  <2>7. ASSUME NEW r \in Request, NEW c \in Call, Exchange(r, c) PROVE WebOK'
    BY <2>7 DEF Exchange, Goto
  <2>8. ASSUME NEW t \in Token, Settle(t) PROVE WebOK'
    <3>1. inFlight[t] \in Call /\ (answer[inFlight[t]] = "PAIR" => next[inFlight[t]] \in Token)
      BY <2>8 DEF Settle, Running, S!IInv, S!Stage, S!TypeOK
    <3> QED BY <2>8, <3>1 DEF Settle, Outcome, Waiting
  <2>9. ASSUME NEW r \in Request, Reread(r) PROVE WebOK'
    BY <2>9 DEF Reread, Goto
  <2>10. ASSUME NEW r \in Request, NEW c \in Call, SignOut(r, c) PROVE WebOK'
    BY <2>10 DEF SignOut, Goto
  <2>11. ASSUME NEW r \in Request, Respond(r) PROVE WebOK'
    BY <2>11 DEF Respond, Goto
  <2>12. CASE Restart
    BY <2>12 DEF Restart
  <2> QED BY <2>1, <2>2, <2>3, <2>4, <2>5, <2>6, <2>7, <2>8, <2>9, <2>10, <2>11, <2>12 DEF Next
<1> QED BY <1>1, <1>2, <1>3

LEMMA TypeInvariance == Spec => []Base
<1>1. Init => Base
  <2>1. ASSUME Init PROVE S!IInv
    BY <2>1, SameApi, NoneIsNothing
       DEF Init, S!Init, S!IInv, S!TypeOK, S!Rows, S!OneLiveToken, S!Stage, S!Issued, S!Spent, S!Over, S!Revoked
  <2> QED BY <2>1, SameApi DEF Init, Base, TypeOK, Sent, S!IInv
<1>2. Base /\ [Next]_vars => Base'
  BY TypeStep
<1> QED BY <1>1, <1>2, PTL DEF Spec

\* Cookies, requests, calls, exchanges and the memory keep their types.
THEOREM Typing == Spec => []TypeOK
<1>1. Base => TypeOK
  BY DEF Base
<1> QED BY <1>1, TypeInvariance, PTL

\* Whatever the web process and the browsers do, and wherever it is restarted, the
\* API sees a behaviour that Sessions allows: what is proved of the API's sessions
\* holds under this client.
THEOREM UsesTheApi == Spec => Api!Spec
<1>1. Init => Api!Init
  BY DEF Init
<1>2. Base /\ [Next]_vars => [Api!Next]_(Api!vars)
  <2>1. S!Next => Api!Next
    BY SameApi DEF S!Next, Api!Next
  <2>2. S!vars = Api!vars
    BY DEF S!vars, Api!vars
  <2> QED BY <2>1, <2>2, ApiMoves DEF Base, S!vars, Api!vars
<1> QED BY <1>1, <1>2, TypeInvariance, PTL DEF Spec, Api!Spec

-----------------------------------------------------------------------------
(***************************************************************************)
(* What is in whose hands.                                                 *)
(***************************************************************************)
Active == {"rotate", "reuse", "subject"}

\* A token of b that some answer told of.
Known(b, t) == owner[t] = b /\ \A c \in Call : next[c] = t => answer[c] = "PAIR"

\* A pair was answered for it.
Replaced(t) == \E c \in Call : held[c] = t /\ answer[c] = "PAIR"

Lossy(b) == \E r \in Mine(b) : stage[r] = "lost"

\* A restart took requests of b with it.
Dropped(b) == b \in cut /\ Lossy(b)

Cookie(b) == cookie[b] # None => Known(b, cookie[b])

Hand(r) ==
  /\ jar[r] # None => Known(BrowserOf[r], jar[r])
  /\ got[r] \in Token => Known(BrowserOf[r], got[r])
  /\ stage[r] \in {"idle", "read", "refresh", "wait", "leave"} => got[r] = None
  /\ stage[r] = "reread" => got[r] \in Token
  /\ stage[r] \in {"refresh", "wait"} => jar[r] \in stale

Presented(c) == held[c] # None => owner[held[c]] \in Browser /\ Known(owner[held[c]], held[c])

Hands == /\ \A b \in Browser : Cookie(b)
         /\ \A r \in Request : Hand(r)
         /\ \A c \in Call : Presented(c)
         /\ \A t \in stale : owner[t] # None

Memory == lastRotation # None =>
  /\ \E c \in Call : /\ held[c] = lastRotation.from /\ next[c] = lastRotation.to
                     /\ answer[c] = "PAIR"
  /\ ~Running(lastRotation.from)

\* An exchange is a refresh with the token, and somebody waits for it.
Shared(t) == Running(t) =>
  /\ held[inFlight[t]] = t
  /\ pc[inFlight[t]] \in Active \/ answer[inFlight[t]] \in {"PAIR", "REUSED", "UNUSABLE", "LOST"}
  /\ \E r \in Request : stage[r] = "wait" /\ jar[r] = t

\* A refresh under way at the API is an exchange, unless a restart forgot it.
Serving(c) == pc[c] \in Active =>
  /\ held[c] \in stale
  /\ inFlight[held[c]] = c \/ Dropped(owner[held[c]])
  /\ pc[c] = "subject" => next[c] \notin stale \/ Dropped(owner[held[c]])

Exchanges == (\A t \in Token : Shared(t)) /\ \A c \in Call : Serving(c)

Web == Base /\ Hands /\ Memory /\ Exchanges

-----------------------------------------------------------------------------
\* What a step of the API means for one call.
Moved(c) ==
  \/ pc'[c] = pc[c] /\ answer'[c] = answer[c] /\ next'[c] = next[c]
  \/ /\ pc[c] = "rotate" /\ pc'[c] = "reuse" /\ held[c] \in used
     /\ answer'[c] = answer[c] /\ next'[c] = next[c]
  \/ /\ pc[c] = "rotate" /\ pc'[c] = "subject" /\ held[c] \notin used
     /\ answer'[c] = answer[c] /\ next'[c] \in Token /\ owner[next'[c]] = None
  \/ pc[c] = "reuse" /\ pc'[c] = "done" /\ answer'[c] = "REUSED" /\ next'[c] = next[c]
  \/ pc[c] = "subject" /\ pc'[c] = "done" /\ answer'[c] = "PAIR" /\ next'[c] = next[c]
  \/ pc[c] = "revoke" /\ pc'[c] = "done" /\ answer'[c] = "SIGNED_OUT" /\ next'[c] = next[c]
  \/ pc[c] \in Active \cup {"revoke"} /\ pc'[c] = "done" /\ answer'[c] = "LOST" /\ next'[c] = next[c]

LEMMA ApiStepMoves ==
  ASSUME Base, ApiStep
  PROVE  UNCHANGED <<web, held>> /\ \A c \in Call : Moved(c)
<1> USE DEF Base, S!IInv, S!TypeOK, Moved, Active, S!Finish, S!Goto
<1>1. UNCHANGED web
  BY DEF ApiStep
<1>2. ASSUME NEW c \in Call, S!Rotate(c) PROVE UNCHANGED held /\ \A d \in Call : Moved(d)
  <2>1. CASE held[c] \in used
    BY <1>2, <2>1 DEF S!Rotate
  <2>2. CASE held[c] \notin used
    <3>1. PICK t \in Token : S!Issue(c, t)
      BY <1>2, <2>2 DEF S!Rotate
    <3> QED BY <1>2, <2>2, <3>1 DEF S!Rotate, S!Issue, S!Fresh
  <2> QED BY <2>1, <2>2
<1>3. ASSUME NEW c \in Call, S!RevokeForReuse(c) PROVE UNCHANGED held /\ \A d \in Call : Moved(d)
  BY <1>3 DEF S!RevokeForReuse
<1>4. ASSUME NEW c \in Call, S!Subject(c) PROVE UNCHANGED held /\ \A d \in Call : Moved(d)
  BY <1>4 DEF S!Subject
<1>5. ASSUME NEW c \in Call, S!RevokeOnLogout(c) PROVE UNCHANGED held /\ \A d \in Call : Moved(d)
  BY <1>5 DEF S!RevokeOnLogout
<1>6. ASSUME NEW c \in Call, S!Lose(c) PROVE UNCHANGED held /\ \A d \in Call : Moved(d)
  BY <1>6 DEF S!Lose
<1>7. ASSUME NEW b \in Browser, S!Expire(b) PROVE UNCHANGED held /\ \A d \in Call : Moved(d)
  BY <1>7 DEF S!Expire
<1> QED BY <1>1, <1>2, <1>3, <1>4, <1>5, <1>6, <1>7, SameApi DEF ApiStep, S!Step

LEMMA Grows == ASSUME Base, [Next]_vars PROVE S!Grown /\ \A c \in Call : S!Settled(c)
BY ApiMoves, S!NextGrows, NoneIsNothing DEF Base

\* A token that is told stays so, and one that is replaced.
LEMMA KnownStays ==
  ASSUME Base, [Next]_vars, NEW b \in Browser, NEW t \in Token, Known(b, t)
  PROVE  Known(b, t)'
<1>1. owner'[t] = b
  BY Grows, NoneIsNothing DEF Known, S!Grown
<1>2. ASSUME NEW c \in Call, next'[c] = t PROVE answer'[c] = "PAIR"
  <2>1. next[c] = t
    BY <1>2, Grows, NoneIsNothing DEF Known, S!Settled
  <2>2. answer[c] = "PAIR" /\ pc[c] = "done"
    BY <2>1 DEF Known, Base, S!IInv, S!Stage
  <2> QED BY <2>2, Grows DEF S!Settled
<1> QED BY <1>1, <1>2 DEF Known

LEMMA ReplacedStays ==
  ASSUME Base, [Next]_vars, NEW t \in Token, Replaced(t)
  PROVE  Replaced(t)'
BY Grows, NoneIsNothing DEF Replaced, Base, S!IInv, S!Stage, S!Settled

-----------------------------------------------------------------------------
LEMMA CookieStays ==
  ASSUME Base, [Next]_vars, NEW b \in Browser, Cookie(b), cookie'[b] \in {cookie[b], None}
  PROVE  Cookie(b)'
<1>1. cookie[b] # None => cookie[b] \in Token
  BY DEF Base, TypeOK
<1> QED BY <1>1, KnownStays DEF Cookie

LEMMA HandStays ==
  ASSUME Base, [Next]_vars, NEW r \in Request, Hand(r), stale \subseteq stale',
         jar'[r] = jar[r], got'[r] = got[r],
         \/ stage'[r] = stage[r]
         \/ stage[r] = "idle" /\ stage'[r] = "read"
         \/ stage[r] = "read" /\ stage'[r] \in {"refresh", "respond"}
                              /\ (stage'[r] = "refresh" => jar[r] \in stale)
         \/ stage[r] = "refresh" /\ stage'[r] = "wait"
         \/ stage'[r] \in {"done", "lost"}
  PROVE  Hand(r)'
<1>1. (jar[r] # None => jar[r] \in Token) /\ BrowserOf[r] \in Browser
  BY BrowserFacts DEF Base, TypeOK
<1>2. /\ jar[r] # None => Known(BrowserOf[r], jar[r])'
      /\ got[r] \in Token => Known(BrowserOf[r], got[r])'
  BY <1>1, KnownStays DEF Hand
<1> QED BY <1>2 DEF Hand, Known

LEMMA PresentedStays ==
  ASSUME Base, [Next]_vars, NEW c \in Call, Presented(c), held'[c] = held[c]
  PROVE  Presented(c)'
<1> SUFFICES ASSUME held[c] # None PROVE Presented(c)'
  BY DEF Presented
<1>1. PICK b \in Browser, t \in Token : held[c] = t /\ owner[t] = b
  BY DEF Presented, Base, S!IInv, S!TypeOK
<1>2. Known(b, t)'
  BY <1>1, KnownStays DEF Presented
<1> QED BY <1>1, <1>2 DEF Presented, Known

LEMMA StaleStays ==
  ASSUME Base, Hands, [Next]_vars, stale' = stale PROVE \A t \in stale' : owner'[t] # None
BY Grows DEF Hands, S!Grown, Base, TypeOK

\* Most steps change one request.
LEMMA HandsOfOne ==
  ASSUME Base, Hands, [Next]_vars, NEW r \in Request, Hand(r)', stale' = stale,
         \A q \in Request : q # r => stage'[q] = stage[q] /\ jar'[q] = jar[q] /\ got'[q] = got[q],
         \A b \in Browser : cookie'[b] \in {cookie[b], None} \/ Cookie(b)',
         held' = held
  PROVE  Hands'
<1>1. \A b \in Browser : Cookie(b)'
  BY CookieStays DEF Hands
<1>2. \A q \in Request : Hand(q)'
  BY HandStays DEF Hands
<1>3. \A c \in Call : Presented(c)'
  BY PresentedStays DEF Hands
<1> QED BY <1>1, <1>2, <1>3, StaleStays DEF Hands
LEMMA HandsOfNone ==
  ASSUME Base, Hands, [Next]_vars, UNCHANGED <<stale, jar, got, held>>,
         \A q \in Request : stage'[q] \in {stage[q], "lost"},
         \A b \in Browser : cookie'[b] = cookie[b]
  PROVE  Hands'
<1>1. \A b \in Browser : Cookie(b)'
  BY CookieStays DEF Hands
<1>2. \A q \in Request : Hand(q)'
  BY HandStays DEF Hands
<1>3. \A c \in Call : Presented(c)'
  BY PresentedStays DEF Hands
<1> QED BY <1>1, <1>2, <1>3, StaleStays DEF Hands

LEMMA HandsStep == ASSUME Web, [Next]_vars PROVE Hands'
<1> USE NoneIsNothing, BrowserFacts DEF Web
<1>1. ASSUME NEW b \in Browser, NEW t \in Token, SignIn(b, t) PROVE Hands'
  <2>1. Api!Login(b, t) /\ S!Login(b, t)
    BY <1>1, SameApi DEF SignIn
  <2>2. Known(b, t)'
    <3>1. owner'[t] = b /\ next' = next /\ answer' = answer /\ owner[t] = None
      BY <2>1 DEF S!Login, S!Fresh, Base, S!IInv, S!TypeOK
    <3>2. \A c \in Call : next[c] # t
      BY <3>1 DEF Base, S!IInv, S!Stage
    <3> QED BY <3>1, <3>2 DEF Known
  <2>3. \A d \in Browser : cookie'[d] = IF d = b THEN t ELSE cookie[d]
    BY <1>1 DEF SignIn, Base, TypeOK
  <2>4. \A d \in Browser : Cookie(d)'
    BY <2>2, <2>3, CookieStays DEF Hands, Cookie
  <2>5. \A r \in Request : Hand(r)'
    BY <1>1, HandStays DEF Hands, SignIn
  <2>6. \A c \in Call : Presented(c)'
    BY <2>1, PresentedStays DEF Hands, S!Login
  <2> QED BY <1>1, <2>4, <2>5, <2>6, StaleStays DEF Hands, SignIn
<1>2. CASE ApiStep
  BY <1>2, ApiStepMoves, HandsOfNone DEF web
<1>3. ASSUME NEW t \in Token, Age(t) PROVE Hands'
  <2>1. /\ UNCHANGED <<api, cookie, stage, jar, got>> /\ owner[t] # None /\ stale' = stale \cup {t}
    BY <1>3 DEF Age
  <2>2. \A b \in Browser : Cookie(b)'
    BY <2>1, CookieStays DEF Hands
  <2>3. \A q \in Request : Hand(q)'
    BY <2>1, HandStays DEF Hands
  <2>4. \A c \in Call : Presented(c)'
    BY <2>1, PresentedStays DEF Hands, api
  <2>5. \A u \in stale' : owner'[u] # None
    BY <2>1 DEF Hands, api
  <2> QED BY <2>2, <2>3, <2>4, <2>5 DEF Hands
<1>4. ASSUME NEW r \in Request, Send(r) PROVE Hands'
  <2>1. PICK t \in Token : cookie[BrowserOf[r]] = t
    BY <1>4 DEF Send, Base, TypeOK
  <2>2. /\ jar'[r] = t /\ stage'[r] = "read" /\ got' = got /\ got[r] = None
        /\ Known(BrowserOf[r], t) /\ Known(BrowserOf[r], t)'
    BY <1>4, <2>1, KnownStays DEF Send, Goto, Base, TypeOK, Hands, Hand, Cookie
  <2>3. Hand(r)'
    BY <2>1, <2>2 DEF Hand, Known
  <2> QED BY <1>4, <2>3, HandsOfOne DEF Send, Goto, api, Base, TypeOK
<1>5. ASSUME NEW r \in Request, Read(r) \/ Join(r) \/ LoseResponse(r) PROVE Hands'
  <2>1. /\ UNCHANGED <<stale, cookie, jar, got, held>>
        /\ \A q \in Request : q # r => stage'[q] = stage[q]
    BY <1>5 DEF Read, Join, LoseResponse, Goto, Base, TypeOK, api
  <2>2. \/ stage[r] = "read" /\ stage'[r] \in {"refresh", "respond"}
                            /\ (stage'[r] = "refresh" => jar[r] \in stale)
        \/ stage[r] = "refresh" /\ stage'[r] = "wait"
        \/ stage'[r] = "lost"
    BY <1>5 DEF Read, Join, LoseResponse, Goto, Base, TypeOK
  <2>3. Hand(r)'
    BY <2>1, <2>2, HandStays DEF Hands
  <2> QED BY <2>1, <2>3, HandsOfOne
<1>6. ASSUME NEW r \in Request, Recall(r) PROVE Hands'
  <2>1. /\ got'[r] = lastRotation.to /\ stage'[r] = "reread" /\ jar' = jar /\ lastRotation # None
        /\ jar[r] = lastRotation.from /\ lastRotation.to \in Token /\ jar[r] # None
    BY <1>6 DEF Recall, Remembered, Goto, Base, TypeOK, Sent
  <2>2. PICK c \in Call : /\ held[c] = lastRotation.from /\ next[c] = lastRotation.to
                          /\ answer[c] = "PAIR"
    BY <2>1 DEF Memory
  <2>3. Known(BrowserOf[r], jar[r])
    BY <2>1 DEF Hands, Hand
  <2>4. owner[next[c]] = BrowserOf[r]
    BY <2>1, <2>2, <2>3 DEF Known, Base, S!IInv, S!Stage
  <2>5. \A d \in Call : next[d] = next[c] => d = c
    BY <2>1, <2>2 DEF Base, S!IInv, S!Issued
  <2>6. Known(BrowserOf[r], next[c])
    BY <2>2, <2>4, <2>5 DEF Known
  <2>7. Hand(r)'
    BY <1>6, <2>1, <2>2, <2>3, <2>6 DEF Hand, Known, Recall, api
  <2> QED BY <1>6, <2>7, HandsOfOne DEF Recall, Goto, api, Base, TypeOK
<1>7. ASSUME NEW r \in Request, NEW c \in Call, Exchange(r, c) PROVE Hands'
  <2>1. /\ stage[r] = "refresh" /\ stage'[r] = "wait" /\ UNCHANGED <<stale, cookie, jar, got>>
        /\ jar[r] \in Token /\ \A q \in Request : q # r => stage'[q] = stage[q]
    BY <1>7 DEF Exchange, Goto, Base, TypeOK, Sent
  <2>2. S!Refresh(c, jar[r])
    BY <1>7, <2>1, SameApi DEF Exchange
  <2>3. /\ held'[c] = jar[r] /\ \A d \in Call : d # c => held'[d] = held[d]
        /\ owner' = owner
    BY <2>2 DEF S!Refresh, Base, S!IInv, S!TypeOK
  <2>4. \A q \in Request : Hand(q)'
    BY <2>1, HandStays DEF Hands
  <2>5. \A b \in Browser : Cookie(b)'
    BY <2>1, CookieStays DEF Hands
  <2>6. Presented(c)'
    <3>1. Known(BrowserOf[r], jar[r])
      BY <2>1 DEF Hands, Hand
    <3>2. Known(BrowserOf[r], jar[r])'
      BY <2>1, <3>1, KnownStays
    <3> QED BY <2>1, <2>3, <3>2 DEF Presented, Known
  <2>7. \A d \in Call : Presented(d)'
    BY <2>3, <2>6, PresentedStays DEF Hands
  <2> QED BY <2>1, <2>4, <2>5, <2>7, StaleStays DEF Hands
<1>8. ASSUME NEW t \in Token, Settle(t) PROVE Hands'
  <2> DEFINE c == inFlight[t]
  <2>1. /\ c \in Call /\ held[c] = t /\ UNCHANGED <<api, stale, cookie, jar>>
        /\ got' = [r \in Request |-> IF r \in Waiting(t) THEN Outcome(c) ELSE got[r]]
        /\ stage' = [r \in Request |-> IF r \notin Waiting(t) THEN stage[r]
                                 ELSE IF answer[c] = "PAIR" THEN "reread" ELSE "respond"]
    BY <1>8 DEF Settle, Running, Exchanges, Shared, Base, TypeOK
  <2>2. \A b \in Browser : Cookie(b)'
    BY <2>1, CookieStays DEF Hands
  <2>3. \A d \in Call : Presented(d)'
    BY <2>1, PresentedStays DEF Hands, api
  <2>4. ASSUME NEW r \in Request PROVE Hand(r)'
    <3>1. CASE r \notin Waiting(t)
      BY <2>1, <3>1, HandStays DEF Hands
    <3>2. CASE r \in Waiting(t) /\ answer[c] = "PAIR"
      <4>1. /\ got'[r] = next[c] /\ next[c] \in Token /\ stage'[r] = "reread" /\ jar[r] = t
            /\ Known(BrowserOf[r], t) /\ owner[next[c]] = owner[t]
        BY <2>1, <3>2 DEF Waiting, Outcome, Hands, Hand, Base, S!IInv, S!Stage, S!TypeOK
      <4>2. \A d \in Call : next[d] = next[c] => d = c
        BY <2>1, <4>1 DEF Base, S!IInv, S!Issued
      <4>3. Known(BrowserOf[r], next[c])
        BY <3>2, <4>1, <4>2 DEF Known
      <4> QED BY <2>1, <4>1, <4>3 DEF Hand, Known, api
    <3>3. CASE r \in Waiting(t) /\ answer[c] # "PAIR"
      <4>1. /\ got'[r] \notin Token /\ stage'[r] = "respond" /\ jar[r] = t /\ Known(BrowserOf[r], t)
        BY <2>1, <3>3 DEF Waiting, Outcome, Hands, Hand
      <4> QED BY <2>1, <4>1 DEF Hand, Known, api
    <3> QED BY <3>1, <3>2, <3>3
  <2> QED BY <2>1, <2>2, <2>3, <2>4, StaleStays DEF Hands
<1>9. ASSUME NEW r \in Request, Reread(r) PROVE Hands'
  <2>1. /\ got'[r] \in {got[r], "CLEAR"} /\ stage'[r] = "respond" /\ UNCHANGED <<api, jar>>
    BY <1>9 DEF Reread, Goto, Base, TypeOK
  <2>2. Hand(r)'
    BY <2>1 DEF Hands, Hand, Known, api
  <2> QED BY <1>9, <2>1, <2>2, HandsOfOne DEF Reread, Goto, api, Base, TypeOK
<1>10. ASSUME NEW r \in Request, NEW c \in Call, SignOut(r, c) PROVE Hands'
  <2> DEFINE b == BrowserOf[r]
  <2>1. /\ cookie[b] # None /\ jar'[r] = cookie[b] /\ stage'[r] = "leave" /\ cookie[b] \in Token
        /\ got' = got /\ got[r] = None /\ UNCHANGED <<stale, cookie>>
        /\ \A q \in Request : q # r => stage'[q] = stage[q] /\ jar'[q] = jar[q]
    BY <1>10 DEF SignOut, Goto, Base, TypeOK, Hands, Hand
  <2>2. S!Logout(c, cookie[b])
    BY <1>10, <2>1, SameApi DEF SignOut
  <2>3. held'[c] = cookie[b] /\ \A d \in Call : d # c => held'[d] = held[d]
    BY <2>2 DEF S!Logout, Base, S!IInv, S!TypeOK
  <2>4. Known(b, cookie[b]) /\ Known(b, cookie[b])'
    BY <2>1, KnownStays DEF Hands, Cookie, Known
  <2>5. Hand(r)' /\ Presented(c)'
    BY <2>1, <2>3, <2>4 DEF Hand, Presented, Known
  <2>6. \A d \in Browser : Cookie(d)'
    BY <2>1, CookieStays DEF Hands
  <2>7. \A q \in Request : Hand(q)'
    BY <2>1, <2>5, HandStays DEF Hands
  <2>8. \A d \in Call : Presented(d)'
    BY <2>3, <2>5, PresentedStays DEF Hands
  <2> QED BY <2>1, <2>6, <2>7, <2>8, StaleStays DEF Hands
<1>11. ASSUME NEW r \in Request, Leave(r) PROVE Hands'
  <2>1. Hand(r)'
    BY <1>11 DEF Leave, Goto, Base, TypeOK, Hands, Hand, Known, api
  <2> QED BY <1>11, <2>1, HandsOfOne DEF Leave, Goto, api, Base, TypeOK
<1>12. ASSUME NEW r \in Request, Respond(r) PROVE Hands'
  <2>1. Hand(r)'
    BY <1>12, HandStays DEF Respond, Goto, Base, TypeOK, Hands
  <2>2. ASSUME NEW b \in Browser PROVE cookie'[b] \in {cookie[b], None} \/ Cookie(b)'
    <3>1. cookie'[b] \in {cookie[b], None} \/ (b = BrowserOf[r] /\ cookie'[b] = got[r] /\ got[r] \in Token)
      BY <1>12 DEF Respond, Base, TypeOK
    <3> QED BY <1>12, <3>1 DEF Respond, Hands, Hand, Cookie, Known, api
  <2> QED BY <1>12, <2>1, <2>2, HandsOfOne DEF Respond, Goto, api, Base, TypeOK
<1>13. CASE Restart \/ UNCHANGED vars
  BY <1>13, HandsOfNone DEF Restart, vars, web, api
<1> QED BY <1>1, <1>2, <1>3, <1>4, <1>5, <1>6, <1>7, <1>8, <1>9, <1>10, <1>11, <1>12, <1>13 DEF Next

-----------------------------------------------------------------------------
\* Which calls, exchanges and waiting requests a step touches.
LEMMA Touched ==
  ASSUME Web, [Next]_vars
  PROVE  \/ /\ \A c \in Call : Moved(c)
            /\ \/ inFlight' = inFlight
               \/ \E t \in Token : Settle(t)
               \/ Restart
         \/ \E r \in Request, c \in Call :
              /\ Exchange(r, c) \/ SignOut(r, c)
              /\ pc[c] = "idle" /\ \A d \in Call : d # c => Moved(d)
<1>1. CASE UNCHANGED api
  <2>1. \A c \in Call : Moved(c)
    BY <1>1 DEF Moved, api
  <2>2. \/ inFlight' = inFlight
        \/ \E t \in Token : Settle(t)
        \/ Restart
        \/ \E r \in Request, c \in Call : Exchange(r, c)
    BY DEF Next, SignIn, ApiStep, Age, Send, Read, Recall, Join, Reread, SignOut, Leave, Respond,
           LoseResponse, vars, web
  <2>3. ASSUME NEW r \in Request, NEW c \in Call, Exchange(r, c) PROVE pc[c] = "idle"
    BY <2>3 DEF Exchange, Api!Refresh
  <2> QED BY <2>1, <2>2, <2>3
<1>2. CASE ApiStep
  BY <1>2, ApiStepMoves DEF Web, web
<1>3. ASSUME NEW t \in Token, NEW b \in Browser, SignIn(b, t)
      PROVE  (\A c \in Call : Moved(c)) /\ inFlight' = inFlight
  BY <1>3 DEF SignIn, Api!Login, Moved
<1>4. ASSUME NEW r \in Request, NEW c \in Call, Exchange(r, c) \/ SignOut(r, c)
      PROVE  pc[c] = "idle" /\ \A d \in Call : d # c => Moved(d)
  BY <1>4 DEF Exchange, SignOut, Api!Refresh, Api!Logout, Api!Goto, Api!Finish, Moved,
              Web, Base, S!IInv, S!TypeOK
<1>5. \/ UNCHANGED api \/ ApiStep
      \/ \E t \in Token, b \in Browser : SignIn(b, t)
      \/ \E r \in Request, c \in Call : Exchange(r, c) \/ SignOut(r, c)
  BY DEF Next, Age, Settle, Send, Read, Recall, Join, Reread, Leave, Respond, LoseResponse, Restart, vars
<1> QED BY <1>1, <1>2, <1>3, <1>4, <1>5

LEMMA MemoryStep == ASSUME Web, [Next]_vars PROVE Memory'
<1> USE NoneIsNothing DEF Web
<1>1. CASE lastRotation' = lastRotation /\ lastRotation # None
  <2>1. PICK c \in Call : /\ held[c] = lastRotation.from /\ next[c] = lastRotation.to
                          /\ answer[c] = "PAIR"
    BY <1>1 DEF Memory
  <2>2. held[c] # None /\ next[c] # None /\ pc[c] = "done"
    BY <2>1, <1>1 DEF Base, TypeOK, S!IInv, S!Stage
  <2>3. held'[c] = held[c] /\ next'[c] = next[c] /\ answer'[c] = "PAIR"
    <3>1. S!Settled(c)
      BY Grows
    <3>2. next'[c] = next[c]
      <4>1. Moved(c)
        BY <2>2, Touched
      <4> QED BY <2>2, <4>1 DEF Moved, Active
    <3> QED BY <2>1, <2>2, <3>1, <3>2 DEF S!Settled
  <2>4. ~Running(lastRotation.from)'
    <3>1. lastRotation.from \in Token /\ ~Running(lastRotation.from)
      BY <1>1 DEF Memory, Base, TypeOK
    <3>2. CASE inFlight' = inFlight
      BY <1>1, <3>1, <3>2 DEF Running
    <3>3. CASE Restart
      BY <1>1, <3>1, <3>3 DEF Restart, Running
    <3>4. ASSUME NEW t \in Token, Settle(t) PROVE ~Running(lastRotation.from)'
      BY <1>1, <3>1, <3>4 DEF Settle, Running, Base, TypeOK
    <3>5. ASSUME NEW r \in Request, NEW c1 \in Call, Exchange(r, c1) PROVE ~Running(lastRotation.from)'
      BY <1>1, <3>1, <3>5 DEF Exchange, Remembered, Running, Base, TypeOK
    <3>6. ASSUME NEW r \in Request, NEW c1 \in Call, SignOut(r, c1) PROVE inFlight' = inFlight
      BY <3>6 DEF SignOut
    <3> QED BY <3>2, <3>3, <3>4, <3>5, <3>6, Touched
  <2> QED BY <1>1, <2>1, <2>3, <2>4 DEF Memory
<1>2. CASE lastRotation' = None
  BY <1>2 DEF Memory
<1>3. ASSUME NEW t \in Token, Settle(t), lastRotation' # lastRotation PROVE Memory'
  <2> DEFINE c == inFlight[t]
  <2>1. /\ c \in Call /\ held[c] = t /\ answer[c] = "PAIR" /\ UNCHANGED api
        /\ lastRotation' = [from |-> t, to |-> next[c]] /\ inFlight'[t] = None
    BY <1>3 DEF Settle, Running, Exchanges, Shared, Base, TypeOK
  <2> QED BY <2>1 DEF Memory, Running, api
<1>4. lastRotation' \in {lastRotation, None} \/ \E t \in Token : Settle(t)
  BY DEF Next, SignIn, ApiStep, Age, Send, Read, Recall, Join, Reread, SignOut, Leave, Respond,
         LoseResponse, vars, web, Exchange, Restart
<1> QED BY <1>1, <1>2, <1>3, <1>4

-----------------------------------------------------------------------------
LEMMA SharedStays ==
  ASSUME Web, [Next]_vars, NEW t \in Token, inFlight'[t] = inFlight[t],
         Running(t) => Moved(inFlight[t]),
         \A r \in Request : stage[r] = "wait" /\ jar[r] = t => stage'[r] = "wait" /\ jar'[r] = t
  PROVE  Shared(t)'
<1> SUFFICES ASSUME Running(t) PROVE Shared(t)'
  BY DEF Shared, Running
<1> DEFINE c == inFlight[t]
<1>1. c \in Call /\ Shared(t)
  BY DEF Web, Base, TypeOK, Exchanges, Running
<1>2. held'[c] = t
  BY <1>1, Grows, NoneIsNothing DEF Shared, Web, S!Settled
<1>3. pc'[c] \in Active \/ answer'[c] \in {"PAIR", "REUSED", "UNUSABLE", "LOST"}
  BY <1>1 DEF Shared, Moved, Active, Web, Base, S!IInv, S!Stage
<1> QED BY <1>1, <1>2, <1>3 DEF Shared, Running

LEMMA ServingStays ==
  ASSUME Web, [Next]_vars, NEW c \in Call, Moved(c), stale' = stale, cut \subseteq cut',
         pc[c] \in Active => inFlight'[held[c]] = inFlight[held[c]] \/ Dropped(owner[held[c]]),
         \A r \in Request : stage[r] = "lost" => stage'[r] = "lost"
  PROVE  Serving(c)'
<1> SUFFICES ASSUME pc'[c] \in Active PROVE Serving(c)'
  BY DEF Serving
<1>1. pc[c] \in Active /\ Serving(c)
  BY DEF Moved, Active, Web, Exchanges
<1>2. PICK t \in Token, b \in Browser : held[c] = t /\ owner[t] = b
  BY <1>1 DEF Web, Base, S!IInv, S!Stage, S!TypeOK, Active
<1>3. held'[c] = t /\ owner'[t] = b
  BY <1>2, Grows, NoneIsNothing DEF Web, S!Settled, S!Grown
<1>4. Dropped(b) => Dropped(b)'
  BY DEF Dropped, Lossy, Mine
<1>5. pc'[c] = "subject" => next'[c] \notin stale' \/ Dropped(b)'
  <2>1. CASE pc[c] = "subject"
    BY <1>1, <1>2, <1>4, <2>1 DEF Moved, Serving
  <2>2. CASE pc[c] # "subject"
    BY <2>2 DEF Moved, Web, Hands
  <2> QED BY <2>1, <2>2
<1> QED BY <1>1, <1>2, <1>3, <1>4, <1>5 DEF Serving

LEMMA ExchangesStep == ASSUME Web, [Next]_vars PROVE Exchanges'
<1> USE NoneIsNothing, BrowserFacts
<1>1. cut \subseteq cut' /\ \A r \in Request : stage[r] = "lost" => stage'[r] = "lost"
  BY DEF Web, Base, TypeOK, Next, SignIn, ApiStep, Age, Send, Read, Recall, Join, Reread, SignOut, Leave,
         Respond, LoseResponse, vars, web, Exchange, Restart, Settle, Waiting, Goto
<1>2. ASSUME NEW r \in Request, NEW c \in Call, Exchange(r, c), pc[c] = "idle",
             \A d \in Call : d # c => Moved(d)
      PROVE  Exchanges'
  <2>t. PICK t \in Token : jar[r] = t
    BY <1>2 DEF Exchange, Web, Base, TypeOK, Sent
  <2>1. /\ t \in stale /\ ~Running(t) /\ UNCHANGED <<stale, jar>> /\ stage[r] = "refresh"
        /\ inFlight' = [inFlight EXCEPT ![t] = c]
        /\ stage'[r] = "wait" /\ \A q \in Request : q # r => stage'[q] = stage[q]
    BY <1>2, <2>t DEF Exchange, Goto, Web, Base, TypeOK, Hands, Hand
  <2>2. S!Refresh(c, t)
    BY <1>2, <2>t, SameApi DEF Exchange
  <2>3. /\ held'[c] = t
        /\ \/ pc'[c] \in {"rotate", "reuse"}
           \/ pc'[c] = "done" /\ answer'[c] = "UNUSABLE"
    BY <2>2 DEF S!Refresh, S!Goto, S!Finish, Web, Base, S!IInv, S!TypeOK
  <2>4. inFlight'[t] = c /\ \A u \in Token : u # t => inFlight'[u] = inFlight[u]
    BY <2>1 DEF Web, Base, TypeOK
  <2>5. Shared(t)'
    BY <2>1, <2>t, <2>3, <2>4 DEF Shared, Active
  <2>6. ASSUME NEW u \in Token, u # t PROVE Shared(u)'
    <3>1. Running(u) => Moved(inFlight[u])
      <4>1. ASSUME Running(u) PROVE inFlight[u] \in Call /\ inFlight[u] # c
        BY <1>2, <4>1 DEF Running, Web, Base, TypeOK, Exchanges, Shared, Active, S!IInv, S!Stage
      <4> QED BY <1>2, <4>1
    <3> QED BY <2>1, <2>4, <2>6, <3>1, SharedStays
  <2>7. Serving(c)'
    BY <2>1, <2>3, <2>4 DEF Serving
  <2>8. ASSUME NEW d \in Call, d # c PROVE Serving(d)'
    <3>1. ASSUME pc[d] \in Active
          PROVE  inFlight'[held[d]] = inFlight[held[d]] \/ Dropped(owner[held[d]])
      <4>1. held[d] \in Token
        BY <3>1 DEF Active, Web, Base, S!IInv, S!Stage, S!TypeOK
      <4>2. CASE held[d] # t
        BY <2>4, <4>1, <4>2
      <4>3. CASE held[d] = t
        BY <2>1, <3>1, <4>3 DEF Web, Exchanges, Serving, Running
      <4> QED BY <4>2, <4>3
    <3> QED BY <1>1, <1>2, <2>1, <2>8, <3>1, ServingStays
  <2> QED BY <2>5, <2>6, <2>7, <2>8 DEF Exchanges
<1>3. ASSUME NEW r \in Request, NEW c \in Call, SignOut(r, c), pc[c] = "idle",
             \A d \in Call : d # c => Moved(d)
      PROVE  Exchanges'
  <2>1. /\ UNCHANGED <<stale, inFlight>> /\ stage[r] = "idle" /\ jar[r] = None
        /\ \A q \in Request : q # r => stage'[q] = stage[q] /\ jar'[q] = jar[q]
        /\ pc'[c] \in {"done", "revoke"}
    BY <1>3 DEF SignOut, Goto, Web, Base, TypeOK, Sent, Api!Logout, Api!Goto, Api!Finish, S!IInv, S!TypeOK
  <2>2. ASSUME NEW t \in Token PROVE Shared(t)'
    <3>1. Running(t) => inFlight[t] \in Call /\ inFlight[t] # c
      BY <1>3 DEF Running, Web, Base, TypeOK, Exchanges, Shared, Active, S!IInv, S!Stage
    <3> QED BY <1>3, <2>1, <3>1, SharedStays
  <2>3. ASSUME NEW d \in Call PROVE Serving(d)'
    <3>1. CASE d = c
      BY <2>1, <3>1 DEF Serving, Active
    <3>2. CASE d # c
      BY <1>1, <1>3, <2>1, <3>2, ServingStays
    <3> QED BY <3>1, <3>2
  <2> QED BY <2>2, <2>3 DEF Exchanges
<1>4. ASSUME NEW t \in Token, Settle(t), \A c \in Call : Moved(c) PROVE Exchanges'
  <2>1. /\ UNCHANGED <<api, stale, jar>> /\ inFlight' = [inFlight EXCEPT ![t] = None]
        /\ inFlight[t] \in Call /\ pc[inFlight[t]] = "done"
        /\ \A r \in Request : r \notin Waiting(t) => stage'[r] = stage[r]
    BY <1>4 DEF Settle, Running, Web, Base, TypeOK
  <2>2. ASSUME NEW u \in Token PROVE Shared(u)'
    <3>1. CASE u = t
      BY <2>1, <3>1 DEF Shared, Running, Web, Base, TypeOK
    <3>2. CASE u # t
      <4>1. inFlight'[u] = inFlight[u] /\ (Running(u) => Moved(inFlight[u]))
        BY <1>4, <2>1, <3>2 DEF Web, Base, TypeOK, Running
      <4> QED BY <2>1, <3>2, <4>1, SharedStays DEF Waiting
    <3> QED BY <3>1, <3>2
  <2>3. ASSUME NEW d \in Call PROVE Serving(d)'
    <3>1. pc[d] \in Active => inFlight'[held[d]] = inFlight[held[d]] \/ Dropped(owner[held[d]])
      BY <2>1 DEF Web, Base, TypeOK, Exchanges, Serving, Active, S!IInv, S!Stage, S!TypeOK
    <3> QED BY <1>1, <1>4, <2>1, <3>1, ServingStays
  <2> QED BY <2>2, <2>3 DEF Exchanges
<1>5. CASE Restart
  <2>1. /\ UNCHANGED <<api, stale, jar>> /\ \A t \in Token : inFlight'[t] = None
        /\ \A r \in Request : stage'[r] = IF stage[r] \in {"idle", "done"} THEN stage[r] ELSE "lost"
        /\ \A b \in Browser : Underway(b) => b \in cut'
    BY <1>5 DEF Restart
  <2>2. ASSUME NEW c \in Call, pc[c] \in Active PROVE Dropped(owner[held[c]])'
    <3>1. CASE Dropped(owner[held[c]])
      BY <1>1, <2>1, <3>1 DEF Dropped, Lossy, Mine, api
    <3>2. CASE inFlight[held[c]] = c
      <4>1. held[c] \in Token /\ Running(held[c])
        BY <2>2, <3>2 DEF Active, Web, Base, S!IInv, S!Stage, S!TypeOK, Running
      <4>2. PICK r \in Request : stage[r] = "wait" /\ jar[r] = held[c]
        BY <4>1 DEF Web, Exchanges, Shared
      <4>3. owner[held[c]] = BrowserOf[r] /\ BrowserOf[r] \in Browser
        BY <4>1, <4>2 DEF Web, Hands, Hand, Known
      <4> QED BY <2>1, <4>2, <4>3 DEF Dropped, Lossy, Mine, Underway, api
    <3> QED BY <2>2, <3>1, <3>2 DEF Web, Exchanges, Serving
  <2> QED BY <2>1, <2>2 DEF Exchanges, Shared, Serving, Running, api, Web
<1>6. ASSUME NEW t \in Token, Age(t), \A c \in Call : Moved(c) PROVE Exchanges'
  <2>1. /\ UNCHANGED <<api, inFlight, stage, jar, cut>> /\ stale' = stale \cup {t}
    BY <1>6 DEF Age
  <2>2. \A u \in Token : Shared(u)'
    BY <2>1, <1>6, SharedStays DEF Web, Base, TypeOK, Running
  <2>3. ASSUME NEW c \in Call, pc[c] = "subject", next[c] = t, inFlight[held[c]] = c PROVE FALSE
    <3>1. held[c] \in Token /\ Running(held[c]) /\ owner[t] = owner[held[c]]
      BY <2>3 DEF Web, Base, S!IInv, S!Stage, S!TypeOK, Running
    <3>2. PICK r \in Request : stage[r] = "wait" /\ jar[r] = held[c]
      BY <3>1 DEF Web, Exchanges, Shared
    <3>3. BrowserOf[r] = owner[t]
      BY <3>1, <3>2 DEF Web, Hands, Hand, Known
    <3> QED BY <1>6, <3>2, <3>3 DEF Age
  <2>4. \A c \in Call : Serving(c)'
    BY <2>1, <2>3 DEF Web, Exchanges, Serving, api, Dropped, Lossy, Mine
  <2> QED BY <2>2, <2>4 DEF Exchanges
<1>7. ASSUME ~\E t \in Token : Settle(t) \/ Age(t),
             inFlight' = inFlight, \A c \in Call : Moved(c)
      PROVE  Exchanges'
  <2>1. stale' = stale
    BY <1>7 DEF Next, SignIn, ApiStep, Send, Read, Recall, Join, Reread, SignOut, Leave,
         Respond, LoseResponse, vars, web, Exchange, Restart
  <2>2. CASE Restart
    BY <1>5, <2>2
  <2>3. CASE ~Restart
    <3>1. \A r \in Request : stage[r] = "wait" => stage'[r] = "wait" /\ jar'[r] = jar[r]
      BY <1>7, <2>3 DEF Web, Base, TypeOK, Next, SignIn, ApiStep, Send, Read, Recall, Join, Reread, SignOut, Leave,
         Respond, LoseResponse, vars, web, Exchange, Goto
    <3>2. \A t \in Token : Shared(t)'
      BY <1>7, <3>1, SharedStays DEF Running, Web, Base, TypeOK
    <3>3. \A c \in Call : Serving(c)'
      BY <1>1, <1>7, <2>1, ServingStays
    <3> QED BY <3>2, <3>3 DEF Exchanges
  <2> QED BY <2>2, <2>3
<1> QED BY <1>2, <1>3, <1>4, <1>5, <1>6, <1>7, Touched

LEMMA WebStep == Web /\ [Next]_vars => Web'
BY TypeStep, HandsStep, MemoryStep, ExchangesStep DEF Web

LEMMA WebInvariance == Spec => []Web
<1>1. Init => Hands /\ Memory /\ Exchanges
  BY NoneIsNothing DEF Init, Api!Init, Hands, Cookie, Hand, Presented, Memory, Exchanges, Shared, Serving,
     Running, Active
<1>2. Spec => []Base
  BY TypeInvariance
<1>3. Base /\ Hands /\ Memory /\ Exchanges /\ [Next]_vars => (Hands /\ Memory /\ Exchanges)'
  BY HandsStep, MemoryStep, ExchangesStep DEF Web
<1>4. Base /\ Hands /\ Memory /\ Exchanges => Web
  BY DEF Web
<1> QED BY <1>1, <1>2, <1>3, <1>4, PTL DEF Spec

-----------------------------------------------------------------------------
(***************************************************************************)
(* Browsers that receive every response.                                   *)
(***************************************************************************)
Under(r) == stage[r] \notin {"idle", "done", "lost"}

InHand(b, t) == cookie[b] = t \/ \E r \in Mine(b) : Under(r) /\ jar[r] = t

\* Nothing but t is in the hands of b.
OneHand(b, t) == /\ cookie[b] \in {t, None}
                 /\ \A r \in Mine(b) : Under(r) => jar[r] = t /\ got[r] \notin Token

\* The response of r will set a token that is not replaced.
Brings(r) == \/ stage[r] = "wait" /\ Running(jar[r]) /\ answer[inFlight[jar[r]]] = "PAIR"
             \/ stage[r] \in {"reread", "respond"} /\ got[r] \in Token

Latest(b) == \A t \in stale : Known(b, t) /\ ~Replaced(t) => OneHand(b, t)

Brought(b) == cookie[b] # None /\ Replaced(cookie[b]) => \E r \in Mine(b) : Brings(r)

Answered(b) == \A r \in Mine(b) : Under(r) /\ got[r] \in Token => ~Replaced(got[r])

Linked(b) == \A c \in Call : answer[c] = "PAIR" /\ InHand(b, held[c]) => ~Replaced(next[c])

InStep(b) == ~Lossy(b) => Latest(b) /\ Brought(b) /\ Answered(b) /\ Linked(b)

-----------------------------------------------------------------------------
\* Of the tokens of b that are told, one is not replaced.
LEMMA OneLatest ==
  ASSUME Web, NEW b \in Browser, NEW t \in Token, NEW u \in Token,
         Known(b, t), Known(b, u), ~Replaced(t), ~Replaced(u)
  PROVE  t = u
<1> USE NoneIsNothing DEF Web, Base, S!IInv, S!TypeOK
<1>1. ASSUME NEW x \in Token, Known(b, x), ~Replaced(x), x \in used
      PROVE  \E c \in Call : /\ held[c] = x /\ next[c] \in Token
                             /\ owner[next[c]] = b /\ ~Known(b, next[c]) /\ next[c] \notin used
  <2>1. PICK c \in Call : held[c] = x /\ next[c] # None
    BY <1>1 DEF S!Spent
  <2>2. next[c] \in Token /\ owner[next[c]] = b /\ ~Known(b, next[c])
    BY <1>1, <2>1 DEF S!Stage, Known, Replaced
  <2>3. next[c] \notin used
    <3> SUFFICES ASSUME next[c] \in used PROVE FALSE
      OBVIOUS
    <3>1. PICK d \in Call : held[d] = next[c]
      BY DEF S!Spent
    <3>2. Known(b, next[c])
      BY <2>2, <3>1 DEF Hands, Presented
    <3> QED BY <2>2, <3>2
  <2> QED BY <2>1, <2>2, <2>3
<1>2. PICK v \in Token : \A x \in Token : owner[x] = b /\ x \notin used <=> x = v
  <2>1. session[b] # "ABSENT"
    BY DEF Known, S!Rows
  <2> QED BY <2>1 DEF S!Rows, S!OneLiveToken
<1>3. CASE t \notin used /\ u \notin used
  BY <1>2, <1>3 DEF Known
<1>4. CASE t \in used /\ u \notin used
  BY <1>1, <1>2, <1>4 DEF Known
<1>5. CASE t \notin used /\ u \in used
  BY <1>1, <1>2, <1>5 DEF Known
<1>6. CASE t \in used /\ u \in used
  <2>1. PICK c \in Call : /\ held[c] = t /\ next[c] \in Token
                          /\ owner[next[c]] = b /\ next[c] \notin used
    BY <1>1, <1>6
  <2>2. PICK d \in Call : /\ held[d] = u /\ next[d] \in Token
                          /\ owner[next[d]] = b /\ next[d] \notin used
    BY <1>1, <1>6
  <2>3. next[c] = next[d]
    BY <1>2, <2>1, <2>2
  <2> QED BY <2>1, <2>2, <2>3 DEF S!Issued
<1> QED BY <1>3, <1>4, <1>5, <1>6

\* No call is answered with a pair.
NoNews == \A c \in Call : answer'[c] = "PAIR" => answer[c] = "PAIR"

LEMMA News ==
  ASSUME Web, [Next]_vars
  PROVE  NoNews \/ (ApiStep /\ \E c \in Call : S!Subject(c))
<1> USE DEF Web
<1>1. CASE ApiStep /\ ~NoNews
  <2>1. PICK c \in Call : answer'[c] = "PAIR" /\ answer[c] # "PAIR"
    BY <1>1 DEF NoNews
  <2>2. pc[c] = "subject" /\ pc'[c] = "done"
    BY <1>1, <2>1, ApiStepMoves DEF Moved
  <2>3. S!Subject(c)
    BY <1>1, <2>1, <2>2, SameApi, NoneIsNothing
       DEF ApiStep, S!Step, S!Rotate, S!RevokeForReuse, S!Subject, S!RevokeOnLogout, S!Lose, S!Expire,
           S!Goto, S!Finish, Base, S!IInv, S!TypeOK
  <2> QED BY <1>1, <2>3
<1>2. ASSUME NEW r \in Request, NEW c \in Call, Exchange(r, c) \/ SignOut(r, c) PROVE NoNews
  BY <1>2 DEF Exchange, SignOut, Api!Refresh, Api!Logout, Api!Finish, Api!Goto, NoNews, Base, S!IInv, S!TypeOK
<1>3. CASE UNCHANGED api \/ \E b \in Browser, t \in Token : SignIn(b, t)
  BY <1>3 DEF api, SignIn, Api!Login, NoNews
<1>4. \/ UNCHANGED api \/ ApiStep
      \/ \E t \in Token, b \in Browser : SignIn(b, t)
      \/ \E r \in Request, c \in Call : Exchange(r, c) \/ SignOut(r, c)
  BY DEF Next, Age, Settle, Send, Read, Recall, Join, Reread, Leave, Respond, LoseResponse, Restart, vars
<1> QED BY <1>1, <1>2, <1>3, <1>4

LEMMA Unreplaced ==
  ASSUME Web, [Next]_vars, NoNews, NEW t \in Token
  PROVE  Replaced(t)' <=> Replaced(t)
<1>1. ASSUME Replaced(t)' PROVE Replaced(t)
  <2>1. PICK c \in Call : held'[c] = t /\ answer'[c] = "PAIR"
    BY <1>1 DEF Replaced
  <2>2. answer[c] = "PAIR" /\ held[c] # None
    BY <2>1 DEF NoNews, Web, Base, S!IInv, S!Stage
  <2> QED BY <2>1, <2>2, Grows DEF Web, Replaced, S!Settled
<1> QED BY <1>1, ReplacedStays DEF Web

\* Of a stale token nothing new is told.
LEMMA Unknown ==
  ASSUME Web, [Next]_vars, NoNews, NEW b \in Browser, NEW t \in stale, Known(b, t)'
  PROVE  Known(b, t)
<1>1. t \in Token /\ owner[t] # None
  BY DEF Web, Hands, Base, TypeOK
<1>2. owner[t] = b
  BY <1>1, Grows DEF Web, Known, S!Grown
<1>3. ASSUME NEW c \in Call, next[c] = t PROVE answer[c] = "PAIR"
  <2>1. Moved(c) \/ pc[c] = "idle"
    BY Touched
  <2>2. next'[c] = t
    <3>1. pc[c] # "idle" /\ pc[c] # "rotate"
      BY <1>1, <1>3, NoneIsNothing DEF Web, Base, S!IInv, S!Stage
    <3> QED BY <1>3, <2>1, <3>1 DEF Moved
  <2> QED BY <2>2 DEF Known, NoNews
<1> QED BY <1>2, <1>3 DEF Known

\* What settled stays settled: an answered pair names the same tokens.
LEMMA PairStays ==
  ASSUME Web, [Next]_vars, NEW c \in Call, answer[c] = "PAIR"
  PROVE  /\ answer'[c] = "PAIR" /\ held'[c] = held[c] /\ next'[c] = next[c]
         /\ held[c] \in Token /\ next[c] \in Token
<1>1. /\ pc[c] = "done" /\ held[c] # None /\ next[c] # None
      /\ held[c] \in Token /\ next[c] \in Token
  BY DEF Web, Base, S!IInv, S!Stage, S!TypeOK
<1>2. S!Settled(c)
  BY Grows DEF Web
<1> QED BY <1>1, <1>2 DEF S!Settled

LEMMA BringsStays ==
  ASSUME Web, [Next]_vars, NEW r \in Request, Brings(r),
         stage'[r] = stage[r], jar'[r] = jar[r], got'[r] = got[r],
         stage[r] = "wait" /\ Running(jar[r]) => inFlight'[jar[r]] = inFlight[jar[r]]
  PROVE  Brings(r)'
<1>1. CASE stage[r] = "wait"
  <2>1. PICK c \in Call : inFlight[jar[r]] = c /\ answer[c] = "PAIR"
    <3>1. jar[r] \in Token
      BY <1>1 DEF Web, Base, TypeOK, Sent
    <3> QED BY <1>1, <3>1 DEF Brings, Running, Web, Base, TypeOK
  <2>2. answer'[c] = "PAIR" /\ inFlight'[jar[r]] = c
    BY <1>1, <2>1, PairStays DEF Brings
  <2> QED BY <1>1, <2>1, <2>2 DEF Brings, Running
<1> QED BY <1>1 DEF Brings

-----------------------------------------------------------------------------
\* What the requests of b may do while nothing new is told: set a token that one
\* of them brings, carry the cookie away, and learn the replacement of the token
\* they carry.
LEMMA ViewMoves ==
  ASSUME Web, [Next]_vars, NoNews, stale' = stale, NEW b \in Browser,
         Latest(b), Brought(b), Answered(b), Linked(b),
         \/ cookie'[b] \in {cookie[b], None}
         \/ \E r \in Mine(b) : Under(r) /\ got[r] \in Token /\ cookie'[b] = got[r],
         \A r \in Mine(b) : Under(r)' =>
           \/ Under(r) /\ jar'[r] = jar[r]
           \/ cookie[b] # None /\ jar'[r] = cookie[b],
         \A r \in Mine(b) : Under(r)' /\ got'[r] \in Token =>
           /\ Under(r)
           /\ \/ got'[r] = got[r]
              \/ \E c \in Call : answer[c] = "PAIR" /\ held[c] = jar[r] /\ got'[r] = next[c],
         cookie'[b] = cookie[b] /\ Replaced(cookie[b]) => \A r \in Mine(b) : Brings(r) => Brings(r)'
  PROVE  Latest(b)' /\ Brought(b)' /\ Answered(b)' /\ Linked(b)'
<1> USE BrowserFacts DEF Web
<1>1. Mine(b) \subseteq Request /\ Mine(b)' = Mine(b)
  BY DEF Mine
<1>2. ASSUME NEW t \in Token PROVE Replaced(t)' <=> Replaced(t)
  BY Unreplaced
<1>3. Latest(b)'
  <2> SUFFICES ASSUME NEW t \in stale, Known(b, t)', ~Replaced(t)' PROVE OneHand(b, t)'
    BY DEF Latest
  <2>1. t \in Token /\ ~Replaced(t) /\ OneHand(b, t)
    BY <1>2, Unknown DEF Latest, Base, TypeOK
  <2>2. cookie'[b] \in {t, None}
    BY <2>1 DEF OneHand
  <2>3. ASSUME NEW r \in Mine(b), Under(r)' PROVE jar'[r] = t /\ got'[r] \notin Token
    BY <2>1, <2>3 DEF OneHand, Replaced
  <2> QED BY <1>1, <2>2, <2>3 DEF OneHand
<1>4. Answered(b)'
  <2> SUFFICES ASSUME NEW r \in Mine(b), Under(r)', got'[r] \in Token PROVE ~Replaced(got[r])'
    BY <1>1 DEF Answered
  <2>1. PICK g \in Token : got'[r] = g
    OBVIOUS
  <2>2. Under(r)
    OBVIOUS
  <2>3. ~Replaced(g)
    BY <2>1, <2>2 DEF Answered, Linked, InHand
  <2> QED BY <1>2, <2>1, <2>3 DEF Replaced
<1>5. Brought(b)'
  <2> SUFFICES ASSUME cookie'[b] # None, Replaced(cookie[b])' PROVE \E r \in Mine(b) : Brings(r)'
    BY <1>1 DEF Brought, Replaced
  <2>1. PICK t \in Token : cookie'[b] = t
    BY TypeStep DEF Base, TypeOK
  <2>2. Replaced(t)
    BY <1>2, <2>1 DEF Replaced
  <2>3. cookie'[b] = cookie[b]
    BY <2>1, <2>2 DEF Answered
  <2>4. PICK r \in Mine(b) : Brings(r)
    BY <2>1, <2>2, <2>3 DEF Brought
  <2>5. Replaced(cookie[b])
    BY <2>1, <2>2, <2>3
  <2> QED BY <2>3, <2>4, <2>5
<1>6. Linked(b)'
  <2> SUFFICES ASSUME NEW c \in Call, answer'[c] = "PAIR", InHand(b, held[c])' PROVE ~Replaced(next[c])'
    BY DEF Linked, InHand
  <2>1. /\ answer[c] = "PAIR" /\ held'[c] = held[c] /\ next'[c] = next[c]
        /\ held[c] \in Token /\ next[c] \in Token
    BY PairStays DEF NoNews
  <2>2. Replaced(held[c])
    BY <2>1 DEF Replaced
  <2>3. InHand(b, held[c])
    BY <1>1, <2>1, <2>2, NoneIsNothing DEF InHand, Answered
  <2>4. PICK n \in Token : next[c] = n
    BY <2>1
  <2>5. ~Replaced(n)
    BY <2>1, <2>3, <2>4 DEF Linked
  <2> QED BY <1>2, <2>1, <2>4, <2>5 DEF Replaced
<1> QED BY <1>3, <1>4, <1>5, <1>6

\* One request moves, of b or of another browser.
LEMMA OneMoves ==
  ASSUME Web, [Next]_vars, NoNews, stale' = stale, NEW b \in Browser,
         Latest(b), Brought(b), Answered(b), Linked(b), NEW r \in Request,
         \A q \in Request : q # r => stage'[q] = stage[q] /\ jar'[q] = jar[q] /\ got'[q] = got[q],
         \A t \in Token : Running(t) => inFlight'[t] = inFlight[t],
         BrowserOf[r] # b => cookie'[b] = cookie[b],
         BrowserOf[r] = b =>
           /\ \/ cookie'[b] \in {cookie[b], None}
              \/ Under(r) /\ got[r] \in Token /\ cookie'[b] = got[r]
           /\ Under(r)' => \/ Under(r) /\ jar'[r] = jar[r]
                           \/ cookie[b] # None /\ jar'[r] = cookie[b]
           /\ Under(r)' /\ got'[r] \in Token =>
                /\ Under(r)
                /\ \/ got'[r] = got[r]
                   \/ \E c \in Call : answer[c] = "PAIR" /\ held[c] = jar[r] /\ got'[r] = next[c]
           /\ cookie'[b] = cookie[b] /\ Replaced(cookie[b]) /\ Brings(r) => Brings(r)'
  PROVE  Latest(b)' /\ Brought(b)' /\ Answered(b)' /\ Linked(b)'
<1>1. ASSUME NEW q \in Mine(b), Brings(q), cookie'[b] = cookie[b], Replaced(cookie[b]) PROVE Brings(q)'
  <2>1. CASE q = r
    BY <1>1, <2>1 DEF Mine
  <2>2. CASE q # r
    <3>1. stage[q] = "wait" => jar[q] \in Token
      BY DEF Mine, Web, Base, TypeOK, Sent
    <3> QED BY <1>1, <2>2, <3>1, BringsStays DEF Mine
  <2> QED BY <2>1, <2>2
<1>2. \/ cookie'[b] \in {cookie[b], None}
      \/ \E q \in Mine(b) : Under(q) /\ got[q] \in Token /\ cookie'[b] = got[q]
  BY DEF Mine
<1>3. ASSUME NEW q \in Mine(b), Under(q)'
      PROVE  /\ \/ Under(q) /\ jar'[q] = jar[q]
                \/ cookie[b] # None /\ jar'[q] = cookie[b]
             /\ got'[q] \in Token =>
                  /\ Under(q)
                  /\ \/ got'[q] = got[q]
                     \/ \E c \in Call : answer[c] = "PAIR" /\ held[c] = jar[q] /\ got'[q] = next[c]
  BY <1>3 DEF Mine, Under
<1> QED BY <1>1, <1>2, <1>3, ViewMoves

LEMMA LostStays == ASSUME Base, [Next]_vars, NEW r \in Request, stage[r] = "lost" PROVE stage'[r] = "lost"
BY DEF Base, TypeOK, Next, SignIn, ApiStep, Age, Send, Read, Recall, Join, Reread, SignOut, Leave,
       Respond, LoseResponse, vars, web, Exchange, Restart, Settle, Waiting, Goto

LEMMA AgeInStep ==
  ASSUME Web, NEW b \in Browser, NEW t \in Token, Age(t),
         Latest(b), Brought(b), Answered(b), Linked(b)
  PROVE  Latest(b)' /\ Brought(b)' /\ Answered(b)' /\ Linked(b)'
<1>1. UNCHANGED <<api, cookie, inFlight, stage, jar, got>> /\ stale' = stale \cup {t}
  BY DEF Age
<1>2. Brought(b)' /\ Answered(b)' /\ Linked(b)'
  BY <1>1 DEF Brought, Answered, Linked, InHand, Under, Brings, Replaced, Running, api
<1>3. ASSUME Known(b, t), ~Replaced(t) PROVE OneHand(b, t)
  <2>1. ASSUME NEW r \in Mine(b), Under(r) PROVE stage[r] = "read" /\ jar[r] = t /\ got[r] \notin Token
    <3>1. stage[r] = "read" /\ jar[r] = t
      BY <1>3, <2>1 DEF Age, Known, Mine, Under
    <3> QED BY <3>1, NoneIsNothing DEF Web, Hands, Hand, Mine
  <2>2. cookie[b] # None => cookie[b] \in Token /\ Known(b, cookie[b]) /\ ~Replaced(cookie[b])
    BY <2>1 DEF Web, Base, TypeOK, Hands, Cookie, Brought, Brings, Under
  <2>3. cookie[b] \in {t, None}
    BY <1>3, <2>2, OneLatest
  <2> QED BY <2>1, <2>3 DEF OneHand
<1>4. Latest(b)'
  BY <1>1, <1>3 DEF Latest, Known, Replaced, OneHand, Under, api
<1> QED BY <1>2, <1>4

\* A browser that signs in had nothing in hand.
LEMMA AtSignIn ==
  ASSUME Web, [Next]_vars, NEW b \in Browser, NEW t \in Token, SignIn(b, t)
  PROVE  /\ UNCHANGED <<held, next, answer, pc, used, stale, lastRotation, inFlight, stage, jar, got, cut>>
         /\ session' = [session EXCEPT ![b] = "OPEN"] /\ cookie'[b] = t
         /\ owner' = [owner EXCEPT ![t] = b] /\ \A u \in Token : owner[u] # b
         /\ \A c \in Call : held[c] # t
         /\ \A r \in Mine(b) : ~Under(r)'
         /\ \A u \in stale : ~Known(b, u)'
         /\ ~Replaced(t)'
<1> USE NoneIsNothing, BrowserFacts
<1>1. /\ session[b] = "ABSENT" /\ owner[t] = None /\ \A c \in Call : held[c] # t
      /\ owner' = [owner EXCEPT ![t] = b] /\ session' = [session EXCEPT ![b] = "OPEN"]
      /\ cookie'[b] = t
      /\ UNCHANGED <<held, next, answer, pc, used, stale, lastRotation, inFlight, stage, jar, got, cut>>
  BY DEF SignIn, Api!Login, Api!Fresh, Web, Base, TypeOK
<1>2. \A u \in Token : owner[u] # b
  BY <1>1 DEF Web, Base, S!IInv, S!Rows
<1>3. \A r \in Mine(b) : stage[r] = "idle"
  <2> SUFFICES ASSUME NEW r \in Mine(b), jar[r] # None PROVE FALSE
    BY DEF Mine, Web, Base, Sent
  <2> QED BY <1>2 DEF Mine, Web, Base, TypeOK, Hands, Hand, Known
<1>4. \A r \in Mine(b) : ~Under(r)'
  BY <1>1, <1>3 DEF Under
<1>5. ASSUME NEW u \in stale PROVE ~Known(b, u)'
  <2>1. u \in Token /\ owner[u] # None /\ owner[u] # b
    BY <1>2 DEF Web, Base, TypeOK, Hands
  <2> QED BY <1>1, <2>1 DEF Known, Web, Base, TypeOK
<1>6. ~Replaced(t)'
  BY <1>1 DEF Replaced
<1> QED BY <1>1, <1>2, <1>4, <1>5, <1>6

LEMMA SignInInStep ==
  ASSUME Web, [Next]_vars, NEW b \in Browser, NEW t \in Token, SignIn(b, t)
  PROVE  Latest(b)' /\ Brought(b)' /\ Answered(b)' /\ Linked(b)'
<1>1. Brought(b)'
  <2>1. cookie'[b] = t /\ ~Replaced(t)'
    BY AtSignIn
  <2> QED BY <2>1 DEF Brought, Replaced
<1>2. Linked(b)'
  BY AtSignIn DEF Linked, InHand, Mine
<1> QED BY <1>1, <1>2, AtSignIn DEF Latest, Answered, Mine

\* The answer of the API with a pair.
LEMMA AtSubject ==
  ASSUME Web, [Next]_vars, ApiStep, NEW c \in Call, S!Subject(c)
  PROVE  /\ UNCHANGED <<session, owner, used, held, next, stale, cookie, lastRotation, inFlight, stage, jar, got, cut>>
         /\ answer'[c] = "PAIR" /\ \A d \in Call : d # c => answer'[d] = answer[d] /\ pc'[d] = pc[d]
         /\ answer[c] = "NONE" /\ pc'[c] = "done"
         /\ \E t \in Token, n \in Token, a \in Browser :
              /\ held[c] = t /\ next[c] = n /\ owner[t] = a /\ owner[n] = a
              /\ t \in stale /\ Known(a, t) /\ ~Replaced(t)
              /\ inFlight[t] = c \/ Dropped(a)
              /\ n \notin stale \/ Dropped(a)
              /\ \A d \in Call : held[d] = t /\ next[d] # None => d = c
              /\ \A d \in Call : held[d] # n
              /\ \A u \in Token \ {t} : Replaced(u)' <=> Replaced(u)
              /\ \A b \in Browser, u \in Token \ {n} : Known(b, u)' => Known(b, u)
<1> USE NoneIsNothing, BrowserFacts
<1>1. /\ UNCHANGED <<session, owner, used, held, next, stale, cookie, lastRotation, inFlight, stage, jar, got, cut>>
      /\ pc[c] = "subject" /\ answer[c] = "NONE" /\ answer'[c] = "PAIR" /\ pc'[c] = "done"
      /\ \A d \in Call : d # c => answer'[d] = answer[d] /\ pc'[d] = pc[d]
  BY DEF ApiStep, web, S!Subject, S!rows, S!Finish, Web, Base, S!IInv, S!TypeOK, S!Stage
<1>2. PICK t \in Token, n \in Token, a \in Browser :
        held[c] = t /\ next[c] = n /\ owner[t] = a /\ owner[n] = a
  BY <1>1 DEF Web, Base, S!IInv, S!Stage, S!TypeOK
<1>3. /\ t \in stale /\ Known(a, t)
      /\ inFlight[t] = c \/ Dropped(a)
      /\ n \notin stale \/ Dropped(a)
  BY <1>1, <1>2 DEF Web, Exchanges, Serving, Active, Hands, Presented
<1>4. \A d \in Call : held[d] = t /\ next[d] # None => d = c
  BY <1>1, <1>2 DEF Web, Base, S!IInv, S!Issued
<1>5. ~Replaced(t)
  BY <1>1, <1>4 DEF Replaced, Web, Base, S!IInv, S!Stage
<1>6. \A d \in Call : held[d] # n
  BY <1>1, <1>2 DEF Web, Hands, Presented, Known
<1>7. ASSUME NEW u \in Token, u # t PROVE Replaced(u)' <=> Replaced(u)
  BY <1>1, <1>2, <1>7 DEF Replaced
<1>8. ASSUME NEW b \in Browser, NEW u \in Token, u # n, Known(b, u)' PROVE Known(b, u)
  BY <1>1, <1>2, <1>8 DEF Known
<1> QED BY <1>1, <1>2, <1>3, <1>4, <1>5, <1>6, <1>7, <1>8

\* The token it replaces was all that b had.
LEMMA SubjectInStep ==
  ASSUME Web, [Next]_vars, ApiStep, NEW c \in Call, S!Subject(c), NEW b \in Browser, ~Lossy(b),
         Latest(b), Brought(b), Answered(b), Linked(b)
  PROVE  Latest(b)' /\ Brought(b)' /\ Answered(b)' /\ Linked(b)'
<1> USE NoneIsNothing, BrowserFacts
<1>1. /\ UNCHANGED <<owner, held, next, stale, cookie, inFlight, stage, jar, got>>
      /\ answer[c] = "NONE" /\ answer'[c] = "PAIR"
      /\ \A d \in Call : d # c => answer'[d] = answer[d]
  BY AtSubject
<1>2. PICK t \in Token, n \in Token, a \in Browser :
        /\ held[c] = t /\ next[c] = n /\ owner[t] = a /\ owner[n] = a
        /\ t \in stale /\ Known(a, t) /\ ~Replaced(t)
        /\ inFlight[t] = c \/ Dropped(a)
        /\ n \notin stale \/ Dropped(a)
        /\ \A d \in Call : held[d] = t /\ next[d] # None => d = c
        /\ \A d \in Call : held[d] # n
        /\ \A u \in Token \ {t} : Replaced(u)' <=> Replaced(u)
        /\ \A e \in Browser, u \in Token \ {n} : Known(e, u)' => Known(e, u)
  BY AtSubject
<1>3. /\ t \in stale /\ Known(a, t)
      /\ inFlight[t] = c \/ Dropped(a)
      /\ n \notin stale \/ Dropped(a)
  BY <1>2
<1>4. \A d \in Call : held[d] = t /\ next[d] # None => d = c
  BY <1>2
<1>5. ~Replaced(t)
  BY <1>2
<1>6. \A d \in Call : held[d] # n
  BY <1>2
<1>7. ASSUME NEW u \in Token, u # t PROVE Replaced(u)' <=> Replaced(u)
  BY <1>2, <1>7
<1>8. ASSUME NEW u \in Token, u # n, Known(b, u)' PROVE Known(b, u)
  BY <1>2, <1>8
<1>9. Mine(b)' = Mine(b) /\ \A r \in Mine(b) : Under(r)' <=> Under(r)
  BY <1>1 DEF Mine, Under
<1>10. \A r \in Mine(b) : Brings(r) => Brings(r)'
  BY <1>1, BringsStays DEF Mine
<1>11. CASE a # b
  <2>1. ~Known(b, t) /\ ~Known(b, n) /\ ~Known(b, n)'
    BY <1>1, <1>2, <1>11 DEF Known
  <2>2. Latest(b)'
    BY <1>1, <1>7, <1>8, <2>1 DEF Latest, Known, OneHand, Under, Web, Base, TypeOK
  <2>3. ASSUME NEW r \in Mine(b), Under(r), got[r] \in Token PROVE ~Replaced(got[r])'
    <3>1. PICK g \in Token : got[r] = g
      BY <2>3
    <3>2. g # t /\ ~Replaced(g)
      BY <2>1, <2>3, <3>1 DEF Web, Hands, Hand, Mine, Answered
    <3> QED BY <1>1, <1>7, <3>1, <3>2 DEF Replaced
  <2>4. Answered(b)'
    BY <1>1, <1>9, <2>3 DEF Answered
  <2>5. Brought(b)'
    <3> SUFFICES ASSUME NEW u \in Token, cookie[b] = u, Replaced(u)' PROVE \E r \in Mine(b) : Brings(r)
      BY <1>1, <1>9, <1>10 DEF Brought, Web, Base, TypeOK, Replaced
    <3>1. u # t
      BY <2>1 DEF Web, Hands, Cookie
    <3> QED BY <1>7, <3>1 DEF Brought
  <2>6. ASSUME NEW d \in Call, answer'[d] = "PAIR", InHand(b, held[d]) PROVE ~Replaced(next[d])'
    <3>1. PICK u \in Token, v \in Token : held[d] = u /\ next[d] = v /\ owner[u] # None /\ owner[u] = owner[v]
      BY <1>1, <1>2, <2>6 DEF Web, Base, S!IInv, S!Stage, S!TypeOK
    <3>2. Known(b, u)
      BY <2>6, <3>1 DEF InHand, Web, Hands, Cookie, Hand, Mine
    <3>3. d # c /\ v # t
      BY <1>2, <1>11, <3>1, <3>2 DEF Known
    <3>4. ~Replaced(v)
      BY <1>1, <2>6, <3>1, <3>3 DEF Linked
    <3> QED BY <1>1, <1>7, <3>1, <3>3, <3>4 DEF Replaced
  <2>7. Linked(b)'
    BY <1>1, <1>9, <2>6 DEF Linked, InHand
  <2> QED BY <2>2, <2>4, <2>5, <2>7
<1>12. CASE a = b
  <2>1. OneHand(b, t) /\ n \notin stale /\ inFlight[t] = c
    BY <1>3, <1>5, <1>12 DEF Latest, Dropped
  <2>2. Answered(b)'
    BY <1>1, <1>9, <2>1 DEF OneHand, Answered
  <2>3. Brought(b)'
    <3>1. PICK r \in Request : stage[r] = "wait" /\ jar[r] = t
      BY <2>1 DEF Running, Web, Exchanges, Shared
    <3>2. r \in Mine(b)
      BY <1>2, <1>12, <3>1 DEF Web, Hands, Hand, Known, Mine
    <3>3. Brings(r)'
      BY <1>1, <2>1, <3>1 DEF Brings, Running
    <3> QED BY <1>9, <3>2, <3>3 DEF Brought
  <2>4. Linked(b)'
    <3> SUFFICES ASSUME NEW d \in Call, answer'[d] = "PAIR", InHand(b, held[d]) PROVE ~Replaced(next[d])'
      BY <1>1, <1>9 DEF Linked, InHand
    <3>1. held[d] # None /\ next[d] # None
      BY <1>1, <1>2 DEF Web, Base, S!IInv, S!Stage
    <3>2. held[d] = t
      BY <2>1, <3>1 DEF InHand, OneHand
    <3>3. d = c
      BY <1>4, <3>1, <3>2
    <3> QED BY <1>1, <1>2, <1>6, <3>3 DEF Replaced
  <2>5. Latest(b)'
    <3> SUFFICES ASSUME NEW u \in stale, Known(b, u)', ~Replaced(u)' PROVE FALSE
      BY <1>1 DEF Latest
    <3>1. u \in Token /\ u # n /\ Known(b, u)
      BY <1>8, <2>1 DEF Web, Base, TypeOK
    <3>2. u # t
      BY <1>1, <1>2 DEF Replaced
    <3> QED BY <1>3, <1>5, <1>7, <1>12, <3>1, <3>2, OneLatest
  <2> QED BY <2>2, <2>3, <2>4, <2>5
<1> QED BY <1>11, <1>12

LEMMA SettleInStep ==
  ASSUME Web, [Next]_vars, NoNews, NEW t \in Token, Settle(t), NEW b \in Browser,
         Latest(b), Brought(b), Answered(b), Linked(b)
  PROVE  Latest(b)' /\ Brought(b)' /\ Answered(b)' /\ Linked(b)'
<1> USE NoneIsNothing, BrowserFacts
<1>1. PICK c \in Call : inFlight[t] = c
  BY DEF Settle, Running, Web, Base, TypeOK
<1>2. /\ UNCHANGED <<api, stale, cookie, jar>> /\ held[c] = t /\ pc[c] = "done"
      /\ inFlight' = [inFlight EXCEPT ![t] = None]
      /\ got' = [r \in Request |-> IF r \in Waiting(t) THEN Outcome(c) ELSE got[r]]
      /\ stage' = [r \in Request |-> IF r \notin Waiting(t) THEN stage[r]
                                     ELSE IF answer[c] = "PAIR" THEN "reread" ELSE "respond"]
  BY <1>1 DEF Settle, Web, Exchanges, Shared
<1>3. ASSUME NEW r \in Request
      PROVE  /\ r \in Waiting(t) => /\ stage[r] = "wait" /\ jar[r] = t
                                    /\ got'[r] = Outcome(c)
                                    /\ stage'[r] = IF answer[c] = "PAIR" THEN "reread" ELSE "respond"
             /\ r \notin Waiting(t) => /\ stage[r] # "wait" \/ jar[r] # t
                                       /\ got'[r] = got[r] /\ stage'[r] = stage[r]
  BY <1>2 DEF Waiting
<1>4. Outcome(c) \in Token => answer[c] = "PAIR" /\ Outcome(c) = next[c]
  BY DEF Outcome
<1>5. ASSUME NEW r \in Mine(b), Under(r)'
      PROVE  /\ Under(r) /\ jar'[r] = jar[r]
             /\ got'[r] \in Token =>
                  \/ got'[r] = got[r]
                  \/ \E d \in Call : answer[d] = "PAIR" /\ held[d] = jar[r] /\ got'[r] = next[d]
  BY <1>2, <1>3, <1>4, <1>5 DEF Under, Mine
<1>6. ASSUME NEW r \in Mine(b), Brings(r) PROVE Brings(r)'
  <2>1. CASE r \in Waiting(t)
    <3>1. answer[c] = "PAIR" /\ Outcome(c) = next[c] /\ next[c] \in Token
      BY <1>1, <1>3, <1>6, <2>1, PairStays DEF Brings, Mine, Outcome
    <3> QED BY <1>3, <2>1, <3>1 DEF Brings, Mine
  <2>2. CASE r \notin Waiting(t)
    <3>1. stage[r] = "wait" => inFlight'[jar[r]] = inFlight[jar[r]]
      BY <1>2, <1>3, <2>2 DEF Mine, Web, Base, TypeOK, Sent
    <3> QED BY <1>2, <1>3, <1>6, <2>2, <3>1, BringsStays DEF Mine
  <2> QED BY <2>1, <2>2
<1> QED BY <1>2, <1>5, <1>6, ViewMoves

LEMMA InStepStep ==
  ASSUME Web, [Next]_vars, NEW b \in Browser, InStep(b)
  PROVE  InStep(b)'
<1> USE NoneIsNothing, BrowserFacts
<1> SUFFICES ASSUME ~Lossy(b)' PROVE Latest(b)' /\ Brought(b)' /\ Answered(b)' /\ Linked(b)'
  BY DEF InStep
<1>1. ~Lossy(b) /\ Latest(b) /\ Brought(b) /\ Answered(b) /\ Linked(b)
  <2>1. ~Lossy(b)
    BY LostStays DEF Lossy, Mine, Web
  <2> QED BY <2>1 DEF InStep
<1> DEFINE Kept == Latest(b)' /\ Brought(b)' /\ Answered(b)' /\ Linked(b)'
<1>2. CASE NoNews /\ UNCHANGED web
  <2>1. \A r \in Mine(b) : /\ Under(r)' => Under(r) /\ jar'[r] = jar[r]
                           /\ got'[r] = got[r]
                           /\ Brings(r) => Brings(r)'
    BY <1>2, BringsStays DEF web, Under, Mine
  <2> QED BY <1>1, <1>2, <2>1, ViewMoves DEF web, Under
<1>3. CASE ApiStep /\ \E c \in Call : S!Subject(c)
  BY <1>1, <1>3, SubjectInStep
<1>4. ASSUME NEW a \in Browser, NEW t \in Token, SignIn(a, t), NoNews PROVE Kept
  <2>1. CASE a = b
    BY <1>1, <1>4, <2>1, SignInInStep
  <2>2. CASE a # b
    <3>1. UNCHANGED <<stale, inFlight, stage, jar, got>> /\ cookie'[b] = cookie[b]
      BY <1>4, <2>2 DEF SignIn, Web, Base, TypeOK
    <3>2. \A r \in Mine(b) : Under(r)' => Under(r)
      BY <3>1 DEF Under
    <3>3. \A r \in Mine(b) : Brings(r) => Brings(r)'
      BY <3>1, BringsStays DEF Mine
    <3> QED BY <1>1, <1>4, <3>1, <3>2, <3>3, ViewMoves
  <2> QED BY <2>1, <2>2
<1>5. ASSUME NEW t \in Token, Age(t) PROVE Kept
  BY <1>1, <1>5, AgeInStep
<1>6. ASSUME NEW t \in Token, Settle(t), NoNews PROVE Kept
  BY <1>1, <1>6, SettleInStep
<1>7. ASSUME NEW r \in Request, NoNews,
             \/ Send(r) \/ Read(r) \/ Recall(r) \/ Join(r) \/ Reread(r) \/ Leave(r) \/ Respond(r)
             \/ \E c \in Call : Exchange(r, c) \/ SignOut(r, c)
      PROVE  Kept
  <2>1. /\ stale' = stale /\ UNCHANGED lastRotation
        /\ \A q \in Request : q # r => stage'[q] = stage[q] /\ jar'[q] = jar[q] /\ got'[q] = got[q]
        /\ \A t \in Token : Running(t) => inFlight'[t] = inFlight[t]
        /\ BrowserOf[r] # b => cookie'[b] = cookie[b]
    BY <1>7 DEF Send, Read, Recall, Join, Reread, Leave, Respond, Exchange, SignOut, Goto,
                Running, Web, Base, TypeOK
  <2>2. CASE Send(r) \/ \E c \in Call : SignOut(r, c)
    <3>1. /\ stage[r] = "idle" /\ stage'[r] \in {"read", "leave"} /\ got'[r] = got[r] /\ got[r] = None
          /\ cookie' = cookie /\ cookie[BrowserOf[r]] # None /\ jar'[r] = cookie[BrowserOf[r]]
      BY <2>2 DEF Send, SignOut, Goto, Web, Base, TypeOK, Hands, Hand
    <3> QED BY <1>1, <1>7, <2>1, <3>1, OneMoves DEF Under, Brings
  <2>3. CASE Read(r) \/ Join(r) \/ Leave(r) \/ \E c \in Call : Exchange(r, c)
    <3>1. /\ stage[r] \in {"read", "refresh", "leave"} /\ stage'[r] \in {"refresh", "respond", "wait"}
          /\ got'[r] \in {None, "CLEAR"} /\ cookie' = cookie /\ jar' = jar
      BY <2>3 DEF Read, Join, Leave, Exchange, Goto, Web, Base, TypeOK, Hands, Hand
    <3> QED BY <1>1, <1>7, <2>1, <3>1, OneMoves DEF Under, Brings
  <2>4. CASE Recall(r)
    <3>1. /\ stage[r] = "refresh" /\ stage'[r] = "reread" /\ got'[r] = lastRotation.to
          /\ cookie' = cookie /\ jar' = jar /\ lastRotation # None /\ lastRotation.from = jar[r]
      BY <2>4 DEF Recall, Remembered, Goto, Web, Base, TypeOK
    <3>2. \E c \in Call : answer[c] = "PAIR" /\ held[c] = jar[r] /\ got'[r] = next[c]
      BY <3>1 DEF Web, Memory
    <3> QED BY <1>1, <1>7, <2>1, <3>1, <3>2, OneMoves DEF Under, Brings
  <2>5. CASE Reread(r)
    <3>1. /\ stage[r] = "reread" /\ stage'[r] = "respond" /\ cookie' = cookie /\ jar' = jar
          /\ got'[r] = IF got[r] \in stale THEN "CLEAR" ELSE got[r]
          /\ got[r] \in Token /\ Known(BrowserOf[r], got[r])
      BY <2>5 DEF Reread, Goto, Web, Base, TypeOK, Hands, Hand
    <3>2. ASSUME BrowserOf[r] = b PROVE got[r] \notin stale
      BY <1>1, <3>1, <3>2 DEF Answered, Latest, OneHand, Under, Mine
    <3> QED BY <1>1, <1>7, <2>1, <3>1, <3>2, OneMoves DEF Under, Brings
  <2>6. CASE Respond(r)
    <3>1. /\ stage[r] = "respond" /\ stage'[r] = "done" /\ jar' = jar /\ got' = got
          /\ cookie'[BrowserOf[r]] = IF got[r] = None THEN cookie[BrowserOf[r]]
                                     ELSE IF got[r] = "CLEAR" THEN None ELSE got[r]
          /\ got[r] \in Token \cup {None, "CLEAR"}
      BY <2>6 DEF Respond, Goto, Web, Base, TypeOK
    <3>2. ASSUME BrowserOf[r] = b, Brings(r), cookie'[b] = cookie[b], Replaced(cookie[b]) PROVE FALSE
      <4>1. got[r] \in Token /\ cookie[b] = got[r]
        BY <3>1, <3>2 DEF Brings
      <4> QED BY <1>1, <3>1, <3>2, <4>1 DEF Answered, Under, Mine
    <3> QED BY <1>1, <1>7, <2>1, <3>1, <3>2, OneMoves DEF Under
  <2> QED BY <1>7, <2>2, <2>3, <2>4, <2>5, <2>6
<1>8. CASE Restart /\ NoNews
  <2>1. /\ UNCHANGED <<stale, cookie, jar, got>>
        /\ \A r \in Mine(b) : stage[r] \in {"idle", "done"} /\ stage'[r] = stage[r]
    BY <1>8 DEF Restart, Lossy, Mine
  <2>2. \A r \in Mine(b) : ~Under(r)' /\ ~Brings(r)
    BY <2>1 DEF Under, Brings
  <2> QED BY <1>1, <1>8, <2>1, <2>2, ViewMoves
<1>9. ASSUME NEW r \in Request, LoseResponse(r), NoNews PROVE Kept
  <2>1. CASE r \in Mine(b)
    <3>1. stage'[r] = "lost"
      BY <1>9 DEF LoseResponse, Goto, Web, Base, TypeOK
    <3> QED BY <2>1, <3>1 DEF Lossy, Mine
  <2>2. CASE r \notin Mine(b)
    <3>1. /\ UNCHANGED <<stale, cookie, inFlight, jar, got>>
          /\ \A q \in Request : q # r => stage'[q] = stage[q]
      BY <1>9 DEF LoseResponse, Goto, Web, Base, TypeOK
    <3> QED BY <1>1, <1>9, <2>2, <3>1, OneMoves DEF Mine
  <2> QED BY <2>1, <2>2
<1> HIDE DEF Kept
<1>10. NoNews \/ (ApiStep /\ \E c \in Call : S!Subject(c))
  BY News
<1>11. UNCHANGED web \/ ~(ApiStep \/ UNCHANGED vars)
  BY DEF ApiStep, vars, web
<1>12. Kept
  BY <1>2, <1>3, <1>4, <1>5, <1>6, <1>7, <1>8, <1>9, <1>10, <1>11 DEF Next, Kept
<1> QED BY <1>12 DEF Kept

LEMMA InStepInvariance == Spec => [](\A b \in Browser : InStep(b))
<1>1. Init => \A b \in Browser : InStep(b)
  BY NoneIsNothing DEF Init, Api!Init, InStep, Latest, Brought, Answered, Linked, Under, Mine
<1>2. Web /\ (\A b \in Browser : InStep(b)) /\ [Next]_vars => (\A b \in Browser : InStep(b))'
  BY InStepStep
<1> QED BY <1>1, <1>2, WebInvariance, PTL DEF Spec

\* Between requests, a browser that received every response of a process that
\* received every answer holds the token of its session that can be rotated: the
\* refresh coordinator, the API's rotation and the cookies set by responses in
\* whatever order never leave it with one that would be taken for a replay.
THEOREM QuietCookieIsLive == Spec => []CookieIsLive
<1>1. ASSUME Web, NEW b \in Browser, InStep(b), cookie[b] # None,
             \A r \in Mine(b) : stage[r] \in {"idle", "done"}, ~AnswerLost(b)
      PROVE  owner[cookie[b]] = b /\ cookie[b] \notin used
  <2>1. PICK t \in Token : cookie[b] = t /\ owner[t] = b
    BY <1>1, NoneIsNothing DEF Web, Base, TypeOK, Hands, Cookie, Known
  <2>2. ~Lossy(b) /\ Brought(b) /\ \A r \in Mine(b) : ~Brings(r)
    BY <1>1 DEF Lossy, InStep, Brings
  <2>3. ~Replaced(t)
    BY <1>1, <2>1, <2>2 DEF Brought
  <2>4. ASSUME t \in used PROVE FALSE
    <3>1. PICK c \in Call : held[c] = t /\ next[c] # None
      BY <1>1, <2>4 DEF Web, Base, S!IInv, S!Spent
    <3>2. pc[c] = "subject"
      BY <1>1, <2>1, <2>3, <3>1 DEF Web, Base, S!IInv, S!Stage, Replaced, AnswerLost
    <3>3. inFlight[t] = c
      BY <1>1, <2>1, <2>2, <3>1, <3>2 DEF Web, Exchanges, Serving, Active, Dropped
    <3>4. PICK r \in Request : stage[r] = "wait" /\ jar[r] = t
      BY <1>1, <3>3, NoneIsNothing DEF Web, Exchanges, Shared, Running
    <3>5. r \in Mine(b)
      BY <1>1, <2>1, <3>4, NoneIsNothing DEF Web, Hands, Hand, Known, Mine
    <3> QED BY <1>1, <3>4, <3>5
  <2> QED BY <2>1, <2>4
<1>2. Web /\ (\A b \in Browser : InStep(b)) => CookieIsLive
  BY <1>1 DEF CookieIsLive
<1> QED BY <1>2, WebInvariance, InStepInvariance, PTL

-----------------------------------------------------------------------------
\* A sign-out says so from the moment it is sent.
Leaving == \A r \in Request : stage[r] = "leave" => via[r] # None

LEMMA LeavingStep == ASSUME Web, Leaving, [Next]_vars PROVE Leaving'
BY NoneIsNothing DEF Web, Base, TypeOK, Leaving, Next, SignIn, ApiStep, Age, Send, Read, Recall, Join, Reread,
       SignOut, Leave, Respond, LoseResponse, vars, web, Exchange, Restart, Settle, Waiting, Goto

\* b is forgotten, or about to be.
LeftWithout(b) == session[b] # "ABSENT" /\ (cookie[b] = None \/ \E r \in Mine(b) : got[r] = "CLEAR")

Ended(b) == session[b] \in Api!Revoked \/ b \in expired

Excused(b) == Ended(b) \/ \E r \in Mine(b) : stage[r] = "lost" \/ via[r] # None

Remembers(b) == LeftWithout(b) => Excused(b)

LEMMA ExcusedStays == ASSUME Web, [Next]_vars, NEW b \in Browser, Excused(b) PROVE Excused(b)'
<1>1. CASE Ended(b)
  BY <1>1, Grows DEF Web, S!Grown, Ended, Excused, Api!Revoked, S!Revoked
<1>2. ASSUME NEW r \in Mine(b), stage[r] = "lost" PROVE Excused(b)'
  BY <1>2, LostStays DEF Web, Mine, Excused
<1>3. ASSUME NEW r \in Mine(b), via[r] # None PROVE Excused(b)'
  <2>1. via'[r] # None
    BY <1>3, NoneIsNothing
       DEF Mine, Web, Base, TypeOK, Next, SignIn, ApiStep, Age, Send, Read, Recall, Join, Reread, SignOut,
           Leave, Respond, LoseResponse, vars, web, Exchange, Restart, Settle
  <2> QED BY <1>3, <2>1 DEF Mine, Excused
<1> QED BY <1>1, <1>2, <1>3 DEF Excused

LEMMA RemembersStep ==
  ASSUME Web, [Next]_vars, Leaving, NEW b \in Browser, InStep(b), Remembers(b)
  PROVE  Remembers(b)'
<1> USE NoneIsNothing, BrowserFacts
<1> SUFFICES ASSUME LeftWithout(b)', ~Excused(b)' PROVE FALSE
  BY DEF Remembers
<1>1. ~Excused(b) /\ ~LeftWithout(b) /\ ~Lossy(b)
  BY ExcusedStays DEF Remembers, Excused, Lossy
<1>2. /\ \A r \in Mine(b) : r \in Request /\ BrowserOf[r] = b
      /\ \A r \in Mine(b) : got[r] # "CLEAR" \/ session[b] = "ABSENT"
      /\ cookie[b] # None \/ session[b] = "ABSENT"
  BY <1>1 DEF Mine, LeftWithout
<1>3. CASE session[b] = "ABSENT"
  <2>1. /\ cookie[b] = None
        /\ \A r \in Mine(b) : stage[r] = "idle" /\ got[r] = None
    <3>1. \A t \in Token : owner[t] # b
      BY <1>3 DEF Web, Base, S!IInv, S!Rows
    <3>2. cookie[b] = None
      BY <3>1 DEF Web, Base, TypeOK, Hands, Cookie, Known
    <3>3. \A r \in Mine(b) : jar[r] = None
      BY <1>2, <3>1 DEF Web, Base, TypeOK, Hands, Hand, Known
    <3> QED BY <1>2, <3>2, <3>3 DEF Web, Base, Sent, Hands, Hand
  <2>2. session'[b] # "ABSENT"
    BY DEF LeftWithout
  <2>3. ASSUME NEW t \in Token, SignIn(b, t) PROVE FALSE
    BY <2>1, <2>3 DEF SignIn, Web, Base, TypeOK, LeftWithout, Mine
  <2>4. ASSUME NEW t \in Token, NEW a \in Browser, a # b, SignIn(a, t) PROVE FALSE
    BY <1>3, <2>2, <2>4 DEF SignIn, Api!Login, Web, Base, S!IInv, S!TypeOK
  <2>5. CASE ApiStep
    <3>1. \A t \in Token : owner[t] # b
      BY <1>3 DEF Web, Base, S!IInv, S!Rows
    <3>2. \A c \in Call : pc[c] \in {"reuse", "revoke"} => owner[held[c]] # b
      BY <3>1 DEF Web, Base, S!IInv, S!Stage, S!TypeOK
    <3>3. session'[b] = session[b]
      BY <2>5, <3>2, SameApi
         DEF ApiStep, S!Step, S!Rotate, S!RevokeForReuse, S!Subject, S!RevokeOnLogout, S!Lose, S!Expire, S!rows,
             Web, Base, S!IInv, S!TypeOK
    <3> QED BY <1>3, <2>2, <3>3
  <2>6. CASE session' = session
    BY <1>3, <2>2, <2>6
  <2> QED BY <2>3, <2>4, <2>5, <2>6
          DEF Next, Age, Send, Read, Recall, Join, Reread, SignOut, Leave, Respond, LoseResponse, vars, api,
              Exchange, Restart, Settle, Api!Refresh, Api!Logout, Api!rows
<1>4. CASE session[b] # "ABSENT" /\ got' # got
  <2>1. \A r \in Mine(b) : got[r] # "CLEAR"
    BY <1>2, <1>4
  <2>2. cookie[b] # None
    BY <1>2, <1>4
  <2>3. ASSUME NEW t \in Token, Settle(t) PROVE FALSE
    <3>1. PICK c \in Call : inFlight[t] = c
      BY <2>3 DEF Settle, Running, Web, Base, TypeOK
    <3>2. PICK r \in Mine(b) : r \in Waiting(t) /\ Outcome(c) = "CLEAR"
      BY <1>2, <2>1, <2>2, <2>3, <3>1 DEF Settle, LeftWithout, Mine
    <3>3. held[c] = t /\ answer[c] \in {"REUSED", "UNUSABLE"}
      BY <2>3, <3>1, <3>2 DEF Web, Exchanges, Shared, Settle, Outcome, Base, S!IInv, S!Stage, S!TypeOK, Active
    <3>4. owner[t] = b
      BY <1>2, <3>2 DEF Waiting, Web, Hands, Hand, Known
    <3> QED BY <1>1, <3>3, <3>4
            DEF Excused, Ended, Web, Base, S!IInv, S!Stage, S!Over, Api!Revoked, S!Revoked
  <2>4. ASSUME NEW r \in Request, Recall(r) \/ Reread(r) \/ Leave(r) PROVE FALSE
    <3>1. cookie' = cookie /\ \A q \in Request : q # r => got'[q] = got[q]
      BY <2>4 DEF Recall, Reread, Leave, Web, Base, TypeOK
    <3>2. r \in Mine(b) /\ got'[r] = "CLEAR"
      BY <2>1, <2>2, <3>1 DEF LeftWithout, Mine
    <3>3. CASE Recall(r)
      BY <3>2, <3>3 DEF Recall, Remembered, Web, Base, TypeOK
    <3>4. CASE Leave(r)
      BY <1>1, <3>2, <3>4 DEF Leave, Leaving, Excused, Mine
    <3>5. CASE Reread(r)
      <4>1. stage[r] = "reread" /\ got[r] \in stale /\ got[r] \in Token /\ Known(b, got[r])
        BY <1>2, <2>1, <3>2, <3>5 DEF Reread, Web, Base, TypeOK, Hands, Hand
      <4> QED BY <1>1, <3>2, <4>1 DEF InStep, Answered, Latest, OneHand, Under
    <3> QED BY <2>4, <3>3, <3>4, <3>5
  <2> QED BY <1>4, <2>3, <2>4
          DEF Next, SignIn, ApiStep, Age, Send, Read, Join, SignOut, Respond, LoseResponse, vars, web,
              Exchange, Restart
<1>5. CASE session[b] # "ABSENT" /\ got' = got
  <2>1. \A r \in Mine(b) : got[r] # "CLEAR"
    BY <1>2, <1>5
  <2>2. cookie[b] # None /\ cookie'[b] = None
    BY <1>2, <1>5, <2>1 DEF LeftWithout, Mine
  <2>3. ASSUME NEW r \in Request, Respond(r) PROVE FALSE
    BY <2>1, <2>2, <2>3 DEF Respond, Mine, Web, Base, TypeOK
  <2>4. ASSUME NEW t \in Token, NEW a \in Browser, SignIn(a, t) PROVE FALSE
    BY <2>2, <2>4 DEF SignIn, Web, Base, TypeOK
  <2> QED BY <2>2, <2>3, <2>4
          DEF Next, ApiStep, Age, Send, Read, Recall, Join, Reread, SignOut, Leave, LoseResponse, vars, web,
              Exchange, Restart, Settle
<1> QED BY <1>3, <1>4, <1>5

\* A browser that received every response and did not sign out loses its cookie
\* only when the API has ended its session: nothing that the coordinator, a second
\* 401 or a lost answer does forgets a session that is still good.
THEOREM ForgottenOnlyWhenOver == Spec => []ForgottenMeansOver
<1> DEFINE All == Leaving /\ \A b \in Browser : Remembers(b)
<1>1. Init => All
  BY NoneIsNothing DEF Init, Api!Init, Leaving, Remembers, LeftWithout
<1>2. Web /\ (\A b \in Browser : InStep(b)) /\ All /\ [Next]_vars => All'
  BY LeavingStep, RemembersStep
<1>3. All => ForgottenMeansOver
  BY DEF Remembers, LeftWithout, Excused, Ended, ForgottenMeansOver
<1> QED BY <1>1, <1>2, <1>3, WebInvariance, InStepInvariance, PTL DEF Spec

-----------------------------------------------------------------------------
(***************************************************************************)
(* One browser.                                                            *)
(***************************************************************************)
\* Presenting t now would be answered by the coordinator, with a token that is
\* not replaced.
Covered(t) == \/ Remembered(t) /\ ~Replaced(lastRotation.to)
              \/ /\ Running(t) /\ answer[inFlight[t]] = "PAIR"
                 /\ ~Replaced(next[inFlight[t]])

AllCovered(b) == \A t \in Token : InHand(b, t) /\ Replaced(t) => Covered(t)

\* A cookie that is replaced is what every request carries, and one replaced
\* token is all that is in hand.
Together(b) == cookie[b] # None /\ Replaced(cookie[b]) => \A r \in Mine(b) : Under(r) => jar[r] = cookie[b]

OneReplaced(b) ==
  \A t, u \in Token : InHand(b, t) /\ InHand(b, u) /\ Replaced(t) /\ Replaced(u) => t = u

\* t went stale before the browser got it: what is in hand is the token t is
\* remembered to replace.
Overtaken(b, t) ==
  /\ lastRotation # None /\ lastRotation.to = t
  /\ cookie[b] \in {lastRotation.from, None}
  /\ \A r \in Mine(b) : Under(r) => /\ jar[r] = lastRotation.from
                                    /\ got[r] \in Token => stage[r] = "reread" /\ got[r] = t

Traced(b) == \A t \in stale : Known(b, t) /\ ~Replaced(t) => OneHand(b, t) \/ Overtaken(b, t)

Orderly(b) == AllCovered(b) /\ Together(b) /\ OneReplaced(b) /\ Answered(b) /\ Traced(b)

\* No call of b is taken for a replay, or about to be.
Clean(b) ==
  /\ session[b] # "REUSE_DETECTED"
  /\ \A c \in Call : held[c] # None /\ owner[held[c]] = b =>
       pc[c] # "reuse" /\ (pc[c] = "rotate" => held[c] \notin used)

Honest(b) == ~AnswerLost(b) /\ b \notin cut => Clean(b) /\ Orderly(b)

-----------------------------------------------------------------------------
LEMMA CoveredStays ==
  ASSUME Web, [Next]_vars, NoNews, lastRotation' = lastRotation, NEW t \in Token, Covered(t),
         Running(t) /\ answer[inFlight[t]] = "PAIR" => inFlight'[t] = inFlight[t]
  PROVE  Covered(t)'
<1>1. CASE Remembered(t) /\ ~Replaced(lastRotation.to)
  <2>1. PICK u \in Token : lastRotation.to = u
    BY <1>1, NoneIsNothing DEF Remembered, Web, Base, TypeOK
  <2>2. ~Replaced(u)'
    BY <1>1, <2>1, Unreplaced
  <2> QED BY <1>1, <2>1, <2>2 DEF Covered, Remembered, Replaced
<1>2. CASE Running(t) /\ answer[inFlight[t]] = "PAIR" /\ ~Replaced(next[inFlight[t]])
  <2>1. PICK c \in Call : inFlight[t] = c
    BY <1>2 DEF Running, Web, Base, TypeOK
  <2>2. answer'[c] = "PAIR" /\ next'[c] = next[c] /\ next[c] \in Token
    BY <1>2, <2>1, PairStays
  <2>3. PICK u \in Token : next[c] = u
    BY <2>2
  <2>4. ~Replaced(u)'
    BY <1>2, <2>1, <2>3, Unreplaced
  <2> QED BY <1>2, <2>1, <2>2, <2>3, <2>4 DEF Covered, Running, Replaced
<1> QED BY <1>1, <1>2 DEF Covered

\* The remembered pair: its first token is replaced.
LEMMA RememberedPair ==
  ASSUME Web, lastRotation # None
  PROVE  /\ lastRotation.from \in Token /\ lastRotation.to \in Token
         /\ Replaced(lastRotation.from)
         /\ \A b \in Browser : Known(b, lastRotation.from) => Known(b, lastRotation.to)
<1>1. PICK c \in Call : held[c] = lastRotation.from /\ next[c] = lastRotation.to /\ answer[c] = "PAIR"
  BY DEF Web, Memory
<1>2. lastRotation.from \in Token /\ lastRotation.to \in Token
  BY DEF Web, Base, TypeOK
<1>3. /\ \A d \in Call : next[d] = lastRotation.to => d = c
      /\ owner[lastRotation.to] = owner[lastRotation.from]
      /\ lastRotation.from \in used
  BY <1>1, <1>2, NoneIsNothing DEF Web, Base, S!IInv, S!Stage, S!Issued
<1> QED BY <1>1, <1>2, <1>3 DEF Replaced, Known

\* What requests and the cookie may do while nothing new is told or remembered.
LEMMA HandsMove ==
  ASSUME Web, [Next]_vars, NoNews, UNCHANGED <<stale, lastRotation>>,
         NEW b \in Browser, Orderly(b),
         \A t \in Token : Running(t) /\ answer[inFlight[t]] = "PAIR" => inFlight'[t] = inFlight[t],
         \/ cookie'[b] \in {cookie[b], None}
         \/ \E r \in Mine(b) : stage[r] = "respond" /\ got[r] \in Token /\ cookie'[b] = got[r],
         \A r \in Mine(b) : Under(r)' =>
           \/ Under(r) /\ jar'[r] = jar[r]
           \/ cookie[b] # None /\ jar'[r] = cookie[b],
         \A r \in Mine(b) : Under(r)' /\ got'[r] \in Token =>
           /\ Under(r)
           /\ \/ got'[r] = got[r] /\ (stage[r] = "reread" /\ got[r] \in stale => stage'[r] = "reread")
              \/ /\ stage[r] = "refresh" /\ stage'[r] = "reread"
                 /\ Remembered(jar[r]) /\ got'[r] = lastRotation.to
  PROVE  Orderly(b)'
<1> USE NoneIsNothing, BrowserFacts
<1>1. Mine(b) \subseteq Request /\ Mine(b)' = Mine(b)
  BY DEF Mine
<1>2. ASSUME NEW t \in Token PROVE Replaced(t)' <=> Replaced(t)
  BY Unreplaced
<1>3. ASSUME NEW r \in Mine(b), Under(r), Remembered(jar[r])
      PROVE  ~Replaced(lastRotation.to) /\ Replaced(jar[r])
  <2>1. PICK t \in Token : jar[r] = t /\ Replaced(t) /\ ~Running(t)
    BY <1>3, RememberedPair DEF Remembered, Web, Memory
  <2>2. Covered(t)
    BY <1>3, <2>1 DEF Orderly, AllCovered, InHand
  <2> QED BY <2>1, <2>2 DEF Covered
<1>4. ASSUME NEW r \in Mine(b), Under(r), got[r] \in Token PROVE ~Replaced(got[r])
  BY <1>4 DEF Orderly, Answered
<1>5. ASSUME NEW t \in Token, InHand(b, t)', Replaced(t) PROVE InHand(b, t)
  <2>1. cookie'[b] # t \/ cookie[b] = t
    BY <1>4, <1>5 DEF Under
  <2> QED BY <1>1, <1>5, <2>1 DEF InHand
<1>6. AllCovered(b)'
  <2> SUFFICES ASSUME NEW t \in Token, InHand(b, t)', Replaced(t)' PROVE Covered(t)'
    BY DEF AllCovered
  <2>1. Covered(t)
    BY <1>2, <1>5 DEF Orderly, AllCovered
  <2> QED BY <2>1, CoveredStays
<1>7. OneReplaced(b)'
  BY <1>2, <1>5 DEF OneReplaced, Orderly
<1>8. Together(b)'
  <2> SUFFICES ASSUME NEW t \in Token, cookie'[b] = t, Replaced(t)', NEW r \in Mine(b), Under(r)'
               PROVE  jar'[r] = t
    <3>1. cookie'[b] \in Token \cup {None}
      BY TypeStep DEF Web, Base, TypeOK
    <3> QED BY <1>1, <3>1 DEF Together, Replaced
  <2>1. cookie[b] = t
    BY <1>2, <1>4 DEF Under
  <2> QED BY <1>2, <2>1 DEF Together, Orderly
<1>9. Answered(b)'
  <2> SUFFICES ASSUME NEW r \in Mine(b), Under(r)', got'[r] \in Token PROVE ~Replaced(got[r])'
    BY <1>1 DEF Answered
  <2>1. PICK g \in Token : got'[r] = g
    OBVIOUS
  <2>2. ~Replaced(g)
    BY <1>3, <1>4, <2>1
  <2> QED BY <1>2, <2>1, <2>2 DEF Replaced
<1>10. Traced(b)'
  <2> SUFFICES ASSUME NEW t \in stale, Known(b, t)', ~Replaced(t)' PROVE (OneHand(b, t) \/ Overtaken(b, t))'
    BY DEF Traced
  <2>1. t \in Token /\ ~Replaced(t) /\ Known(b, t)
    BY <1>2, Unknown DEF Web, Base, TypeOK
  <2>2. CASE OneHand(b, t)
    <3>1. cookie'[b] \in {t, None}
      BY <2>2 DEF OneHand, Under
    <3>2. ASSUME NEW r \in Mine(b), Under(r)' PROVE jar'[r] = t /\ got'[r] \notin Token
      BY <1>3, <2>1, <2>2, <3>2 DEF OneHand
    <3> QED BY <1>1, <3>1, <3>2 DEF OneHand
  <2>3. CASE Overtaken(b, t)
    <3>1. cookie'[b] \in {lastRotation.from, None}
      BY <2>3 DEF Overtaken, Under
    <3>2. ASSUME NEW r \in Mine(b), Under(r)'
          PROVE  jar'[r] = lastRotation.from /\ (got'[r] \in Token => stage'[r] = "reread" /\ got'[r] = t)
      BY <2>3, <3>2 DEF Overtaken
    <3> QED BY <1>1, <2>3, <3>1, <3>2 DEF Overtaken
  <2> QED BY <2>1, <2>2, <2>3 DEF Orderly, Traced
<1> QED BY <1>6, <1>7, <1>8, <1>9, <1>10 DEF Orderly

LEMMA AgeOrderly ==
  ASSUME Web, NEW b \in Browser, NEW t \in Token, Age(t), Orderly(b)
  PROVE  Orderly(b)'
<1> USE NoneIsNothing
<1>1. UNCHANGED <<api, cookie, lastRotation, inFlight, stage, jar, got>> /\ stale' = stale \cup {t}
  BY DEF Age
<1>2. AllCovered(b)' /\ Together(b)' /\ OneReplaced(b)' /\ Answered(b)'
  BY <1>1 DEF Orderly, AllCovered, Covered, Together, OneReplaced, Answered, InHand, Under, Replaced,
              Running, Remembered, api
<1>3. ASSUME Known(b, t), ~Replaced(t) PROVE OneHand(b, t) \/ Overtaken(b, t)
  <2>1. ASSUME NEW r \in Mine(b), Under(r) PROVE stage[r] = "read" /\ jar[r] = t /\ got[r] \notin Token
    <3>1. stage[r] = "read" /\ jar[r] = t
      BY <1>3, <2>1 DEF Age, Known, Mine, Under
    <3> QED BY <3>1 DEF Web, Hands, Hand, Mine
  <2>2. CASE cookie[b] = None
    BY <2>1, <2>2 DEF OneHand
  <2>3. CASE cookie[b] # None /\ ~Replaced(cookie[b])
    <3>1. cookie[b] \in Token /\ Known(b, cookie[b])
      BY <2>3 DEF Web, Base, TypeOK, Hands, Cookie
    <3>2. cookie[b] = t
      BY <1>3, <2>3, <3>1, OneLatest
    <3> QED BY <2>1, <3>2 DEF OneHand
  <2>4. CASE cookie[b] # None /\ Replaced(cookie[b])
    <3>1. PICK u \in Token : cookie[b] = u /\ Known(b, u) /\ Replaced(u) /\ Covered(u)
      BY <2>4 DEF Web, Base, TypeOK, Hands, Cookie, Orderly, AllCovered, InHand
    <3>2. ~Running(u)
      <4> SUFFICES ASSUME Running(u) PROVE FALSE
        OBVIOUS
      <4>1. PICK r \in Request : stage[r] = "wait" /\ jar[r] = u
        BY DEF Web, Exchanges, Shared
      <4>2. r \in Mine(b)
        BY <3>1, <4>1 DEF Web, Hands, Hand, Known, Mine
      <4> QED BY <2>1, <4>1, <4>2 DEF Under
    <3>3. lastRotation # None /\ lastRotation.from = u /\ ~Replaced(lastRotation.to)
      BY <3>1, <3>2 DEF Covered, Remembered
    <3>4. lastRotation.to = t
      BY <1>3, <3>1, <3>3, RememberedPair, OneLatest
    <3>5. \A r \in Mine(b) : Under(r) => jar[r] = u
      BY <3>1 DEF Orderly, Together
    <3> QED BY <2>1, <3>1, <3>3, <3>4, <3>5 DEF Overtaken
  <2> QED BY <2>2, <2>3, <2>4
<1>4. Traced(b)'
  BY <1>1, <1>3 DEF Orderly, Traced, Known, Replaced, OneHand, Overtaken, Under, api
<1> QED BY <1>2, <1>4 DEF Orderly

LEMMA SignInOrderly ==
  ASSUME Web, [Next]_vars, NEW b \in Browser, NEW t \in Token, SignIn(b, t)
  PROVE  Orderly(b)'
<1>1. ASSUME NEW u \in Token, InHand(b, u)' PROVE ~Replaced(u)'
  <2>1. u = t
    BY <1>1, AtSignIn DEF InHand, Mine
  <2> QED BY <2>1, AtSignIn
<1>2. AllCovered(b)' /\ OneReplaced(b)'
  BY <1>1 DEF AllCovered, OneReplaced
<1>3. Together(b)' /\ Answered(b)' /\ Traced(b)'
  BY AtSignIn DEF Together, Answered, Traced, Mine
<1> QED BY <1>2, <1>3 DEF Orderly

LEMMA SubjectOrderly ==
  ASSUME Web, [Next]_vars, ApiStep, NEW c \in Call, S!Subject(c),
         NEW b \in Browser, \A a \in Browser : a = b, b \notin cut, Orderly(b)
  PROVE  Orderly(b)'
<1> USE NoneIsNothing
<1>1. /\ UNCHANGED <<owner, held, next, stale, cookie, lastRotation, inFlight, stage, jar, got>>
      /\ answer'[c] = "PAIR"
  BY AtSubject
<1>2. PICK t \in Token, n \in Token :
        /\ held[c] = t /\ next[c] = n /\ owner[t] = b
        /\ t \in stale /\ Known(b, t) /\ ~Replaced(t)
        /\ inFlight[t] = c /\ n \notin stale
        /\ \A d \in Call : held[d] # n
        /\ \A u \in Token \ {t} : Replaced(u)' <=> Replaced(u)
        /\ \A u \in Token \ {n} : Known(b, u)' => Known(b, u)
  <2>1. ~Dropped(b)
    BY DEF Dropped
  <2> QED BY <2>1, AtSubject
<1>3. PICK r \in Request : stage[r] = "wait" /\ jar[r] = t /\ r \in Mine(b)
  <2>1. PICK r \in Request : stage[r] = "wait" /\ jar[r] = t
    BY <1>2 DEF Running, Web, Exchanges, Shared
  <2> QED BY <1>2, <2>1 DEF Web, Hands, Hand, Known, Mine
<1>4. OneHand(b, t)
  <2>1. ~Overtaken(b, t)
    <3> SUFFICES ASSUME Overtaken(b, t) PROVE FALSE
      OBVIOUS
    <3>1. lastRotation.from = t /\ Replaced(lastRotation.from)
      BY <1>3, RememberedPair DEF Overtaken, Under
    <3> QED BY <1>2, <3>1
  <2> QED BY <1>2, <2>1 DEF Orderly, Traced
<1>5. Replaced(t)' /\ ~Replaced(n)'
  BY <1>1, <1>2 DEF Replaced
<1>6. Mine(b)' = Mine(b) /\ \A q \in Mine(b) : (Under(q)' <=> Under(q)) /\ (Under(q) => jar[q] = t /\ got[q] \notin Token)
  BY <1>1, <1>4 DEF Mine, Under, OneHand
<1>7. \A u \in Token : InHand(b, u)' => u = t
  BY <1>1, <1>4, <1>6 DEF InHand, OneHand
<1>8. Covered(t)'
  BY <1>1, <1>2, <1>5 DEF Covered, Running, Replaced
<1>9. AllCovered(b)' /\ OneReplaced(b)'
  BY <1>7, <1>8 DEF AllCovered, OneReplaced
<1>10. Together(b)' /\ Answered(b)'
  BY <1>1, <1>4, <1>6 DEF Together, Answered, OneHand
<1>11. Traced(b)'
  <2> SUFFICES ASSUME NEW u \in stale, Known(b, u)', ~Replaced(u)' PROVE FALSE
    BY <1>1 DEF Traced
  <2>1. u \in Token /\ u # n /\ u # t
    BY <1>2, <1>5 DEF Web, Base, TypeOK
  <2> QED BY <1>2, <2>1, OneLatest
<1> QED BY <1>9, <1>10, <1>11 DEF Orderly

\* The pair is remembered as its waiters learn of it; what it replaces in the
\* memory was in nobody's hands.
LEMMA SettleOrderly ==
  ASSUME Web, [Next]_vars, NoNews, NEW t \in Token, Settle(t), answer[inFlight[t]] = "PAIR",
         NEW b \in Browser, \A a \in Browser : a = b, Orderly(b)
  PROVE  Orderly(b)'
<1> USE NoneIsNothing, BrowserFacts
<1>1. PICK c \in Call : inFlight[t] = c
  BY DEF Settle, Running, Web, Base, TypeOK
<1>2. PICK n \in Token : next[c] = n
  BY <1>1, PairStays
<1>3. /\ UNCHANGED <<api, stale, cookie, jar>> /\ held[c] = t /\ answer[c] = "PAIR"
      /\ lastRotation' = [from |-> t, to |-> n]
      /\ got' = [r \in Request |-> IF r \in Waiting(t) THEN n ELSE got[r]]
      /\ stage' = [r \in Request |-> IF r \notin Waiting(t) THEN stage[r] ELSE "reread"]
  BY <1>1, <1>2 DEF Settle, Outcome, Web, Exchanges, Shared
<1>4. PICK r \in Request : stage[r] = "wait" /\ jar[r] = t /\ r \in Mine(b)
  <2>1. PICK r \in Request : stage[r] = "wait" /\ jar[r] = t
    BY DEF Settle, Web, Exchanges, Shared
  <2> QED BY <2>1 DEF Mine
<1>5. Replaced(t) /\ InHand(b, t) /\ Running(t) /\ ~Remembered(t)
  BY <1>1, <1>3, <1>4 DEF Settle, Replaced, InHand, Under, Remembered, Web, Memory
<1>6. ~Replaced(n)
  BY <1>1, <1>2, <1>5 DEF Orderly, AllCovered, Covered
<1>7. \A u \in Token : Replaced(u)' <=> Replaced(u)
  BY Unreplaced
<1>8. Mine(b)' = Mine(b) /\ Mine(b) \subseteq Request /\ \A q \in Mine(b) : Under(q)' => Under(q)
  BY <1>3 DEF Mine, Under, Waiting
<1>9. \A u \in Token : InHand(b, u)' => InHand(b, u)
  BY <1>3, <1>8 DEF InHand
<1>10. AllCovered(b)'
  <2> SUFFICES ASSUME NEW u \in Token, InHand(b, u)', Replaced(u)' PROVE Covered(u)'
    BY DEF AllCovered
  <2>1. u = t
    BY <1>5, <1>7, <1>9 DEF Orderly, OneReplaced
  <2>2. ~Replaced(n)'
    BY <1>6, <1>7
  <2>3. lastRotation' # None
    BY <1>2, <1>3
  <2> QED BY <1>3, <2>1, <2>2, <2>3 DEF Covered, Remembered, Replaced
<1>11. OneReplaced(b)'
  BY <1>7, <1>9 DEF Orderly, OneReplaced
<1>12. Together(b)'
  BY <1>3, <1>8 DEF Orderly, Together, Replaced, api
<1>13. Answered(b)'
  <2> SUFFICES ASSUME NEW q \in Mine(b), Under(q)', got'[q] \in Token PROVE ~Replaced(got[q])'
    BY <1>8 DEF Answered
  <2>1. PICK g \in Token : got'[q] = g
    OBVIOUS
  <2>2. ~Replaced(g)
    BY <1>3, <1>6, <1>8, <2>1 DEF Orderly, Answered
  <2> QED BY <1>7, <2>1, <2>2 DEF Replaced
<1>14. Traced(b)'
  <2> SUFFICES ASSUME NEW u \in stale, Known(b, u)', ~Replaced(u)' PROVE FALSE
    BY <1>3 DEF Traced
  <2>1. u \in Token /\ Known(b, u) /\ ~Replaced(u)
    BY <1>3, <1>7 DEF Known, api, Web, Base, TypeOK
  <2>2. OneHand(b, u) \/ Overtaken(b, u)
    BY <2>1 DEF Orderly, Traced
  <2>3. ~OneHand(b, u)
    BY <1>4, <1>5, <2>1 DEF OneHand, Under
  <2>4. ~Overtaken(b, u)
    BY <1>4, <1>5 DEF Overtaken, Under, Remembered
  <2> QED BY <2>2, <2>3, <2>4
<1> QED BY <1>10, <1>11, <1>12, <1>13, <1>14 DEF Orderly

\* A restart that finds the browser at rest, with a token that is not spent, takes
\* nothing from it.
LEMMA RestartOrderly ==
  ASSUME Web, [Next]_vars, NoNews, Restart, NEW b \in Browser, b \notin cut', Orderly(b)
  PROVE  Orderly(b)'
<1> USE NoneIsNothing, BrowserFacts
<1>1. /\ UNCHANGED <<api, stale, cookie, jar, got>>
      /\ cookie[b] \notin used /\ \A r \in Mine(b) : ~Under(r)
      /\ \A r \in Request : stage'[r] = IF stage[r] \in {"idle", "done"} THEN stage[r] ELSE "lost"
  BY DEF Restart, Underway, Under
<1>2. Mine(b)' = Mine(b) /\ \A r \in Mine(b) : ~Under(r)'
  BY <1>1 DEF Mine, Under
<1>3. ASSUME NEW u \in Token, Replaced(u) PROVE u \in used
  BY <1>3 DEF Replaced, Web, Base, S!IInv, S!Stage
<1>4. ASSUME NEW u \in Token, InHand(b, u)' PROVE ~Replaced(u)'
  <2>1. cookie[b] = u
    BY <1>1, <1>2, <1>4 DEF InHand
  <2> QED BY <1>1, <1>3, <2>1, Unreplaced
<1>5. AllCovered(b)' /\ OneReplaced(b)'
  BY <1>4 DEF AllCovered, OneReplaced
<1>6. Together(b)' /\ Answered(b)'
  BY <1>2 DEF Together, Answered
<1>7. Traced(b)'
  <2> SUFFICES ASSUME NEW u \in stale, Known(b, u)', ~Replaced(u)' PROVE OneHand(b, u)'
    BY <1>1 DEF Traced
  <2>1. u \in Token /\ Known(b, u) /\ ~Replaced(u)
    BY <1>1 DEF Known, Replaced, api, Web, Base, TypeOK
  <2>2. OneHand(b, u) \/ Overtaken(b, u)
    BY <2>1 DEF Orderly, Traced
  <2>3. cookie[b] \in {u, None}
    <3>1. CASE Overtaken(b, u)
      <4>1. cookie[b] # lastRotation.from
        BY <1>1, <1>3, <3>1, RememberedPair DEF Overtaken
      <4> QED BY <3>1, <4>1 DEF Overtaken
    <3> QED BY <2>2, <3>1 DEF OneHand
  <2> QED BY <1>1, <1>2, <2>3 DEF OneHand
<1> QED BY <1>5, <1>6, <1>7 DEF Orderly

\* Of a request that moves alone.
LEMMA OneHandMoves ==
  ASSUME Web, [Next]_vars, NoNews, UNCHANGED <<stale, lastRotation>>,
         NEW b \in Browser, Orderly(b), NEW r \in Request,
         \A q \in Request : q # r => stage'[q] = stage[q] /\ jar'[q] = jar[q] /\ got'[q] = got[q],
         \A t \in Token : Running(t) => inFlight'[t] = inFlight[t],
         \/ cookie'[b] \in {cookie[b], None}
         \/ BrowserOf[r] = b /\ stage[r] = "respond" /\ got[r] \in Token /\ cookie'[b] = got[r],
         BrowserOf[r] = b /\ Under(r)' => \/ Under(r) /\ jar'[r] = jar[r]
                                          \/ cookie[b] # None /\ jar'[r] = cookie[b],
         BrowserOf[r] = b /\ Under(r)' /\ got'[r] \in Token =>
           /\ Under(r)
           /\ \/ got'[r] = got[r] /\ (stage[r] = "reread" /\ got[r] \in stale => stage'[r] = "reread")
              \/ /\ stage[r] = "refresh" /\ stage'[r] = "reread"
                 /\ Remembered(jar[r]) /\ got'[r] = lastRotation.to
  PROVE  Orderly(b)'
<1>1. \/ cookie'[b] \in {cookie[b], None}
      \/ \E q \in Mine(b) : stage[q] = "respond" /\ got[q] \in Token /\ cookie'[b] = got[q]
  BY DEF Mine
<1>2. ASSUME NEW q \in Mine(b), Under(q)'
      PROVE  /\ \/ Under(q) /\ jar'[q] = jar[q]
                \/ cookie[b] # None /\ jar'[q] = cookie[b]
             /\ got'[q] \in Token =>
                  /\ Under(q)
                  /\ \/ got'[q] = got[q] /\ (stage[q] = "reread" /\ got[q] \in stale => stage'[q] = "reread")
                     \/ /\ stage[q] = "refresh" /\ stage'[q] = "reread"
                        /\ Remembered(jar[q]) /\ got'[q] = lastRotation.to
  BY <1>2 DEF Mine, Under
<1> QED BY <1>1, <1>2, HandsMove

LEMMA OrderlyStep ==
  ASSUME Web, [Next]_vars, NEW b \in Browser, \A a \in Browser : a = b, b \notin cut', Orderly(b)
  PROVE  Orderly(b)'
<1> USE NoneIsNothing, BrowserFacts
<1>1. CASE NoNews /\ UNCHANGED web
  BY <1>1, HandsMove DEF web, Under
<1>2. CASE ApiStep /\ \E c \in Call : S!Subject(c)
  <2>1. b \notin cut
    BY <1>2 DEF ApiStep, web
  <2> QED BY <1>2, <2>1, SubjectOrderly
<1>3. ASSUME NEW a \in Browser, NEW t \in Token, SignIn(a, t) PROVE Orderly(b)'
  BY <1>3, SignInOrderly
<1>4. ASSUME NEW t \in Token, Age(t) PROVE Orderly(b)'
  BY <1>4, AgeOrderly
<1>5. ASSUME NEW t \in Token, Settle(t), NoNews PROVE Orderly(b)'
  <2>1. CASE answer[inFlight[t]] = "PAIR"
    BY <1>5, <2>1, SettleOrderly
  <2>2. CASE answer[inFlight[t]] # "PAIR"
    <3>1. /\ UNCHANGED <<stale, lastRotation, cookie, jar>>
          /\ \A u \in Token : u # t => inFlight'[u] = inFlight[u]
      BY <1>5, <2>2 DEF Settle, Web, Base, TypeOK
    <3>2. ASSUME NEW r \in Mine(b), Under(r)'
          PROVE  /\ Under(r)
                 /\ got'[r] \in Token => got'[r] = got[r] /\ (stage[r] = "reread" => stage'[r] = "reread")
      BY <1>5, <2>2, <3>2 DEF Settle, Outcome, Waiting, Under, Mine
    <3> QED BY <1>5, <2>2, <3>1, <3>2, HandsMove
  <2> QED BY <2>1, <2>2
<1>6. ASSUME NEW r \in Request, NoNews,
             \/ Send(r) \/ Read(r) \/ Recall(r) \/ Join(r) \/ Reread(r) \/ Leave(r) \/ Respond(r)
             \/ LoseResponse(r) \/ \E c \in Call : Exchange(r, c) \/ SignOut(r, c)
      PROVE  Orderly(b)'
  <2>1. /\ UNCHANGED <<stale, lastRotation>>
        /\ \A q \in Request : q # r => stage'[q] = stage[q] /\ jar'[q] = jar[q] /\ got'[q] = got[q]
        /\ \A t \in Token : Running(t) => inFlight'[t] = inFlight[t]
    BY <1>6 DEF Send, Read, Recall, Join, Reread, Leave, Respond, LoseResponse, Exchange, SignOut, Goto,
                Running, Web, Base, TypeOK
  <2>2. CASE Send(r) \/ \E c \in Call : SignOut(r, c)
    <3>1. /\ stage[r] = "idle" /\ got'[r] = got[r] /\ got[r] = None
          /\ cookie' = cookie /\ cookie[BrowserOf[r]] # None /\ jar'[r] = cookie[BrowserOf[r]]
      BY <2>2 DEF Send, SignOut, Goto, Web, Base, TypeOK, Hands, Hand
    <3> QED BY <1>6, <2>1, <3>1, OneHandMoves
  <2>3. CASE \/ Read(r) \/ Join(r) \/ Leave(r) \/ Reread(r) \/ LoseResponse(r)
             \/ \E c \in Call : Exchange(r, c)
    <3>1. /\ stage[r] \notin {"idle", "done", "lost"} /\ cookie' = cookie /\ jar' = jar
          /\ got'[r] \in Token => got'[r] = got[r] /\ (stage[r] = "reread" => got[r] \notin stale)
      BY <2>3 DEF Read, Join, Leave, Reread, LoseResponse, Exchange, Goto, Web, Base, TypeOK
    <3> QED BY <1>6, <2>1, <3>1, OneHandMoves DEF Under
  <2>4. CASE Recall(r)
    <3>1. /\ stage[r] = "refresh" /\ stage'[r] = "reread" /\ got'[r] = lastRotation.to
          /\ cookie' = cookie /\ jar' = jar /\ Remembered(jar[r])
      BY <2>4 DEF Recall, Goto, Web, Base, TypeOK
    <3> QED BY <1>6, <2>1, <3>1, OneHandMoves DEF Under
  <2>5. CASE Respond(r)
    <3>1. /\ stage[r] = "respond" /\ stage'[r] = "done" /\ jar' = jar /\ got' = got
          /\ BrowserOf[r] = b
          /\ cookie'[b] = IF got[r] = None THEN cookie[b] ELSE IF got[r] = "CLEAR" THEN None ELSE got[r]
          /\ got[r] \in Token \cup {None, "CLEAR"}
      BY <2>5 DEF Respond, Goto, Web, Base, TypeOK
    <3> QED BY <1>6, <2>1, <3>1, OneHandMoves DEF Under
  <2> QED BY <1>6, <2>2, <2>3, <2>4, <2>5
<1>7. CASE Restart /\ NoNews
  BY <1>7, RestartOrderly
<1>8. NoNews \/ (ApiStep /\ \E c \in Call : S!Subject(c))
  BY News
<1>9. UNCHANGED web \/ ~(ApiStep \/ UNCHANGED vars)
  BY DEF ApiStep, vars, web
<1> QED BY <1>1, <1>2, <1>3, <1>4, <1>5, <1>6, <1>7, <1>8, <1>9 DEF Next

-----------------------------------------------------------------------------
\* The coordinator exchanges no token that is spent.
LEMMA Unspent ==
  ASSUME Web, NEW b \in Browser, b \notin cut, ~AnswerLost(b), Orderly(b),
         NEW r \in Request, BrowserOf[r] = b, stage[r] = "refresh",
         ~Remembered(jar[r]), ~Running(jar[r])
  PROVE  jar[r] \in Token /\ owner[jar[r]] = b /\ jar[r] \notin used
<1> USE NoneIsNothing
<1>1. PICK t \in Token : jar[r] = t /\ Known(b, t)
  BY DEF Web, Base, TypeOK, Sent, Hands, Hand
<1>2. ~Replaced(t)
  BY <1>1 DEF Orderly, AllCovered, Covered, InHand, Under, Mine
<1>3. ASSUME t \in used PROVE FALSE
  <2>1. PICK c \in Call : held[c] = t /\ next[c] # None
    BY <1>3 DEF Web, Base, S!IInv, S!Spent
  <2>2. pc[c] = "subject"
    BY <1>1, <1>2, <2>1 DEF Web, Base, S!IInv, S!Stage, Replaced, AnswerLost, Known
  <2>3. inFlight[t] = c
    BY <1>1, <2>1, <2>2 DEF Web, Exchanges, Serving, Active, Dropped, Known
  <2> QED BY <1>1, <2>3 DEF Running
<1> QED BY <1>1, <1>3 DEF Known

LEMMA CleanStep ==
  ASSUME Web, [Next]_vars, NEW b \in Browser, \A a \in Browser : a = b,
         b \notin cut, ~AnswerLost(b), ~AnswerLost(b)', Orderly(b), Clean(b)
  PROVE  Clean(b)'
<1> USE NoneIsNothing, BrowserFacts DEF Clean
<1>1. \A c \in Call : held[c] # None => owner[held[c]] = b \/ owner[held[c]] = None
  BY DEF Web, Base, S!IInv, S!TypeOK
<1>2. CASE ApiStep
  <2>1. /\ UNCHANGED held /\ \A c \in Call : Moved(c)
        /\ \A c \in Call : held[c] # None => owner'[held[c]] = owner[held[c]]
    BY <1>2, ApiStepMoves, Grows DEF Web, S!Grown, Base, S!IInv, S!TypeOK
  <2>2. session'[b] # "REUSE_DETECTED"
    <3>1. ASSUME NEW c \in Call, S!RevokeForReuse(c) PROVE FALSE
      BY <1>1, <3>1 DEF S!RevokeForReuse, Web, Base, S!IInv, S!Stage
    <3>2. ASSUME NEW c \in Call, S!RevokeOnLogout(c) PROVE session'[b] # "REUSE_DETECTED"
      BY <3>2 DEF S!RevokeOnLogout, Web, Base, S!IInv, S!TypeOK
    <3> QED BY <1>2, <3>1, <3>2, SameApi
            DEF ApiStep, S!Step, S!Rotate, S!Subject, S!Lose, S!Expire, S!rows
  <2>3. ASSUME NEW c \in Call, held[c] # None, owner[held[c]] = b
        PROVE  pc'[c] # "reuse" /\ (pc'[c] = "rotate" => held[c] \notin used')
    <3>1. pc'[c] # "reuse"
      BY <2>1, <2>3 DEF Moved
    <3>2. ASSUME pc'[c] = "rotate", held[c] \in used' PROVE FALSE
      <4>1. pc[c] = "rotate" /\ held[c] \notin used
        BY <2>1, <2>3, <3>2 DEF Moved
      <4>2. PICK d \in Call : S!Rotate(d) /\ held[d] \notin used /\ used' = used \cup {held[d]}
        BY <1>2, <3>2, <4>1, SameApi
           DEF ApiStep, S!Step, S!Rotate, S!RevokeForReuse, S!Subject, S!RevokeOnLogout, S!Lose, S!Expire, S!rows
      <4>3. held[d] = held[c] /\ pc[d] = "rotate" /\ pc'[d] = "subject"
        BY <3>2, <4>1, <4>2 DEF S!Rotate, S!Goto, Web, Base, S!IInv, S!TypeOK
      <4>4. inFlight[held[c]] = c /\ inFlight[held[c]] = d
        BY <2>3, <4>1, <4>3 DEF Web, Exchanges, Serving, Active, Dropped
      <4> QED BY <3>2, <4>3, <4>4
    <3> QED BY <3>1, <3>2
  <2> QED BY <2>1, <2>2, <2>3
<1>3. CASE UNCHANGED api
  BY <1>3 DEF api
<1>4. ASSUME NEW a \in Browser, NEW t \in Token, SignIn(a, t) PROVE Clean(b)'
  <2>1. a = b
    OBVIOUS
  <2>2. session'[b] = "OPEN" /\ \A c \in Call : held'[c] # None => owner'[held'[c]] # b
    BY <1>4, <2>1, AtSignIn DEF Web, Base, S!IInv, S!TypeOK
  <2> QED BY <2>2
<1>5. ASSUME NEW r \in Request, NEW c \in Call, Exchange(r, c) PROVE Clean(b)'
  <2>1. jar[r] \in Token /\ owner[jar[r]] = b /\ jar[r] \notin used
    BY <1>5, Unspent DEF Exchange
  <2>2. S!Refresh(c, jar[r])
    BY <1>5, <2>1, SameApi DEF Exchange
  <2>3. /\ UNCHANGED <<session, owner, used>> /\ held' = [held EXCEPT ![c] = jar[r]]
        /\ pc'[c] # "reuse" /\ \A d \in Call : d # c => pc'[d] = pc[d]
    BY <2>1, <2>2 DEF S!Refresh, S!Replayed, S!Finish, S!Goto, Web, Base, S!IInv, S!TypeOK
  <2> QED BY <2>1, <2>3 DEF Web, Base, S!IInv, S!TypeOK
<1>6. ASSUME NEW r \in Request, NEW c \in Call, SignOut(r, c) PROVE Clean(b)'
  BY <1>6 DEF SignOut, Api!Logout, Api!rows, Api!Finish, Api!Goto, Web, Base, S!IInv, S!TypeOK
<1> QED BY <1>2, <1>3, <1>4, <1>5, <1>6
        DEF Next, Age, Send, Read, Recall, Join, Reread, Leave, Respond, LoseResponse, vars, Restart, Settle

LEMMA HonestStep ==
  ASSUME Web, [Next]_vars, NEW b \in Browser, \A a \in Browser : a = b, Honest(b)
  PROVE  Honest(b)'
<1> SUFFICES ASSUME ~AnswerLost(b)', b \notin cut' PROVE Clean(b)' /\ Orderly(b)'
  BY DEF Honest
<1>1. b \notin cut
  BY DEF Web, Base, TypeOK, Next, SignIn, ApiStep, Age, Send, Read, Recall, Join, Reread, SignOut, Leave,
         Respond, LoseResponse, vars, web, Exchange, Restart, Settle
<1>2. ~AnswerLost(b)
  <2> SUFFICES ASSUME NEW c \in Call, answer[c] = "LOST", owner[held[c]] = b PROVE FALSE
    BY DEF AnswerLost
  <2>1. pc[c] = "done" /\ held[c] \in Token
    BY NoneIsNothing DEF Web, Base, S!IInv, S!Stage, S!TypeOK
  <2>2. answer'[c] = "LOST" /\ held'[c] = held[c] /\ owner'[held[c]] = b
    BY <2>1, Grows, NoneIsNothing DEF Web, S!Settled, S!Grown
  <2> QED BY <2>2 DEF AnswerLost
<1> QED BY <1>1, <1>2, CleanStep, OrderlyStep DEF Honest

\* With one browser, the coordinator keeps the promise ADR 011 makes of it: however
\* its requests overlap and its responses are lost or reordered, its session is
\* never ended for reuse, unless an answer of the API was lost or a restart left it
\* without a rotation it needed.
THEOREM NoReplayOfOneBrowser ==
  ASSUME \A a, b \in Browser : a = b
  PROVE  Spec => []NoHonestReplay
<1> DEFINE Inv == \A b \in Browser : Honest(b)
<1>1. Init => Inv
  BY NoneIsNothing DEF Init, Api!Init, Honest, Clean, Orderly, AllCovered, Together, OneReplaced, Answered,
                       Traced, Replaced, Under, Mine
<1>2. Web /\ Inv /\ [Next]_vars => Inv'
  BY HonestStep
<1>3. Inv => NoHonestReplay
  BY DEF Honest, Clean, NoHonestReplay
<1> QED BY <1>1, <1>2, <1>3, WebInvariance, PTL DEF Spec
=============================================================================
