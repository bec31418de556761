----------------------------- MODULE WebSession -----------------------------
(***************************************************************************)
(* The sessions of browsers, kept in cookies by one web process that       *)
(* refreshes them at the API (module Sessions).                            *)
(*                                                                         *)
(* A Request is one request of a browser to the web application: a load    *)
(* of the session, which every page and every buyer route begins with, or  *)
(* a sign-out.  It carries the cookies the browser held when it was sent;  *)
(* its response, which may arrive in any order or never, sets them.        *)
(* Between, the process runs one callback at a time: a step here is what   *)
(* it does from one await to the next.                                     *)
(*                                                                         *)
(* A browser signs in once, so its session has its name.  A cookie is the  *)
(* refresh token; the access token issued with it is named by the same     *)
(* token, and `stale` says whose fifteen minutes are over.  The process    *)
(* may be restarted at any moment.  Left out: the organization cookie      *)
(* (module Console) and what a load reads besides.                         *)
(***************************************************************************)
CONSTANTS
  Browser,
  Request, BrowserOf,   \* requests to the web process and who sends them
  Token, Call,          \* as in Sessions
  None

ASSUME BrowserFacts == BrowserOf \in [Request -> Browser]
ASSUME NoneIsNothing ==
  /\ None # "CLEAR" /\ {None, "CLEAR"} \cap (Browser \cup Token \cup Call) = {}
  /\ None \notin [from: Token, to: Token]

VARIABLES
  session, owner, used, expired, pc, held, next, answer,   \* the API
  stale,        \* tokens whose access token has expired
  cookie,       \* the refresh cookie of each browser
  lastRotation, \* the coordinator's memory
  inFlight,     \* its exchanges, by the token presented
  stage,        \* where each request stands
  jar,          \* the cookie it was sent with
  via,          \* the call a sign-out waits for
  got,          \* what its response will set: nothing, a token, or no cookie
  cut           \* history: browsers a restart left without a rotation they needed

api == <<session, owner, used, expired, pc, held, next, answer>>
web == <<stale, cookie, lastRotation, inFlight, stage, jar, via, got, cut>>
vars == <<api, web>>

Api == INSTANCE Sessions WITH Session <- Browser

TypeOK ==
  /\ Api!TypeOK
  /\ stale \subseteq Token
  /\ cookie \in [Browser -> Token \cup {None}]
  /\ lastRotation \in [from: Token, to: Token] \cup {None}
  /\ inFlight \in [Token -> Call \cup {None}]
  /\ stage \in [Request -> {"idle", "read", "refresh", "wait", "reread", "leave", "respond", "done", "lost"}]
  /\ jar \in [Request -> Token \cup {None}]
  /\ via \in [Request -> Call \cup {None}]
  /\ got \in [Request -> Token \cup {None, "CLEAR"}]
  /\ cut \subseteq Browser

Init ==
  /\ Api!Init
  /\ stale = {}
  /\ cookie = [b \in Browser |-> None]
  /\ lastRotation = None
  /\ inFlight = [t \in Token |-> None]
  /\ stage = [r \in Request |-> "idle"]
  /\ jar = [r \in Request |-> None]
  /\ via = [r \in Request |-> None]
  /\ got = [r \in Request |-> None]
  /\ cut = {}

Mine(b) == {r \in Request : BrowserOf[r] = b}

-----------------------------------------------------------------------------
(***************************************************************************)
(* The API, and time.                                                      *)
(***************************************************************************)
\* POST /api/auth/login: the pair the API issues goes into the cookies.
SignIn(b, t) == /\ Api!Login(b, t)
                /\ cookie' = [cookie EXCEPT ![b] = t]
                /\ UNCHANGED <<stale, lastRotation, inFlight, stage, jar, via, got, cut>>

ApiStep == /\ \/ \E c \in Call : Api!Step(c) \/ Api!Lose(c)
              \/ \E b \in Browser : Api!Expire(b)
           /\ UNCHANGED web

\* Fifteen minutes pass.  No request takes that long: those under way have only
\* just been sent, with this token.  A browser that was closed comes back without
\* its access token, which is as good as a stale one.
Age(t) == /\ owner[t] # None
          /\ \A r \in Request : BrowserOf[r] = owner[t] /\ stage[r] \notin {"idle", "done", "lost"}
                                  => stage[r] = "read" /\ jar[r] = t
          /\ stale' = stale \cup {t}
          /\ UNCHANGED <<api, cookie, lastRotation, inFlight, stage, jar, via, got, cut>>

-----------------------------------------------------------------------------
(***************************************************************************)
(* loadSession.                                                            *)
(***************************************************************************)
Goto(r, l) == stage' = [stage EXCEPT ![r] = l]

Send(r) == /\ stage[r] = "idle"
           /\ cookie[BrowserOf[r]] # None
           /\ jar' = [jar EXCEPT ![r] = cookie[BrowserOf[r]]]
           /\ Goto(r, "read")
           /\ UNCHANGED <<api, stale, cookie, lastRotation, inFlight, via, got, cut>>

\* The held access token is tried; a 401 says that it is stale.
Read(r) == /\ stage[r] = "read"
           /\ Goto(r, IF jar[r] \in stale THEN "refresh" ELSE "respond")
           /\ UNCHANGED <<api, stale, cookie, lastRotation, inFlight, jar, via, got, cut>>

\* Mutant: a coordinator without the memory.
Forgotten(t) == FALSE

Remembered(t) == lastRotation # None /\ lastRotation.from = t
Running(t)    == inFlight[t] # None

\* The coordinator: a remembered rotation is handed out, a running one joined,
\* otherwise an exchange begins.  The API may load the token at any later moment;
\* nothing else presents it meanwhile, so it is loaded at once.
Recall(r) == /\ stage[r] = "refresh"
             /\ Remembered(jar[r])
             /\ got' = [got EXCEPT ![r] = lastRotation.to]
             /\ Goto(r, "reread")
             /\ UNCHANGED <<api, stale, cookie, lastRotation, inFlight, jar, via, cut>>

Join(r) == /\ stage[r] = "refresh"
           /\ ~Remembered(jar[r])
           /\ Running(jar[r])
           /\ Goto(r, "wait")
           /\ UNCHANGED <<api, stale, cookie, lastRotation, inFlight, jar, via, got, cut>>

Exchange(r, c) == /\ stage[r] = "refresh"
                  /\ ~Remembered(jar[r])
                  /\ ~Running(jar[r])
                  /\ Api!Refresh(c, jar[r])
                  /\ inFlight' = [inFlight EXCEPT ![jar[r]] = c]
                  /\ Goto(r, "wait")
                  /\ UNCHANGED <<stale, cookie, lastRotation, jar, via, got, cut>>

Waiting(t) == {r \in Request : stage[r] = "wait" /\ jar[r] = t}

\* Mutants: the failure itself is passed on; a rotation is not saved; any failure
\* is taken for a refusal.
OutcomePassed(c) == IF answer[c] = "PAIR" THEN next[c] ELSE answer[c]
OutcomeUnsaved(c) == IF answer[c] \in {"PAIR", "LOST"} THEN None ELSE "CLEAR"
OutcomeRefused(c) == IF answer[c] = "PAIR" THEN next[c] ELSE "CLEAR"

\* What those who shared an exchange set: the new pair; no cookie when it was
\* refused; nothing when the API did not answer, which is an error and no 401.
Outcome(c) == IF answer[c] = "PAIR" THEN next[c]
              ELSE IF answer[c] = "LOST" THEN None ELSE "CLEAR"

\* The exchange settles, and everyone who shared it goes on.
Settle(t) ==
  LET c == inFlight[t] IN
  /\ Running(t)
  /\ pc[c] = "done"
  /\ inFlight' = [inFlight EXCEPT ![t] = None]
  /\ lastRotation' = IF answer[c] = "PAIR" THEN [from |-> t, to |-> next[c]] ELSE lastRotation
  /\ got' = [r \in Request |-> IF r \in Waiting(t) THEN Outcome(c) ELSE got[r]]
  /\ stage' = [r \in Request |-> IF r \notin Waiting(t) THEN stage[r]
                                 ELSE IF answer[c] = "PAIR" THEN "reread" ELSE "respond"]
  /\ UNCHANGED <<api, stale, cookie, jar, via, cut>>

\* The new access token is tried; a second 401 forgets the session.
Reread(r) == /\ stage[r] = "reread"
             /\ got' = [got EXCEPT ![r] = IF @ \in stale THEN "CLEAR" ELSE @]
             /\ Goto(r, "respond")
             /\ UNCHANGED <<api, stale, cookie, lastRotation, inFlight, jar, via, cut>>

-----------------------------------------------------------------------------
(***************************************************************************)
(* Signing out, and responses.                                             *)
(***************************************************************************)
\* POST /api/auth/logout: the API is told first.
SignOut(r, c) == /\ stage[r] = "idle"
                 /\ cookie[BrowserOf[r]] # None
                 /\ Api!Logout(c, cookie[BrowserOf[r]])
                 /\ jar' = [jar EXCEPT ![r] = cookie[BrowserOf[r]]]
                 /\ via' = [via EXCEPT ![r] = c]
                 /\ Goto(r, "leave")
                 /\ UNCHANGED <<stale, cookie, lastRotation, inFlight, got, cut>>

\* Whatever the API answered, or if it did not, the cookies are cleared.
Leave(r) == /\ stage[r] = "leave"
            /\ pc[via[r]] = "done"
            /\ got' = [got EXCEPT ![r] = "CLEAR"]
            /\ Goto(r, "respond")
            /\ UNCHANGED <<api, stale, cookie, lastRotation, inFlight, jar, via, cut>>

Respond(r) ==
  /\ stage[r] = "respond"
  /\ cookie' = [cookie EXCEPT ![BrowserOf[r]] =
       IF got[r] = None THEN @ ELSE IF got[r] = "CLEAR" THEN None ELSE got[r]]
  /\ Goto(r, "done")
  /\ UNCHANGED <<api, stale, lastRotation, inFlight, jar, via, got, cut>>

\* The browser has gone elsewhere, or the connection has.
LoseResponse(r) == /\ stage[r] = "respond"
                   /\ Goto(r, "lost")
                   /\ UNCHANGED <<api, stale, cookie, lastRotation, inFlight, jar, via, got, cut>>

\* Module state goes with the process: the memory, the map of exchanges, and every
\* request under way.  What the API was asked to do, it does.
Underway(b) == \E r \in Mine(b) : stage[r] \notin {"idle", "done", "lost"}

Restart ==
  /\ lastRotation' = None
  /\ inFlight' = [t \in Token |-> None]
  /\ stage' = [r \in Request |-> IF stage[r] \in {"idle", "done"} THEN stage[r] ELSE "lost"]
  /\ cut' = cut \cup {b \in Browser : Underway(b) \/ cookie[b] \in used}
  /\ UNCHANGED <<api, stale, cookie, jar, via, got>>

Next ==
  \/ ApiStep \/ Restart
  \/ \E t \in Token : Age(t) \/ Settle(t) \/ \E b \in Browser : SignIn(b, t)
  \/ \E r \in Request :
       \/ Send(r) \/ Read(r) \/ Recall(r) \/ Join(r) \/ Reread(r)
       \/ Leave(r) \/ Respond(r) \/ LoseResponse(r)
       \/ \E c \in Call : Exchange(r, c) \/ SignOut(r, c)

Spec == Init /\ [][Next]_vars

-----------------------------------------------------------------------------
(***************************************************************************)
(* Safety.                                                                 *)
(***************************************************************************)
\* An answer of the API to this session's refresh or sign-out was lost.
AnswerLost(b) == \E c \in Call : answer[c] = "LOST" /\ owner[held[c]] = b

\* ADR 011: a request "still carrying the token it superseded, is handed the
\* replacement rather than triggering a replay".  An honest browser's session is
\* never ended for reuse, however its requests overlap and its responses are lost
\* or reordered, unless the API's own answer never reached the coordinator.  Nor is
\* it by a restart, as long as that found the browser at rest with the latest pair.
NoHonestReplay ==
  \A b \in Browser : session[b] = "REUSE_DETECTED" => AnswerLost(b) \/ b \in cut

\* A browser that received every response is forgotten only when its session is
\* over at the API or it signed out.
ForgottenMeansOver ==
  \A b \in Browser :
    session[b] # "ABSENT" /\ cookie[b] = None =>
      \/ session[b] \in Api!Revoked \/ b \in expired
      \/ \E r \in Mine(b) : stage[r] = "lost" \/ via[r] # None

\* Between requests, a browser that received every response of a process that
\* received every answer holds the one token of its session that can be rotated,
\* and never one that would be taken for a replay.
CookieIsLive ==
  \A b \in Browser :
    /\ cookie[b] # None
    /\ \A r \in Mine(b) : stage[r] \in {"idle", "done"}
    /\ ~AnswerLost(b)
    => owner[cookie[b]] = b /\ cookie[b] \notin used
=============================================================================
