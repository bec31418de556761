------------------------------ MODULE Sessions ------------------------------
(***************************************************************************)
(* Sessions as the API keeps them: a session row, and refresh tokens that  *)
(* are spent by the rotation that replaces them (auth.service.ts).         *)
(*                                                                         *)
(* A Call is one POST /auth/refresh or /auth/logout, with any token: one   *)
(* it was given, one an earlier call spent, or none this API ever issued.  *)
(* The token is loaded, judged, and only then written, each an await of    *)
(* its own, so calls interleave between them; nothing is locked.           *)
(*                                                                         *)
(* Left out: access tokens, which the API does not store, and user rows,   *)
(* which nothing deletes.  A token's own expiry is no state: it is set at  *)
(* its rotation to the span its session got at login, so it never passes   *)
(* before its session's.                                                   *)
(***************************************************************************)
CONSTANTS
  Session,   \* the ids login may mint
  Token,     \* refresh tokens, which stand for their hashes
  Call,      \* HTTP calls
  None

ASSUME NoneIsNoRow == None \notin Session \cup Token

VARIABLES
  session,   \* "ABSENT", "OPEN" while revokedAt is null, else revokedReason
  owner,     \* the session of a token, None while no row has its hash
  used,      \* tokens with a usedAt
  expired,   \* sessions past expiresAt
  pc,        \* the await each call stands at
  held,      \* the token it presented
  next,      \* the token it issued
  answer     \* what it answered

rows == <<session, owner, used, expired>>
vars == <<session, owner, used, expired, pc, held, next, answer>>

Revoked == {"LOGOUT", "REUSE_DETECTED"}

TypeOK ==
  /\ session \in [Session -> {"ABSENT", "OPEN"} \cup Revoked]
  /\ owner \in [Token -> Session \cup {None}]
  /\ used \subseteq Token
  /\ expired \subseteq Session
  /\ pc \in [Call -> {"idle", "rotate", "reuse", "subject", "revoke", "done"}]
  /\ held \in [Call -> Token \cup {None}]
  /\ next \in [Call -> Token \cup {None}]
  /\ answer \in [Call -> {"NONE", "PAIR", "UNUSABLE", "REUSED", "SIGNED_OUT", "LOST"}]

Init ==
  /\ session = [s \in Session |-> "ABSENT"]
  /\ owner = [t \in Token |-> None]
  /\ used = {}
  /\ expired = {}
  /\ pc = [c \in Call |-> "idle"]
  /\ held = [c \in Call |-> None]
  /\ next = [c \in Call |-> None]
  /\ answer = [c \in Call |-> "NONE"]

-----------------------------------------------------------------------------
\* 256 random bits: no row has them and nobody has guessed them.
Fresh(t) == owner[t] = None /\ \A c \in Call : held[c] # t

\* issuePair: the session and its first token, in one transaction.
Login(s, t) == /\ session[s] = "ABSENT"
               /\ Fresh(t)
               /\ session' = [session EXCEPT ![s] = "OPEN"]
               /\ owner' = [owner EXCEPT ![t] = s]
               /\ UNCHANGED <<used, expired, pc, held, next, answer>>

Expire(s) == /\ session[s] # "ABSENT"
             /\ expired' = expired \cup {s}
             /\ UNCHANGED <<session, owner, used, pc, held, next, answer>>

-----------------------------------------------------------------------------
Goto(c, l) == /\ pc' = [pc EXCEPT ![c] = l]
              /\ UNCHANGED answer

Finish(c, kind) == /\ pc' = [pc EXCEPT ![c] = "done"]
                   /\ answer' = [answer EXCEPT ![c] = kind]

\* Mutant: a revoked session is only noticed once it has expired.
RejectedLate(t) == t \notin used /\ owner[t] \in expired

\* decideRefreshTokenUse, for a token that has a row: replay before expiry.
Replayed(t) == session[owner[t]] \notin Revoked /\ t \in used
Rejected(t) == session[owner[t]] \in Revoked \/ (t \notin used /\ owner[t] \in expired)
Usable(t)   == ~Replayed(t) /\ ~Rejected(t)

\* refresh, up to the verdict on the token as it was loaded.
Refresh(c, t) ==
  /\ pc[c] = "idle"
  /\ held' = [held EXCEPT ![c] = t]
  /\ \/ owner[t] = None /\ Finish(c, "UNUSABLE")
     \/ owner[t] # None /\ Rejected(t) /\ Finish(c, "UNUSABLE")
     \/ owner[t] # None /\ Replayed(t) /\ Goto(c, "reuse")
     \/ owner[t] # None /\ Usable(t) /\ Goto(c, "rotate")
  /\ UNCHANGED <<session, owner, used, expired, next>>

\* Mutant: the new row is given the token's id for its session's.
IssueUnderToken(c, t) == /\ Fresh(t)
                         /\ owner' = [owner EXCEPT ![t] = held[c]]
                         /\ next' = [next EXCEPT ![c] = t]

\* The replacement is a row of the same session.
Issue(c, t) == /\ Fresh(t)
               /\ owner' = [owner EXCEPT ![t] = owner[held[c]]]
               /\ next' = [next EXCEPT ![c] = t]

\* Mutants: the token is spent on the strength of the verdict; a call that lost
\* the race is told so and the session left alone.
RotateOnVerdict(c) ==
  /\ pc[c] = "rotate"
  /\ \E t \in Token : Issue(c, t)
  /\ used' = used \cup {held[c]}
  /\ Goto(c, "subject")
  /\ UNCHANGED <<session, expired, held>>
RotateOrRefuse(c) ==
  /\ pc[c] = "rotate"
  /\ \/ /\ held[c] \in used
        /\ Finish(c, "UNUSABLE")
        /\ UNCHANGED <<owner, used, next>>
     \/ /\ held[c] \notin used
        /\ \E t \in Token : Issue(c, t)
        /\ used' = used \cup {held[c]}
        /\ Goto(c, "subject")
  /\ UNCHANGED <<session, expired, held>>

\* claimAndRotate: UPDATE … WHERE "usedAt" IS NULL waits for a concurrent
\* rotation of the same token and then matches no row.
Rotate(c) ==
  /\ pc[c] = "rotate"
  /\ \/ /\ held[c] \in used
        /\ Goto(c, "reuse")
        /\ UNCHANGED <<owner, used, next>>
     \/ /\ held[c] \notin used
        /\ \E t \in Token : Issue(c, t)
        /\ used' = used \cup {held[c]}
        /\ Goto(c, "subject")
  /\ UNCHANGED <<session, expired, held>>

\* revokeForReuse, whatever the session has become since the load.
RevokeForReuse(c) ==
  /\ pc[c] = "reuse"
  /\ session' = [session EXCEPT ![owner[held[c]]] = "REUSE_DETECTED"]
  /\ Finish(c, "REUSED")
  /\ UNCHANGED <<owner, used, expired, held, next>>

\* findUserIdBySession and the answer; the session's state is not looked at.
Subject(c) == /\ pc[c] = "subject"
              /\ Finish(c, "PAIR")
              /\ UNCHANGED <<rows, held, next>>

\* logout: a token without a row is no error.
Logout(c, t) ==
  /\ pc[c] = "idle"
  /\ held' = [held EXCEPT ![c] = t]
  /\ \/ owner[t] = None /\ Finish(c, "SIGNED_OUT")
     \/ owner[t] # None /\ Goto(c, "revoke")
  /\ UNCHANGED <<rows, next>>

RevokeOnLogout(c) ==
  /\ pc[c] = "revoke"
  /\ session' = [session EXCEPT ![owner[held[c]]] = "LOGOUT"]
  /\ Finish(c, "SIGNED_OUT")
  /\ UNCHANGED <<owner, used, expired, held, next>>

\* The process dies, or the connection does, before the caller is answered.
Lose(c) == /\ pc[c] \notin {"idle", "done"}
           /\ Finish(c, "LOST")
           /\ UNCHANGED <<rows, held, next>>

Step(c) == Rotate(c) \/ RevokeForReuse(c) \/ Subject(c) \/ RevokeOnLogout(c)

Next == \/ \E s \in Session : Expire(s) \/ \E t \in Token : Login(s, t)
        \/ \E c \in Call : Step(c) \/ Lose(c) \/ \E t \in Token : Refresh(c, t) \/ Logout(c, t)

Spec == Init /\ [][Next]_vars

-----------------------------------------------------------------------------
(***************************************************************************)
(* Safety.                                                                 *)
(***************************************************************************)
\* "issuing two live tokens and defeating reuse detection entirely": however
\* refreshes race, a session has exactly one token that was not spent.
OneLiveToken ==
  \A s \in Session : session[s] # "ABSENT" =>
    \E t \in Token : \A u \in Token : owner[u] = s /\ u \notin used <=> u = t

\* A token is answered with a pair once; each pair carries a token of its own, of
\* the same session, and spends the one presented.
PairsAreOfOneChain ==
  \A c, d \in Call : answer[c] = "PAIR" =>
    /\ held[c] \in used /\ owner[next[c]] = owner[held[c]] /\ owner[held[c]] # None
    /\ c # d /\ answer[d] = "PAIR" => held[c] # held[d] /\ next[c] # next[d]

Over(s) == session[s] \in Revoked \/ s \in expired

\* A token that two calls presented, and both were answered, was in two hands: by
\* the time of the second answer its session is over, in whatever order the two
\* were loaded, judged and written.
SecondUseEndsSession ==
  \A c, d \in Call :
    c # d /\ {answer[c], answer[d]} \subseteq {"PAIR", "REUSED", "UNUSABLE"}
      /\ held[c] = held[d] /\ owner[held[c]] # None
    => Over(owner[held[c]])

\* A refresh that was already past its verdict may still rotate in a session that
\* was revoked meanwhile, but what it gets is a dead end: a token issued after the
\* revocation is never exchanged for another.
RevocationIsFinal ==
  \A s \in Session, t \in Token :
    [](session[s] \in Revoked /\ owner[t] = None
         => [](session[s] \in Revoked /\ \A c \in Call : owner[t] = s /\ held[c] = t => answer[c] # "PAIR"))
=============================================================================
