--------------------------- MODULE SessionsProofs ---------------------------
(***************************************************************************)
(* Theorems about Sessions, for any number of sessions, tokens and calls.  *)
(*                                                                         *)
(* Rows says what the two tables always are to each other, Stage what a    *)
(* call may count on at each await and what its answer meant, and Issued   *)
(* that rotations neither share the token they spend nor the one they      *)
(* issue.                                                                  *)
(***************************************************************************)
EXTENDS Sessions, TLAPS

Rows == /\ \A t \in used : owner[t] # None
        /\ \A t \in Token : owner[t] # None => session[owner[t]] # "ABSENT"
        /\ OneLiveToken

Stage(c) ==
  /\ pc[c] = "idle" <=> held[c] = None
  /\ pc[c] = "done" <=> answer[c] # "NONE"
  /\ pc[c] \in {"idle", "rotate", "reuse", "revoke"} => next[c] = None
  /\ pc[c] \in {"rotate", "reuse", "subject", "revoke"} => owner[held[c]] # None
  /\ pc[c] = "subject" \/ answer[c] = "PAIR" => next[c] # None
  /\ next[c] # None => /\ held[c] \in used
                       /\ owner[next[c]] = owner[held[c]]
                       /\ owner[held[c]] # None
                       /\ pc[c] = "subject" \/ answer[c] \in {"PAIR", "LOST"}
  /\ answer[c] = "REUSED" => owner[held[c]] # None /\ session[owner[held[c]]] \in Revoked
  /\ answer[c] = "UNUSABLE" => owner[held[c]] = None \/ Over(owner[held[c]])

Issued == \A c, d \in Call : c # d /\ next[c] # None /\ next[d] # None
                               => held[c] # held[d] /\ next[c] # next[d]

\* Nothing but a rotation spends a token.
Spent == \A t \in used : \E c \in Call : held[c] = t /\ next[c] # None

IInv == TypeOK /\ Rows /\ (\A c \in Call : Stage(c)) /\ Issued /\ Spent

-----------------------------------------------------------------------------
LEMMA TypeStep == ASSUME IInv, [Next]_vars PROVE TypeOK'
<1> USE NoneIsNoRow DEF IInv, TypeOK, Revoked
<1>1. ASSUME NEW s \in Session, NEW t \in Token, Login(s, t) PROVE TypeOK'
  BY <1>1 DEF Login
<1>2. ASSUME NEW s \in Session, Expire(s) PROVE TypeOK'
  BY <1>2 DEF Expire
<1>3. ASSUME NEW c \in Call, NEW t \in Token, Refresh(c, t) PROVE TypeOK'
  BY <1>3 DEF Refresh, Goto, Finish
<1>4. ASSUME NEW c \in Call, Rotate(c) PROVE TypeOK'
  <2>1. held[c] \in Token /\ owner[held[c]] \in Session
    BY <1>4 DEF Rotate, Stage
  <2>2. CASE held[c] \in used
    BY <1>4, <2>2 DEF Rotate, Goto
  <2>3. CASE held[c] \notin used
    <3>1. PICK t \in Token : Issue(c, t)
      BY <1>4, <2>3 DEF Rotate
    <3> QED BY <1>4, <2>1, <2>3, <3>1 DEF Rotate, Issue, Goto
  <2> QED BY <2>2, <2>3
<1>5. ASSUME NEW c \in Call, RevokeForReuse(c) PROVE TypeOK'
  BY <1>5 DEF RevokeForReuse, Finish
<1>6. ASSUME NEW c \in Call, Subject(c) PROVE TypeOK'
  BY <1>6 DEF Subject, Finish, rows
<1>7. ASSUME NEW c \in Call, NEW t \in Token, Logout(c, t) PROVE TypeOK'
  BY <1>7 DEF Logout, Goto, Finish, rows
<1>8. ASSUME NEW c \in Call, RevokeOnLogout(c) PROVE TypeOK'
  BY <1>8 DEF RevokeOnLogout, Finish
<1>9. ASSUME NEW c \in Call, Lose(c) PROVE TypeOK'
  BY <1>9 DEF Lose, Finish, rows
<1>10. CASE UNCHANGED vars
  BY <1>10 DEF vars
<1> QED BY <1>1, <1>2, <1>3, <1>4, <1>5, <1>6, <1>7, <1>8, <1>9, <1>10 DEF Next, Step

-----------------------------------------------------------------------------
\* What no step undoes about the tables: rows stay, spent tokens stay spent, what
\* is over stays over; and a token that a call holds gets no row afterwards.
Grown ==
  /\ used \subseteq used'
  /\ expired \subseteq expired'
  /\ \A s \in Session : session[s] \in Revoked => session'[s] \in Revoked
  /\ \A t \in Token : owner[t] # None => owner'[t] = owner[t]
  /\ \A c \in Call, t \in Token : held[c] = t => owner'[t] = owner[t]

\* A step of others leaves a call's stage standing.
LEMMA StageStands ==
  ASSUME TypeOK, NEW c \in Call, Stage(c), Grown,
         pc'[c] = pc[c], held'[c] = held[c], next'[c] = next[c], answer'[c] = answer[c]
  PROVE  Stage(c)'
<1>1. held[c] # None => held[c] \in Token /\ owner'[held[c]] = owner[held[c]]
  BY DEF TypeOK, Grown
<1>2. owner[held[c]] # None /\ held[c] # None => owner[held[c]] \in Session
  BY DEF TypeOK
<1>3. next[c] # None => next[c] \in Token /\ owner'[next[c]] = owner[next[c]]
  BY DEF Stage, TypeOK, Grown
<1>4. CASE held[c] = None
  BY <1>4 DEF Stage
<1>5. CASE held[c] # None
  BY <1>1, <1>2, <1>3, <1>5 DEF Stage, Grown, Over
<1> QED BY <1>4, <1>5

\* A step that touches no token row and opens no session keeps Rows.
LEMMA RowsStand ==
  ASSUME IInv, owner' = owner, used' = used,
         \A s \in Session : session'[s] = "ABSENT" <=> session[s] = "ABSENT"
  PROVE  Rows'
BY DEF IInv, TypeOK, Rows, OneLiveToken

\* A step of one call that issues nothing: its own stage, and the rest stands.
LEMMA OneMoves ==
  ASSUME IInv, NEW c \in Call, Grown, Rows', Stage(c)', next' = next,
         \A d \in Call : d # c => pc'[d] = pc[d] /\ held'[d] = held[d] /\ answer'[d] = answer[d],
         next[c] # None => held'[c] = held[c]
  PROVE  Rows' /\ (\A d \in Call : Stage(d)') /\ Issued'
<1>1. \A d \in Call : Stage(d)'
  <2> SUFFICES ASSUME NEW d \in Call, d # c PROVE Stage(d)'
    OBVIOUS
  <2> QED BY StageStands DEF IInv
<1>2. Issued'
  BY DEF IInv, Issued
<1> QED BY <1>1, <1>2

LEMMA InvStep ==
  ASSUME IInv, TypeOK', [Next]_vars
  PROVE  Rows' /\ (\A c \in Call : Stage(c)') /\ Issued'
<1> USE NoneIsNoRow DEF IInv
<1>1. ASSUME NEW s \in Session, NEW t \in Token, Login(s, t)
      PROVE  Rows' /\ (\A c \in Call : Stage(c)') /\ Issued'
  <2>1. Grown
    BY <1>1 DEF Login, Fresh, Grown, TypeOK, Revoked
  <2>2. \A u \in Token : owner[u] # s
    BY <1>1 DEF Login, Rows
  <2>3. Rows'
    <3>1. \A u \in Token : owner'[u] = IF u = t THEN s ELSE owner[u]
      BY <1>1 DEF Login, TypeOK
    <3>2. t \notin used /\ used' = used
      BY <1>1 DEF Login, Fresh, Rows
    <3>3. \A r \in Session : session'[r] = IF r = s THEN "OPEN" ELSE session[r]
      BY <1>1 DEF Login, TypeOK
    <3>4. OneLiveToken'
      <4> SUFFICES ASSUME NEW r \in Session, session'[r] # "ABSENT"
                   PROVE  \E v \in Token : \A u \in Token : owner'[u] = r /\ u \notin used' <=> u = v
        BY DEF OneLiveToken
      <4>1. CASE r = s
        BY <4>1, <2>2, <3>1, <3>2
      <4>2. CASE r # s
        <5>1. PICK v \in Token : \A u \in Token : owner[u] = r /\ u \notin used <=> u = v
          BY <4>2, <3>3 DEF Rows, OneLiveToken
        <5>2. v # t
          BY <1>1, <5>1 DEF Login, Fresh
        <5> QED BY <4>2, <5>1, <5>2, <3>1, <3>2
      <4> QED BY <4>1, <4>2
    <3> QED BY <3>1, <3>2, <3>3, <3>4 DEF Rows, TypeOK
  <2>4. \A c \in Call : Stage(c)'
    BY <1>1, <2>1, StageStands DEF Login
  <2> QED BY <1>1, <2>3, <2>4 DEF Login, Issued
<1>2. ASSUME NEW s \in Session, Expire(s)
      PROVE  Rows' /\ (\A c \in Call : Stage(c)') /\ Issued'
  <2>1. Grown
    BY <1>2 DEF Expire, Grown
  <2>2. Rows'
    BY <1>2, RowsStand DEF Expire
  <2>3. \A c \in Call : Stage(c)'
    BY <1>2, <2>1, StageStands DEF Expire
  <2> QED BY <1>2, <2>2, <2>3 DEF Expire, Issued
<1>3. ASSUME NEW c \in Call, NEW t \in Token, Refresh(c, t)
      PROVE  Rows' /\ (\A d \in Call : Stage(d)') /\ Issued'
  <2>1. Grown
    BY <1>3 DEF Refresh, Grown
  <2>2. Rows'
    BY <1>3, RowsStand DEF Refresh
  <2>3. held'[c] = t /\ next[c] = None /\ answer[c] = "NONE"
    BY <1>3 DEF Refresh, TypeOK, Stage
  <2>4. Stage(c)'
    <3>1. CASE owner[t] = None
      BY <1>3, <2>3, <3>1 DEF Refresh, Finish, TypeOK, Stage
    <3>2. CASE owner[t] # None /\ Rejected(t)
      BY <1>3, <2>3, <3>2 DEF Refresh, Finish, TypeOK, Stage, Rejected, Replayed, Usable, Over
    <3>3. CASE owner[t] # None /\ ~Rejected(t)
      BY <1>3, <2>3, <3>3 DEF Refresh, Goto, TypeOK, Stage
    <3> QED BY <3>1, <3>2, <3>3
  <2>5. \A d \in Call : d # c => pc'[d] = pc[d] /\ held'[d] = held[d] /\ answer'[d] = answer[d]
    BY <1>3 DEF Refresh, Goto, Finish, TypeOK
  <2> QED BY <1>3, <2>1, <2>2, <2>3, <2>4, <2>5, OneMoves DEF Refresh
<1>4. ASSUME NEW c \in Call, Rotate(c)
      PROVE  Rows' /\ (\A d \in Call : Stage(d)') /\ Issued'
  <2>1. CASE held[c] \in used
    <3>1. Rows'
      BY <1>4, <2>1, RowsStand DEF Rotate
    <3>2. Grown
      BY <1>4, <2>1 DEF Rotate, Grown
    <3>3. Stage(c)'
      BY <1>4, <2>1 DEF Rotate, Goto, TypeOK, Stage
    <3>4. \A d \in Call : d # c => pc'[d] = pc[d] /\ held'[d] = held[d] /\ answer'[d] = answer[d]
      BY <1>4, <2>1 DEF Rotate, Goto, TypeOK
    <3> QED BY <1>4, <2>1, <3>1, <3>2, <3>3, <3>4, OneMoves DEF Rotate
  <2>2. CASE held[c] \notin used
    <3>1. PICK t \in Token : Issue(c, t)
      BY <1>4, <2>2 DEF Rotate
    <3> DEFINE s == owner[held[c]]
    <3>2. held[c] \in Token /\ s \in Session /\ owner[t] = None /\ held[c] # t
      BY <1>4, <3>1 DEF Rotate, Stage, TypeOK, Issue, Fresh
    <3>3. /\ \A u \in Token : owner'[u] = IF u = t THEN s ELSE owner[u]
          /\ used' = used \cup {held[c]}
          /\ session' = session /\ expired' = expired /\ held' = held
          /\ next' = [next EXCEPT ![c] = t] /\ next'[c] = t
          /\ pc'[c] = "subject" /\ answer' = answer
          /\ \A d \in Call : d # c => pc'[d] = pc[d] /\ next'[d] = next[d]
      BY <1>4, <2>2, <3>1 DEF Rotate, Issue, Goto, TypeOK
    <3>4. Grown
      BY <3>1, <3>2, <3>3 DEF Issue, Fresh, Grown, TypeOK
    <3>5. t \notin used
      BY <3>2 DEF Rows
    <3>6. OneLiveToken'
      <4> SUFFICES ASSUME NEW r \in Session, session[r] # "ABSENT"
                   PROVE  \E v \in Token : \A u \in Token : owner'[u] = r /\ u \notin used' <=> u = v
        BY <3>3 DEF OneLiveToken
      <4>1. PICK v \in Token : \A u \in Token : owner[u] = r /\ u \notin used <=> u = v
        BY DEF Rows, OneLiveToken
      <4>2. CASE r = s
        <5>1. v = held[c]
          BY <4>1, <4>2, <2>2, <3>2
        <5> QED BY <4>1, <4>2, <5>1, <3>2, <3>3, <3>5
      <4>3. CASE r # s
        <5>1. v # t /\ v # held[c]
          BY <4>1, <4>3, <3>2
        <5> QED BY <4>1, <4>3, <5>1, <3>3
      <4> QED BY <4>2, <4>3
    <3>7. Rows'
      <4>1. \A u \in used' : owner'[u] # None
        BY <3>2, <3>3 DEF Rows, TypeOK
      <4>2. \A u \in Token : owner'[u] # None => session'[owner'[u]] # "ABSENT"
        BY <3>2, <3>3 DEF Rows
      <4> QED BY <4>1, <4>2, <3>6 DEF Rows
    <3>8. Stage(c)'
      BY <1>4, <3>2, <3>3 DEF Stage, Rotate
    <3>9. \A d \in Call : Stage(d)'
      BY <3>3, <3>4, <3>8, StageStands
    <3>10. Issued'
      <4>1. ASSUME NEW d \in Call, d # c, next[d] # None PROVE held[d] # held[c] /\ next[d] # t
        BY <4>1, <2>2, <3>2 DEF Stage
      <4> QED BY <4>1, <3>3 DEF Issued
    <3> QED BY <3>7, <3>9, <3>10
  <2> QED BY <2>1, <2>2
<1>5. ASSUME NEW c \in Call, RevokeForReuse(c)
      PROVE  Rows' /\ (\A d \in Call : Stage(d)') /\ Issued'
  <2>1. owner[held[c]] \in Session /\ session[owner[held[c]]] # "ABSENT" /\ held[c] \in Token
    BY <1>5 DEF RevokeForReuse, Stage, TypeOK, Rows
  <2>2. Grown
    BY <1>5, <2>1 DEF RevokeForReuse, Grown, Revoked, TypeOK
  <2>3. Rows'
    BY <1>5, <2>1, RowsStand DEF RevokeForReuse, TypeOK
  <2>4. Stage(c)'
    BY <1>5, <2>1 DEF RevokeForReuse, Finish, Stage, TypeOK, Revoked
  <2> QED BY <1>5, <2>2, <2>3, <2>4, OneMoves DEF RevokeForReuse, Finish, TypeOK
<1>6. ASSUME NEW c \in Call, Subject(c)
      PROVE  Rows' /\ (\A d \in Call : Stage(d)') /\ Issued'
  <2>1. Grown
    BY <1>6 DEF Subject, rows, Grown
  <2>2. Rows'
    BY <1>6, RowsStand DEF Subject, rows
  <2>3. Stage(c)'
    BY <1>6 DEF Subject, rows, Finish, Stage, TypeOK
  <2> QED BY <1>6, <2>1, <2>2, <2>3, OneMoves DEF Subject, Finish, TypeOK
<1>7. ASSUME NEW c \in Call, NEW t \in Token, Logout(c, t)
      PROVE  Rows' /\ (\A d \in Call : Stage(d)') /\ Issued'
  <2>1. Grown
    BY <1>7 DEF Logout, rows, Grown
  <2>2. Rows'
    BY <1>7, RowsStand DEF Logout, rows
  <2>3. Stage(c)'
    BY <1>7 DEF Logout, rows, Goto, Finish, Stage, TypeOK
  <2>4. \A d \in Call : d # c => pc'[d] = pc[d] /\ held'[d] = held[d] /\ answer'[d] = answer[d]
    BY <1>7 DEF Logout, Goto, Finish, TypeOK
  <2>5. next[c] = None
    BY <1>7 DEF Logout, Stage
  <2> QED BY <1>7, <2>1, <2>2, <2>3, <2>4, <2>5, OneMoves DEF Logout
<1>8. ASSUME NEW c \in Call, RevokeOnLogout(c)
      PROVE  Rows' /\ (\A d \in Call : Stage(d)') /\ Issued'
  <2>1. owner[held[c]] \in Session /\ session[owner[held[c]]] # "ABSENT" /\ held[c] \in Token
    BY <1>8 DEF RevokeOnLogout, Stage, TypeOK, Rows
  <2>2. Grown
    BY <1>8, <2>1 DEF RevokeOnLogout, Grown, Revoked, TypeOK
  <2>3. Rows'
    BY <1>8, <2>1, RowsStand DEF RevokeOnLogout, TypeOK
  <2>4. Stage(c)'
    BY <1>8, <2>1 DEF RevokeOnLogout, Finish, Stage, TypeOK
  <2> QED BY <1>8, <2>2, <2>3, <2>4, OneMoves DEF RevokeOnLogout, Finish, TypeOK
<1>9. ASSUME NEW c \in Call, Lose(c)
      PROVE  Rows' /\ (\A d \in Call : Stage(d)') /\ Issued'
  <2>1. Grown
    BY <1>9 DEF Lose, rows, Grown
  <2>2. Rows'
    BY <1>9, RowsStand DEF Lose, rows
  <2>3. Stage(c)'
    BY <1>9 DEF Lose, rows, Finish, Stage, TypeOK
  <2> QED BY <1>9, <2>1, <2>2, <2>3, OneMoves DEF Lose, Finish, TypeOK
<1>10. CASE UNCHANGED vars
  <2>1. Grown /\ Rows'
    BY <1>10, RowsStand DEF vars, Grown
  <2>2. \A c \in Call : Stage(c)'
    BY <1>10, <2>1, StageStands DEF vars
  <2> QED BY <1>10, <2>1, <2>2 DEF vars, Issued
<1> QED BY <1>1, <1>2, <1>3, <1>4, <1>5, <1>6, <1>7, <1>8, <1>9, <1>10 DEF Next, Step

\* A call presents one token, issues one that no row had, and is answered once.
Settled(c) ==
  /\ held[c] # None => held'[c] = held[c]
  /\ next'[c] # next[c] => next'[c] \in Token /\ owner[next'[c]] = None
  /\ next[c] # None => next'[c] = next[c]
  /\ pc[c] = "done" => pc'[c] = "done" /\ answer'[c] = answer[c]

LEMMA NextGrows ==
  ASSUME IInv, [Next]_vars
  PROVE  Grown /\ \A c \in Call : Settled(c)
<1> USE NoneIsNoRow DEF IInv, TypeOK, Settled
<1>1. ASSUME NEW s \in Session, NEW t \in Token, Login(s, t) PROVE Grown /\ \A c \in Call : Settled(c)
  BY <1>1 DEF Login, Fresh, Grown, Revoked
<1>2. ASSUME NEW s \in Session, Expire(s) PROVE Grown /\ \A c \in Call : Settled(c)
  BY <1>2 DEF Expire, Grown
<1>3. ASSUME NEW c \in Call, NEW t \in Token, Refresh(c, t) PROVE Grown /\ \A d \in Call : Settled(d)
  BY <1>3 DEF Refresh, Finish, Goto, Stage, Grown
<1>4. ASSUME NEW c \in Call, Rotate(c) PROVE Grown /\ \A d \in Call : Settled(d)
  <2>1. CASE held[c] \in used
    BY <1>4, <2>1 DEF Rotate, Goto, Grown
  <2>2. CASE held[c] \notin used
    <3>1. PICK t \in Token : Issue(c, t)
      BY <1>4, <2>2 DEF Rotate
    <3>2. Grown
      BY <1>4, <2>2, <3>1 DEF Rotate, Issue, Fresh, Goto, Stage, Grown
    <3>3. \A d \in Call : Settled(d)
      BY <1>4, <2>2, <3>1 DEF Rotate, Issue, Fresh, Goto, Stage
    <3> QED BY <3>2, <3>3
  <2> QED BY <2>1, <2>2
<1>5. ASSUME NEW c \in Call, RevokeForReuse(c) PROVE Grown /\ \A d \in Call : Settled(d)
  BY <1>5 DEF RevokeForReuse, Finish, Grown, Revoked
<1>6. ASSUME NEW c \in Call, Subject(c) PROVE Grown /\ \A d \in Call : Settled(d)
  BY <1>6 DEF Subject, rows, Finish, Grown
<1>7. ASSUME NEW c \in Call, NEW t \in Token, Logout(c, t) PROVE Grown /\ \A d \in Call : Settled(d)
  BY <1>7 DEF Logout, rows, Finish, Goto, Stage, Grown
<1>8. ASSUME NEW c \in Call, RevokeOnLogout(c) PROVE Grown /\ \A d \in Call : Settled(d)
  BY <1>8 DEF RevokeOnLogout, Finish, Grown, Revoked
<1>9. ASSUME NEW c \in Call, Lose(c) PROVE Grown /\ \A d \in Call : Settled(d)
  BY <1>9 DEF Lose, rows, Finish, Grown
<1>10. CASE UNCHANGED vars
  BY <1>10 DEF vars, Grown
<1> QED BY <1>1, <1>2, <1>3, <1>4, <1>5, <1>6, <1>7, <1>8, <1>9, <1>10 DEF Next, Step

LEMMA SpentStep == ASSUME IInv, [Next]_vars PROVE Spent'
<1> SUFFICES ASSUME NEW t \in used' PROVE \E c \in Call : held'[c] = t /\ next'[c] # None
  BY DEF Spent
<1>1. CASE t \in used
  BY <1>1, NextGrows, NoneIsNoRow DEF IInv, Spent, Settled, TypeOK
<1>2. CASE t \notin used
  <2>1. PICK c \in Call : Rotate(c)
    BY <1>2 DEF Next, Step, vars, rows, Login, Expire, Refresh, RevokeForReuse, Subject, Logout,
                RevokeOnLogout, Lose
  <2>2. /\ t = held[c] /\ held' = held
        /\ \E u \in Token : Issue(c, u)
    BY <1>2, <2>1 DEF Rotate
  <2>3. next'[c] # None
    BY <2>2, NoneIsNoRow DEF Issue, IInv, TypeOK
  <2> QED BY <2>2, <2>3
<1> QED BY <1>1, <1>2

-----------------------------------------------------------------------------
\* The inductive invariant holds of every behaviour: the tables are well-formed
\* and each call may count on its stage, whatever the other calls do.
THEOREM Invariance == Spec => []IInv
<1>1. Init => IInv
  BY NoneIsNoRow DEF Init, IInv, TypeOK, Rows, OneLiveToken, Stage, Issued, Spent, Over, Revoked
<1>2. IInv /\ [Next]_vars => IInv'
  BY TypeStep, InvStep, SpentStep DEF IInv
<1> QED BY <1>1, <1>2, PTL DEF Spec

\* Every row, token and call keeps its type.
THEOREM TypeCorrect == Spec => []TypeOK
<1>1. IInv => TypeOK
  BY DEF IInv
<1> QED BY <1>1, Invariance, PTL

\* A session has exactly one token that was not spent, however many refreshes of
\* it race (sessions.repository.ts, claimAndRotate).
THEOREM OneTokenLives == Spec => []OneLiveToken
<1>1. IInv => OneLiveToken
  BY DEF IInv, Rows
<1> QED BY <1>1, Invariance, PTL

\* No token is exchanged twice, and each exchange stays within one session.
THEOREM PairsChain == Spec => []PairsAreOfOneChain
<1>1. IInv => PairsAreOfOneChain
  BY DEF IInv, Issued, Stage, PairsAreOfOneChain
<1> QED BY <1>1, Invariance, PTL

\* A token used by two answered calls ends its session: replay is always caught.
THEOREM SecondUseEnds == Spec => []SecondUseEndsSession
<1>1. ASSUME IInv PROVE SecondUseEndsSession
  <2> SUFFICES ASSUME NEW c \in Call, NEW d \in Call, c # d,
                      {answer[c], answer[d]} \subseteq {"PAIR", "REUSED", "UNUSABLE"},
                      held[c] = held[d], owner[held[c]] # None
               PROVE  Over(owner[held[c]])
    BY DEF SecondUseEndsSession
  <2>1. CASE answer[c] = "PAIR" /\ answer[d] = "PAIR"
    BY <1>1, <2>1 DEF IInv, Stage, Issued
  <2>2. CASE answer[c] # "PAIR"
    BY <1>1, <2>2 DEF IInv, Stage, Over
  <2>3. CASE answer[d] # "PAIR"
    BY <1>1, <2>3 DEF IInv, Stage, Over
  <2> QED BY <2>1, <2>2, <2>3
<1> QED BY <1>1, Invariance, PTL

-----------------------------------------------------------------------------
\* The session is revoked and, if the token is one of its, no call is exchanging
\* it or has been given a pair for it.
DeadEnd(s, t) ==
  /\ session[s] \in Revoked
  /\ owner[t] = s => \A c \in Call : held[c] = t => pc[c] \notin {"rotate", "subject"} /\ answer[c] # "PAIR"

LEMMA DeadEndStays ==
  ASSUME IInv, NEW s \in Session, NEW t \in Token, DeadEnd(s, t), [Next]_vars
  PROVE  DeadEnd(s, t)'
<1> USE NoneIsNoRow DEF IInv, TypeOK
<1>1. ASSUME NEW r \in Session, NEW u \in Token, Login(r, u) PROVE DeadEnd(s, t)'
  BY <1>1 DEF Login, Fresh, DeadEnd, Revoked
<1>2. ASSUME NEW r \in Session, Expire(r) PROVE DeadEnd(s, t)'
  BY <1>2 DEF Expire, DeadEnd
<1>3. ASSUME NEW c \in Call, NEW u \in Token, Refresh(c, u) PROVE DeadEnd(s, t)'
  <2>1. CASE u = t /\ owner[t] = s
    <3>1. Finish(c, "UNUSABLE")
      BY <1>3, <2>1 DEF Refresh, Rejected, Replayed, Usable, DeadEnd
    <3> QED BY <1>3, <2>1, <3>1 DEF Refresh, Finish, DeadEnd
  <2>2. CASE u # t \/ owner[t] # s
    BY <1>3, <2>2 DEF Refresh, Goto, Finish, DeadEnd
  <2> QED BY <2>1, <2>2
<1>4. ASSUME NEW c \in Call, Rotate(c) PROVE DeadEnd(s, t)'
  <2>1. CASE held[c] \in used
    BY <1>4, <2>1 DEF Rotate, Goto, DeadEnd
  <2>2. CASE held[c] \notin used
    <3>1. PICK u \in Token : Issue(c, u)
      BY <1>4, <2>2 DEF Rotate
    <3> QED BY <1>4, <2>2, <3>1 DEF Rotate, Issue, Fresh, Goto, DeadEnd
  <2> QED BY <2>1, <2>2
<1>5. ASSUME NEW c \in Call, RevokeForReuse(c) PROVE DeadEnd(s, t)'
  BY <1>5 DEF RevokeForReuse, Finish, DeadEnd, Revoked
<1>6. ASSUME NEW c \in Call, Subject(c) PROVE DeadEnd(s, t)'
  BY <1>6 DEF Subject, rows, Finish, DeadEnd
<1>7. ASSUME NEW c \in Call, NEW u \in Token, Logout(c, u) PROVE DeadEnd(s, t)'
  BY <1>7 DEF Logout, rows, Goto, Finish, Stage, DeadEnd
<1>8. ASSUME NEW c \in Call, RevokeOnLogout(c) PROVE DeadEnd(s, t)'
  BY <1>8 DEF RevokeOnLogout, Finish, DeadEnd, Revoked
<1>9. ASSUME NEW c \in Call, Lose(c) PROVE DeadEnd(s, t)'
  BY <1>9 DEF Lose, rows, Finish, DeadEnd
<1>10. CASE UNCHANGED vars
  BY <1>10 DEF vars, DeadEnd
<1> QED BY <1>1, <1>2, <1>3, <1>4, <1>5, <1>6, <1>7, <1>8, <1>9, <1>10 DEF Next, Step

\* A token issued after its session was revoked is never exchanged.
THEOREM RevocationEnds == Spec => RevocationIsFinal
<1> SUFFICES ASSUME NEW s \in Session, NEW t \in Token
             PROVE  Spec => [](session[s] \in Revoked /\ owner[t] = None
                       => [](session[s] \in Revoked /\ \A c \in Call : owner[t] = s /\ held[c] = t => answer[c] # "PAIR"))
  BY DEF RevocationIsFinal
<1>1. IInv /\ session[s] \in Revoked /\ owner[t] = None => DeadEnd(s, t)
  BY NoneIsNoRow DEF DeadEnd
<1>2. IInv /\ DeadEnd(s, t) /\ [Next]_vars => DeadEnd(s, t)'
  BY DeadEndStays
<1>3. DeadEnd(s, t) => session[s] \in Revoked /\ \A c \in Call : owner[t] = s /\ held[c] = t => answer[c] # "PAIR"
  BY DEF DeadEnd
<1> QED BY <1>1, <1>2, <1>3, Invariance, PTL DEF Spec
=============================================================================
