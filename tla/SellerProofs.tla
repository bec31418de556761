---------------------------- MODULE SellerProofs ----------------------------
(***************************************************************************)
(* Theorems about Organizations and Catalog, for any number of users,      *)
(* organizations, products and calls, whatever the tables held before.     *)
(*                                                                         *)
(* Of the organizations, Asked says which request a call at each place is  *)
(* answering, Holder that one call at a time holds an organization's row,  *)
(* Safe that the owner count the holder took still stands when it deletes, *)
(* and Booked(done) that the calls in done account for every membership    *)
(* row: those that were told they did it, and some that committed and lost *)
(* their answer, which no variable names and the step lemmas carry along.  *)
(* Of the products, Kept says what the row a handler decided on looked     *)
(* like, which is all it can count on when it writes.                      *)
(*                                                                         *)
(* Catalog's controllers run behind Organizations' guards, so what is      *)
(* proved of OrgSpec holds of Spec (UsesOrganizations).                    *)
(***************************************************************************)
EXTENDS Catalog, FiniteSetTheorems, TLAPS

Holding(c) == pc[c] \in {"count", "delete"}

Asked(c) == /\ pc[c] \notin {"idle", "done"} => asked[c] \in Ask
            /\ pc[c] = "create" => asked[c].op = "create"
            /\ pc[c] \in {"existing", "insert"} => asked[c].op = "add"
            /\ pc[c] \in {"lock", "count", "delete"} => asked[c].op = "remove"
            /\ pc[c] = "handle" => asked[c].op \notin {"create", "add", "remove"}
            /\ pc[c] \in {"membership", "status"} => asked[c].op \notin TenantFree
            /\ pc[c] \in {"status", "existing", "insert", "lock", "count", "delete"}
                 => /\ asRole[c] # "NONE"
                    /\ orgStatus[asked[c].org] # "ABSENT"
            /\ pc[c] = "handle" /\ asked[c].op \notin TenantFree => asRole[c] # "NONE"

Holder == \A c, d \in Call : /\ Holding(c) /\ Holding(d)
                             /\ asked[c].org = asked[d].org
                             => c = d

Safe == \A c \in Call : pc[c] = "delete" =>
          ~(Owners(asked[c].org) \subseteq {asked[c].target})

\* Only an organization has members, and it has an owner.
Founded == /\ KeepsAnOwner
           /\ \A o \in Org, u \in User : role[o][u] # "NONE" => orgStatus[o] # "ABSENT"

OrgInv == OrgTypeOK /\ (\A c \in Call : Asked(c)) /\ Holder /\ Safe /\ Founded

-----------------------------------------------------------------------------
LEMMA AskFields == ASSUME NEW a \in Ask
                   PROVE  /\ a.user \in User
                          /\ a.org \in Org
                          /\ a.op \in OwnerOnly => a.target \in User
BY AsksAreRequests

LEMMA SetRoleTypes ==
  ASSUME OrgTypeOK, NEW o, NEW u, NEW r \in Roles, SetRole(o, u, r)
  PROVE  role' \in [Org -> [User -> Roles]]
BY DEF OrgTypeOK, SetRole

\* Whatever a write answers, the call ends there.
LEMMA CommittedTypes ==
  ASSUME OrgTypeOK, NEW c \in Call, Committed(c) \/ Finish(c, "SLUG_TAKEN") \/ Finish(c, "ERROR"),
         role' \in [Org -> [User -> Roles]], orgStatus' \in [Org -> {"ABSENT", "ACTIVE", "DISABLED"}],
         UNCHANGED <<asked, asRole>>
  PROVE  OrgTypeOK'
<1>1. PICK what \in {"OK", "SLUG_TAKEN", "ERROR"} : Finish(c, what)
  BY DEF Committed
<1> QED BY <1>1 DEF OrgTypeOK, Finish, Goto

LEMMA OrgTypeStep == ASSUME OrgInv, [OrgNext]_orgVars PROVE OrgTypeOK'
<1> USE NoneIsNoAsk DEF OrgInv, OrgTypeOK, Roles, Goto, Finish, SetRole, tenants
<1>1. ASSUME NEW c \in Call, NEW a \in Ask, Arrive(c, a) PROVE OrgTypeOK'
  BY <1>1 DEF Arrive
<1>2. ASSUME NEW c \in Call, ReadMembership(c) PROVE OrgTypeOK'
  <2>1. asked[c] \in Ask /\ asked[c].org \in Org /\ asked[c].user \in User
    BY <1>2, AskFields DEF ReadMembership, Asked
  <2> QED BY <1>2, <2>1 DEF ReadMembership
<1>3. ASSUME NEW c \in Call, Admit(c) PROVE OrgTypeOK'
  BY <1>3 DEF Admit
<1>4. ASSUME NEW c \in Call, Create(c) PROVE OrgTypeOK'
  <2>1. role' \in [Org -> [User -> Roles]]
    BY <1>4, SetRoleTypes DEF Create
  <2>2. orgStatus' \in [Org -> {"ABSENT", "ACTIVE", "DISABLED"}]
    BY <1>4 DEF Create
  <2> QED BY <1>4, <2>1, <2>2, CommittedTypes DEF Create
<1>5. ASSUME NEW c \in Call, Lookup(c) PROVE OrgTypeOK'
  BY <1>5 DEF Lookup
<1>6. ASSUME NEW c \in Call, Insert(c) PROVE OrgTypeOK'
  <2>1. role' \in [Org -> [User -> Roles]]
    BY <1>6, SetRoleTypes DEF Insert
  <2> QED BY <1>6, <2>1, CommittedTypes DEF Insert
<1>7. ASSUME NEW c \in Call, Lock(c) \/ Count(c) PROVE OrgTypeOK'
  BY <1>7 DEF Lock, Count
<1>8. ASSUME NEW c \in Call, Delete(c) PROVE OrgTypeOK'
  <2>1. role' \in [Org -> [User -> Roles]]
    BY <1>8, SetRoleTypes DEF Delete
  <2> QED BY <1>8, <2>1, CommittedTypes DEF Delete
<1>9. ASSUME NEW c \in Call, Fail(c) \/ \E what \in Answers : Handle(c, what) PROVE OrgTypeOK'
  BY <1>9 DEF Fail, Handle, Answers
<1>10. ASSUME NEW o \in Org, SetStatus(o) PROVE OrgTypeOK'
  BY <1>10 DEF SetStatus, handlers
<1>11. CASE UNCHANGED orgVars
  BY <1>11 DEF orgVars, handlers
<1> QED BY <1>1, <1>2, <1>3, <1>4, <1>5, <1>6, <1>7, <1>8, <1>9, <1>10, <1>11
        DEF OrgNext, MemberStep

LEMMA AskedStep == ASSUME OrgInv, [OrgNext]_orgVars, NEW d \in Call PROVE Asked(d)'
<1> USE DEF OrgInv, OrgTypeOK, Asked, Goto, Finish, Committed, TenantFree, OwnerOnly
<1>1. ASSUME NEW c \in Call, NEW a \in Ask, Arrive(c, a) PROVE Asked(d)'
  BY <1>1 DEF Arrive, tenants
<1>2. ASSUME NEW c \in Call, ReadMembership(c) PROVE Asked(d)'
  <2> DEFINE r == role[asked[c].org][asked[c].user]
  <2>1. asked[c].org \in Org /\ asked[c].user \in User
    BY <1>2, AskFields DEF ReadMembership
  <2>2. r # "NONE" => orgStatus[asked[c].org] # "ABSENT"
    BY <2>1 DEF Founded
  <2>3. asRole' = [asRole EXCEPT ![c] = r] /\ UNCHANGED <<orgStatus, asked>>
    BY <1>2 DEF ReadMembership, tenants
  <2>4. CASE r = "NONE"
    BY <1>2, <2>3, <2>4 DEF ReadMembership
  <2>5. CASE r # "NONE"
    <3>1. pc' = [pc EXCEPT ![c] = "status"] /\ pc[c] = "membership"
      BY <1>2, <2>5 DEF ReadMembership
    <3>2. asked[c].op \notin TenantFree
      BY <3>1
    <3>3. CASE d = c
      BY <2>2, <2>3, <2>5, <3>1, <3>2, <3>3
    <3>4. CASE d # c
      BY <2>3, <3>1, <3>4
    <3> QED BY <3>3, <3>4
  <2> QED BY <2>4, <2>5
<1>3. ASSUME NEW c \in Call, Admit(c) PROVE Asked(d)'
  BY <1>3 DEF Admit, tenants
<1>4. ASSUME NEW c \in Call, Create(c) PROVE Asked(d)'
  <2>1. \A o \in Org : orgStatus[o] # "ABSENT" => orgStatus'[o] # "ABSENT"
    BY <1>4 DEF Create, tenants
  <2>2. asked[d] \in Ask => asked[d].org \in Org
    BY AskFields
  <2>3. UNCHANGED <<asked, asRole>> /\ pc' = [pc EXCEPT ![c] = "done"]
    BY <1>4 DEF Create
  <2>4. CASE d = c
    BY <2>3, <2>4
  <2>5. CASE d # c
    BY <2>1, <2>2, <2>3, <2>5
  <2> QED BY <2>4, <2>5
<1>5. ASSUME NEW c \in Call, Lookup(c) \/ Insert(c) \/ Lock(c) \/ Count(c) \/ Delete(c)
      PROVE  Asked(d)'
  BY <1>5 DEF Lookup, Insert, Lock, Count, Delete, tenants
<1>6. ASSUME NEW c \in Call, Fail(c) \/ \E what \in Answers : Handle(c, what) PROVE Asked(d)'
  BY <1>6 DEF Fail, Handle, tenants
<1>7. ASSUME NEW o \in Org, SetStatus(o) PROVE Asked(d)'
  <2>1. \A x \in Org : orgStatus[x] # "ABSENT" => orgStatus'[x] # "ABSENT"
    BY <1>7 DEF SetStatus
  <2>2. asked'[d] \in Ask => asked'[d].org \in Org
    BY AskFields
  <2> QED BY <1>7, <2>1, <2>2 DEF SetStatus, handlers
<1>8. CASE UNCHANGED orgVars
  BY <1>8 DEF orgVars, handlers, tenants
<1> QED BY <1>1, <1>2, <1>3, <1>4, <1>5, <1>6, <1>7, <1>8 DEF OrgNext, MemberStep

\* Only Lock makes a call a holder, and only when there is none; a holder's request
\* stays what it is.
LEMMA HolderStep == ASSUME OrgInv, [OrgNext]_orgVars PROVE Holder'
<1> USE DEF OrgInv, OrgTypeOK, Holder, Holding, Goto, Finish, Committed
<1>1. ASSUME NEW c \in Call, NEW a \in Ask, Arrive(c, a) PROVE Holder'
  BY <1>1 DEF Arrive, TenantFree
<1>2. ASSUME NEW c \in Call, ReadMembership(c) \/ Admit(c) PROVE Holder'
  BY <1>2 DEF ReadMembership, Admit
<1>3. ASSUME NEW c \in Call, Create(c) \/ Lookup(c) \/ Insert(c) PROVE Holder'
  BY <1>3 DEF Create, Lookup, Insert
<1>4. ASSUME NEW c \in Call, Lock(c) PROVE Holder'
  BY <1>4 DEF Lock, RowFree
<1>5. ASSUME NEW c \in Call, Count(c) \/ Delete(c) PROVE Holder'
  BY <1>5 DEF Count, Delete
<1>6. ASSUME NEW c \in Call, Fail(c) \/ \E what \in Answers : Handle(c, what) PROVE Holder'
  BY <1>6 DEF Fail, Handle
<1>7. ASSUME NEW o \in Org, SetStatus(o) PROVE Holder'
  BY <1>7 DEF SetStatus, handlers
<1>8. CASE UNCHANGED orgVars
  BY <1>8 DEF orgVars, handlers
<1> QED BY <1>1, <1>2, <1>3, <1>4, <1>5, <1>6, <1>7, <1>8 DEF OrgNext, MemberStep

\* Roles change in three steps, and only Delete takes an owner away.
LEMMA OwnersKept ==
  ASSUME OrgInv, [OrgNext]_orgVars, NEW o \in Org
  PROVE  \/ Owners(o) \subseteq Owners(o)'
         \/ \E c \in Call : /\ pc[c] = "delete" /\ asked[c].org = o
                            /\ Delete(c)
                            /\ Owners(o)' = Owners(o) \ {asked[c].target}
<1> USE DEF OrgInv, OrgTypeOK, Owners, SetRole, Roles
<1>1. ASSUME NEW c \in Call, Create(c) PROVE Owners(o) \subseteq Owners(o)'
  BY <1>1 DEF Create, tenants
<1>2. ASSUME NEW c \in Call, Insert(c) PROVE Owners(o) \subseteq Owners(o)'
  BY <1>2 DEF Insert
<1>3. ASSUME NEW c \in Call, Delete(c)
      PROVE  \/ Owners(o) \subseteq Owners(o)'
             \/ asked[c].org = o /\ Owners(o)' = Owners(o) \ {asked[c].target}
  BY <1>3 DEF Delete
<1>4. ASSUME role' = role PROVE Owners(o) \subseteq Owners(o)'
  BY <1>4
<1>5. ASSUME NEW c \in Call,
             \/ \E a \in Ask : Arrive(c, a)
             \/ ReadMembership(c) \/ Admit(c) \/ Lookup(c) \/ Lock(c) \/ Count(c) \/ Fail(c)
             \/ \E what \in Answers : Handle(c, what)
      PROVE  role' = role
  BY <1>5 DEF Arrive, ReadMembership, Admit, Lookup, Lock, Count, Fail, Handle, tenants
<1>6. ASSUME NEW x \in Org, SetStatus(x) PROVE role' = role
  BY <1>6 DEF SetStatus
<1>7. CASE UNCHANGED orgVars
  BY <1>7 DEF orgVars, tenants
<1> QED BY <1>1, <1>2, <1>3, <1>4, <1>5, <1>6, <1>7 DEF OrgNext, MemberStep, Delete

LEMMA SafeStep == ASSUME OrgInv, [OrgNext]_orgVars PROVE Safe'
<1> SUFFICES ASSUME NEW d \in Call, pc'[d] = "delete", NEW o, NEW u, asked'[d].org = o, asked'[d].target = u
             PROVE  ~(Owners(o)' \subseteq {u})
  BY DEF Safe, Owners
<1> USE DEF OrgInv, OrgTypeOK, Goto, Finish, Committed
<1>1. CASE pc[d] = "delete"
  <2>1. asked'[d] = asked[d]
    <3>1. ASSUME NEW c \in Call, NEW a \in Ask, Arrive(c, a) PROVE asked'[d] = asked[d]
      BY <1>1, <3>1 DEF Arrive
    <3>2. ASSUME NEW c \in Call, MemberStep(c), \A a \in Ask : ~Arrive(c, a)
          PROVE  asked' = asked
      BY <3>2 DEF MemberStep, ReadMembership, Admit, Create, Lookup, Insert, Lock, Count, Delete, Fail
    <3>3. ASSUME NEW c \in Call, NEW what \in Answers, Handle(c, what) PROVE asked' = asked
      BY <3>3 DEF Handle
    <3>4. ASSUME NEW x \in Org, SetStatus(x) PROVE asked' = asked
      BY <3>4 DEF SetStatus, handlers
    <3>5. CASE UNCHANGED orgVars
      BY <3>5 DEF orgVars, handlers
    <3> QED BY <3>1, <3>2, <3>3, <3>4, <3>5 DEF OrgNext
  <2>2. o \in Org
    BY <1>1, <2>1, AskFields DEF Asked
  <2>3. ~(Owners(o) \subseteq {u})
    BY <1>1, <2>1 DEF Safe
  <2>4. ASSUME NEW c \in Call, pc[c] = "delete", asked[c].org = o, Delete(c)
        PROVE  FALSE
    <3>1. c = d
      BY <1>1, <2>1, <2>4 DEF Holder, Holding
    <3> QED BY <2>4, <3>1 DEF Delete
  <2> QED BY <2>2, <2>3, <2>4, OwnersKept
<1>2. CASE pc[d] # "delete"
  <2>1. ASSUME NEW c \in Call, NEW a \in Ask, Arrive(c, a) PROVE FALSE
    BY <1>2, <2>1 DEF Arrive
  <2>2. ASSUME NEW c \in Call, MemberStep(c), ~Count(c), \A a \in Ask : ~Arrive(c, a) PROVE FALSE
    BY <1>2, <2>2 DEF MemberStep, ReadMembership, Admit, Create, Lookup, Insert, Lock, Delete, Fail
  <2>3. ASSUME NEW c \in Call, NEW what \in Answers, Handle(c, what) PROVE FALSE
    BY <1>2, <2>3 DEF Handle
  <2>4. ASSUME NEW x \in Org, SetStatus(x) PROVE FALSE
    BY <1>2, <2>4 DEF SetStatus, handlers
  <2>5. CASE UNCHANGED orgVars
    BY <1>2, <2>5 DEF orgVars, handlers
  <2>6. ASSUME NEW c \in Call, Count(c) PROVE ~(Owners(o)' \subseteq {u})
    <3>1. c = d /\ UNCHANGED <<role, asked>>
      BY <1>2, <2>6 DEF Count, tenants
    <3>2. asked[d].op \in OwnerOnly /\ asked[d] \in Ask /\ orgStatus[o] # "ABSENT"
      BY <2>6, <3>1 DEF Count, Asked, OwnerOnly
    <3>3. o \in Org /\ u \in User
      BY <3>1, <3>2, AskFields
    <3>4. role[o][u] = "MEMBER" \/ ~(Owners(o) \subseteq {u})
      BY <1>2, <2>6, <3>1 DEF Count
    <3>5. CASE role[o][u] = "MEMBER"
      BY <3>1, <3>2, <3>3, <3>5 DEF Founded, KeepsAnOwner, Owners
    <3>6. CASE ~(Owners(o) \subseteq {u})
      BY <3>1, <3>6 DEF Owners
    <3> QED BY <3>4, <3>5, <3>6
  <2> QED BY <2>1, <2>2, <2>3, <2>4, <2>5, <2>6 DEF OrgNext
<1> QED BY <1>1, <1>2

LEMMA FoundedStep == ASSUME OrgInv, [OrgNext]_orgVars PROVE Founded'
<1> USE DEF OrgInv, OrgTypeOK
<1>1. ASSUME NEW o \in Org
      PROVE  /\ orgStatus'[o] # "ABSENT" => Owners(o)' # {}
             /\ \A u \in User : role'[o][u] # "NONE" => orgStatus'[o] # "ABSENT"
  <2>1. ASSUME role' = role, orgStatus' = orgStatus
        PROVE  /\ orgStatus'[o] # "ABSENT" => Owners(o)' # {}
               /\ \A u \in User : role'[o][u] # "NONE" => orgStatus'[o] # "ABSENT"
    BY <2>1 DEF Founded, KeepsAnOwner, Owners
  <2>2. ASSUME NEW c \in Call, Create(c)
        PROVE  /\ orgStatus'[o] # "ABSENT" => Owners(o)' # {}
               /\ \A u \in User : role'[o][u] # "NONE" => orgStatus'[o] # "ABSENT"
    <3>1. asked[c].org \in Org /\ asked[c].user \in User
      BY <2>2, AskFields DEF Create, Asked
    <3>2. CASE orgStatus[asked[c].org] = "ABSENT"
      BY <2>2, <3>1, <3>2 DEF Create, Founded, KeepsAnOwner, Owners, SetRole
    <3>3. CASE orgStatus[asked[c].org] # "ABSENT"
      BY <2>2, <3>3 DEF Create, Founded, KeepsAnOwner, Owners, tenants
    <3> QED BY <3>2, <3>3
  <2>3. ASSUME NEW c \in Call, Insert(c)
        PROVE  /\ orgStatus'[o] # "ABSENT" => Owners(o)' # {}
               /\ \A u \in User : role'[o][u] # "NONE" => orgStatus'[o] # "ABSENT"
    <3>1. orgStatus[asked[c].org] # "ABSENT"
      BY <2>3 DEF Insert, Asked
    <3>2. CASE role[asked[c].org][asked[c].target] = "NONE"
      <4>1. role' = [role EXCEPT ![asked[c].org][asked[c].target] = "MEMBER"]
        BY <2>3, <3>2 DEF Insert, SetRole
      <4>2. Owners(o) \subseteq Owners(o)'
        BY <3>2, <4>1 DEF Owners
      <4>3. \A u \in User : role'[o][u] # "NONE" => role[o][u] # "NONE" \/ o = asked[c].org
        BY <4>1
      <4>4. orgStatus' = orgStatus
        BY <2>3 DEF Insert
      <4> QED BY <3>1, <4>2, <4>3, <4>4 DEF Founded, KeepsAnOwner
    <3>3. CASE role[asked[c].org][asked[c].target] # "NONE"
      BY <2>3, <2>1, <3>3 DEF Insert
    <3> QED BY <3>2, <3>3
  <2>4. ASSUME NEW c \in Call, Delete(c)
        PROVE  /\ orgStatus'[o] # "ABSENT" => Owners(o)' # {}
               /\ \A u \in User : role'[o][u] # "NONE" => orgStatus'[o] # "ABSENT"
    <3>1. ~(Owners(asked[c].org) \subseteq {asked[c].target})
      BY <2>4 DEF Delete, Safe
    <3>2. CASE asked[c].org = o
      <4>1. PICK v \in Owners(o) : v # asked[c].target
        BY <3>1, <3>2
      <4>2. v \in User /\ role'[o][v] = "OWNER"
        BY <2>4, <3>2, <4>1 DEF Delete, SetRole, Owners
      <4>3. \A w \in User : role'[o][w] # "NONE" => role[o][w] # "NONE"
        BY <2>4, <3>2 DEF Delete, SetRole
      <4>4. orgStatus' = orgStatus
        BY <2>4 DEF Delete
      <4> QED BY <4>2, <4>3, <4>4 DEF Founded, Owners
    <3>3. CASE asked[c].org # o
      BY <2>4, <3>3 DEF Delete, SetRole, Founded, KeepsAnOwner, Owners
    <3> QED BY <3>2, <3>3
  <2>5. ASSUME NEW c \in Call,
               \/ \E a \in Ask : Arrive(c, a)
               \/ ReadMembership(c) \/ Admit(c) \/ Lookup(c) \/ Lock(c) \/ Count(c) \/ Fail(c)
               \/ \E what \in Answers : Handle(c, what)
        PROVE  role' = role /\ orgStatus' = orgStatus
    BY <2>5 DEF Arrive, ReadMembership, Admit, Lookup, Lock, Count, Fail, Handle, tenants
  <2>6. ASSUME NEW x \in Org, SetStatus(x)
        PROVE  /\ orgStatus'[o] # "ABSENT" => Owners(o)' # {}
               /\ \A u \in User : role'[o][u] # "NONE" => orgStatus'[o] # "ABSENT"
    BY <2>6 DEF SetStatus, Founded, KeepsAnOwner, Owners
  <2>7. CASE UNCHANGED orgVars
    BY <2>1, <2>7 DEF orgVars, tenants
  <2> QED BY <2>1, <2>2, <2>3, <2>4, <2>5, <2>6, <2>7 DEF OrgNext, MemberStep
<1> QED BY <1>1 DEF Founded, KeepsAnOwner

LEMMA OrgInitially == OrgInit => OrgInv
<1> SUFFICES ASSUME OrgInit PROVE OrgInv
  OBVIOUS
<1> USE NoneIsNoAsk, TablesHaveOwners DEF OrgInit
<1>1. OrgTypeOK
  BY DEF OrgTypeOK, Roles
<1>2. \A c \in Call : Asked(c)
  BY DEF Asked
<1>3. Holder /\ Safe
  BY DEF Holder, Holding, Safe
<1>4. Founded
  BY DEF Founded, KeepsAnOwner, Owners
<1> QED BY <1>1, <1>2, <1>3, <1>4 DEF OrgInv

LEMMA OrgInductive == OrgInv /\ [OrgNext]_orgVars => OrgInv'
BY OrgTypeStep, AskedStep, HolderStep, SafeStep, FoundedStep DEF OrgInv

-----------------------------------------------------------------------------
\* The tables and the calls keep their types.
THEOREM OrgTypeCorrect == OrgSpec => []OrgTypeOK
<1>1. OrgInv => OrgTypeOK
  BY DEF OrgInv
<1> QED BY <1>1, OrgInitially, OrgInductive, PTL DEF OrgSpec

\* "An organization retains at least one owner", for any number of owners removing
\* each other at once.
THEOREM OwnerAlways == OrgSpec => []KeepsAnOwner
<1>1. OrgInv => KeepsAnOwner
  BY DEF OrgInv, Founded
<1> QED BY <1>1, OrgInitially, OrgInductive, PTL DEF OrgSpec

-----------------------------------------------------------------------------
(***************************************************************************)
(* Membership rows and the answers about them.                             *)
(***************************************************************************)
Account(done, o, u) ==
  /\ IsFiniteSet(Founders(done, o, u))
  /\ IsFiniteSet(Told(done, "add", o, u))
  /\ IsFiniteSet(Told(done, "remove", o, u))
  /\ Cardinality(Founders(done, o, u)) + Cardinality(Told(done, "add", o, u))
       - Cardinality(Told(done, "remove", o, u))
       \in IF role[o][u] = "NONE" THEN {-1, 0} ELSE {0, 1}

\* Done has who was told it did it, and otherwise only calls that failed.
Candidate(done) == \E lost \in SUBSET {c \in Call : answer[c] = "ERROR"} :
                     done = {c \in Call : answer[c] = "OK"} \cup lost

Booked(done) == Candidate(done) /\ \A o \in Org, u \in User : Account(done, o, u)

\* A call is answered at its end, and what it is about to delete is there.
Answering ==
  /\ \A c \in Call : answer[c] # "NONE" => pc[c] = "done"
  /\ \A c \in Call : pc[c] = "delete" => role[asked[c].org][asked[c].target] # "NONE"

Books == Answering /\ \E done : Booked(done)

\* A call under way is in no candidate.
LEMMA Undone ==
  ASSUME Answering, NEW done, Candidate(done), NEW c \in Call, pc[c] # "done"
  PROVE  c \notin done /\ answer[c] = "NONE"
BY DEF Answering, Candidate

\* A call is answered once, and nobody else's answer changes: a failed one may join
\* the candidate or not, and one that was told it did it joins it.
LEMMA OneAnswer ==
  ASSUME OrgInv, Answering, NEW done, Candidate(done),
         NEW c \in Call, pc[c] # "done", NEW what, Finish(c, what)
  PROVE  /\ what # "OK" => Candidate(done)'
         /\ what \in {"OK", "ERROR"} => Candidate(done \cup {c})'
<1>1. \A d \in Call : answer'[d] = IF d = c THEN what ELSE answer[d]
  BY DEF OrgInv, OrgTypeOK, Finish
<1>2. answer[c] = "NONE"
  BY Undone
<1>3. PICK lost \in SUBSET {d \in Call : answer[d] = "ERROR"} :
        done = {d \in Call : answer[d] = "OK"} \cup lost
  BY DEF Candidate
<1>4. lost \in SUBSET {d \in Call : answer'[d] = "ERROR"}
  BY <1>1, <1>2
<1>5. ASSUME what # "OK" PROVE Candidate(done)'
  <2>1. {d \in Call : answer'[d] = "OK"} = {d \in Call : answer[d] = "OK"}
    BY <1>1, <1>2, <1>5
  <2> QED BY <1>3, <1>4, <2>1 DEF Candidate
<1>6. ASSUME what = "OK" PROVE Candidate(done \cup {c})'
  <2>1. {d \in Call : answer'[d] = "OK"} = {d \in Call : answer[d] = "OK"} \cup {c}
    BY <1>1, <1>2, <1>6
  <2> QED BY <1>3, <1>4, <2>1 DEF Candidate
<1>7. ASSUME what = "ERROR" PROVE Candidate(done \cup {c})'
  <2>1. {d \in Call : answer'[d] = "OK"} = {d \in Call : answer[d] = "OK"}
    BY <1>1, <1>2, <1>7
  <2>2. lost \cup {c} \in SUBSET {d \in Call : answer'[d] = "ERROR"}
    BY <1>1, <1>4, <1>7
  <2> QED BY <1>3, <2>1, <2>2 DEF Candidate
<1> QED BY <1>5, <1>6, <1>7

\* The account of one membership when nobody's answer is about it.
LEMMA AccountStands ==
  ASSUME NEW done, NEW next, NEW o, NEW u, Account(done, o, u),
         Founders(next, o, u)' = Founders(done, o, u),
         Told(next, "add", o, u)' = Told(done, "add", o, u),
         Told(next, "remove", o, u)' = Told(done, "remove", o, u),
         role'[o][u] = "NONE" <=> role[o][u] = "NONE"
  PROVE  Account(next, o, u)'
BY DEF Account

\* One more, and the account with it.
LEMMA OneMore ==
  ASSUME NEW S, IsFiniteSet(S), NEW x, x \notin S
  PROVE  /\ IsFiniteSet(S \cup {x})
         /\ Cardinality(S) \in Nat
         /\ Cardinality(S \cup {x}) = Cardinality(S) + 1
BY FS_AddElement, FS_CardinalityType

LEMMA Counts ==
  ASSUME NEW done, NEW o, NEW u, Account(done, o, u)
  PROVE  /\ Cardinality(Founders(done, o, u)) \in Nat
         /\ Cardinality(Told(done, "add", o, u)) \in Nat
         /\ Cardinality(Told(done, "remove", o, u)) \in Nat
BY FS_CardinalityType DEF Account

\* A step that changes no membership and answers with a refusal or a failure.
LEMMA Refused ==
  ASSUME OrgInv, Answering, NEW done, Booked(done), NEW c \in Call, pc[c] # "done",
         NEW what, what # "OK", UNCHANGED <<role, asked>>, Finish(c, what)
  PROVE  Booked(done)'
<1>1. Candidate(done)'
  BY OneAnswer DEF Booked
<1> QED BY <1>1 DEF Booked, Account, Told, Founders

\* A step that changes no membership and acknowledges nothing that does.
LEMMA Elsewhere ==
  ASSUME OrgInv, Answering, NEW done, Booked(done), NEW c \in Call, pc[c] # "done",
         UNCHANGED <<role, asked>>, Finish(c, "OK"), asked[c].op \notin {"create", "add", "remove"}
  PROVE  Booked(done \cup {c})'
<1>1. Candidate(done \cup {c})'
  BY OneAnswer DEF Booked
<1>2. ASSUME NEW o \in Org, NEW u \in User PROVE Account(done \cup {c}, o, u)'
  <2>1. /\ Founders(done \cup {c}, o, u)' = Founders(done, o, u)
        /\ Told(done \cup {c}, "add", o, u)' = Told(done, "add", o, u)
        /\ Told(done \cup {c}, "remove", o, u)' = Told(done, "remove", o, u)
    BY DEF Told, Founders
  <2> QED BY <2>1, AccountStands DEF Booked
<1> QED BY <1>1, <1>2 DEF Booked

\* Create and Insert write a row that was not there.
LEMMA Joined ==
  ASSUME OrgInv, Answering, NEW done, Booked(done), NEW c \in Call, pc[c] # "done",
         UNCHANGED asked, Committed(c),
         NEW o \in Org, NEW u \in User, role[o][u] = "NONE", NEW r \in {"OWNER", "MEMBER"},
         SetRole(o, u, r),
         \/ asked[c].op = "create" /\ asked[c].org = o /\ asked[c].user = u
         \/ asked[c].op = "add" /\ asked[c].org = o /\ asked[c].target = u
  PROVE  Booked(done \cup {c})'
<1> SUFFICES ASSUME NEW next, next = done \cup {c} PROVE Booked(next)'
  OBVIOUS
<1>0. Candidate(next)' /\ c \notin done
  BY OneAnswer, Undone DEF Committed, Booked
<1>1. ASSUME NEW x \in Org, NEW v \in User, x # o \/ v # u PROVE Account(next, x, v)'
  <2>1. /\ Founders(next, x, v)' = Founders(done, x, v)
        /\ Told(next, "add", x, v)' = Told(done, "add", x, v)
        /\ Told(next, "remove", x, v)' = Told(done, "remove", x, v)
    BY <1>1 DEF Told, Founders
  <2>2. role'[x][v] = role[x][v]
    BY <1>1 DEF SetRole, OrgInv, OrgTypeOK
  <2> QED BY <2>1, <2>2, AccountStands DEF Booked
<1>2. Account(next, o, u)'
  <2>1. role'[o][u] # "NONE"
    BY DEF SetRole, OrgInv, OrgTypeOK
  <2>2. Account(done, o, u)
    BY DEF Booked
  <2>3. Told(next, "remove", o, u)' = Told(done, "remove", o, u)
    BY DEF Told
  <2>4. c \notin Founders(done, o, u) /\ c \notin Told(done, "add", o, u)
    BY <1>0 DEF Told, Founders
  <2>5. CASE asked[c].op = "create"
    <3>1. /\ Founders(next, o, u)' = Founders(done, o, u) \cup {c}
          /\ Told(next, "add", o, u)' = Told(done, "add", o, u)
      BY <2>5 DEF Told, Founders
    <3>2. /\ IsFiniteSet(Founders(next, o, u)')
          /\ Cardinality(Founders(next, o, u)') = Cardinality(Founders(done, o, u)) + 1
      BY <2>2, <2>4, <3>1, OneMore DEF Account
    <3> QED BY <2>1, <2>2, <2>3, <3>1, <3>2, Counts DEF Account
  <2>6. CASE asked[c].op = "add"
    <3>1. /\ Told(next, "add", o, u)' = Told(done, "add", o, u) \cup {c}
          /\ Founders(next, o, u)' = Founders(done, o, u)
      BY <2>6 DEF Told, Founders
    <3>2. /\ IsFiniteSet(Told(next, "add", o, u)')
          /\ Cardinality(Told(next, "add", o, u)') = Cardinality(Told(done, "add", o, u)) + 1
      BY <2>2, <2>4, <3>1, OneMore DEF Account
    <3> QED BY <2>1, <2>2, <2>3, <3>1, <3>2, Counts DEF Account
  <2> QED BY <2>5, <2>6
<1> QED BY <1>0, <1>1, <1>2 DEF Booked

\* Delete takes a row that is there.
LEMMA Left ==
  ASSUME OrgInv, Answering, NEW done, Booked(done), NEW c \in Call, Delete(c),
         NEW o \in Org, NEW u \in User, asked[c].org = o, asked[c].target = u
  PROVE  Booked(done \cup {c})'
<1> SUFFICES ASSUME NEW next, next = done \cup {c} PROVE Booked(next)'
  OBVIOUS
<1>0. asked[c].op = "remove" /\ pc[c] = "delete" /\ UNCHANGED asked
  BY DEF Delete, OrgInv, Asked
<1>1. Candidate(next)' /\ c \notin done
  BY <1>0, OneAnswer, Undone DEF Delete, Committed, Booked
<1>2. ASSUME NEW x \in Org, NEW v \in User, x # o \/ v # u PROVE Account(next, x, v)'
  <2>1. /\ Founders(next, x, v)' = Founders(done, x, v)
        /\ Told(next, "add", x, v)' = Told(done, "add", x, v)
        /\ Told(next, "remove", x, v)' = Told(done, "remove", x, v)
    BY <1>0, <1>2 DEF Told, Founders
  <2>2. role'[x][v] = role[x][v]
    BY <1>2 DEF Delete, SetRole, OrgInv, OrgTypeOK
  <2> QED BY <2>1, <2>2, AccountStands DEF Booked
<1>3. Account(next, o, u)'
  <2>1. role'[o][u] = "NONE" /\ role[o][u] # "NONE"
    BY <1>0 DEF Delete, SetRole, Answering, OrgInv, OrgTypeOK
  <2>2. Account(done, o, u)
    BY DEF Booked
  <2>3. /\ Founders(next, o, u)' = Founders(done, o, u)
        /\ Told(next, "add", o, u)' = Told(done, "add", o, u)
    BY <1>0 DEF Told, Founders
  <2>4. c \notin Told(done, "remove", o, u)
    BY <1>1 DEF Told
  <2>5. Told(next, "remove", o, u)' = Told(done, "remove", o, u) \cup {c}
    BY <1>0 DEF Told
  <2>6. /\ IsFiniteSet(Told(next, "remove", o, u)')
        /\ Cardinality(Told(next, "remove", o, u)') = Cardinality(Told(done, "remove", o, u)) + 1
    <3>1. IsFiniteSet(Told(done, "remove", o, u))
      BY <2>2 DEF Account
    <3>2. /\ IsFiniteSet(Told(done, "remove", o, u) \cup {c})
          /\ Cardinality(Told(done, "remove", o, u) \cup {c})
               = Cardinality(Told(done, "remove", o, u)) + 1
      BY <2>4, <3>1, OneMore
    <3> QED BY <2>5, <3>2
  <2> QED BY <2>1, <2>2, <2>3, <2>6, Counts DEF Account
<1> QED BY <1>1, <1>2, <1>3 DEF Booked

\* Every step leaves calls that account for the rows.
LEMMA BookedStep ==
  ASSUME OrgInv, Answering, NEW done, Booked(done), [OrgNext]_orgVars
  PROVE  \E next : Booked(next)'
<1>1. ASSUME UNCHANGED <<role, asked, answer>> PROVE Booked(done)'
  BY <1>1 DEF Booked, Candidate, Account, Told, Founders
<1>2. ASSUME NEW c \in Call, NEW a \in Ask, Arrive(c, a) PROVE Booked(done)'
  <2>1. UNCHANGED <<role, answer>> /\ \A d \in Call : d # c => asked'[d] = asked[d]
    BY <1>2 DEF Arrive, tenants, OrgInv, OrgTypeOK
  <2>2. done \subseteq Call /\ c \notin done
    BY <1>2, Undone DEF Arrive, Booked, Candidate
  <2>3. ASSUME NEW o, NEW u
        PROVE  Founders(done, o, u)' = Founders(done, o, u)
               /\ \A op : Told(done, op, o, u)' = Told(done, op, o, u)
    BY <2>1, <2>2 DEF Founders, Told
  <2>4. Candidate(done)'
    BY <2>1 DEF Booked, Candidate
  <2> QED BY <2>1, <2>3, <2>4, AccountStands DEF Booked
<1>3. ASSUME NEW c \in Call, ReadMembership(c) \/ Admit(c) \/ Lookup(c) \/ Lock(c) \/ Count(c) \/ Fail(c)
      PROVE  Booked(done)'
  <2>1. UNCHANGED <<role, asked>> /\ pc[c] # "done"
    BY <1>3 DEF ReadMembership, Admit, Lookup, Lock, Count, Fail, tenants
  <2>2. \/ UNCHANGED answer
        \/ \E what \in {"FORBIDDEN", "ALREADY_A_MEMBER", "NOT_FOUND", "LAST_OWNER", "ERROR"} : Finish(c, what)
    BY <1>3 DEF ReadMembership, Admit, Lookup, Lock, Count, Fail
  <2> QED BY <1>1, <2>1, <2>2, Refused
<1>4. ASSUME NEW c \in Call, NEW what \in Answers, Handle(c, what) PROVE \E next : Booked(next)'
  <2>1. /\ asked[c].op \notin {"create", "add", "remove"} /\ pc[c] # "done"
        /\ UNCHANGED <<role, asked>> /\ Finish(c, what)
    BY <1>4 DEF Handle, OrgInv, Asked, tenants
  <2>2. CASE what = "OK"
    BY <2>1, <2>2, Elsewhere
  <2>3. CASE what # "OK"
    BY <2>1, <2>3, Refused
  <2> QED BY <2>2, <2>3
<1>5. ASSUME NEW c \in Call, Create(c) PROVE \E next : Booked(next)'
  <2>1. /\ asked[c].op = "create" /\ asked[c].org \in Org /\ asked[c].user \in User
        /\ pc[c] = "create"
    BY <1>5, AskFields DEF Create, OrgInv, Asked
  <2>2. CASE orgStatus[asked[c].org] = "ABSENT"
    <3>1. role[asked[c].org][asked[c].user] = "NONE"
      BY <2>1, <2>2 DEF OrgInv, Founded
    <3>2. /\ UNCHANGED asked /\ Committed(c)
          /\ SetRole(asked[c].org, asked[c].user, "OWNER")
      BY <1>5, <2>2 DEF Create
    <3>3. Booked(done \cup {c})'
      BY <2>1, <3>1, <3>2, Joined
    <3> QED BY <3>3
  <2>3. CASE orgStatus[asked[c].org] # "ABSENT"
    <3>1. Booked(done)'
      BY <1>5, <2>1, <2>3, Refused DEF Create, tenants
    <3> QED BY <3>1
  <2> QED BY <2>2, <2>3
<1>6. ASSUME NEW c \in Call, Insert(c) PROVE \E next : Booked(next)'
  <2>1. asked[c].op = "add" /\ asked[c].org \in Org /\ asked[c].target \in User /\ pc[c] = "insert"
    BY <1>6, AskFields DEF Insert, OrgInv, Asked, OwnerOnly
  <2>2. CASE role[asked[c].org][asked[c].target] = "NONE"
    <3>1. /\ UNCHANGED asked /\ Committed(c)
          /\ SetRole(asked[c].org, asked[c].target, "MEMBER")
      BY <1>6, <2>2 DEF Insert
    <3>2. Booked(done \cup {c})'
      BY <2>1, <2>2, <3>1, Joined
    <3> QED BY <3>2
  <2>3. CASE role[asked[c].org][asked[c].target] # "NONE"
    <3>1. Booked(done)'
      BY <1>6, <2>1, <2>3, Refused DEF Insert
    <3> QED BY <3>1
  <2> QED BY <2>2, <2>3
<1>7. ASSUME NEW c \in Call, Delete(c) PROVE \E next : Booked(next)'
  <2>1. asked[c].org \in Org /\ asked[c].target \in User
    BY <1>7, AskFields DEF Delete, OrgInv, Asked, OwnerOnly
  <2>2. Booked(done \cup {c})'
    BY <1>7, <2>1, Left
  <2> QED BY <2>2
<1>8. ASSUME NEW o \in Org, SetStatus(o) PROVE Booked(done)'
  BY <1>1, <1>8 DEF SetStatus, handlers
<1>9. CASE UNCHANGED orgVars
  BY <1>1, <1>9 DEF orgVars, handlers, tenants
<1> QED BY <1>2, <1>3, <1>4, <1>5, <1>6, <1>7, <1>8, <1>9 DEF OrgNext, MemberStep

\* What was found to be a member stays one while the organization's row is held.
LEMMA PresentStep ==
  ASSUME OrgInv, Answering, [OrgNext]_orgVars, NEW d \in Call, pc'[d] = "delete"
  PROVE  role'[asked'[d].org][asked'[d].target] # "NONE"
<1> USE DEF OrgInv, OrgTypeOK, Answering, Goto, Finish
<1>1. ASSUME NEW c \in Call, NEW a \in Ask, Arrive(c, a)
      PROVE  role'[asked'[d].org][asked'[d].target] # "NONE"
  BY <1>1 DEF Arrive, TenantFree, tenants
<1>2. ASSUME NEW c \in Call,
             ReadMembership(c) \/ Admit(c) \/ Lookup(c) \/ Lock(c) \/ Count(c) \/ Fail(c)
      PROVE  role'[asked'[d].org][asked'[d].target] # "NONE"
  BY <1>2 DEF ReadMembership, Admit, Lookup, Lock, Count, Fail, tenants
<1>3. ASSUME NEW c \in Call, NEW what \in Answers, Handle(c, what)
      PROVE  role'[asked'[d].org][asked'[d].target] # "NONE"
  BY <1>3 DEF Handle, tenants
<1>4. ASSUME NEW c \in Call, Create(c) \/ Insert(c)
      PROVE  role'[asked'[d].org][asked'[d].target] # "NONE"
  <2>1. pc[d] = "delete" /\ asked' = asked
    BY <1>4 DEF Create, Insert, Committed
  <2>2. asked[d].org \in Org /\ asked[d].target \in User
    BY <2>1, AskFields DEF Asked, OwnerOnly
  <2>3. \A o \in Org, u \in User : role[o][u] # "NONE" => role'[o][u] # "NONE"
    BY <1>4 DEF Create, Insert, SetRole, tenants
  <2> QED BY <2>1, <2>2, <2>3
<1>5. ASSUME NEW c \in Call, Delete(c)
      PROVE  role'[asked'[d].org][asked'[d].target] # "NONE"
  <2>1. pc[d] = "delete" /\ d # c /\ asked' = asked
    BY <1>5 DEF Delete, Committed
  <2>2. asked[d].org # asked[c].org
    BY <1>5, <2>1 DEF Delete, Holder, Holding
  <2> QED BY <1>5, <2>1, <2>2 DEF Delete, SetRole
<1>6. ASSUME NEW o \in Org, SetStatus(o)
      PROVE  role'[asked'[d].org][asked'[d].target] # "NONE"
  BY <1>6 DEF SetStatus, handlers
<1>7. CASE UNCHANGED orgVars
  BY <1>7 DEF orgVars, handlers, tenants
<1> QED BY <1>1, <1>2, <1>3, <1>4, <1>5, <1>6, <1>7 DEF OrgNext, MemberStep

LEMMA AnsweredStep ==
  ASSUME OrgInv, Answering, [OrgNext]_orgVars, NEW d \in Call, answer'[d] # "NONE"
  PROVE  pc'[d] = "done"
<1> USE DEF OrgInv, OrgTypeOK, Answering, Goto, Finish
<1>1. ASSUME NEW c \in Call,
             \/ \E a \in Ask : Arrive(c, a)
             \/ ReadMembership(c) \/ Admit(c) \/ Lookup(c) \/ Lock(c) \/ Count(c) \/ Fail(c)
      PROVE  pc'[d] = "done"
  BY <1>1 DEF Arrive, ReadMembership, Admit, Lookup, Lock, Count, Fail
<1>2. ASSUME NEW c \in Call,
             Create(c) \/ Insert(c) \/ Delete(c) \/ \E what \in Answers : Handle(c, what)
      PROVE  pc'[d] = "done"
  BY <1>2 DEF Create, Insert, Delete, Handle, Committed
<1>3. ASSUME NEW o \in Org, SetStatus(o) PROVE pc'[d] = "done"
  BY <1>3 DEF SetStatus, handlers
<1>4. CASE UNCHANGED orgVars
  BY <1>4 DEF orgVars, handlers
<1> QED BY <1>1, <1>2, <1>3, <1>4 DEF OrgNext, MemberStep

LEMMA BooksInitially == OrgInit => Books
<1> SUFFICES ASSUME OrgInit PROVE Books
  OBVIOUS
<1>1. Answering
  BY DEF OrgInit, Answering
<1>3. Candidate({})
  <2>1. {c \in Call : answer[c] = "OK"} = {}
    BY DEF OrgInit
  <2> QED BY <2>1 DEF Candidate
<1>2. ASSUME NEW o \in Org, NEW u \in User PROVE Account({}, o, u)
  <2>1. Founders({}, o, u) = {} /\ Told({}, "add", o, u) = {} /\ Told({}, "remove", o, u) = {}
    BY DEF Founders, Told
  <2>2. IsFiniteSet({}) /\ Cardinality({}) = 0
    BY FS_EmptySet
  <2> QED BY <2>1, <2>2 DEF Account
<1> QED BY <1>1, <1>3, <1>2 DEF Books, Booked

LEMMA BooksInductive == OrgInv /\ Books /\ [OrgNext]_orgVars => Books'
<1> SUFFICES ASSUME OrgInv, Books, [OrgNext]_orgVars PROVE Books'
  OBVIOUS
<1>1. Answering'
  BY PresentStep, AnsweredStep DEF Books, Answering
<1>2. \E next : Booked(next)'
  BY BookedStep DEF Books
<1> QED BY <1>1, <1>2 DEF Books

\* However additions and removals of one user race, whatever the guards of those
\* calls had read and wherever an answer is lost, the calls that were told they did
\* it, with some of the failed ones, account for the row.
THEOREM AnswersAccount == OrgSpec => []AnswersAccountForMembers
<1>1. Books => AnswersAccountForMembers
  BY DEF Books, Booked, Candidate, Account, AnswersAccountForMembers
<1>2. OrgInit => OrgInv /\ Books
  BY OrgInitially, BooksInitially
<1>3. OrgInv /\ Books /\ [OrgNext]_orgVars => OrgInv' /\ Books'
  BY OrgInductive, BooksInductive
<1> QED BY <1>1, <1>2, <1>3, PTL DEF OrgSpec

-----------------------------------------------------------------------------
(***************************************************************************)
(* Products.                                                               *)
(***************************************************************************)
Kept(c) == /\ stage[c] = "write" => seen[c] # NoProduct
           /\ stage[c] = "write" /\ asked[c].op = "update" => seen[c].status = "DRAFT"
           /\ stage[c] = "write" /\ asked[c].op = "publish" => seen[c].price >= MinPrice
           /\ pc[c] \notin {"handle", "done"} => stage[c] = "read"

CatalogInv == OrgInv /\ TypeOK /\ \A c \in Call : Kept(c)

-----------------------------------------------------------------------------
LEMMA ProductAsk ==
  ASSUME NEW a \in Ask
  PROVE  /\ a.op \in {"update", "publish", "unpublish", "stock", "read"} => a.product \in Product
         /\ a.op \in {"product", "update"} => a.price \in Price
         /\ a.op = "stock" => a.count \in Stock
BY CatalogAsks

\* A products handler does nothing to the organizations but answer.
LEMMA ProductStepIsHandle ==
  ASSUME NEW c \in Call, ProductStep(c)
  PROVE  (\E what \in Answers : Handle(c, what)) \/ UNCHANGED orgVars
BY DEF ProductStep, CreateProduct, Read, CheckPrice, Reprice, Plan, Transition, SetStock, ReadBack,
       List, Reply, Written, Decided, Stay, Answers

LEMMA StepIsOrgStep == [Next]_vars => [OrgNext]_orgVars
<1>1. ASSUME NEW c \in Call, ProductStep(c) PROVE [OrgNext]_orgVars
  BY <1>1, ProductStepIsHandle DEF OrgNext
<1> QED BY <1>1 DEF Next, OrgNext, vars

LEMMA CatalogTypeStep == ASSUME CatalogInv, [Next]_vars PROVE TypeOK'
<1>0. OrgTypeOK'
  BY StepIsOrgStep, OrgTypeStep DEF CatalogInv
<1> USE DEF CatalogInv, TypeOK, Row
<1> SUFFICES /\ product' \in [Product -> Row \cup {NoProduct}]
             /\ available' \in [Product -> Stock \cup {0}]
             /\ stage' \in [Call -> {"read", "write", "readback"}]
             /\ seen' \in [Call -> Row \cup {NoProduct}]
  BY <1>0
<1>1. ASSUME NEW c \in Call, Asks(c, asked[c].op) PROVE asked[c] \in Ask
  BY <1>1 DEF Asks, OrgInv, OrgTypeOK
<1>2. ASSUME NEW c \in Call, CreateProduct(c) PROVE TypeOK'
  <2>1. asked[c].org \in Org /\ asked[c].price \in Price
    BY <1>2, <1>1, AskFields, ProductAsk DEF CreateProduct, Asks
  <2> QED BY <1>0, <1>2, <2>1 DEF CreateProduct
<1>3. ASSUME NEW c \in Call, Read(c) \/ ReadBack(c) \/ List(c) PROVE TypeOK'
  BY <1>0, <1>3 DEF Read, ReadBack, List, catalogVars
<1>4. ASSUME NEW c \in Call, CheckPrice(c) \/ Plan(c) PROVE TypeOK'
  <2>1. asked[c].product \in Product
    BY <1>4, <1>1, ProductAsk DEF CheckPrice, Plan, Asks
  <2> QED BY <1>0, <1>4, <2>1 DEF CheckPrice, Plan, Decided
<1>5. ASSUME NEW c \in Call, Reprice(c) PROVE TypeOK'
  <2>1. asked[c].product \in Product /\ asked[c].price \in Price
    BY <1>5, <1>1, ProductAsk DEF Reprice, Asks
  <2> QED BY <1>0, <1>5, <2>1 DEF Reprice, SetPrice, InScope
<1>6. ASSUME NEW c \in Call, Transition(c) PROVE TypeOK'
  <2>1. asked[c].product \in Product
    BY <1>6, <1>1, ProductAsk DEF Transition, Asks
  <2> QED BY <1>0, <1>6, <2>1 DEF Transition, Target, InScope
<1>7. ASSUME NEW c \in Call, SetStock(c) PROVE TypeOK'
  <2>1. asked[c].count \in Stock
    BY <1>7, <1>1, ProductAsk DEF SetStock, Asks
  <2> QED BY <1>0, <1>7, <2>1 DEF SetStock
<1>8. CASE UNCHANGED catalogVars
  BY <1>8 DEF catalogVars
<1> QED BY <1>2, <1>3, <1>4, <1>5, <1>6, <1>7, <1>8 DEF Next, ProductStep, vars, catalogVars

LEMMA KeptStep == ASSUME CatalogInv, [Next]_vars, NEW d \in Call PROVE Kept(d)'
<1> USE DEF CatalogInv, TypeOK, OrgTypeOK, Kept
<1>1. ASSUME NEW c \in Call, CheckPrice(c) PROVE Kept(d)'
  BY <1>1 DEF CheckPrice, Asks, Decided, Stay, orgVars, handlers, Reply, Handle, Finish, Goto,
              InScope, tenants
<1>2. ASSUME NEW c \in Call, Plan(c) PROVE Kept(d)'
  BY <1>2 DEF Plan, Asks, Decided, Stay, orgVars, handlers, Reply, Handle, Finish, Goto, InScope,
              Allowed, Target
<1>3. ASSUME NEW c \in Call, SetStock(c) PROVE Kept(d)'
  BY <1>3 DEF SetStock, Asks, Stay, orgVars, handlers, Reply, Handle, Finish, Goto
<1>4. ASSUME NEW c \in Call,
             \/ CreateProduct(c) \/ Read(c) \/ Reprice(c) \/ Transition(c) \/ ReadBack(c) \/ List(c)
      PROVE  Kept(d)'
  <2>1. /\ UNCHANGED <<stage, seen, asked>>
        /\ pc[c] = "handle"
        /\ pc' = [pc EXCEPT ![c] = "done"]
    BY <1>4 DEF CreateProduct, Read, Reprice, Transition, ReadBack, List, catalogVars, Reply, Written,
                Handle, Finish, Goto
  <2> QED BY <2>1
<1>5. ASSUME UNCHANGED catalogVars, [OrgNext]_orgVars PROVE Kept(d)'
  <2>1. pc'[d] \notin {"handle", "done"} => pc[d] \notin {"handle", "done"}
    BY <1>5 DEF OrgNext, MemberStep, Arrive, ReadMembership, Admit, Create, Lookup, Insert, Lock,
                Count, Delete, Handle, Fail, SetStatus, Committed, Finish, Goto, orgVars, handlers
  <2>2. asked'[d] # asked[d] => pc[d] = "idle"
    BY <1>5 DEF OrgNext, MemberStep, Arrive, ReadMembership, Admit, Create, Lookup, Insert, Lock,
                Count, Delete, Handle, Fail, SetStatus, Committed, Finish, Goto, orgVars, handlers
  <2> QED BY <1>5, <2>1, <2>2 DEF catalogVars
<1> QED BY <1>1, <1>2, <1>3, <1>4, <1>5, StepIsOrgStep DEF Next, ProductStep, vars

LEMMA CatalogInitially == Init => CatalogInv
BY OrgInitially, CatalogsAreRows DEF Init, CatalogInv, TypeOK, Row, Kept, OrgInit, OrgInv

LEMMA CatalogInductive == CatalogInv /\ [Next]_vars => CatalogInv'
BY StepIsOrgStep, OrgInductive, CatalogTypeStep, KeptStep DEF CatalogInv

-----------------------------------------------------------------------------
\* The products controller runs behind the guards as module Organizations has
\* them: every behaviour is, for the organizations, one of that module's.
THEOREM UsesOrganizations == Spec => OrgSpec
<1>1. Init => OrgInit
  BY DEF Init
<1> QED BY <1>1, StepIsOrgStep, PTL DEF Spec, OrgSpec

\* So the answers about memberships account for the rows,
THEOREM CatalogAnswersAccount == Spec => []AnswersAccountForMembers
BY UsesOrganizations, AnswersAccount, PTL

\* and an organization keeps an owner, whatever its members do to the catalog.
THEOREM CatalogKeepsAnOwner == Spec => []KeepsAnOwner
BY UsesOrganizations, OwnerAlways, PTL

\* The variables of both modules keep their types.
THEOREM CatalogTypeCorrect == Spec => []TypeOK
<1>1. CatalogInv => TypeOK
  BY DEF CatalogInv
<1> QED BY <1>1, CatalogInitially, CatalogInductive, PTL DEF Spec

\* Which steps change products: each within the tenant of its call.
LEMMA TenantStep ==
  ASSUME CatalogInv, [Next]_vars, NEW p \in Product,
         product'[p] # product[p] \/ available'[p] # available[p]
  PROVE  \E c \in Call : /\ pc[c] = "handle" /\ asRole[c] # "NONE"
                         /\ product'[p].org = asked[c].org
                         /\ \/ product[p] = NoProduct
                            \/ product[p].org = asked[c].org
<1> USE DEF CatalogInv, TypeOK, Row
<1>1. ASSUME NEW c \in Call, pc[c] = "handle", asked[c].op \in Writes PROVE asRole[c] # "NONE"
  BY <1>1 DEF OrgInv, Asked, Writes, TenantFree
<1>2. PICK c \in Call : CreateProduct(c) \/ Reprice(c) \/ Transition(c) \/ SetStock(c)
  BY DEF Next, ProductStep, Read, CheckPrice, Plan, ReadBack, List, catalogVars, vars
<1>3. CASE CreateProduct(c)
  BY <1>1, <1>3 DEF CreateProduct, Asks, Writes
<1>4. CASE Reprice(c)
  BY <1>1, <1>4 DEF Reprice, SetPrice, Asks, Writes, InScope
<1>5. CASE Transition(c)
  BY <1>1, <1>5 DEF Transition, Asks, Writes, InScope
<1>6. CASE SetStock(c)
  BY <1>1, <1>6 DEF SetStock, Asks, Writes, InScope
<1> QED BY <1>2, <1>3, <1>4, <1>5, <1>6

\* INV-9, for writes: nobody changes another organization's products.
THEOREM TenantAlways == Spec => WithinTheTenant
<1>1. CatalogInv /\ [Next]_vars =>
        [\A p \in Product : product'[p] # product[p] \/ available'[p] # available[p] =>
          \E c \in Call : /\ pc[c] = "handle" /\ asRole[c] # "NONE"
                          /\ product'[p].org = asked[c].org
                          /\ \/ product[p] = NoProduct
                             \/ product[p].org = asked[c].org]_vars
  BY TenantStep
<1> QED BY <1>1, CatalogInitially, CatalogInductive, PTL DEF Spec, WithinTheTenant

\* A product becomes a giveaway in two ways only, and both are a write on a
\* decision that no longer stands.
LEMMA GiveawayStep ==
  ASSUME CatalogInv, [Next]_vars, NEW p \in Product, Giveaway(p)', ~Giveaway(p)
  PROVE  \E c \in Call : /\ pc[c] = "handle" /\ pc'[c] = "done"
                         /\ asked[c].product = p
                         /\ seen[c] # NoProduct /\ seen[c] # product[p]
<1> USE PricesAreInt DEF CatalogInv, TypeOK, Row, Giveaway, Published, MinPrice
<1>1. product'[p] # product[p]
  OBVIOUS
<1>2. PICK c \in Call : CreateProduct(c) \/ Reprice(c) \/ Transition(c)
  BY <1>1 DEF Next, ProductStep, Read, CheckPrice, Plan, SetStock, ReadBack, List, catalogVars, vars
<1>3. pc[c] = "handle" /\ pc'[c] = "done"
  BY <1>2 DEF CreateProduct, Reprice, Transition, Reply, Written, Handle, Finish, Goto, OrgTypeOK
<1>4. CASE CreateProduct(c)
  BY <1>1, <1>4 DEF CreateProduct
<1>5. CASE Reprice(c)
  <2>1. asked[c].product = p /\ product'[p] = [product[p] EXCEPT !.price = asked[c].price]
    BY <1>1, <1>5 DEF Reprice, SetPrice, InScope
  <2>2. product[p] # NoProduct /\ product[p].status = "PUBLISHED"
    BY <1>5, <2>1 DEF Reprice, SetPrice, InScope
  <2>3. asked[c].price < MinPrice
    BY <2>1, <2>2
  <2>4. asked[c].price \in Int
    BY <1>5, ProductAsk DEF Reprice, Asks, OrgInv, OrgTypeOK
  <2>5. stage[c] = "write" /\ asked[c].op = "update"
    BY <1>5, <2>3, <2>4 DEF Reprice, Asks
  <2>6. seen[c] # NoProduct /\ seen[c].status = "DRAFT"
    BY <2>5 DEF Kept
  <2> QED BY <1>3, <2>1, <2>2, <2>6
<1>6. CASE Transition(c)
  <2>1. /\ asked[c].product = p /\ InScope(c, p)
        /\ product'[p] = [product[p] EXCEPT !.status = Target(c)]
    BY <1>1, <1>6 DEF Transition, InScope
  <2>2. Target(c) = "PUBLISHED" /\ product[p].price < MinPrice
    BY <2>1 DEF InScope
  <2>3. asked[c].op = "publish" /\ stage[c] = "write"
    BY <1>6, <2>2 DEF Transition, Asks, Target
  <2>4. seen[c] # NoProduct /\ seen[c].price >= MinPrice
    BY <2>3 DEF Kept
  <2>5. product[p].price \in Int
    BY <2>1 DEF InScope
  <2>6. seen[c] # product[p]
    BY <2>2, <2>4, <2>5
  <2> QED BY <1>3, <2>1, <2>4, <2>6
<1> QED BY <1>2, <1>4, <1>5, <1>6

\* A published product drops below the minimum price only by two calls that
\* crossed: every such step writes on a row that has changed since it was read.
THEOREM GiveawaysOnlyByRaces == Spec => GiveawaysAreRaces
<1>1. CatalogInv /\ [Next]_vars =>
        [\A p \in Product : Giveaway(p)' /\ ~Giveaway(p) =>
          \E c \in Call : /\ pc[c] = "handle" /\ pc'[c] = "done"
                          /\ asked[c].product = p
                          /\ seen[c] # NoProduct /\ seen[c] # product[p]]_vars
  BY GiveawayStep
<1> QED BY <1>1, CatalogInitially, CatalogInductive, PTL DEF Spec, GiveawaysAreRaces
=============================================================================
