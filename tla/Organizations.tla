--------------------------- MODULE Organizations ----------------------------
(***************************************************************************)
(* The seller's side of the API: who may act for an organization, and the  *)
(* two tables that say so.                                                 *)
(*                                                                         *)
(* A Call is one HTTP request with a valid access token.  It goes through  *)
(* the guards and its handler one database statement at a time, so every   *)
(* row it read may have changed when it acts on it.  An organization is    *)
(* named by its slug, on which the unique index arbitrates.                *)
(*                                                                         *)
(* A call of another controller stands at "handle" once the guards let it  *)
(* through; module Catalog says what the products controller does there.   *)
(***************************************************************************)
EXTENDS Integers, FiniteSets

CONSTANTS
  User,      \* registered users; nothing deletes one
  Org,       \* slugs, and the organizations that may get them
  Call,
  Ask,       \* the requests clients send
  Tables,    \* the membership tables earlier calls and operators may have left
  None       \* no request yet

\* The operations of the organizations controller, those without a tenant, and
\* those for owners.
TenantFree == {"create", "organizations"}
OwnerOnly  == {"add", "remove"}

ASSUME AsksAreRequests ==
  \A a \in Ask : /\ a.user \in User
                 /\ a.org \in Org
                 /\ a.op \in OwnerOnly => a.target \in User
ASSUME NoneIsNoAsk == None \notin Ask
\* Only an operator makes a second owner: the API founds an organization with one
\* and adds members.
ASSUME TablesHaveOwners ==
  \A t \in Tables : /\ t \in [Org -> [User -> {"NONE", "OWNER", "MEMBER"}]]
                    /\ \A o \in Org, u \in User :
                         t[o][u] # "NONE" => \E v \in User : t[o][v] = "OWNER"

VARIABLES
  orgStatus,  \* organizations.status, ABSENT for a slug nobody has taken
  role,       \* organization_members: the role of each user in each of them
  pc,         \* where each call stands
  asked,      \* what it asks
  asRole,     \* its tenant: the role the guard read
  answer

tenants == <<orgStatus, role>>
handlers == <<pc, asked, asRole, answer>>
orgVars == <<tenants, handlers>>

Roles == {"NONE", "OWNER", "MEMBER"}

OrgTypeOK ==
  /\ orgStatus \in [Org -> {"ABSENT", "ACTIVE", "DISABLED"}]
  /\ role \in [Org -> [User -> Roles]]
  /\ pc \in [Call -> {"idle", "create", "membership", "status", "existing", "insert",
                      "lock", "count", "delete", "handle", "done"}]
  /\ asked \in [Call -> Ask \cup {None}]
  /\ \A c \in Call : asked[c] = None => pc[c] \in {"idle", "done"}
  /\ asRole \in [Call -> Roles]
  /\ answer \in [Call -> {"NONE", "OK", "FORBIDDEN", "SLUG_TAKEN", "NOT_FOUND",
                          "ALREADY_A_MEMBER", "LAST_OWNER", "CONFLICT", "ERROR"}]

OrgInit ==
  /\ role \in Tables
  /\ orgStatus = [o \in Org |-> IF \E u \in User : role[o][u] # "NONE" THEN "ACTIVE" ELSE "ABSENT"]
  /\ pc = [c \in Call |-> "idle"]
  /\ asked = [c \in Call |-> None]
  /\ asRole = [c \in Call |-> "NONE"]
  /\ answer = [c \in Call |-> "NONE"]

-----------------------------------------------------------------------------
Owners(o) == {u \in User : role[o][u] = "OWNER"}

Goto(c, l) == pc' = [pc EXCEPT ![c] = l]

Finish(c, what) == /\ Goto(c, "done")
                   /\ answer' = [answer EXCEPT ![c] = what]

\* A statement has committed: the answer says so, or is lost with the process or
\* the connection.
Committed(c) == \E what \in {"OK", "ERROR"} : Finish(c, what)

SetRole(o, u, r) == role' = [role EXCEPT ![o][u] = r]

\* The organization row is locked FOR UPDATE by removeKeepingAnOwner; an insert
\* that refers to it takes a KEY SHARE lock and waits for that transaction.
RowFree(o) == \A c \in Call : pc[c] \in {"count", "delete"} => asked[c].org # o

-----------------------------------------------------------------------------
(***************************************************************************)
(* The guards.                                                             *)
(***************************************************************************)
Arrive(c, a) == /\ pc[c] = "idle"
                /\ asked' = [asked EXCEPT ![c] = a]
                /\ Goto(c, CASE a.op = "create" -> "create"
                             [] a.op = "organizations" -> "handle"
                             [] OTHER -> "membership")
                /\ UNCHANGED <<tenants, asRole, answer>>

\* OrganizationGuard: the membership the header claims, read once.
ReadMembership(c) ==
  /\ pc[c] = "membership"
  /\ LET r == role[asked[c].org][asked[c].user] IN
     /\ asRole' = [asRole EXCEPT ![c] = r]
     /\ IF r = "NONE" THEN Finish(c, "FORBIDDEN")
                      ELSE Goto(c, "status") /\ UNCHANGED answer
  /\ UNCHANGED <<tenants, asked>>

\* RolesGuard: what the role read before allows.
MayHandle(r, op) == op \in OwnerOnly => r = "OWNER"

\* OrganizationGuard's second read, existsActive, and then, with nothing awaited,
\* RolesGuard.
Admit(c) ==
  /\ pc[c] = "status"
  /\ LET op == asked[c].op IN
     IF orgStatus[asked[c].org] # "ACTIVE" \/ ~MayHandle(asRole[c], op)
       THEN Finish(c, "FORBIDDEN")
       ELSE /\ Goto(c, CASE op = "add" -> "existing" [] op = "remove" -> "lock" [] OTHER -> "handle")
            /\ UNCHANGED answer
  /\ UNCHANGED <<tenants, asked, asRole>>

-----------------------------------------------------------------------------
(***************************************************************************)
(* The organizations controller.                                           *)
(***************************************************************************)
\* createWithOwner: the organization and its first owner, or SLUG_TAKEN.
Create(c) ==
  /\ pc[c] = "create"
  /\ LET o == asked[c].org IN
     \/ /\ orgStatus[o] = "ABSENT"
        /\ orgStatus' = [orgStatus EXCEPT ![o] = "ACTIVE"]
        /\ SetRole(o, asked[c].user, "OWNER")
        /\ Committed(c)
     \/ /\ orgStatus[o] # "ABSENT"
        /\ Finish(c, "SLUG_TAKEN")
        /\ UNCHANGED tenants
  /\ UNCHANGED <<asked, asRole>>

\* addMember: the user is looked up and is not a member yet.
Lookup(c) ==
  /\ pc[c] = "existing"
  /\ IF role[asked[c].org][asked[c].target] # "NONE"
       THEN Finish(c, "ALREADY_A_MEMBER")
       ELSE Goto(c, "insert") /\ UNCHANGED answer
  /\ UNCHANGED <<tenants, asked, asRole>>

\* Mutant: an upsert.
InsertAnyway(c) == /\ pc[c] = "insert"
                   /\ RowFree(asked[c].org)
                   /\ SetRole(asked[c].org, asked[c].target, "MEMBER")
                   /\ Committed(c)
                   /\ UNCHANGED <<orgStatus, asked, asRole>>

\* The row may be there by now: the unique index refuses a second one, and
\* nothing maps that to an answer of its own.
Insert(c) ==
  /\ pc[c] = "insert"
  /\ RowFree(asked[c].org)
  /\ LET o == asked[c].org  u == asked[c].target IN
     \/ /\ role[o][u] = "NONE"
        /\ SetRole(o, u, "MEMBER")
        /\ Committed(c)
     \/ /\ role[o][u] # "NONE"
        /\ Finish(c, "ERROR")
        /\ UNCHANGED role
  /\ UNCHANGED <<orgStatus, asked, asRole>>

\* Mutant: a plain transaction, which locks nothing.
LockNothing(c) == /\ pc[c] = "lock"
                  /\ Goto(c, "count")
                  /\ UNCHANGED <<tenants, asked, asRole, answer>>

\* removeKeepingAnOwner: SELECT … FROM organizations … FOR UPDATE.
Lock(c) == /\ pc[c] = "lock"
           /\ RowFree(asked[c].org)
           /\ Goto(c, "count")
           /\ UNCHANGED <<tenants, asked, asRole, answer>>

\* The target, and the owners when it is one of them: `owners <= 1` when it is
\* the only one.
Count(c) ==
  /\ pc[c] = "count"
  /\ LET o == asked[c].org  u == asked[c].target IN
     \/ /\ role[o][u] = "NONE"
        /\ Finish(c, "NOT_FOUND")
     \/ /\ role[o][u] = "OWNER" /\ Owners(o) \subseteq {u}
        /\ Finish(c, "LAST_OWNER")
     \/ /\ role[o][u] = "MEMBER" \/ ~(Owners(o) \subseteq {u})
        /\ role[o][u] # "NONE"
        /\ Goto(c, "delete")
        /\ UNCHANGED answer
  /\ UNCHANGED <<tenants, asked, asRole>>

\* The row goes, and with the commit the lock.
Delete(c) == /\ pc[c] = "delete"
             /\ SetRole(asked[c].org, asked[c].target, "NONE")
             /\ Committed(c)
             /\ UNCHANGED <<orgStatus, asked, asRole>>

\* A handler that changes neither table: a list of organizations or members, or
\* another controller's.
Handle(c, what) == /\ pc[c] = "handle"
                   /\ Finish(c, what)
                   /\ UNCHANGED <<tenants, asked, asRole>>

\* The call is lost with its process or its connection before its write, or before
\* the commit: an open transaction is rolled back.
Fail(c) == /\ pc[c] \notin {"idle", "done"}
           /\ Finish(c, "ERROR")
           /\ UNCHANGED <<tenants, asked, asRole>>

\* Nothing in the repository changes organizations.status; an operator does.
SetStatus(o) == /\ orgStatus[o] # "ABSENT"
              /\ orgStatus' = [orgStatus EXCEPT ![o] = IF @ = "ACTIVE" THEN "DISABLED" ELSE "ACTIVE"]
              /\ UNCHANGED <<role, handlers>>

MemberStep(c) == \/ \E a \in Ask : Arrive(c, a)
                 \/ ReadMembership(c) \/ Admit(c)
                 \/ Create(c) \/ Lookup(c) \/ Insert(c)
                 \/ Lock(c) \/ Count(c) \/ Delete(c) \/ Fail(c)

Answers == {"OK", "NOT_FOUND", "CONFLICT", "ERROR"}

OrgNext == \/ \E c \in Call : MemberStep(c) \/ \E what \in Answers : Handle(c, what)
           \/ \E o \in Org : SetStatus(o)

OrgSpec == OrgInit /\ [][OrgNext]_orgVars

-----------------------------------------------------------------------------
\* "An organization retains at least one owner", whoever removes whom at the
\* same time and whatever the guards of those calls had read.
KeepsAnOwner == \A o \in Org : orgStatus[o] # "ABSENT" => Owners(o) # {}

\* The calls among done that add or remove u as a member of o, and those that found
\* o as u's.
Told(done, op, o, u) == {c \in done : /\ asked[c].op = op /\ asked[c].org = o
                                      /\ asked[c].target = u}
Founders(done, o, u) == {c \in done : /\ asked[c].op = "create" /\ asked[c].org = o
                                      /\ asked[c].user = u}

\* Calls that add one user, or remove one, race, and some lose their answer after the
\* commit or before it; what callers were told still accounts for every row.  There
\* are failed calls such that, with these and those that were told they did it, each
\* user has been added as often as removed, but for the one the row itself shows.
AnswersAccountForMembers ==
  \E lost \in SUBSET {c \in Call : answer[c] = "ERROR"} :
    LET done == {c \in Call : answer[c] = "OK"} \cup lost IN
    \A o \in Org, u \in User :
      LET founded == Cardinality(Founders(done, o, u))
          joined  == Cardinality(Told(done, "add", o, u))
          left    == Cardinality(Told(done, "remove", o, u))
      IN  founded + joined - left \in IF role[o][u] = "NONE" THEN {-1, 0} ELSE {0, 1}
=============================================================================
