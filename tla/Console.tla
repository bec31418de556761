------------------------------- MODULE Console -------------------------------
(***************************************************************************)
(* The operator's console in one browser: the shell, which says in which   *)
(* organization the session acts, the switcher, the first-run screen and   *)
(* the products page, over the BFF routes they call.                       *)
(*                                                                         *)
(* No request names an organization: each carries the organization cookie, *)
(* one for all tabs, and the route resolves it against the memberships it  *)
(* finds.  What a page says and what its requests do are therefore read at *)
(* different times.                                                        *)
(*                                                                         *)
(* A Call is one async function of a page (reload, choose, load, submit):  *)
(* its request, and the next one it awaits.  The tokens are WebSession's   *)
(* matter and the races inside the API are Catalog's: here the session     *)
(* stands, and the API answers a request at once.                          *)
(***************************************************************************)
EXTENDS Integers, FiniteSets

CONSTANTS Tab, Org, Product, Call, None,
          MaxTrouble   \* bound: failures, lost connections and changes of membership

ASSUME NoneIsNobody == None \notin Tab \cup Org \cup Product
ASSUME MaxTroubleIsNat == MaxTrouble \in Nat

VARIABLES
  taken,      \* API: the slugs that name an organization
  member,     \* API: the organizations this user belongs to
  catalog,    \* API: the products of each organization
  cookie,     \* mc_org, the browser's
  view,       \* the SessionState of each tab
  page,       \* its products page
  stage, ask, \* the calls under way
  added,      \* history: the products each tab was told it added
  overtaken,  \* history: somebody else changed what the tab's session was read from
  trouble     \* how many of the troubles MaxTrouble bounds there have been

api  == <<taken, member, catalog>>
tabs == <<view, page, added, overtaken>>
vars == <<api, cookie, tabs, stage, ask, trouble>>

Request == [op: {"none", "session", "select", "list", "create", "found"},
            tab: Tab \cup {None},     \* who awaits it, or nobody any more
            jar: Org \cup {None},     \* the cookie it carries
            arg: Org \cup Product \cup {None},
            named: Org \cup {None},   \* where the page said it acts
            clean: BOOLEAN,           \* history: nothing has overtaken it
            ok: BOOLEAN,              \* the answer
            tenant: Org \cup {None},
            seen: SUBSET (Org \cup Product)]

Views == [status: {"closed", "loading", "failed", "ready"}, orgs: SUBSET Org, active: Org \cup {None}]
Pages == [status: {"none", "loading", "failed", "ready"}, of: Org \cup {None}, rows: SUBSET Product,
          clean: BOOLEAN]             \* history: that of its list

Unread(st) == [status |-> st, orgs |-> {}, active |-> None]
Page(st)   == [status |-> st, of |-> None, rows |-> {}, clean |-> FALSE]
Nothing == [op |-> "none", tab |-> None, jar |-> None, arg |-> None, named |-> None,
            clean |-> FALSE, ok |-> FALSE, tenant |-> None, seen |-> {}]

Init == /\ taken \in SUBSET Org /\ member \in SUBSET taken
        /\ catalog = [o \in Org |-> {}]
        /\ cookie \in Org \cup {None}   \* what an earlier session left
        /\ view = [t \in Tab |-> Unread("closed")]
        /\ page = [t \in Tab |-> Page("none")]
        /\ stage = [c \in Call |-> "idle"]
        /\ ask = [c \in Call |-> Nothing]
        /\ added = [t \in Tab |-> {}]
        /\ overtaken = [t \in Tab |-> FALSE]
        /\ trouble = 0

-----------------------------------------------------------------------------
\* A remembered choice counts while it is a membership; a single one is no choice.
Active(o, orgs) == IF o \in orgs THEN o
                   ELSE IF Cardinality(orgs) = 1 THEN CHOOSE m \in orgs : TRUE ELSE None

Doing(t, ops) == {c \in Call : stage[c] # "idle" /\ ask[c].tab = t /\ ask[c].op \in ops}

\* The shell is shown, and in it the products page.
Shell(t) == view[t].status = "ready" /\ view[t].orgs # {}

Put(f, x, v) == [f EXCEPT ![x] = v]

Asking(op, t, arg, jar) ==
  [Nothing EXCEPT !.op = op, !.tab = t, !.arg = arg, !.jar = jar, !.clean = TRUE]

\* Whoever awaited tab t's requests is gone; the requests are not.
Forgotten(t) == [c \in Call |-> IF ask[c].tab = t THEN [ask[c] EXCEPT !.tab = None] ELSE ask[c]]

\* History: the cookie or the memberships change, and only the tabs in own changed
\* them; a request nobody awaits belongs to no tab.
Unclean(own) == [c \in Call |-> IF ask[c].tab \in own \ {None} THEN ask[c]
                                ELSE [ask[c] EXCEPT !.clean = FALSE]]
Overtake(own) == overtaken' = [t \in Tab |-> overtaken[t] \/ t \notin own]

Trouble == trouble < MaxTrouble /\ trouble' = trouble + 1

Idle(c) == /\ stage' = Put(stage, c, "idle")
           /\ ask' = Put(ask, c, Nothing)

Send(c, r) == /\ stage' = Put(stage, c, "sent")
               /\ ask' = Put(ask, c, r)

\* The page's load: the table gives way to a skeleton, and the products are asked
\* for.  Nothing aborts an earlier list, which this one overtakes.
List(c, t, clean) ==
  /\ page' = Put(page, t, Page("loading"))
  /\ stage' = Put(stage, c, "sent")
  /\ ask' = [d \in Call |->
       IF d = c THEN [Asking("list", t, None, cookie) EXCEPT !.clean = clean]
       ELSE IF d \in Doing(t, {"list"}) THEN [ask[d] EXCEPT !.clean = FALSE] ELSE ask[d]]

-----------------------------------------------------------------------------
(***************************************************************************)
(* What the user does.                                                     *)
(***************************************************************************)
\* A document is loaded, or loaded again: SessionProvider reads the session.
Open(t, c) ==
  /\ stage[c] = "idle"
  /\ view' = Put(view, t, Unread("loading"))
  /\ page' = Put(page, t, Page("none"))
  /\ added' = Put(added, t, {})
  /\ stage' = Put(stage, c, "sent")
  /\ ask' = Put(Forgotten(t), c, Asking("session", t, None, cookie))
  /\ UNCHANGED <<api, cookie, overtaken, trouble>>

\* The switcher: a control while there is a choice, disabled while one is pending.
Choose(t, o, c) ==
  /\ stage[c] = "idle"
  /\ Shell(t) /\ Cardinality(view[t].orgs) > 1
  /\ o \in view[t].orgs \ {view[t].active}
  /\ Doing(t, {"select", "session"}) = {}
  /\ Send(c, Asking("select", t, o, cookie))
  /\ UNCHANGED <<api, cookie, tabs, trouble>>

\* The form of the products page, which is there while an organization is active;
\* closed and opened again it takes another product while one is pending.
Submit(t, p, c) ==
  /\ stage[c] = "idle"
  /\ Shell(t) /\ view[t].active # None
  /\ \A o \in Org : p \notin catalog[o]
  /\ \A d \in Call : ask[d].arg # p
  /\ Send(c, [Asking("create", t, p, cookie) EXCEPT
                !.named = view[t].active,
                !.clean = ~overtaken[t] /\ Doing(t, {"select", "session"}) = {}])
  /\ UNCHANGED <<api, cookie, tabs, trouble>>

\* The first-run screen, shown instead of the shell.
Start(t, o, c) ==
  /\ stage[c] = "idle"
  /\ view[t] = Unread("ready")
  /\ Doing(t, {"found", "session"}) = {}
  /\ Send(c, Asking("found", t, o, cookie))
  /\ UNCHANGED <<api, cookie, tabs, trouble>>

-----------------------------------------------------------------------------
(***************************************************************************)
(* The BFF routes.  Each loads the session first, memberships included.    *)
(***************************************************************************)
Answer(c, good, o, what) ==
  /\ stage' = Put(stage, c, "answered")
  /\ ask' = [ask EXCEPT ![c].ok = good, ![c].tenant = o, ![c].seen = what]

\* GET /api/session.
ReadSession(c) ==
  /\ stage[c] = "sent" /\ ask[c].op = "session"
  /\ Answer(c, TRUE, Active(ask[c].jar, member), member)
  /\ UNCHANGED <<api, cookie, tabs, trouble>>

\* POST /api/session/organization: a membership, or 403.
Remember(c) ==
  /\ stage[c] = "sent" /\ ask[c].op = "select"
  /\ Answer(c, ask[c].arg \in member, None, {})
  /\ UNCHANGED <<api, cookie, tabs, trouble>>

\* The tenant of /api/products is the session's, or there is none: 400.
Resolve(c) ==
  /\ stage[c] = "sent" /\ ask[c].op \in {"list", "create"}
  /\ LET o == Active(ask[c].jar, member) IN
     IF o = None THEN Answer(c, FALSE, None, {})
     ELSE /\ stage' = Put(stage, c, "decided")
          /\ ask' = [ask EXCEPT ![c].tenant = o]
  /\ UNCHANGED <<api, cookie, tabs, trouble>>

\* Its call to the API, which looks the membership up again.
Products(c) ==
  /\ stage[c] = "decided" /\ ask[c].op = "list"
  /\ LET o == ask[c].tenant IN
     Answer(c, o \in member, o, IF o \in member THEN catalog[o] ELSE {})
  /\ UNCHANGED <<api, cookie, tabs, trouble>>

CreateProduct(c) ==
  /\ stage[c] = "decided" /\ ask[c].op = "create"
  /\ LET o == ask[c].tenant IN
     /\ catalog' = IF o \in member THEN [catalog EXCEPT ![o] = @ \cup {ask[c].arg}] ELSE catalog
     /\ Answer(c, o \in member, o, {})
  /\ UNCHANGED <<taken, member, cookie, tabs, trouble>>

\* POST /api/organizations: the caller becomes its owner, or the slug is taken.
CreateOrganization(c) ==
  /\ stage[c] = "sent" /\ ask[c].op = "found"
  /\ LET o == ask[c].arg IN
     IF o \in taken
       THEN /\ Answer(c, FALSE, None, {})
            /\ UNCHANGED <<api, overtaken>>
       ELSE /\ taken' = taken \cup {o} /\ member' = member \cup {o}
            /\ stage' = Put(stage, c, "answered")
            /\ ask' = Put(Unclean({ask[c].tab}), c, [ask[c] EXCEPT !.ok = TRUE])
            /\ Overtake({ask[c].tab})
            /\ UNCHANGED catalog
  /\ UNCHANGED <<cookie, view, page, added, trouble>>

\* The API is unreachable, or fails.
Falter(c) == /\ stage[c] \in {"sent", "decided"}
             /\ Answer(c, FALSE, None, {})
             /\ UNCHANGED <<api, cookie, tabs>>
             /\ Trouble

-----------------------------------------------------------------------------
(***************************************************************************)
(* What the pages make of the answers.                                     *)
(***************************************************************************)
Answered(c, op) == stage[c] = "answered" /\ ask[c].op = op /\ ask[c].tab # None

\* Mutant: the page lists when it is mounted, and never again.
GotSessionOnce(c) ==
  /\ Answered(c, "session")
  /\ LET t == ask[c].tab
         o == ask[c].tenant
         now == IF ask[c].ok THEN [status |-> "ready", orgs |-> ask[c].seen, active |-> o]
                             ELSE Unread("failed")
     IN  /\ view' = Put(view, t, now)
         /\ overtaken' = Put(overtaken, t, ~ask[c].clean)
         /\ \/ now.orgs # {} /\ o # None /\ ~Shell(t) /\ List(c, t, ask[c].clean)
            \/ ~(now.orgs # {} /\ o # None /\ ~Shell(t)) /\ Idle(c) /\ UNCHANGED page
  /\ UNCHANGED <<api, cookie, added, trouble>>

\* readSession: the shell, the first-run screen, or a failure in their place.  In
\* the shell the page's effect lists again when the active organization is another.
GotSession(c) ==
  /\ Answered(c, "session")
  /\ LET t == ask[c].tab
         o == ask[c].tenant
         now == IF ask[c].ok THEN [status |-> "ready", orgs |-> ask[c].seen, active |-> o]
                             ELSE Unread("failed")
     IN  /\ view' = Put(view, t, now)
         /\ overtaken' = Put(overtaken, t, ~ask[c].clean)
         /\ \/ /\ now.orgs # {} /\ o # None /\ (Shell(t) => view[t].active # o)
               /\ List(c, t, ask[c].clean)
            \/ /\ now.orgs # {} /\ o = None
               /\ page' = Put(page, t, Page("ready"))
               /\ Idle(c)
            \/ /\ now.orgs # {} /\ Shell(t) /\ view[t].active = o /\ o # None
               /\ Idle(c)
               /\ UNCHANGED page
            \/ /\ now.orgs = {}   \* the page is gone, and nobody awaits its requests
               /\ page' = Put(page, t, Page("none"))
               /\ stage' = Put(stage, c, "idle")
               /\ ask' = Put(Forgotten(t), c, Nothing)
  /\ UNCHANGED <<api, cookie, added, trouble>>

\* The browser stores the choice; the status of the answer is not looked at.
Chosen(c) == IF ask[c].ok THEN ask[c].arg ELSE cookie

\* Mutant: the session is not read again.
GotSelectOnly(c) ==
  /\ Answered(c, "select")
  /\ cookie' = Chosen(c)
  /\ stage' = Put(stage, c, "idle")
  /\ ask' = Put(Unclean({ask[c].tab}), c, Nothing)
  /\ Overtake({ask[c].tab})
  /\ UNCHANGED <<api, view, page, added, trouble>>

\* choose awaits the selection, and then the session it reloads.
GotSelect(c) ==
  /\ Answered(c, "select")
  /\ LET t == ask[c].tab IN
     /\ cookie' = Chosen(c)
     /\ stage' = Put(stage, c, "sent")
     /\ IF cookie' = cookie
          THEN /\ ask' = Put(ask, c, Asking("session", t, None, cookie'))
               /\ UNCHANGED overtaken
          ELSE /\ ask' = Put(Unclean({t}), c, Asking("session", t, None, cookie'))
               /\ Overtake({t})
  /\ UNCHANGED <<api, view, page, added, trouble>>

\* load: the rows, or the failure, of whichever list answers.
GotList(c) ==
  /\ Answered(c, "list")
  /\ page' = Put(page, ask[c].tab,
       IF ask[c].ok THEN [status |-> "ready", of |-> ask[c].tenant, rows |-> ask[c].seen,
                      clean |-> ask[c].clean]
                    ELSE Page("failed"))
  /\ Idle(c)
  /\ UNCHANGED <<api, cookie, view, added, overtaken, trouble>>

\* submit awaits the product, and then the load it was given; or shows the refusal.
GotCreated(c) ==
  /\ Answered(c, "create")
  /\ LET t == ask[c].tab IN
     IF ask[c].ok THEN /\ added' = [added EXCEPT ![t] = @ \cup {ask[c].arg}]
                       /\ List(c, t, ~overtaken[t])
                  ELSE Idle(c) /\ UNCHANGED <<added, page>>
  /\ UNCHANGED <<api, cookie, view, overtaken, trouble>>

\* Onboarding: the reload is what admits the new owner to the shell.
GotFounded(c) ==
  /\ Answered(c, "found")
  /\ IF ask[c].ok THEN Send(c, Asking("session", ask[c].tab, None, cookie)) ELSE Idle(c)
  /\ UNCHANGED <<api, cookie, tabs, trouble>>

\* Mutant: nothing catches what a list throws.
LoseUncaught(c) ==
  /\ stage[c] # "idle" /\ ask[c].tab # None
  /\ LET t == ask[c].tab IN
     IF ask[c].op = "session"
       THEN /\ view' = Put(view, t, Unread("failed"))
            /\ page' = Put(page, t, Page("none"))
            /\ ask' = Forgotten(t)
       ELSE /\ ask' = Put(ask, c, [ask[c] EXCEPT !.tab = None])
            /\ UNCHANGED <<view, page>>
  /\ UNCHANGED <<api, cookie, stage, added, overtaken>>
  /\ Trouble

\* The connection breaks: fetch rejects, and the route may carry on all the same.
Lose(c) ==
  /\ stage[c] # "idle" /\ ask[c].tab # None
  /\ LET t == ask[c].tab IN
     \/ /\ ask[c].op = "session"
        /\ view' = Put(view, t, Unread("failed"))
        /\ page' = Put(page, t, Page("none"))
        /\ ask' = Forgotten(t)
     \/ /\ ask[c].op = "list"
        /\ page' = Put(page, t, Page("failed"))
        /\ ask' = Put(ask, c, [ask[c] EXCEPT !.tab = None])
        /\ UNCHANGED view
     \/ /\ ask[c].op \in {"select", "create", "found"}
        /\ ask' = Put(ask, c, [ask[c] EXCEPT !.tab = None])
        /\ UNCHANGED <<view, page>>
  /\ UNCHANGED <<api, cookie, stage, added, overtaken>>
  /\ Trouble

\* An answer for nobody.
Vanish(c) == /\ stage[c] = "answered" /\ ask[c].tab = None
             /\ Idle(c)
             /\ UNCHANGED <<api, cookie, tabs, trouble>>

-----------------------------------------------------------------------------
\* Other owners add and remove this user.
Join(o) == /\ o \in taken \ member
           /\ member' = member \cup {o}
           /\ ask' = Unclean({}) /\ Overtake({})
           /\ UNCHANGED <<taken, catalog, cookie, view, page, stage, added>>
           /\ Trouble

Leave(o) == /\ o \in member
            /\ member' = member \ {o}
            /\ ask' = Unclean({}) /\ Overtake({})
            /\ UNCHANGED <<taken, catalog, cookie, view, page, stage, added>>
            /\ Trouble

Route(c) == \/ ReadSession(c) \/ Remember(c) \/ Resolve(c) \/ Products(c)
            \/ CreateProduct(c) \/ CreateOrganization(c) \/ Falter(c)

Got(c) == \/ GotSession(c) \/ GotSelect(c) \/ GotList(c) \/ GotCreated(c)
          \/ GotFounded(c) \/ Lose(c) \/ Vanish(c)

Next == \/ \E c \in Call :
             \/ Route(c) \/ Got(c)
             \/ \E t \in Tab :
                  \/ Open(t, c)
                  \/ \E o \in Org : Choose(t, o, c) \/ Start(t, o, c)
                  \/ \E p \in Product : Submit(t, p, c)
        \/ \E o \in Org : Join(o) \/ Leave(o)

Spec == Init /\ [][Next]_vars

-----------------------------------------------------------------------------
\* Types, and nothing that waits for nothing: a page or a shell that is loading
\* has a request under way that ends it.
TypeOK ==
  /\ taken \subseteq Org /\ member \subseteq taken
  /\ catalog \in [Org -> SUBSET Product]
  /\ cookie \in Org \cup {None}
  /\ view \in [Tab -> Views] /\ page \in [Tab -> Pages]
  /\ stage \in [Call -> {"idle", "sent", "decided", "answered"}]
  /\ ask \in [Call -> Request]
  /\ added \in [Tab -> SUBSET Product]
  /\ overtaken \in [Tab -> BOOLEAN]
  /\ trouble \in 0..MaxTrouble
  /\ \A t \in Tab :
       /\ view[t].status = "loading" => Doing(t, {"session"}) # {}
       /\ page[t].status = "loading" => Doing(t, {"list"}) # {}
       /\ view[t].active \in view[t].orgs \cup {None}

Quiet(t) == \A c \in Call : stage[c] = "idle" \/ ask[c].tab # t

\* Once a tab has no request under way, its shell names the organization that its
\* requests would act in, although choosing one takes two requests and either may
\* fail: unless another tab changed the choice, or somebody the memberships, since.
QuietPageNamesTheTenant ==
  \A t \in Tab : Quiet(t) /\ Shell(t) /\ ~overtaken[t] => view[t].active = Active(cookie, member)

\* e2e web-journey: the page "lists the products of the organization the session
\* acts in".  Of such a tab this holds, with the products it added among them, when
\* the list it shows was the newest one it had asked for.  It does not hold of a list
\* that was answered after a newer one: load neither aborts nor discards it, and it
\* stays under the other organization's name.
LatestListIsTheTenants ==
  \A t \in Tab :
    /\ Quiet(t) /\ Shell(t) /\ ~overtaken[t]
    /\ page[t].status = "ready" /\ view[t].active # None /\ page[t].clean
    => /\ page[t].of = view[t].active
       /\ added[t] \cap catalog[page[t].of] \subseteq page[t].rows

\* A product submitted on a page that is not switching goes where the page says,
\* unless somebody else changed the choice or the memberships meanwhile.
FiledWhereNamed ==
  \A c \in Call :
    stage[c] = "decided" /\ ask[c].op = "create" /\ ask[c].clean => ask[c].tenant = ask[c].named
=============================================================================
