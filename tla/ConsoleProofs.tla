---------------------------- MODULE ConsoleProofs ----------------------------
(***************************************************************************)
(* Theorems about Console, for any number of tabs, organizations, products *)
(* and calls, however many troubles there are.                             *)
(***************************************************************************)
EXTENDS Console, FiniteSetTheorems, TLAPS

\* A call that tab t awaits.
Of(c, t) == stage[c] # "idle" /\ ask[c].tab = t
Busy(c, t, op) == Of(c, t) /\ ask[c].op = op

\* What a call is at each stage.
Form(c) ==
  /\ stage[c] = "idle" <=> ask[c].op = "none"
  /\ stage[c] = "decided" => ask[c].op \in {"list", "create"} /\ ask[c].tenant \in Org
  /\ ask[c].op \in {"select", "found"} => ask[c].arg \in Org
  /\ ask[c].op = "create" => ask[c].arg \in Product
  /\ stage[c] = "answered" /\ ask[c].ok =>
       /\ ask[c].op = "session" => /\ ask[c].seen \in SUBSET Org
                                   /\ ask[c].tenant = Active(ask[c].jar, ask[c].seen)
       /\ ask[c].op = "list" => ask[c].seen \in SUBSET Product
       /\ ask[c].op \in {"list", "create"} => ask[c].tenant \in Org

Types == /\ taken \subseteq Org /\ member \subseteq taken
         /\ catalog \in [Org -> SUBSET Product]
         /\ cookie \in Org \cup {None}
         /\ view \in [Tab -> Views] /\ page \in [Tab -> Pages]
         /\ stage \in [Call -> {"idle", "sent", "decided", "answered"}]
         /\ ask \in [Call -> Request]
         /\ added \in [Tab -> SUBSET Product]
         /\ overtaken \in [Tab -> BOOLEAN]
         /\ trouble \in 0..MaxTrouble

Base == Types /\ \A c \in Call : Form(c)

-----------------------------------------------------------------------------
(***************************************************************************)
(* Operators.                                                              *)
(***************************************************************************)
\* An organization is active only if it is among those given.
LEMMA ActiveIsMember ==
  ASSUME NEW o, NEW orgs, Active(o, orgs) # None
  PROVE  Active(o, orgs) \in orgs
<1>1. CASE o \in orgs
  BY <1>1 DEF Active
<1>2. CASE o \notin orgs
  <2>1. Cardinality(orgs) = 1 /\ Active(o, orgs) = CHOOSE m \in orgs : TRUE
    BY <1>2 DEF Active
  <2>2. orgs # {}
    BY <2>1, FS_EmptySet
  <2> QED BY <2>1, <2>2
<1> QED BY <1>1, <1>2

\* A request just sent.
Asks(r, op, t, arg, jar) ==
  /\ r \in Request
  /\ r.op = op /\ r.tab = t /\ r.arg = arg /\ r.jar = jar
  /\ r.ok = FALSE /\ r.tenant = None /\ r.seen = {}

LEMMA AskingFields ==
  ASSUME NEW op \in {"session", "select", "list", "create", "found"}, NEW t \in Tab,
         NEW arg \in Org \cup Product \cup {None}, NEW jar \in Org \cup {None}
  PROVE  Asks(Asking(op, t, arg, jar), op, t, arg, jar) /\ Asking(op, t, arg, jar).clean = TRUE
<1>1. Nothing \in Request /\ Nothing.ok = FALSE /\ Nothing.tenant = None /\ Nothing.seen = {}
  BY DEF Nothing, Request
<1>2. PICK r0 \in Request : r0 = Nothing
  BY <1>1
<1>3. Asking(op, t, arg, jar) = [r0 EXCEPT !.op = op, !.tab = t, !.arg = arg, !.jar = jar, !.clean = TRUE]
  BY <1>2 DEF Asking
<1> QED BY <1>1, <1>2, <1>3 DEF Asks, Request

LEMMA NothingIsRequest == Nothing \in Request /\ Nothing.op = "none" /\ Nothing.tab = None
BY DEF Nothing, Request

\* What is not told apart by becoming unclean, or nobody's.
Fades(r, q) ==
  /\ q \in Request
  /\ q.op = r.op /\ q.jar = r.jar /\ q.arg = r.arg /\ q.named = r.named
  /\ q.ok = r.ok /\ q.tenant = r.tenant /\ q.seen = r.seen
  /\ q.tab \in {r.tab, None} /\ (q.clean => r.clean)

LEMMA FadesSame == ASSUME NEW r \in Request PROVE Fades(r, r)
BY DEF Fades

LEMMA FadesUnclean ==
  ASSUME NEW r \in Request
  PROVE  LET q == [r EXCEPT !.clean = FALSE] IN Fades(r, q) /\ q.tab = r.tab /\ q.clean = FALSE
BY DEF Fades, Request

LEMMA FadesForgotten ==
  ASSUME NEW r \in Request
  PROVE  LET q == [r EXCEPT !.tab = None] IN Fades(r, q) /\ q.tab = None /\ q.clean = r.clean
BY DEF Fades, Request

LEMMA UncleanOne ==
  ASSUME Types, NEW own, NEW c \in Call
  PROVE  /\ Fades(ask[c], Unclean(own)[c]) /\ Unclean(own)[c].tab = ask[c].tab
         /\ ask[c].tab \in own \ {None} => Unclean(own)[c] = ask[c]
         /\ ask[c].tab \notin own \ {None} => Unclean(own)[c].clean = FALSE
<1>1. ask[c] \in Request
  BY DEF Types
<1> QED BY <1>1, FadesSame, FadesUnclean DEF Unclean

LEMMA ForgottenOne ==
  ASSUME Types, NEW t \in Tab, NEW c \in Call
  PROVE  /\ Fades(ask[c], Forgotten(t)[c])
         /\ ask[c].tab = t => Forgotten(t)[c].tab = None
         /\ ask[c].tab # t => Forgotten(t)[c] = ask[c]
<1>1. ask[c] \in Request
  BY DEF Types
<1> QED BY <1>1, FadesSame, FadesForgotten DEF Forgotten

\* List, call by call.
LEMMA ListFields ==
  ASSUME Types, NEW c \in Call, NEW t \in Tab, NEW clean \in BOOLEAN, List(c, t, clean)
  PROVE  /\ page' = [page EXCEPT ![t] = Page("loading")]
         /\ stage' = [stage EXCEPT ![c] = "sent"]
         /\ ask' \in [Call -> Request]
         /\ Asks(ask'[c], "list", t, None, cookie) /\ ask'[c].clean = clean
         /\ \A d \in Call : d # c => /\ Fades(ask[d], ask'[d]) /\ ask'[d].tab = ask[d].tab
                                     /\ IF Busy(d, t, "list") THEN ask'[d].clean = FALSE
                                                              ELSE ask'[d] = ask[d]
<1>1. cookie \in Org \cup {None} /\ ask \in [Call -> Request]
  BY DEF Types
<1>2. PICK r \in Request : /\ r = Asking("list", t, None, cookie)
                           /\ Asks(r, "list", t, None, cookie)
  <2>1. Asks(Asking("list", t, None, cookie), "list", t, None, cookie)
    BY <1>1, AskingFields
  <2>2. Asking("list", t, None, cookie) \in Request
    BY <2>1 DEF Asks
  <2> QED BY <2>1, <2>2
<1>3. ask'[c] = [r EXCEPT !.clean = clean]
  BY <1>2 DEF List
<1>4. Asks(ask'[c], "list", t, None, cookie) /\ ask'[c].clean = clean
  BY <1>2, <1>3 DEF Asks, Request
<1>5. ASSUME NEW d \in Call, d # c
      PROVE  /\ Fades(ask[d], ask'[d]) /\ ask'[d].tab = ask[d].tab
             /\ IF Busy(d, t, "list") THEN ask'[d].clean = FALSE ELSE ask'[d] = ask[d]
  <2>1. ask[d] \in Request
    BY <1>1
  <2>2. ask'[d] = IF Busy(d, t, "list") THEN [ask[d] EXCEPT !.clean = FALSE] ELSE ask[d]
    BY <1>5 DEF List, Doing, Busy, Of
  <2> QED BY <2>1, <2>2, FadesSame, FadesUnclean
<1>6. ask' \in [Call -> Request]
  <2>1. \A d \in Call : ask'[d] \in Request
    BY <1>4, <1>5 DEF Fades, Asks
  <2> QED BY <2>1 DEF List
<1> QED BY <1>4, <1>5, <1>6 DEF List, Put

LEMMA AnswerFields ==
  ASSUME Types, NEW c \in Call, NEW good \in BOOLEAN, NEW o \in Org \cup {None},
         NEW what \in SUBSET (Org \cup Product), Answer(c, good, o, what)
  PROVE  /\ stage' = [stage EXCEPT ![c] = "answered"]
         /\ ask' \in [Call -> Request] /\ \A d \in Call : d # c => ask'[d] = ask[d]
         /\ ask'[c].ok = good /\ ask'[c].tenant = o /\ ask'[c].seen = what
         /\ ask'[c].op = ask[c].op /\ ask'[c].tab = ask[c].tab /\ ask'[c].jar = ask[c].jar
         /\ ask'[c].arg = ask[c].arg /\ ask'[c].named = ask[c].named /\ ask'[c].clean = ask[c].clean
<1>1. PICK r \in Request : r = ask[c]
  BY DEF Types
<1>2. /\ ask \in [Call -> Request]
      /\ ask'[c] = [r EXCEPT !.ok = good, !.tenant = o, !.seen = what]
      /\ \A d \in Call : d # c => ask'[d] = ask[d]
  BY <1>1 DEF Types, Answer
<1>3. /\ ask'[c] \in Request
      /\ ask'[c].ok = good /\ ask'[c].tenant = o /\ ask'[c].seen = what
      /\ ask'[c].op = r.op /\ ask'[c].tab = r.tab /\ ask'[c].jar = r.jar
      /\ ask'[c].arg = r.arg /\ ask'[c].named = r.named /\ ask'[c].clean = r.clean
  BY <1>2 DEF Request
<1>4. ask' \in [Call -> Request]
  BY <1>2, <1>3 DEF Answer
<1> QED BY <1>1, <1>2, <1>3, <1>4 DEF Answer, Put

LEMMA PutFields ==
  ASSUME Types, NEW c \in Call, NEW f \in [Call -> Request], NEW r \in Request
  PROVE  /\ Put(f, c, r) \in [Call -> Request] /\ Put(f, c, r)[c] = r
         /\ \A d \in Call : d # c => Put(f, c, r)[d] = f[d]
BY DEF Put

LEMMA ViewFields ==
  /\ \A st \in {"closed", "loading", "failed", "ready"} : Unread(st) \in Views
  /\ \A st \in {"none", "loading", "failed", "ready"} : Page(st) \in Pages
<1>1. {} \in SUBSET Org /\ {} \in SUBSET Product /\ FALSE \in BOOLEAN
  OBVIOUS
<1> QED BY <1>1 DEF Unread, Page, Views, Pages

LEMMA FormStays ==
  ASSUME NEW d \in Call, Form(d), stage'[d] = stage[d], Fades(ask[d], ask'[d])
  PROVE  Form(d)'
BY DEF Form, Fades

-----------------------------------------------------------------------------
(***************************************************************************)
(* What each step is for the calls.  The steps of a route answer one call, *)
(* or decide on its tenant.                                                *)
(***************************************************************************)
\* Calls other than c are as they were.
Others(c) == \A d \in Call : d # c => stage'[d] = stage[d] /\ ask'[d] = ask[d]

\* The same request, but for its answer.
AsAsked(c) ==
  /\ ask'[c] \in Request
  /\ ask'[c].op = ask[c].op /\ ask'[c].tab = ask[c].tab /\ ask'[c].jar = ask[c].jar
  /\ ask'[c].arg = ask[c].arg /\ ask'[c].named = ask[c].named /\ ask'[c].clean = ask[c].clean

\* Call c goes on at the route.
Goes(c) ==
  /\ AsAsked(c) /\ stage[c] \in {"sent", "decided"}
  /\ \/ /\ stage'[c] = "decided" /\ stage[c] = "sent" /\ ask[c].op \in {"list", "create"}
        /\ ask'[c].tenant = Active(ask[c].jar, member) /\ ask'[c].tenant \in Org
     \/ /\ stage'[c] = "answered" /\ ask'[c].ok = FALSE
     \/ /\ stage'[c] = "answered" /\ ask[c].op = "session"
        /\ ask'[c].seen = member /\ ask'[c].tenant = Active(ask[c].jar, member)
     \/ /\ stage'[c] = "answered" /\ ask[c].op = "select"
        /\ ask'[c].ok => ask[c].arg \in member
     \/ /\ stage'[c] = "answered" /\ stage[c] = "decided" /\ ask[c].op = "list"
        /\ ask'[c].tenant = ask[c].tenant /\ ask'[c].seen = catalog[ask[c].tenant]
     \/ /\ stage'[c] = "answered" /\ stage[c] = "decided" /\ ask[c].op = "create"
        /\ ask'[c].tenant = ask[c].tenant
        /\ ask[c].arg \in catalog'[ask[c].tenant]

LEMMA AnswerOne ==
  ASSUME Types, NEW c \in Call, NEW good \in BOOLEAN, NEW o \in Org \cup {None},
         NEW what \in SUBSET (Org \cup Product), Answer(c, good, o, what)
  PROVE  /\ stage' \in [Call -> {"idle", "sent", "decided", "answered"}]
         /\ ask' \in [Call -> Request]
         /\ Others(c) /\ AsAsked(c) /\ stage'[c] = "answered"
         /\ ask'[c].ok = good /\ ask'[c].tenant = o /\ ask'[c].seen = what
<1>1. stage \in [Call -> {"idle", "sent", "decided", "answered"}]
  BY DEF Types
<1> QED BY <1>1, AnswerFields DEF Others, AsAsked

LEMMA TypesStay ==
  ASSUME Types, stage' \in [Call -> {"idle", "sent", "decided", "answered"}],
         ask' \in [Call -> Request], UNCHANGED <<api, cookie, tabs, trouble>>
  PROVE  Types'
BY DEF Types, api, tabs

LEMMA AtReadSession ==
  ASSUME Base, NEW c \in Call, ReadSession(c)
  PROVE  Types' /\ Goes(c) /\ Others(c) /\ UNCHANGED <<api, cookie, tabs, trouble>>
<1>0. Types /\ TRUE \in BOOLEAN
  BY DEF Base
<1>1. member \in SUBSET (Org \cup Product) /\ Active(ask[c].jar, member) \in Org \cup {None}
  BY <1>0, ActiveIsMember DEF Types
<1>2. PICK o \in Org \cup {None}, what \in SUBSET (Org \cup Product) :
        o = Active(ask[c].jar, member) /\ what = member
  BY <1>1
<1>3. /\ Answer(c, TRUE, o, what)
      /\ UNCHANGED <<api, cookie, tabs, trouble>> /\ stage[c] = "sent" /\ ask[c].op = "session"
  BY <1>2 DEF ReadSession
<1>4. /\ stage' \in [Call -> {"idle", "sent", "decided", "answered"}] /\ ask' \in [Call -> Request]
      /\ Others(c) /\ AsAsked(c) /\ stage'[c] = "answered"
      /\ ask'[c].tenant = o /\ ask'[c].seen = what
  BY <1>0, <1>3, AnswerOne
<1>5. Types'
  BY <1>0, <1>3, <1>4, TypesStay
<1> QED BY <1>2, <1>3, <1>4, <1>5 DEF Goes

LEMMA AtRemember ==
  ASSUME Base, NEW c \in Call, Remember(c)
  PROVE  Types' /\ Goes(c) /\ Others(c) /\ UNCHANGED <<api, cookie, tabs, trouble>>
<1>0. Types /\ {} \in SUBSET (Org \cup Product)
  BY DEF Base
<1>1. PICK good \in BOOLEAN : good = (ask[c].arg \in member)
  <2>1. (ask[c].arg \in member) \in BOOLEAN
    OBVIOUS
  <2> QED BY <2>1, Zenon
<1>2. /\ Answer(c, good, None, {})
      /\ UNCHANGED <<api, cookie, tabs, trouble>> /\ stage[c] = "sent" /\ ask[c].op = "select"
  BY <1>1, Zenon DEF Remember
<1>3. /\ stage' \in [Call -> {"idle", "sent", "decided", "answered"}] /\ ask' \in [Call -> Request]
      /\ Others(c) /\ AsAsked(c) /\ stage'[c] = "answered" /\ ask'[c].ok = good
  BY <1>0, <1>2, AnswerOne
<1>4. Types'
  BY <1>0, <1>2, <1>3, TypesStay
<1> QED BY <1>1, <1>2, <1>3, <1>4 DEF Goes

LEMMA AtResolve ==
  ASSUME Base, NEW c \in Call, Resolve(c)
  PROVE  Types' /\ Goes(c) /\ Others(c) /\ UNCHANGED <<api, cookie, tabs, trouble>>
<1>0. UNCHANGED <<api, cookie, tabs, trouble>> /\ stage[c] = "sent" /\ ask[c].op \in {"list", "create"}
  BY DEF Resolve
<1>1. CASE Active(ask[c].jar, member) = None
  <2>1. {} \in SUBSET (Org \cup Product) /\ FALSE \in BOOLEAN
    OBVIOUS
  <2>2. Answer(c, FALSE, None, {})
    BY <1>1 DEF Resolve
  <2>3. /\ stage' \in [Call -> {"idle", "sent", "decided", "answered"}] /\ ask' \in [Call -> Request]
        /\ Others(c) /\ AsAsked(c) /\ stage'[c] = "answered" /\ ask'[c].ok = FALSE
    BY <2>1, <2>2, AnswerOne DEF Base
  <2>4. Types'
    BY <1>0, <2>3, TypesStay DEF Base
  <2> QED BY <1>0, <2>3, <2>4 DEF Goes
<1>2. CASE Active(ask[c].jar, member) # None
  <2>1. PICK o \in Org : o = Active(ask[c].jar, member)
    BY <1>2, ActiveIsMember DEF Base, Types
  <2>2. PICK r \in Request : r = ask[c]
    BY DEF Base, Types
  <2>3. /\ stage' = [stage EXCEPT ![c] = "decided"]
        /\ ask' = [ask EXCEPT ![c] = [r EXCEPT !.tenant = o]]
    BY <1>2, <2>1, <2>2 DEF Resolve, Put
  <2>4. LET q == [r EXCEPT !.tenant = o] IN
          /\ q \in Request /\ q.tenant = o
          /\ q.op = r.op /\ q.tab = r.tab /\ q.jar = r.jar
          /\ q.arg = r.arg /\ q.named = r.named /\ q.clean = r.clean
    BY DEF Request
  <2> DEFINE q == [r EXCEPT !.tenant = o]
  <2> HIDE DEF q
  <2>5. ask' = [ask EXCEPT ![c] = q]
    BY <2>3 DEF q
  <2>6. /\ stage' \in [Call -> {"idle", "sent", "decided", "answered"}] /\ ask' \in [Call -> Request]
        /\ Others(c) /\ ask'[c] = q /\ stage'[c] = "decided"
    BY <2>3, <2>4, <2>5 DEF Base, Types, Others, q
  <2>7. Types'
    BY <1>0, <2>6, TypesStay DEF Base
  <2>8. AsAsked(c) /\ ask'[c].tenant = o
    BY <2>2, <2>4, <2>6 DEF AsAsked, q
  <2> QED BY <1>0, <2>1, <2>6, <2>7, <2>8 DEF Goes
<1> QED BY <1>1, <1>2

LEMMA AtProducts ==
  ASSUME Base, NEW c \in Call, Products(c)
  PROVE  Types' /\ Goes(c) /\ Others(c) /\ UNCHANGED <<api, cookie, tabs, trouble>>
<1> DEFINE o == ask[c].tenant
           rows == IF o \in member THEN catalog[o] ELSE {}
<1>1. /\ stage[c] = "decided" /\ ask[c].op = "list" /\ o \in Org
      /\ Answer(c, o \in member, o, rows) /\ UNCHANGED <<api, cookie, tabs, trouble>>
  BY DEF Products, Base, Form
<1>2. /\ rows \in SUBSET (Org \cup Product)
      /\ o \in member => rows = catalog[o]
  BY <1>1 DEF Base, Types
<1> HIDE DEF rows, o
<1>3. PICK good \in BOOLEAN : (good <=> o \in member) /\ Answer(c, good, o, rows)
  <2>1. CASE o \in member
    <3>1. Answer(c, TRUE, o, rows)
      BY <1>1, <2>1 DEF Answer
    <3> QED BY <2>1, <3>1
  <2>2. CASE o \notin member
    <3>1. (o \in member) = FALSE
      BY <2>2
    <3>2. Answer(c, FALSE, o, rows)
      BY <1>1, <3>1, Zenon
    <3> QED BY <2>2, <3>2
  <2> QED BY <2>1, <2>2
<1>4. /\ stage' \in [Call -> {"idle", "sent", "decided", "answered"}] /\ ask' \in [Call -> Request]
      /\ Others(c) /\ AsAsked(c) /\ stage'[c] = "answered"
      /\ ask'[c].ok = good /\ ask'[c].tenant = o /\ ask'[c].seen = rows
  BY <1>1, <1>2, <1>3, AnswerOne DEF Base
<1>5. Types'
  BY <1>1, <1>4, TypesStay DEF Base
<1> QED BY <1>1, <1>2, <1>3, <1>4, <1>5 DEF Goes, o

LEMMA AtCreateProduct ==
  ASSUME Base, NEW c \in Call, CreateProduct(c)
  PROVE  /\ Types' /\ Goes(c) /\ Others(c) /\ UNCHANGED <<taken, member, cookie, tabs, trouble>>
         /\ stage[c] = "decided" /\ ask[c].op = "create"
         /\ \A o \in Org : catalog[o] \subseteq catalog'[o] /\ catalog'[o] \subseteq catalog[o] \cup {ask[c].arg}
<1> DEFINE o == ask[c].tenant
<1>1. /\ stage[c] = "decided" /\ ask[c].op = "create" /\ o \in Org /\ ask[c].arg \in Product
      /\ Answer(c, o \in member, o, {})
      /\ UNCHANGED <<taken, member, cookie, tabs, trouble>>
      /\ catalog' = IF o \in member THEN [catalog EXCEPT ![o] = @ \cup {ask[c].arg}] ELSE catalog
  BY DEF CreateProduct, Base, Form
<1> HIDE DEF o
<1>2. {} \in SUBSET (Org \cup Product)
  OBVIOUS
<1>3. /\ catalog' \in [Org -> SUBSET Product]
      /\ o \in member => ask[c].arg \in catalog'[o]
      /\ \A n \in Org : catalog[n] \subseteq catalog'[n] /\ catalog'[n] \subseteq catalog[n] \cup {ask[c].arg}
  BY <1>1 DEF Base, Types
<1>4. PICK good \in BOOLEAN : (good <=> o \in member) /\ Answer(c, good, o, {})
  <2>1. CASE o \in member
    <3>1. Answer(c, TRUE, o, {})
      BY <1>1, <2>1 DEF Answer
    <3> QED BY <2>1, <3>1
  <2>2. CASE o \notin member
    <3>1. (o \in member) = FALSE
      BY <2>2
    <3>2. Answer(c, FALSE, o, {})
      BY <1>1, <3>1, Zenon
    <3> QED BY <2>2, <3>2
  <2> QED BY <2>1, <2>2
<1>5. /\ stage' \in [Call -> {"idle", "sent", "decided", "answered"}] /\ ask' \in [Call -> Request]
      /\ Others(c) /\ AsAsked(c) /\ stage'[c] = "answered"
      /\ ask'[c].ok = good /\ ask'[c].tenant = o
  BY <1>1, <1>2, <1>4, AnswerOne DEF Base
<1>6. Types'
  BY <1>1, <1>3, <1>5 DEF Base, Types, tabs
<1> QED BY <1>1, <1>3, <1>4, <1>5, <1>6 DEF Goes, o

LEMMA Troubled ==
  ASSUME trouble \in 0..MaxTrouble, Trouble
  PROVE  trouble' \in 0..MaxTrouble
BY MaxTroubleIsNat DEF Trouble

LEMMA AtFalter ==
  ASSUME Base, NEW c \in Call, Falter(c)
  PROVE  Types' /\ Goes(c) /\ Others(c) /\ UNCHANGED <<api, cookie, tabs>>
<1>1. {} \in SUBSET (Org \cup Product) /\ FALSE \in BOOLEAN
  OBVIOUS
<1>2. /\ Answer(c, FALSE, None, {}) /\ stage[c] \in {"sent", "decided"} /\ Trouble
      /\ UNCHANGED <<api, cookie, tabs>>
  BY DEF Falter
<1>3. /\ stage' \in [Call -> {"idle", "sent", "decided", "answered"}] /\ ask' \in [Call -> Request]
      /\ Others(c) /\ AsAsked(c) /\ stage'[c] = "answered" /\ ask'[c].ok = FALSE
  BY <1>1, <1>2, AnswerOne DEF Base
<1>4. trouble' \in 0..MaxTrouble
  BY <1>2, Troubled DEF Base, Types
<1>5. Types'
  BY <1>2, <1>3, <1>4 DEF Base, Types, api, tabs
<1> QED BY <1>2, <1>3, <1>5 DEF Goes

-----------------------------------------------------------------------------
(***************************************************************************)
(* The steps of a page, likewise.                                          *)
(***************************************************************************)
\* Other calls may become unclean, or nobody's.
Softly(c) == \A d \in Call : d # c => stage'[d] = stage[d] /\ Fades(ask[d], ask'[d])

\* A request of tab t is sent; or its call is over.
Sends(c, op, t, arg, jar) == stage'[c] = "sent" /\ Asks(ask'[c], op, t, arg, jar)
Ends(c) == stage'[c] = "idle" /\ ask'[c].op = "none" /\ ask'[c].tab = None

\* Only tab t is shown anything else, or told anything.
OnlyTab(t) == \A u \in Tab : u # t => view'[u] = view[u] /\ page'[u] = page[u] /\ added'[u] = added[u]

\* The other calls tab t awaited are nobody's.
Silences(t, c) ==
  \A d \in Call : d # c => /\ stage'[d] = stage[d] /\ Fades(ask[d], ask'[d])
                           /\ IF ask[d].tab = t THEN ask'[d].tab = None ELSE ask'[d] = ask[d]

\* A list overtakes the others of its tab.
Lists(c, t, clean) ==
  /\ Sends(c, "list", t, None, cookie) /\ ask'[c].clean = clean
  /\ page'[t] = Page("loading")
  /\ \A d \in Call : d # c => /\ stage'[d] = stage[d] /\ Fades(ask[d], ask'[d]) /\ ask'[d].tab = ask[d].tab
                              /\ IF Busy(d, t, "list") THEN ask'[d].clean = FALSE ELSE ask'[d] = ask[d]

\* The cookie or the memberships change, and tab t did it.
Upsets(t, c) ==
  /\ \A d \in Call : d # c => /\ stage'[d] = stage[d] /\ Fades(ask[d], ask'[d]) /\ ask'[d].tab = ask[d].tab
                              /\ IF ask[d].tab = t /\ t # None THEN ask'[d] = ask[d]
                                                               ELSE ask'[d].clean = FALSE
  /\ \A u \in Tab : overtaken'[u] <=> overtaken[u] \/ u # t

Stages == {"idle", "sent", "decided", "answered"}

LEMMA PutStage ==
  ASSUME Types, NEW c \in Call, NEW s \in Stages, stage' = Put(stage, c, s)
  PROVE  stage' \in [Call -> Stages] /\ stage'[c] = s /\ \A d \in Call : d # c => stage'[d] = stage[d]
<1>1. stage \in [Call -> Stages]
  BY DEF Types, Stages
<1> QED BY <1>1 DEF Put

LEMMA SendOne ==
  ASSUME Types, NEW c \in Call, NEW r \in Request, Send(c, r)
  PROVE  /\ stage' \in [Call -> Stages] /\ ask' \in [Call -> Request] /\ Others(c)
         /\ stage'[c] = "sent" /\ ask'[c] = r
<1>1. ask' \in [Call -> Request] /\ ask'[c] = r /\ \A d \in Call : d # c => ask'[d] = ask[d]
  BY PutFields DEF Types, Send
<1>2. "sent" \in Stages /\ stage' = Put(stage, c, "sent")
  BY DEF Send, Stages
<1> QED BY <1>1, <1>2, PutStage DEF Others

LEMMA IdleOne ==
  ASSUME Types, NEW c \in Call, Idle(c)
  PROVE  stage' \in [Call -> Stages] /\ ask' \in [Call -> Request] /\ Others(c) /\ Ends(c)
<1>1. PICK r \in Request : r = Nothing /\ r.op = "none" /\ r.tab = None
  BY NothingIsRequest
<1>2. ask' \in [Call -> Request] /\ ask'[c] = r /\ \A d \in Call : d # c => ask'[d] = ask[d]
  BY <1>1, PutFields DEF Types, Idle
<1>3. "idle" \in Stages /\ stage' = Put(stage, c, "idle")
  BY DEF Idle, Stages
<1> QED BY <1>1, <1>2, <1>3, PutStage DEF Others, Ends

LEMMA ListOne ==
  ASSUME Types, NEW c \in Call, NEW t \in Tab, NEW clean \in BOOLEAN, List(c, t, clean)
  PROVE  /\ stage' \in [Call -> Stages] /\ ask' \in [Call -> Request] /\ Lists(c, t, clean)
         /\ page' \in [Tab -> Pages] /\ \A u \in Tab : u # t => page'[u] = page[u]
<1>1. "sent" \in Stages /\ stage' = Put(stage, c, "sent")
  BY DEF Stages, List
<1>2. stage' \in [Call -> Stages] /\ stage'[c] = "sent" /\ \A d \in Call : d # c => stage'[d] = stage[d]
  BY <1>1, PutStage
<1>3. PICK p \in Pages : p = Page("loading")
  BY ViewFields
<1>4. page' = [page EXCEPT ![t] = p] /\ page \in [Tab -> Pages]
  BY <1>3, ListFields DEF Types
<1>5. page' \in [Tab -> Pages] /\ page'[t] = p /\ \A u \in Tab : u # t => page'[u] = page[u]
  BY <1>4
<1>6. /\ ask' \in [Call -> Request]
      /\ Asks(ask'[c], "list", t, None, cookie) /\ ask'[c].clean = clean
      /\ \A d \in Call : d # c => /\ Fades(ask[d], ask'[d]) /\ ask'[d].tab = ask[d].tab
                                  /\ IF Busy(d, t, "list") THEN ask'[d].clean = FALSE
                                                           ELSE ask'[d] = ask[d]
  BY ListFields
<1> QED BY <1>2, <1>3, <1>5, <1>6 DEF Lists, Sends

\* One tab's entry changes.
LEMMA PutTab ==
  ASSUME NEW S, NEW f \in [Tab -> S], NEW t \in Tab, NEW v \in S
  PROVE  /\ Put(f, t, v) \in [Tab -> S] /\ Put(f, t, v)[t] = v
         /\ \A u \in Tab : u # t => Put(f, t, v)[u] = f[u]
BY DEF Put

LEMMA ForgetRest ==
  ASSUME Types, NEW t \in Tab, NEW c \in Call, NEW r \in Request,
         ask' = Put(Forgotten(t), c, r), \A d \in Call : d # c => stage'[d] = stage[d]
  PROVE  ask' \in [Call -> Request] /\ ask'[c] = r /\ Silences(t, c)
<1>1. \A d \in Call : /\ Fades(ask[d], Forgotten(t)[d]) /\ Forgotten(t)[d] \in Request
                      /\ IF ask[d].tab = t THEN Forgotten(t)[d].tab = None ELSE Forgotten(t)[d] = ask[d]
  BY ForgottenOne DEF Fades
<1>2. Forgotten(t) \in [Call -> Request]
  BY <1>1 DEF Forgotten
<1>3. ask' \in [Call -> Request] /\ ask'[c] = r /\ \A d \in Call : d # c => ask'[d] = Forgotten(t)[d]
  BY <1>2, PutFields
<1> QED BY <1>1, <1>3 DEF Silences

LEMMA UpsetRest ==
  ASSUME Types, NEW t \in Tab \cup {None}, NEW c \in Call, NEW r \in Request,
         ask' = Put(Unclean({t}), c, r), \A d \in Call : d # c => stage'[d] = stage[d],
         Overtake({t})
  PROVE  /\ ask' \in [Call -> Request] /\ ask'[c] = r /\ Upsets(t, c)
         /\ overtaken' \in [Tab -> BOOLEAN]
<1>1. ASSUME NEW d \in Call
      PROVE  /\ Fades(ask[d], Unclean({t})[d]) /\ Unclean({t})[d].tab = ask[d].tab
             /\ Unclean({t})[d] \in Request
             /\ IF ask[d].tab = t /\ t # None THEN Unclean({t})[d] = ask[d]
                                              ELSE Unclean({t})[d].clean = FALSE
  <2>1. ask[d].tab \in {t} \ {None} <=> ask[d].tab = t /\ t # None
    OBVIOUS
  <2>2. /\ Fades(ask[d], Unclean({t})[d]) /\ Unclean({t})[d].tab = ask[d].tab
        /\ ask[d].tab \in {t} \ {None} => Unclean({t})[d] = ask[d]
        /\ ask[d].tab \notin {t} \ {None} => Unclean({t})[d].clean = FALSE
    BY UncleanOne
  <2>3. Unclean({t})[d] \in Request
    BY <2>2 DEF Fades
  <2> QED BY <2>1, <2>2, <2>3
<1>2. Unclean({t}) \in [Call -> Request]
  BY <1>1 DEF Unclean
<1>3. ask' \in [Call -> Request] /\ ask'[c] = r /\ \A d \in Call : d # c => ask'[d] = Unclean({t})[d]
  BY <1>2, PutFields
<1>4. overtaken' \in [Tab -> BOOLEAN] /\ \A u \in Tab : overtaken'[u] <=> overtaken[u] \/ u # t
  BY DEF Overtake, Types
<1> QED BY <1>1, <1>3, <1>4 DEF Upsets

LEMMA TypesNow ==
  ASSUME Types, stage' \in [Call -> Stages], ask' \in [Call -> Request],
         view' \in [Tab -> Views], page' \in [Tab -> Pages], added' \in [Tab -> SUBSET Product],
         overtaken' \in [Tab -> BOOLEAN], cookie' \in Org \cup {None}, trouble' \in 0..MaxTrouble,
         UNCHANGED api
  PROVE  Types'
BY DEF Types, Stages, api

LEMMA AtOpen ==
  ASSUME Base, NEW t \in Tab, NEW c \in Call, Open(t, c)
  PROVE  /\ Types' /\ stage[c] = "idle" /\ UNCHANGED <<api, cookie, overtaken, trouble>>
         /\ Sends(c, "session", t, None, cookie) /\ ask'[c].clean = TRUE /\ Silences(t, c)
         /\ OnlyTab(t) /\ view'[t] = Unread("loading") /\ page'[t] = Page("none") /\ added'[t] = {}
<1>1. /\ stage[c] = "idle" /\ UNCHANGED <<api, cookie, overtaken, trouble>>
      /\ stage' = Put(stage, c, "sent") /\ "sent" \in Stages
  BY DEF Open, Stages
<1>2. PICK r \in Request : /\ r = Asking("session", t, None, cookie)
                           /\ Asks(r, "session", t, None, cookie) /\ r.clean = TRUE
  <2>1. /\ Asks(Asking("session", t, None, cookie), "session", t, None, cookie)
        /\ Asking("session", t, None, cookie).clean = TRUE
    BY AskingFields DEF Base, Types
  <2> QED BY <2>1 DEF Asks
<1>3. stage' \in [Call -> Stages] /\ stage'[c] = "sent" /\ \A d \in Call : d # c => stage'[d] = stage[d]
  BY <1>1, PutStage DEF Base
<1>4. ask' \in [Call -> Request] /\ ask'[c] = r /\ Silences(t, c)
  <2>1. ask' = Put(Forgotten(t), c, r)
    BY <1>2 DEF Open
  <2> QED BY <2>1, <1>3, ForgetRest DEF Base
<1>5. PICK v \in Views, p \in Pages : v = Unread("loading") /\ p = Page("none")
  BY ViewFields
<1>6. /\ view' = Put(view, t, v) /\ page' = Put(page, t, p) /\ added' = Put(added, t, {})
      /\ view \in [Tab -> Views] /\ page \in [Tab -> Pages] /\ added \in [Tab -> SUBSET Product]
      /\ {} \in SUBSET Product
  BY <1>5 DEF Open, Base, Types
<1>7. /\ view' \in [Tab -> Views] /\ view'[t] = v /\ \A u \in Tab : u # t => view'[u] = view[u]
      /\ page' \in [Tab -> Pages] /\ page'[t] = p /\ \A u \in Tab : u # t => page'[u] = page[u]
      /\ added' \in [Tab -> SUBSET Product] /\ added'[t] = {} /\ \A u \in Tab : u # t => added'[u] = added[u]
  BY <1>6 DEF Put
<1>8. Types'
  BY <1>1, <1>3, <1>4, <1>7, TypesNow DEF Base, Types
<1> QED BY <1>1, <1>2, <1>3, <1>4, <1>5, <1>7, <1>8 DEF Sends, OnlyTab

LEMMA AtSend ==
  ASSUME Types, NEW c \in Call, NEW r \in Request, Send(c, r), UNCHANGED <<api, cookie, tabs, trouble>>
  PROVE  Types' /\ Others(c) /\ stage'[c] = "sent" /\ ask'[c] = r
<1>1. /\ stage' \in [Call -> Stages] /\ ask' \in [Call -> Request] /\ Others(c)
      /\ stage'[c] = "sent" /\ ask'[c] = r
  BY SendOne
<1> QED BY <1>1, TypesStay DEF Stages

LEMMA AtChoose ==
  ASSUME Base, NEW t \in Tab, NEW o \in Org, NEW c \in Call, Choose(t, o, c)
  PROVE  /\ Types' /\ stage[c] = "idle" /\ UNCHANGED <<api, cookie, tabs, trouble>>
         /\ Sends(c, "select", t, o, cookie) /\ Others(c)
         /\ Shell(t) /\ Cardinality(view[t].orgs) > 1
         /\ \A d \in Call : ~Busy(d, t, "select") /\ ~Busy(d, t, "session")
<1>1. PICK r \in Request : r = Asking("select", t, o, cookie) /\ Asks(r, "select", t, o, cookie)
  <2>1. Asks(Asking("select", t, o, cookie), "select", t, o, cookie)
    BY AskingFields DEF Base, Types
  <2> QED BY <2>1 DEF Asks
<1>2. Send(c, r) /\ UNCHANGED <<api, cookie, tabs, trouble>> /\ stage[c] = "idle"
  BY <1>1 DEF Choose
<1>3. Types' /\ Others(c) /\ stage'[c] = "sent" /\ ask'[c] = r
  BY <1>2, AtSend DEF Base
<1>4. /\ Shell(t) /\ Cardinality(view[t].orgs) > 1
      /\ \A d \in Call : ~Busy(d, t, "select") /\ ~Busy(d, t, "session")
  BY DEF Choose, Doing, Busy, Of
<1> QED BY <1>1, <1>2, <1>3, <1>4 DEF Sends

LEMMA AtSubmit ==
  ASSUME Base, NEW t \in Tab, NEW p \in Product, NEW c \in Call, Submit(t, p, c)
  PROVE  /\ Types' /\ stage[c] = "idle" /\ UNCHANGED <<api, cookie, tabs, trouble>>
         /\ Sends(c, "create", t, p, cookie) /\ Others(c)
         /\ Shell(t) /\ ask'[c].named = view[t].active
         /\ ask'[c].clean => /\ ~overtaken[t]
                             /\ \A d \in Call : ~Busy(d, t, "select") /\ ~Busy(d, t, "session")
         /\ \A o \in Org : p \notin catalog[o]
         /\ \A d \in Call : ask[d].arg # p
<1> DEFINE clean == ~overtaken[t] /\ Doing(t, {"select", "session"}) = {}
<1>1. PICK r \in Request : r = Asking("create", t, p, cookie) /\ Asks(r, "create", t, p, cookie)
  <2>1. Asks(Asking("create", t, p, cookie), "create", t, p, cookie)
    BY AskingFields DEF Base, Types
  <2> QED BY <2>1 DEF Asks
<1>2. PICK a \in Org \cup {None} : a = view[t].active
  BY DEF Base, Types, Views
<1>3. PICK b \in BOOLEAN : b = clean
  <2>1. clean \in BOOLEAN
    OBVIOUS
  <2> QED BY <2>1
<1>4. b => ~overtaken[t] /\ \A d \in Call : ~Busy(d, t, "select") /\ ~Busy(d, t, "session")
  BY <1>3 DEF Doing, Busy, Of
<1> HIDE DEF clean
<1>5. PICK q \in Request : /\ q = [r EXCEPT !.named = a, !.clean = b]
                           /\ Asks(q, "create", t, p, cookie) /\ q.named = a /\ q.clean = b
  <2>1. LET q == [r EXCEPT !.named = a, !.clean = b] IN
          q \in Request /\ Asks(q, "create", t, p, cookie) /\ q.named = a /\ q.clean = b
    BY <1>1 DEF Request, Asks
  <2> QED BY <2>1
<1>6. Send(c, q) /\ UNCHANGED <<api, cookie, tabs, trouble>> /\ stage[c] = "idle"
  <2>1. Send(c, [r EXCEPT !.named = view[t].active, !.clean = clean])
    BY <1>1 DEF Submit, clean
  <2>2. Send(c, q)
    BY <2>1, <1>2, <1>3, <1>5, Zenon
  <2> QED BY <2>2 DEF Submit
<1>7. Types' /\ Others(c) /\ stage'[c] = "sent" /\ ask'[c] = q
  BY <1>6, AtSend DEF Base
<1>8. /\ Shell(t) /\ \A o \in Org : p \notin catalog[o]
      /\ \A d \in Call : ask[d].arg # p
  BY DEF Submit
<1> QED BY <1>2, <1>4, <1>5, <1>6, <1>7, <1>8 DEF Sends

LEMMA AtStart ==
  ASSUME Base, NEW t \in Tab, NEW o \in Org, NEW c \in Call, Start(t, o, c)
  PROVE  /\ Types' /\ stage[c] = "idle" /\ UNCHANGED <<api, cookie, tabs, trouble>>
         /\ Sends(c, "found", t, o, cookie) /\ Others(c) /\ view[t] = Unread("ready")
         /\ \A d \in Call : ~Busy(d, t, "found") /\ ~Busy(d, t, "session")
<1>1. PICK r \in Request : r = Asking("found", t, o, cookie) /\ Asks(r, "found", t, o, cookie)
  <2>1. Asks(Asking("found", t, o, cookie), "found", t, o, cookie)
    BY AskingFields DEF Base, Types
  <2> QED BY <2>1 DEF Asks
<1>2. Send(c, r) /\ UNCHANGED <<api, cookie, tabs, trouble>> /\ stage[c] = "idle"
  BY <1>1 DEF Start
<1>3. Types' /\ Others(c) /\ stage'[c] = "sent" /\ ask'[c] = r
  BY <1>2, AtSend DEF Base
<1>4. /\ view[t] = Unread("ready")
      /\ \A d \in Call : ~Busy(d, t, "found") /\ ~Busy(d, t, "session")
  BY DEF Start, Doing, Busy, Of
<1> QED BY <1>1, <1>2, <1>3, <1>4 DEF Sends

LEMMA AtIdle ==
  ASSUME Types, NEW c \in Call, Idle(c), UNCHANGED <<api, cookie, tabs, trouble>>
  PROVE  Types' /\ Others(c) /\ Ends(c)
<1>1. stage' \in [Call -> Stages] /\ ask' \in [Call -> Request] /\ Others(c) /\ Ends(c)
  BY IdleOne
<1> QED BY <1>1, TypesStay DEF Stages

\* An answer that is awaited.
LEMMA Awaited ==
  ASSUME Base, NEW c \in Call, NEW op, Answered(c, op)
  PROVE  stage[c] = "answered" /\ ask[c].tab \in Tab /\ Busy(c, ask[c].tab, op) /\ ask[c].tab # None
BY DEF Answered, Busy, Of, Base, Types, Request

LEMMA AtGotFounded ==
  ASSUME Base, NEW c \in Call, GotFounded(c)
  PROVE  /\ Types' /\ Others(c) /\ UNCHANGED <<api, cookie, tabs, trouble>>
         /\ ask[c].tab \in Tab /\ Busy(c, ask[c].tab, "found")
         /\ \/ Ends(c)
            \/ Sends(c, "session", ask[c].tab, None, cookie) /\ ask'[c].clean = TRUE
<1>1. ask[c].tab \in Tab /\ Busy(c, ask[c].tab, "found") /\ UNCHANGED <<api, cookie, tabs, trouble>>
  BY Awaited DEF GotFounded
<1>2. PICK t \in Tab : t = ask[c].tab
  BY <1>1
<1>3. CASE ~ask[c].ok
  <2>1. Idle(c)
    BY <1>3 DEF GotFounded
  <2> QED BY <1>1, <2>1, AtIdle DEF Base
<1>4. CASE ask[c].ok
  <2>1. PICK r \in Request : /\ r = Asking("session", t, None, cookie)
                             /\ Asks(r, "session", t, None, cookie) /\ r.clean = TRUE
    <3>1. /\ Asks(Asking("session", t, None, cookie), "session", t, None, cookie)
          /\ Asking("session", t, None, cookie).clean = TRUE
      BY AskingFields DEF Base, Types
    <3> QED BY <3>1 DEF Asks
  <2>2. Send(c, r)
    BY <1>2, <1>4, <2>1 DEF GotFounded
  <2>3. Types' /\ Others(c) /\ stage'[c] = "sent" /\ ask'[c] = r
    BY <1>1, <2>2, AtSend DEF Base
  <2> QED BY <1>1, <1>2, <2>1, <2>3 DEF Sends
<1> QED BY <1>3, <1>4

LEMMA AtVanish ==
  ASSUME Base, NEW c \in Call, Vanish(c)
  PROVE  Types' /\ Others(c) /\ Ends(c) /\ ask[c].tab = None /\ UNCHANGED <<api, cookie, tabs, trouble>>
BY AtIdle DEF Vanish, Base

\* The session a tab is shown when call c answers.
Shows(c, t) ==
  \/ /\ ask[c].ok /\ view'[t].status = "ready"
     /\ view'[t].orgs = ask[c].seen /\ view'[t].active = ask[c].tenant
  \/ view'[t].status = "failed" /\ view'[t].orgs = {} /\ view'[t].active = None

LEMMA AtGotSession ==
  ASSUME Base, NEW c \in Call, NEW t \in Tab, t = ask[c].tab, GotSession(c)
  PROVE  /\ Types' /\ Busy(c, t, "session") /\ stage[c] = "answered" /\ UNCHANGED <<api, cookie, added, trouble>>
         /\ OnlyTab(t) /\ \A u \in Tab : u # t => overtaken'[u] = overtaken[u]
         /\ overtaken'[t] <=> ~ask[c].clean
         /\ Shows(c, t)
         /\ \/ Lists(c, t, ask[c].clean) /\ view'[t].orgs # {} /\ view'[t].active # None
            \/ /\ view'[t].orgs # {} /\ view'[t].active = None /\ page'[t] = Page("ready")
               /\ Ends(c) /\ Others(c)
            \/ /\ Shell(t) /\ view'[t].orgs # {} /\ view'[t].active = view[t].active /\ view'[t].active # None
               /\ page'[t] = page[t] /\ Ends(c) /\ Others(c)
            \/ /\ view'[t].orgs = {} /\ page'[t] = Page("none")
               /\ Ends(c) /\ Silences(t, c)
<1>1. /\ Busy(c, t, "session") /\ stage[c] = "answered" /\ ask[c].tab # None
      /\ UNCHANGED <<api, cookie, added, trouble>>
  BY Awaited DEF GotSession
<1>2. PICK x \in Org \cup {None} : x = ask[c].tenant
  BY DEF Base, Types, Request
<1>3. PICK fine \in BOOLEAN, good \in BOOLEAN : fine = ask[c].clean /\ good = ask[c].ok
  BY DEF Base, Types, Request
<1> DEFINE now == IF good THEN [status |-> "ready", orgs |-> ask[c].seen, active |-> x] ELSE Unread("failed")
<1>4. /\ now \in Views
      /\ \/ good /\ now.status = "ready" /\ now.orgs = ask[c].seen /\ now.active = x
         \/ now.status = "failed" /\ now.orgs = {} /\ now.active = None
  <2>1. CASE good
    <3>1. ask[c].seen \in SUBSET Org
      BY <1>1, <1>3, <2>1 DEF Base, Form, Busy, Of
    <3> QED BY <2>1, <3>1 DEF Views
  <2>2. CASE ~good
    BY <2>2, ViewFields DEF Unread
  <2> QED BY <2>1, <2>2
<1>5. /\ view' = Put(view, t, now) /\ overtaken' = Put(overtaken, t, ~fine)
      /\ \/ /\ now.orgs # {} /\ x # None /\ (Shell(t) => view[t].active # x)
            /\ List(c, t, fine)
         \/ /\ now.orgs # {} /\ x = None
            /\ page' = Put(page, t, Page("ready"))
            /\ Idle(c)
         \/ /\ now.orgs # {} /\ Shell(t) /\ view[t].active = x /\ x # None
            /\ Idle(c)
            /\ UNCHANGED page
         \/ /\ now.orgs = {}
            /\ page' = Put(page, t, Page("none"))
            /\ stage' = Put(stage, c, "idle")
            /\ ask' = Put(Forgotten(t), c, Nothing)
  BY <1>2, <1>3 DEF GotSession
<1>6. PICK v \in Views : v = now
  BY <1>4
<1> HIDE DEF now
<1>7. /\ view' \in [Tab -> Views] /\ view'[t] = v /\ \A u \in Tab : u # t => view'[u] = view[u]
  BY <1>5, <1>6 DEF Base, Types, Put
<1>8. /\ overtaken' \in [Tab -> BOOLEAN] /\ (overtaken'[t] <=> ~ask[c].clean)
      /\ \A u \in Tab : u # t => overtaken'[u] = overtaken[u]
  <2>1. PICK b \in BOOLEAN : b = ~fine
    BY <1>3
  <2>2. overtaken' = Put(overtaken, t, b) /\ overtaken \in [Tab -> BOOLEAN]
    BY <1>5, <2>1 DEF Base, Types
  <2>3. /\ overtaken' \in [Tab -> BOOLEAN] /\ overtaken'[t] = b
        /\ \A u \in Tab : u # t => overtaken'[u] = overtaken[u]
    BY <2>2 DEF Put
  <2> QED BY <1>3, <2>1, <2>3
<1>9. Shows(c, t)
  BY <1>2, <1>3, <1>4, <1>6, <1>7 DEF Shows
<1>10. Types'
       <=> /\ stage' \in [Call -> Stages] /\ ask' \in [Call -> Request] /\ page' \in [Tab -> Pages]
  <2>1. /\ UNCHANGED <<taken, member, catalog, cookie, added, trouble>>
    BY <1>1 DEF api
  <2> QED BY <1>7, <1>8, <2>1 DEF Base, Types, Stages
<1>11. \/ v.active = x /\ v.orgs = now.orgs
       \/ v.active = None /\ v.orgs = {} /\ now.orgs = {}
  BY <1>4, <1>6
<1>12. page \in [Tab -> Pages] /\ added' = added
  BY <1>1 DEF Base, Types
<1>a. CASE now.orgs # {} /\ x # None /\ List(c, t, fine)
  <2>1. /\ stage' \in [Call -> Stages] /\ ask' \in [Call -> Request] /\ Lists(c, t, fine)
        /\ page' \in [Tab -> Pages] /\ \A u \in Tab : u # t => page'[u] = page[u]
    BY <1>a, ListOne DEF Base
  <2> QED BY <1>1, <1>3, <1>7, <1>8, <1>9, <1>10, <1>11, <1>12, <1>a, <2>1 DEF OnlyTab
<1>b. CASE now.orgs # {} /\ x = None /\ page' = Put(page, t, Page("ready")) /\ Idle(c)
  <2>1. PICK p \in Pages : p = Page("ready")
    BY ViewFields
  <2>2. page' \in [Tab -> Pages] /\ page'[t] = p /\ \A u \in Tab : u # t => page'[u] = page[u]
    BY <1>b, <1>12, <2>1 DEF Put
  <2>3. stage' \in [Call -> Stages] /\ ask' \in [Call -> Request] /\ Others(c) /\ Ends(c)
    BY <1>b, IdleOne DEF Base
  <2> QED BY <1>1, <1>7, <1>8, <1>9, <1>10, <1>11, <1>12, <1>b, <2>1, <2>2, <2>3 DEF OnlyTab
<1>c. CASE now.orgs # {} /\ Shell(t) /\ view[t].active = x /\ x # None /\ Idle(c) /\ UNCHANGED page
  <2>1. stage' \in [Call -> Stages] /\ ask' \in [Call -> Request] /\ Others(c) /\ Ends(c)
    BY <1>c, IdleOne DEF Base
  <2> QED BY <1>1, <1>7, <1>8, <1>9, <1>10, <1>11, <1>12, <1>c, <2>1 DEF OnlyTab
<1>d. CASE /\ now.orgs = {} /\ page' = Put(page, t, Page("none"))
           /\ stage' = Put(stage, c, "idle") /\ ask' = Put(Forgotten(t), c, Nothing)
  <2>1. PICK p \in Pages : p = Page("none")
    BY ViewFields
  <2>2. page' \in [Tab -> Pages] /\ page'[t] = p /\ \A u \in Tab : u # t => page'[u] = page[u]
    BY <1>d, <1>12, <2>1 DEF Put
  <2>3. PICK r \in Request : r = Nothing /\ r.op = "none" /\ r.tab = None
    BY NothingIsRequest
  <2>4. stage' \in [Call -> Stages] /\ stage'[c] = "idle" /\ \A d \in Call : d # c => stage'[d] = stage[d]
    BY <1>d, PutStage DEF Base, Stages
  <2>5. ask' \in [Call -> Request] /\ ask'[c] = r /\ Silences(t, c)
    BY <1>d, <2>3, <2>4, ForgetRest DEF Base
  <2> QED BY <1>1, <1>7, <1>8, <1>9, <1>10, <1>11, <1>12, <1>d, <2>1, <2>2, <2>3, <2>4, <2>5 DEF OnlyTab, Ends
<1> QED BY <1>5, <1>a, <1>b, <1>c, <1>d

LEMMA AtGotSelect ==
  ASSUME Base, NEW c \in Call, NEW t \in Tab, t = ask[c].tab, GotSelect(c)
  PROVE  /\ Types' /\ Busy(c, t, "select") /\ stage[c] = "answered"
         /\ UNCHANGED <<api, view, page, added, trouble>>
         /\ cookie' = Chosen(c) /\ Sends(c, "session", t, None, cookie') /\ ask'[c].clean = TRUE
         /\ \/ Others(c) /\ cookie' = cookie /\ overtaken' = overtaken
            \/ Upsets(t, c)
<1>1. /\ Busy(c, t, "select") /\ stage[c] = "answered" /\ UNCHANGED <<api, view, page, added, trouble>>
      /\ cookie' = Chosen(c) /\ stage' = Put(stage, c, "sent") /\ "sent" \in Stages
  BY Awaited DEF GotSelect, Stages
<1>2. PICK jar \in Org \cup {None} : jar = Chosen(c)
  BY <1>1 DEF Base, Types, Chosen, Form, Busy
<1>3. PICK r \in Request : /\ r = Asking("session", t, None, jar)
                           /\ Asks(r, "session", t, None, jar) /\ r.clean = TRUE
  <2>1. /\ Asks(Asking("session", t, None, jar), "session", t, None, jar)
        /\ Asking("session", t, None, jar).clean = TRUE
    BY AskingFields
  <2> QED BY <2>1 DEF Asks
<1>4. cookie' = jar
  BY <1>1, <1>2
<1>5. r = Asking("session", t, None, cookie')
  BY <1>3, <1>4
<1>6. stage' \in [Call -> Stages] /\ stage'[c] = "sent" /\ \A d \in Call : d # c => stage'[d] = stage[d]
  BY <1>1, PutStage DEF Base
<1>7. Types /\ ask \in [Call -> Request] /\ t \in Tab \cup {None}
  BY DEF Base, Types
<1>8. CASE cookie' = cookie
  <2>0. ask' = Put(ask, c, Asking("session", t, None, cookie')) /\ UNCHANGED overtaken
    BY <1>8 DEF GotSelect
  <2>1. ask' = Put(ask, c, r) /\ UNCHANGED overtaken
    BY <1>5, <2>0, Zenon
  <2>2. ask' \in [Call -> Request] /\ ask'[c] = r /\ \A d \in Call : d # c => ask'[d] = ask[d]
    BY <2>1, <1>7, PutFields
  <2>3. Types'
    BY <1>1, <1>4, <1>6, <2>1, <2>2 DEF Base, Types, Stages, api
  <2> QED BY <1>1, <1>3, <1>4, <1>6, <1>8, <2>1, <2>2, <2>3 DEF Sends, Others
<1>9. CASE cookie' # cookie
  <2>0. ask' = Put(Unclean({t}), c, Asking("session", t, None, cookie')) /\ Overtake({t})
    BY <1>9 DEF GotSelect
  <2>1. ask' = Put(Unclean({t}), c, r) /\ Overtake({t})
    BY <1>5, <2>0, Zenon
  <2>2. /\ ask' \in [Call -> Request] /\ ask'[c] = r /\ Upsets(t, c)
        /\ overtaken' \in [Tab -> BOOLEAN]
    BY <1>6, <1>7, <2>1, UpsetRest
  <2>3. Types'
    BY <1>1, <1>4, <1>6, <2>2 DEF Base, Types, Stages, api
  <2> QED BY <1>1, <1>3, <1>4, <1>6, <2>2, <2>3 DEF Sends
<1> QED BY <1>8, <1>9

LEMMA AtGotList ==
  ASSUME Base, NEW c \in Call, NEW t \in Tab, t = ask[c].tab, GotList(c)
  PROVE  /\ Types' /\ Busy(c, t, "list") /\ stage[c] = "answered"
         /\ UNCHANGED <<api, cookie, view, added, overtaken, trouble>>
         /\ Ends(c) /\ Others(c) /\ OnlyTab(t)
         /\ \/ page'[t] = Page("failed")
            \/ /\ ask[c].ok /\ page'[t].status = "ready"
               /\ page'[t].of = ask[c].tenant /\ page'[t].rows = ask[c].seen
               /\ page'[t].clean = ask[c].clean
<1>1. /\ Busy(c, t, "list") /\ stage[c] = "answered" /\ Idle(c)
      /\ UNCHANGED <<api, cookie, view, added, overtaken, trouble>>
  BY Awaited DEF GotList
<1>2. PICK x \in Org \cup {None}, b \in BOOLEAN : x = ask[c].tenant /\ b = ask[c].clean
  BY DEF Base, Types, Request
<1> DEFINE now == IF ask[c].ok THEN [status |-> "ready", of |-> x, rows |-> ask[c].seen, clean |-> b]
                               ELSE Page("failed")
<1>3. /\ now \in Pages
      /\ \/ now = Page("failed")
         \/ /\ ask[c].ok /\ now.status = "ready" /\ now.of = x /\ now.rows = ask[c].seen /\ now.clean = b
  <2>1. CASE ask[c].ok
    <3>1. ask[c].seen \in SUBSET Product
      BY <1>1, <2>1 DEF Base, Form, Busy
    <3> QED BY <2>1, <3>1 DEF Pages
  <2>2. CASE ~ask[c].ok
    BY <2>2, ViewFields
  <2> QED BY <2>1, <2>2
<1>4. PICK p \in Pages : p = now
  BY <1>3
<1>5. page' = Put(page, t, p)
  BY <1>2, <1>4 DEF GotList
<1> HIDE DEF now
<1>6. page' \in [Tab -> Pages] /\ page'[t] = p /\ \A u \in Tab : u # t => page'[u] = page[u]
  BY <1>5 DEF Base, Types, Put
<1>7. stage' \in [Call -> Stages] /\ ask' \in [Call -> Request] /\ Others(c) /\ Ends(c)
  BY <1>1, IdleOne DEF Base
<1>8. Types'
  BY <1>1, <1>6, <1>7 DEF Base, Types, Stages, api
<1> QED BY <1>1, <1>2, <1>3, <1>4, <1>6, <1>7, <1>8 DEF OnlyTab

LEMMA AtGotCreated ==
  ASSUME Base, NEW c \in Call, NEW t \in Tab, t = ask[c].tab, GotCreated(c)
  PROVE  /\ Types' /\ Busy(c, t, "create") /\ stage[c] = "answered"
         /\ UNCHANGED <<api, cookie, view, overtaken, trouble>>
         /\ \/ Ends(c) /\ Others(c) /\ UNCHANGED <<added, page>>
            \/ /\ ask[c].ok /\ OnlyTab(t) /\ added'[t] = added[t] \cup {ask[c].arg}
               /\ \E clean \in BOOLEAN : Lists(c, t, clean) /\ (clean => ~overtaken[t])
<1>1. /\ Busy(c, t, "create") /\ stage[c] = "answered"
      /\ UNCHANGED <<api, cookie, view, overtaken, trouble>>
  BY Awaited DEF GotCreated
<1>2. CASE ~ask[c].ok
  <2>1. Idle(c) /\ UNCHANGED <<added, page>>
    BY <1>2 DEF GotCreated
  <2>2. Types' /\ Others(c) /\ Ends(c)
    BY <1>1, <2>1, AtIdle DEF Base, tabs
  <2> QED BY <1>1, <2>1, <2>2
<1>3. CASE ask[c].ok
  <2>1. PICK b \in BOOLEAN : b = ~overtaken[t]
    OBVIOUS
  <2>2. /\ List(c, t, b) /\ added' = [added EXCEPT ![t] = @ \cup {ask[c].arg}]
    BY <1>3, <2>1 DEF GotCreated
  <2>3. /\ stage' \in [Call -> Stages] /\ ask' \in [Call -> Request] /\ Lists(c, t, b)
        /\ page' \in [Tab -> Pages] /\ \A u \in Tab : u # t => page'[u] = page[u]
    BY <2>2, ListOne DEF Base
  <2>4. ask[c].arg \in Product
    BY <1>1 DEF Base, Form, Busy
  <2>5. /\ added' \in [Tab -> SUBSET Product] /\ added'[t] = added[t] \cup {ask[c].arg}
        /\ \A u \in Tab : u # t => added'[u] = added[u]
    BY <2>2, <2>4 DEF Base, Types
  <2>6. Types'
    BY <1>1, <2>3, <2>5 DEF Base, Types, Stages, api
  <2>7. OnlyTab(t)
    BY <1>1, <2>3, <2>5 DEF OnlyTab
  <2> QED BY <1>1, <1>3, <2>1, <2>3, <2>5, <2>6, <2>7
<1> QED BY <1>2, <1>3

\* Nobody awaits call c any more.
Drops(c) == /\ stage'[c] = stage[c] /\ Fades(ask[c], ask'[c]) /\ ask'[c].tab = None
            /\ Others(c)

LEMMA AtLose ==
  ASSUME Base, NEW c \in Call, NEW t \in Tab, t = ask[c].tab, Lose(c)
  PROVE  /\ Types' /\ Of(c, t) /\ UNCHANGED <<api, cookie, stage, added, overtaken>> /\ OnlyTab(t)
         /\ \/ /\ ask[c].op = "session" /\ view'[t] = Unread("failed") /\ page'[t] = Page("none")
               /\ Silences(t, c) /\ Fades(ask[c], ask'[c]) /\ ask'[c].tab = None
            \/ ask[c].op = "list" /\ page'[t] = Page("failed") /\ view'[t] = view[t] /\ Drops(c)
            \/ /\ ask[c].op \in {"select", "create", "found"} /\ page'[t] = page[t] /\ view'[t] = view[t]
               /\ Drops(c)
<1>1. Of(c, t) /\ UNCHANGED <<api, cookie, stage, added, overtaken>> /\ Trouble
  BY DEF Lose, Of
<1>2. trouble' \in 0..MaxTrouble
  BY <1>1, Troubled DEF Base, Types
<1>3. PICK v \in Views, p \in Pages, f \in Pages : v = Unread("failed") /\ p = Page("none") /\ f = Page("failed")
  BY ViewFields
<1>4. view \in [Tab -> Views] /\ page \in [Tab -> Pages] /\ ask \in [Call -> Request]
  BY DEF Base, Types
<1>5. PICK r \in Request : r = ask[c]
  BY <1>4
<1>6. PICK q \in Request : q = [r EXCEPT !.tab = None] /\ Fades(r, q) /\ q.tab = None
  BY FadesForgotten DEF Fades
<1>7. ASSUME ask' \in [Call -> Request], view' \in [Tab -> Views], page' \in [Tab -> Pages]
      PROVE  Types'
  BY <1>1, <1>2, <1>7 DEF Base, Types, api
<1>8. ASSUME ask' = Put(ask, c, [ask[c] EXCEPT !.tab = None])
      PROVE  ask' \in [Call -> Request] /\ Drops(c)
  <2>1. ask' = Put(ask, c, q)
    BY <1>5, <1>6, <1>8
  <2>2. ask' \in [Call -> Request] /\ ask'[c] = q /\ \A d \in Call : d # c => ask'[d] = ask[d]
    BY <2>1, <1>4, PutFields DEF Base
  <2> QED BY <1>1, <1>5, <1>6, <2>2 DEF Drops, Others
<1>a. CASE /\ ask[c].op = "session" /\ view' = Put(view, t, Unread("failed"))
           /\ page' = Put(page, t, Page("none")) /\ ask' = Forgotten(t)
  <2>1. /\ view' \in [Tab -> Views] /\ view'[t] = v /\ \A u \in Tab : u # t => view'[u] = view[u]
        /\ page' \in [Tab -> Pages] /\ page'[t] = p /\ \A u \in Tab : u # t => page'[u] = page[u]
    BY <1>a, <1>3, <1>4 DEF Put
  <2>2. \A d \in Call : /\ Fades(ask[d], ask'[d]) /\ ask'[d] \in Request
                        /\ IF ask[d].tab = t THEN ask'[d].tab = None ELSE ask'[d] = ask[d]
    BY <1>a, ForgottenOne DEF Fades, Base
  <2>3. ask' \in [Call -> Request]
    BY <1>a, <2>2 DEF Forgotten
  <2>4. Silences(t, c) /\ Fades(ask[c], ask'[c]) /\ ask'[c].tab = None
    BY <1>1, <2>2 DEF Silences
  <2> QED BY <1>1, <1>3, <1>7, <1>a, <2>1, <2>3, <2>4 DEF OnlyTab
<1>b. CASE /\ ask[c].op = "list" /\ page' = Put(page, t, Page("failed"))
           /\ ask' = Put(ask, c, [ask[c] EXCEPT !.tab = None]) /\ UNCHANGED view
  <2>1. page' \in [Tab -> Pages] /\ page'[t] = f /\ \A u \in Tab : u # t => page'[u] = page[u]
    BY <1>b, <1>3, <1>4 DEF Put
  <2>2. ask' \in [Call -> Request] /\ Drops(c)
    BY <1>b, <1>8
  <2> QED BY <1>1, <1>3, <1>4, <1>7, <1>b, <2>1, <2>2 DEF OnlyTab
<1>c. CASE /\ ask[c].op \in {"select", "create", "found"}
           /\ ask' = Put(ask, c, [ask[c] EXCEPT !.tab = None]) /\ UNCHANGED <<view, page>>
  <2>1. ask' \in [Call -> Request] /\ Drops(c)
    BY <1>c, <1>8
  <2> QED BY <1>1, <1>4, <1>7, <1>c, <2>1 DEF OnlyTab
<1> QED BY <1>a, <1>b, <1>c DEF Lose

LEMMA AtCreateOrganization ==
  ASSUME Base, NEW c \in Call, CreateOrganization(c)
  PROVE  /\ Types' /\ stage[c] = "sent" /\ ask[c].op = "found"
         /\ UNCHANGED <<catalog, cookie, view, page, added, trouble>>
         /\ \/ Goes(c) /\ Others(c) /\ UNCHANGED <<api, tabs>>
            \/ AsAsked(c) /\ stage'[c] = "answered" /\ Upsets(ask[c].tab, c)
<1>1. /\ stage[c] = "sent" /\ ask[c].op = "found" /\ UNCHANGED <<cookie, view, page, added, trouble>>
      /\ ask[c].arg \in Org
  BY DEF CreateOrganization, Base, Form
<1>2. CASE ask[c].arg \in taken
  <2>1. {} \in SUBSET (Org \cup Product) /\ FALSE \in BOOLEAN
    OBVIOUS
  <2>2. Answer(c, FALSE, None, {}) /\ UNCHANGED <<api, tabs>>
    BY <1>1, <1>2 DEF CreateOrganization, tabs
  <2>3. /\ stage' \in [Call -> Stages] /\ ask' \in [Call -> Request]
        /\ Others(c) /\ AsAsked(c) /\ stage'[c] = "answered" /\ ask'[c].ok = FALSE
    BY <2>1, <2>2, AnswerOne DEF Base, Stages
  <2>4. Types'
    BY <1>1, <2>2, <2>3, TypesStay DEF Base, Stages
  <2> QED BY <1>1, <2>2, <2>3, <2>4 DEF Goes, api
<1>3. CASE ask[c].arg \notin taken
  <2>1. PICK t \in Tab \cup {None} : t = ask[c].tab
    BY DEF Base, Types, Request
  <2>2. PICK r \in Request : r = ask[c]
    BY DEF Base, Types
  <2>3. PICK q \in Request : q = [r EXCEPT !.ok = TRUE]
    BY DEF Request
  <2>4. /\ q.op = r.op /\ q.tab = r.tab /\ q.jar = r.jar
        /\ q.arg = r.arg /\ q.named = r.named /\ q.clean = r.clean
    BY <2>3 DEF Request
  <2>5. /\ taken' = taken \cup {ask[c].arg} /\ member' = member \cup {ask[c].arg}
        /\ stage' = Put(stage, c, "answered") /\ "answered" \in Stages
        /\ ask' = Put(Unclean({t}), c, q) /\ Overtake({t}) /\ UNCHANGED catalog
    BY <1>3, <2>1, <2>2, <2>3 DEF CreateOrganization, Stages
  <2>6. stage' \in [Call -> Stages] /\ stage'[c] = "answered" /\ \A d \in Call : d # c => stage'[d] = stage[d]
    BY <2>5, PutStage DEF Base
  <2>7. /\ ask' \in [Call -> Request] /\ ask'[c] = q /\ Upsets(t, c) /\ overtaken' \in [Tab -> BOOLEAN]
    BY <2>5, <2>6, UpsetRest DEF Base
  <2>8. AsAsked(c)
    BY <2>2, <2>4, <2>7 DEF AsAsked
  <2>9. Types'
    BY <1>1, <2>5, <2>6, <2>7 DEF Base, Types, Stages
  <2> QED BY <1>1, <2>1, <2>5, <2>6, <2>7, <2>8, <2>9
<1> QED BY <1>2, <1>3

\* Somebody else changes the memberships.
Stirs == /\ \A d \in Call : /\ stage'[d] = stage[d] /\ Fades(ask[d], ask'[d])
                            /\ ask'[d].tab = ask[d].tab /\ ask'[d].clean = FALSE
         /\ \A u \in Tab : overtaken'[u]

LEMMA AtMembership ==
  ASSUME Base, NEW o \in Org, Join(o) \/ Leave(o)
  PROVE  Types' /\ Stirs /\ UNCHANGED <<taken, catalog, cookie, view, page, stage, added>>
<1>1. /\ UNCHANGED <<taken, catalog, cookie, view, page, stage, added>>
      /\ Trouble /\ ask' = Unclean({}) /\ Overtake({}) /\ member' \subseteq taken
  BY DEF Join, Leave, Base, Types
<1>2. trouble' \in 0..MaxTrouble
  BY <1>1, Troubled DEF Base, Types
<1>3. \A d \in Call : /\ Fades(ask[d], ask'[d]) /\ ask'[d] \in Request
                      /\ ask'[d].tab = ask[d].tab /\ ask'[d].clean = FALSE
  <2>1. \A d \in Call : /\ Fades(ask[d], Unclean({})[d]) /\ Unclean({})[d].tab = ask[d].tab
                        /\ Unclean({})[d].clean = FALSE
    BY UncleanOne DEF Base
  <2> QED BY <1>1, <2>1 DEF Fades
<1>4. ask' \in [Call -> Request]
  BY <1>1, <1>3 DEF Unclean
<1>5. overtaken' \in [Tab -> BOOLEAN] /\ \A u \in Tab : overtaken'[u]
  BY <1>1 DEF Overtake, Base, Types
<1>6. Types'
  BY <1>1, <1>2, <1>4, <1>5 DEF Base, Types
<1> QED BY <1>1, <1>3, <1>5, <1>6 DEF Stirs

-----------------------------------------------------------------------------
(***************************************************************************)
(* Base is inductive.                                                      *)
(***************************************************************************)
LEMMA SoftSteps ==
  ASSUME Base, NEW c \in Call
  PROVE  /\ Others(c) => Softly(c)
         /\ \A t : Silences(t, c) => Softly(c)
         /\ \A t, clean : Lists(c, t, clean) => Softly(c)
         /\ \A t : Upsets(t, c) => Softly(c)
<1>1. \A d \in Call : Fades(ask[d], ask[d])
  BY FadesSame DEF Base, Types
<1> QED BY <1>1 DEF Others, Silences, Lists, Upsets, Softly

LEMMA SentForm ==
  ASSUME NEW c \in Call, NEW op \in {"session", "select", "list", "create", "found"}, NEW t, NEW arg, NEW jar,
         Sends(c, op, t, arg, jar),
         op \in {"select", "found"} => arg \in Org, op = "create" => arg \in Product
  PROVE  Form(c)'
BY DEF Sends, Asks, Form

LEMMA EndedForm == ASSUME NEW c \in Call, Ends(c) PROVE Form(c)'
BY DEF Ends, Form

LEMMA GoneForm == ASSUME Base, NEW c \in Call, Goes(c) PROVE Form(c)'
<1>1. member \in SUBSET Org /\ Form(c) /\ catalog \in [Org -> SUBSET Product] /\ stage[c] # "idle"
  BY DEF Base, Types, Goes
<1> QED BY <1>1 DEF Form, Goes, AsAsked

LEMMA BaseStep ==
  ASSUME Base, Types', NEW c \in Call, Softly(c), Form(c)'
  PROVE  Base'
<1>1. ASSUME NEW d \in Call PROVE Form(d)'
  <2>1. CASE d = c
    BY <2>1
  <2>2. CASE d # c
    BY <2>2, FormStays DEF Softly, Base
  <2> QED BY <2>1, <2>2
<1> QED BY <1>1 DEF Base

LEMMA BaseInit == ASSUME Init PROVE Base
<1>1. Types
  <2>1. \A st \in {"closed"} : Unread(st) \in Views
    BY ViewFields
  <2>2. \A st \in {"none"} : Page(st) \in Pages
    BY ViewFields
  <2>3. Nothing \in Request /\ trouble \in 0..MaxTrouble
    BY NothingIsRequest, MaxTroubleIsNat DEF Init
  <2> QED BY <2>1, <2>2, <2>3 DEF Init, Types
<1>2. \A c \in Call : Form(c)
  <2>1. \A c \in Call : stage[c] = "idle" /\ ask[c].op = "none"
    BY NothingIsRequest DEF Init
  <2> QED BY <2>1 DEF Form
<1> QED BY <1>1, <1>2 DEF Base

LEMMA BaseRoute == ASSUME Base, NEW c \in Call, Route(c) PROVE Base'
<1>1. ASSUME Types', Goes(c), Others(c) PROVE Base'
  BY <1>1, GoneForm, SoftSteps, BaseStep
<1>2. CASE ReadSession(c)
  BY <1>1, <1>2, AtReadSession
<1>3. CASE Remember(c)
  BY <1>1, <1>3, AtRemember
<1>4. CASE Resolve(c)
  BY <1>1, <1>4, AtResolve
<1>5. CASE Products(c)
  BY <1>1, <1>5, AtProducts
<1>6. CASE CreateProduct(c)
  BY <1>1, <1>6, AtCreateProduct
<1>7. CASE CreateOrganization(c)
  <2>1. CASE Goes(c) /\ Others(c)
    BY <1>1, <1>7, <2>1, AtCreateOrganization
  <2>2. CASE AsAsked(c) /\ stage'[c] = "answered" /\ Upsets(ask[c].tab, c)
    <3>1. Types' /\ ask[c].op = "found" /\ Form(c)
      BY <1>7, AtCreateOrganization DEF Base
    <3>2. Form(c)'
      BY <2>2, <3>1 DEF AsAsked, Form
    <3> QED BY <2>2, <3>1, <3>2, SoftSteps, BaseStep
  <2> QED BY <1>7, <2>1, <2>2, AtCreateOrganization
<1>8. CASE Falter(c)
  BY <1>1, <1>8, AtFalter
<1> QED BY <1>2, <1>3, <1>4, <1>5, <1>6, <1>7, <1>8 DEF Route

LEMMA BaseGot == ASSUME Base, NEW c \in Call, Got(c) PROVE Base'
<1>1. ASSUME Types', Softly(c), Ends(c) PROVE Base'
  BY <1>1, EndedForm, BaseStep
<1>2. ASSUME Types', Softly(c), NEW t, NEW jar,
             Sends(c, "session", t, None, jar) \/ Sends(c, "list", t, None, jar)
      PROVE  Base'
  <2>1. Form(c)'
    BY <1>2, SentForm
  <2> QED BY <1>2, <2>1, BaseStep
<1>t. CASE GotSession(c) \/ GotSelect(c) \/ GotList(c) \/ GotCreated(c) \/ GotFounded(c) \/ Lose(c)
  <2>1. ask[c].tab \in Tab
    BY <1>t, Awaited DEF GotSession, GotSelect, GotList, GotCreated, GotFounded, Lose, Base, Types, Request
  <2>2. PICK t \in Tab : t = ask[c].tab
    BY <2>1
  <2>3. CASE GotSession(c)
    <3>1. Types' /\ \/ Lists(c, t, ask[c].clean)
                    \/ Ends(c) /\ Others(c)
                    \/ Ends(c) /\ Silences(t, c)
      BY <2>2, <2>3, AtGotSession
    <3> QED BY <3>1, <1>1, <1>2, SoftSteps DEF Lists
  <2>4. CASE GotSelect(c)
    <3>1. Types' /\ Sends(c, "session", t, None, cookie') /\ (Others(c) \/ Upsets(t, c))
      BY <2>2, <2>4, AtGotSelect
    <3> QED BY <3>1, <1>2, SoftSteps
  <2>5. CASE GotList(c)
    BY <2>2, <2>5, AtGotList, <1>1, SoftSteps
  <2>6. CASE GotCreated(c)
    <3>1. Types' /\ \/ Ends(c) /\ Others(c)
                    \/ \E clean : Lists(c, t, clean)
      BY <2>2, <2>6, AtGotCreated
    <3> QED BY <3>1, <1>1, <1>2, SoftSteps DEF Lists
  <2>7. CASE GotFounded(c)
    <3>1. Types' /\ Others(c) /\ (Ends(c) \/ Sends(c, "session", t, None, cookie))
      BY <2>2, <2>7, AtGotFounded
    <3> QED BY <3>1, <1>1, <1>2, SoftSteps
  <2>8. CASE Lose(c)
    <3>1. /\ Types' /\ stage'[c] = stage[c] /\ Fades(ask[c], ask'[c])
          /\ Silences(t, c) \/ Others(c)
      BY <2>2, <2>8, AtLose DEF Drops
    <3>2. Form(c)'
      BY <3>1, FormStays DEF Base
    <3> QED BY <3>1, <3>2, SoftSteps, BaseStep
  <2> QED BY <1>t, <2>3, <2>4, <2>5, <2>6, <2>7, <2>8
<1>v. CASE Vanish(c)
  BY <1>v, AtVanish, <1>1, SoftSteps
<1> QED BY <1>t, <1>v DEF Got

LEMMA BaseUser ==
  ASSUME Base, NEW c \in Call, NEW t \in Tab,
         \/ Open(t, c)
         \/ \E o \in Org : Choose(t, o, c) \/ Start(t, o, c)
         \/ \E p \in Product : Submit(t, p, c)
  PROVE  Base'
<1>1. ASSUME Types', Softly(c), Form(c)' PROVE Base'
  BY <1>1, BaseStep
<1>2. CASE Open(t, c)
  <2>1. Types' /\ Sends(c, "session", t, None, cookie) /\ Silences(t, c)
    BY <1>2, AtOpen
  <2>2. Form(c)'
    BY <2>1, SentForm
  <2> QED BY <2>1, <2>2, <1>1, SoftSteps
<1>3. ASSUME NEW o \in Org, Choose(t, o, c) PROVE Base'
  <2>1. Types' /\ Sends(c, "select", t, o, cookie) /\ Others(c)
    BY <1>3, AtChoose
  <2>2. Form(c)'
    BY <2>1, SentForm
  <2> QED BY <2>1, <2>2, <1>1, SoftSteps
<1>4. ASSUME NEW o \in Org, Start(t, o, c) PROVE Base'
  <2>1. Types' /\ Sends(c, "found", t, o, cookie) /\ Others(c)
    BY <1>4, AtStart
  <2>2. Form(c)'
    BY <2>1, SentForm
  <2> QED BY <2>1, <2>2, <1>1, SoftSteps
<1>5. ASSUME NEW p \in Product, Submit(t, p, c) PROVE Base'
  <2>1. Types' /\ Sends(c, "create", t, p, cookie) /\ Others(c)
    BY <1>5, AtSubmit
  <2>2. Form(c)'
    BY <2>1, SentForm
  <2> QED BY <2>1, <2>2, <1>1, SoftSteps
<1> QED BY <1>2, <1>3, <1>4, <1>5

LEMMA BaseMembership == ASSUME Base, NEW o \in Org, Join(o) \/ Leave(o) PROVE Base'
<1>1. Types' /\ \A d \in Call : stage'[d] = stage[d] /\ Fades(ask[d], ask'[d])
  BY AtMembership DEF Stirs
<1>2. \A d \in Call : Form(d)'
  BY <1>1, FormStays DEF Base
<1> QED BY <1>1, <1>2 DEF Base

-----------------------------------------------------------------------------
(***************************************************************************)
(* The inductive invariant: what each tab's view and page are, against its *)
(* own calls and against the cookie and the memberships of now.            *)
(***************************************************************************)
\* What is loading has a call under way that ends it.
Waits(t) ==
  /\ view[t].status = "loading" => \E c \in Call : Busy(c, t, "session")
  /\ page[t].status = "loading" => \E c \in Call : Busy(c, t, "list")
  /\ view[t].active \in view[t].orgs \cup {None}

\* Outside the shell a tab has one call at most, which reads the session or founds.
FirstRun(t) == view[t].status = "ready" /\ view[t].orgs = {} /\ view[t].active = None
Alone(t) ==
  /\ ~Shell(t) => \A c, d \in Call : Of(c, t) /\ Of(d, t) => c = d
  /\ ~Shell(t) => \A c \in Call : Of(c, t) => ask[c].op \in {"session", "found"}
  /\ \A c \in Call : Busy(c, t, "found") => FirstRun(t)

\* One change of organization at a time: the switcher is disabled meanwhile.
Switches(c, t) == Of(c, t) /\ ask[c].op \in {"select", "session"}
OneSwitch(t) == \A c, d \in Call : Switches(c, t) /\ Switches(d, t) => c = d

\* A session that nothing has overtaken carries the cookie of now, and was answered
\* from the memberships of now; one that has been makes the tab and its lists so too.
Read(t) ==
  /\ \A c \in Call : Busy(c, t, "session") /\ ask[c].clean =>
       /\ ask[c].jar = cookie
       /\ stage[c] = "answered" /\ ask[c].ok => ask[c].seen = member
  /\ \A c \in Call : Busy(c, t, "session") /\ ~ask[c].clean =>
       overtaken[t] /\ \A d \in Call : Busy(d, t, "list") => ~ask[d].clean

\* What the shell of a tab nobody has overtaken names, or is about to.
Shown(t) == Shell(t) /\ ~overtaken[t] =>
  /\ (\A c \in Call : ~Busy(c, t, "session")) => view[t].active = Active(cookie, member)
  /\ \A c \in Call : Busy(c, t, "session") =>
       ask[c].jar \in member \/ view[t].active = Active(ask[c].jar, member)
  /\ \A c \in Call : Busy(c, t, "select") /\ stage[c] = "answered" /\ ask[c].ok => ask[c].arg \in member

\* Where the tab acts, or will once its session is read.
Aim(t, y) ==
  \/ y = view[t].active
  \/ \E d \in Call : Busy(d, t, "session") /\ y = ask[d].jar /\ (ask[d].clean => y \in member)

\* A list that no other has overtaken asks there, and finds what the tab added.
Listed(t) == \A c \in Call : Busy(c, t, "list") /\ ask[c].clean /\ view[t].active # None =>
  /\ stage[c] = "sent" => Aim(t, Active(ask[c].jar, member))
  /\ stage[c] = "decided" => Aim(t, ask[c].tenant)
  /\ stage[c] = "answered" /\ ask[c].ok =>
       /\ Aim(t, ask[c].tenant)
       /\ \A p \in added[t] : p \in catalog[ask[c].tenant] => p \in ask[c].seen

\* So does the page it filled, unless others left the tab no choice.
Paged(t) == page[t].status = "ready" /\ page[t].clean /\ view[t].active # None =>
  /\ page[t].of \in Org
  /\ \A p \in added[t] : p \in catalog[page[t].of] => p \in page[t].rows
  /\ \/ Aim(t, page[t].of)
     \/ /\ overtaken[t] /\ Cardinality(view[t].orgs) = 1
        /\ \A c \in Call : ~Switches(c, t)

TabInv(t) == /\ Waits(t) /\ Alone(t) /\ OneSwitch(t)
             /\ Read(t) /\ Shown(t) /\ Listed(t) /\ Paged(t)

\* A clean submission is resolved to the organization the page named.
Named(c) == ask[c].op = "create" /\ ask[c].clean =>
  /\ stage[c] = "sent" => ask[c].named = Active(ask[c].jar, member)
  /\ stage[c] = "decided" => ask[c].named = ask[c].tenant

\* Every submission has a product of its own, in a catalog only once it is created.
New == /\ \A c, d \in Call : c # d /\ ask[c].op = "create" /\ ask[d].op = "create" => ask[c].arg # ask[d].arg
       /\ \A c \in Call : ask[c].op = "create" /\ stage[c] \in {"sent", "decided"} =>
            \A o \in Org : ask[c].arg \notin catalog[o]
       /\ \A c \in Call : ask[c].op = "create" /\ stage[c] = "answered" /\ ask[c].ok =>
            \E o \in Org : ask[c].arg \in catalog[o]
       /\ \A t \in Tab : \A p \in added[t] : \E o \in Org : p \in catalog[o]

Inv == Base /\ New /\ (\A c \in Call : Named(c)) /\ \A t \in Tab : TabInv(t)

-----------------------------------------------------------------------------
(***************************************************************************)
(* A step of anybody else is one aside for tab t: its calls stand, and if  *)
(* the cookie or the memberships change they and the tab are overtaken.    *)
(***************************************************************************)
\* What the tab added is nowhere it was not.
Unadded(t) == \A o \in Org : \A p \in added[t] : p \in catalog'[o] => p \in catalog[o]

Aside(t) ==
  /\ view'[t] = view[t] /\ page'[t] = page[t] /\ added'[t] = added[t] /\ Unadded(t)
  /\ \A d \in Call : IF Of(d, t) THEN stage'[d] = stage[d] /\ ask'[d].tab = t /\ Fades(ask[d], ask'[d])
                                 ELSE stage'[d] = "idle" \/ ask'[d].tab # t
  /\ \/ /\ cookie' = cookie /\ member' = member /\ (overtaken'[t] <=> overtaken[t])
        /\ \A d \in Call : Of(d, t) => ask'[d] = ask[d]
     \/ overtaken'[t] /\ \A d \in Call : Of(d, t) => ~ask'[d].clean

LEMMA AsideKeeps ==
  ASSUME Base, NEW t \in Tab, TabInv(t), Aside(t)
  PROVE  TabInv(t)'
<1>0. \A d \in Call : /\ Of(d, t)' <=> Of(d, t)
                      /\ Of(d, t) => /\ ask'[d].op = ask[d].op /\ stage'[d] = stage[d]
                                     /\ ask'[d].jar = ask[d].jar /\ ask'[d].arg = ask[d].arg
                                     /\ ask'[d].ok = ask[d].ok /\ ask'[d].seen = ask[d].seen
                                     /\ ask'[d].tenant = ask[d].tenant
                                     /\ (ask'[d].clean => ask[d].clean)
  BY DEF Aside, Of, Fades
<1>s. (Shell(t)' <=> Shell(t)) /\ view'[t] = view[t] /\ page'[t] = page[t] /\ added'[t] = added[t]
  BY DEF Aside, Shell
<1>e. \/ /\ cookie' = cookie /\ member' = member /\ (overtaken'[t] <=> overtaken[t])
         /\ \A d \in Call : Of(d, t) => ask'[d] = ask[d]
      \/ overtaken'[t] /\ \A d \in Call : Of(d, t) => ~ask'[d].clean
  BY DEF Aside
<1>b. \A d \in Call : \A op : Busy(d, t, op)' <=> Busy(d, t, op)
  BY <1>0 DEF Busy
<1>w. \A d \in Call : Switches(d, t)' <=> Switches(d, t)
  BY <1>0 DEF Switches
<1>1. Waits(t)'
  BY <1>s, <1>b DEF TabInv, Waits
<1>2. Alone(t)'
  BY <1>0, <1>s, <1>b DEF TabInv, Alone, FirstRun
<1>3. OneSwitch(t)'
  BY <1>w DEF TabInv, OneSwitch
<1>4. Read(t)'
  BY <1>0, <1>b, <1>e DEF TabInv, Read, Busy
<1>5. Shown(t)'
  BY <1>0, <1>s, <1>b, <1>e DEF TabInv, Shown, Busy
<1>6. \A y : Aim(t, y) => Aim(t, y)'
  BY <1>0, <1>s, <1>b, <1>e DEF Aim, Busy
<1>7. Listed(t)'
  <2> SUFFICES ASSUME NEW c \in Call, Busy(c, t, "list")', ask'[c].clean, view'[t].active # None
               PROVE  /\ stage'[c] = "sent" => Aim(t, Active(ask[c].jar, member))'
                      /\ stage'[c] = "decided" => Aim(t, ask[c].tenant)'
                      /\ stage'[c] = "answered" /\ ask'[c].ok =>
                           /\ Aim(t, ask[c].tenant)'
                           /\ \A p \in added'[t] : p \in catalog'[ask'[c].tenant] => p \in ask'[c].seen
    BY DEF Listed
  <2>1. Busy(c, t, "list") /\ Of(c, t) /\ ask[c].clean /\ view[t].active # None
    BY <1>0, <1>b, <1>s DEF Busy
  <2>2. ask'[c] = ask[c] /\ member' = member
    BY <1>e, <2>1
  <2>3. Listed(t) /\ Form(c)
    BY DEF TabInv, Base
  <2>4. \A y : Aim(t, y) => \/ y = view'[t].active
                            \/ \E d \in Call : Busy(d, t, "session")' /\ y = ask'[d].jar /\ (ask'[d].clean => y \in member')
    BY <1>6 DEF Aim
  <2> QED BY <1>0, <1>s, <2>1, <2>2, <2>3, <2>4 DEF Listed, Form, Busy, Aside, Unadded, Aim
<1>8. Paged(t)'
  BY <1>0, <1>s, <1>w, <1>e, <1>6 DEF TabInv, Paged, Aside, Unadded, Aim
<1> QED BY <1>1, <1>2, <1>3, <1>4, <1>5, <1>7, <1>8 DEF TabInv

-----------------------------------------------------------------------------
(***************************************************************************)
(* The steps for tab t itself.                                             *)
(***************************************************************************)
\* A route goes on with one of its calls.
LEMMA RouteKeeps ==
  ASSUME Base, NEW t \in Tab, TabInv(t), NEW c \in Call, ask[c].tab = t, Goes(c), Others(c), Unadded(t),
         UNCHANGED <<member, cookie, tabs>>
  PROVE  TabInv(t)'
<1>0. \A d \in Call : /\ Of(d, t)' <=> Of(d, t)
                      /\ ask'[d].op = ask[d].op /\ ask'[d].jar = ask[d].jar /\ ask'[d].arg = ask[d].arg
                      /\ ask'[d].clean = ask[d].clean
  BY DEF Goes, AsAsked, Others, Of
<1>s. /\ view' = view /\ page' = page /\ added' = added /\ overtaken' = overtaken
      /\ member' = member /\ cookie' = cookie /\ (Shell(t)' <=> Shell(t))
  BY DEF tabs, Shell
<1>b. \A d \in Call : \A op : Busy(d, t, op)' <=> Busy(d, t, op)
  BY <1>0 DEF Busy
<1>w. \A d \in Call : Switches(d, t)' <=> Switches(d, t)
  BY <1>0 DEF Switches
<1>a. \A y : Aim(t, y)' <=> Aim(t, y)
  BY <1>0, <1>s, <1>b DEF Aim
<1>1. Waits(t)'
  BY <1>s, <1>b DEF TabInv, Waits
<1>2. Alone(t)'
  BY <1>0, <1>s, <1>b DEF TabInv, Alone, FirstRun
<1>3. OneSwitch(t)'
  BY <1>w DEF TabInv, OneSwitch
<1>4. Read(t)'
  <2>1. ASSUME NEW d \in Call, Busy(d, t, "session")', ask'[d].clean, stage'[d] = "answered", ask'[d].ok
        PROVE  ask'[d].seen = member'
    <3>1. CASE d = c
      BY <1>0, <1>s, <1>b, <2>1, <3>1 DEF Goes, Busy
    <3>2. CASE d # c
      BY <1>0, <1>s, <1>b, <2>1, <3>2 DEF Others, TabInv, Read
    <3> QED BY <3>1, <3>2
  <2> QED BY <1>0, <1>s, <1>b, <2>1 DEF TabInv, Read
<1>5. Shown(t)'
  <2>1. ASSUME NEW d \in Call, Shell(t), ~overtaken[t],
               Busy(d, t, "select")', stage'[d] = "answered", ask'[d].ok
        PROVE  ask'[d].arg \in member'
    <3>1. CASE d = c
      BY <1>0, <1>s, <1>b, <2>1, <3>1 DEF Goes, Busy
    <3>2. CASE d # c
      BY <1>0, <1>s, <1>b, <2>1, <3>2 DEF Others, TabInv, Shown
    <3> QED BY <3>1, <3>2
  <2> QED BY <1>0, <1>s, <1>b, <2>1 DEF TabInv, Shown
<1>6. Listed(t)'
  <2>1. ASSUME NEW d \in Call, Busy(d, t, "list")', ask'[d].clean, view'[t].active # None
        PROVE  /\ stage'[d] = "sent" => \A y : y = Active(ask'[d].jar, member') => Aim(t, y)
               /\ stage'[d] = "decided" => Aim(t, ask'[d].tenant)
               /\ stage'[d] = "answered" /\ ask'[d].ok =>
                    /\ Aim(t, ask'[d].tenant)
                    /\ \A p \in added'[t] : p \in catalog'[ask'[d].tenant] => p \in ask'[d].seen
    <3>1. /\ Busy(d, t, "list") /\ ask[d].clean /\ view[t].active # None /\ Listed(t) /\ Form(d)
          /\ ask'[d].jar = ask[d].jar /\ ask[d].op = "list"
      BY <1>0, <1>s, <1>b, <2>1 DEF TabInv, Base, Busy
    <3>2. CASE d = c
      <4>1. CASE stage'[d] = "decided"
        BY <3>1, <3>2, <4>1 DEF Goes, Listed
      <4>2. CASE stage'[d] = "answered" /\ ask'[d].ok
        <5>1. stage[d] = "decided" /\ ask'[d].tenant = ask[d].tenant /\ ask'[d].seen = catalog[ask[d].tenant]
          BY <3>1, <3>2, <4>2 DEF Goes
        <5> QED BY <1>s, <3>1, <4>2, <5>1 DEF Listed, Form, Unadded
      <4> QED BY <3>2, <4>1, <4>2 DEF Goes
    <3>3. CASE d # c
      <4>1. stage'[d] = stage[d] /\ ask'[d] = ask[d]
        BY <3>3 DEF Others
      <4> QED BY <1>s, <3>1, <4>1 DEF Listed, Form, Unadded
    <3> QED BY <3>2, <3>3
  <2> QED BY <2>1, <1>a DEF Listed
<1>7. Paged(t)'
  BY <1>s, <1>w, <1>a DEF TabInv, Paged, Unadded
<1> QED BY <1>1, <1>2, <1>3, <1>4, <1>5, <1>6, <1>7 DEF TabInv

LEMMA UnreadFields ==
  /\ \A st : Unread(st).status = st /\ Unread(st).orgs = {} /\ Unread(st).active = None
  /\ \A st : Page(st).status = st /\ Page(st).of = None /\ Page(st).rows = {} /\ Page(st).clean = FALSE
BY DEF Unread, Page

LEMMA TabIsSomebody == \A t \in Tab : t # None
BY NoneIsNobody

LEMMA OpenKeeps ==
  ASSUME Base, NEW t \in Tab, NEW c \in Call, Open(t, c)
  PROVE  TabInv(t)'
<1>1. /\ stage'[c] = "sent" /\ Asks(ask'[c], "session", t, None, cookie) /\ ask'[c].clean = TRUE
      /\ Silences(t, c) /\ cookie' = cookie
      /\ view'[t] = Unread("loading") /\ page'[t] = Page("none")
  BY AtOpen DEF Sends
<1>2. \A d \in Call : Of(d, t)' <=> d = c
  BY <1>1, TabIsSomebody DEF Silences, Of, Asks
<1>3. ask'[c].op = "session" /\ ask'[c].jar = cookie'
  BY <1>1 DEF Asks
<1>4. \A d \in Call : \A op : Busy(d, t, op)' <=> d = c /\ op = "session"
  BY <1>2, <1>3 DEF Busy
<1>5. /\ view'[t].status = "loading" /\ view'[t].orgs = {} /\ view'[t].active = None
      /\ page'[t].status = "none"
  BY <1>1, UnreadFields
<1>6. Waits(t)'
  BY <1>4, <1>5 DEF Waits
<1>7. Alone(t)'
  BY <1>2, <1>3, <1>4 DEF Alone
<1>8. OneSwitch(t)'
  BY <1>2 DEF OneSwitch, Switches
<1>9. Read(t)'
  BY <1>1, <1>3, <1>4 DEF Read
<1>10. Shown(t)' /\ Listed(t)' /\ Paged(t)'
  BY <1>5 DEF Shown, Listed, Paged, Shell
<1> QED BY <1>6, <1>7, <1>8, <1>9, <1>10 DEF TabInv

\* The call of tab t that is sent, while its others stand.
LEMMA SentRest ==
  ASSUME NEW t \in Tab, NEW c \in Call, stage[c] = "idle", Others(c),
         NEW op, NEW arg, NEW jar, Sends(c, op, t, arg, jar)
  PROVE  /\ \A d \in Call : Of(d, t)' <=> Of(d, t) \/ d = c
         /\ \A d \in Call : Of(d, t) => d # c /\ stage'[d] = stage[d] /\ ask'[d] = ask[d]
         /\ \A d \in Call : \A o : Busy(d, t, o)' <=> Busy(d, t, o) \/ (d = c /\ o = op)
BY DEF Others, Sends, Asks, Of, Busy

LEMMA ChooseKeeps ==
  ASSUME Base, NEW t \in Tab, TabInv(t), NEW o \in Org, NEW c \in Call, Choose(t, o, c)
  PROVE  TabInv(t)'
<1>0. /\ stage[c] = "idle" /\ Others(c) /\ UNCHANGED <<api, cookie, tabs, trouble>>
      /\ Sends(c, "select", t, o, cookie)
      /\ Shell(t) /\ Cardinality(view[t].orgs) > 1
      /\ \A d \in Call : ~Busy(d, t, "select") /\ ~Busy(d, t, "session")
  BY AtChoose
<1>1. stage'[c] = "sent" /\ ask'[c].op = "select"
  BY <1>0 DEF Sends, Asks
<1>2. /\ \A d \in Call : Of(d, t)' <=> Of(d, t) \/ d = c
      /\ \A d \in Call : Of(d, t) => d # c /\ stage'[d] = stage[d] /\ ask'[d] = ask[d]
      /\ \A d \in Call : \A op : Busy(d, t, op)' <=> Busy(d, t, op) \/ (d = c /\ op = "select")
  BY <1>0, <1>1, SentRest
<1>s. /\ view' = view /\ page' = page /\ added' = added /\ overtaken' = overtaken
      /\ member' = member /\ cookie' = cookie /\ catalog' = catalog /\ Shell(t)'
  BY <1>0, <1>1 DEF tabs, api, Shell
<1>a. \A y : Aim(t, y)' <=> Aim(t, y)
  BY <1>0, <1>1, <1>2, <1>s DEF Aim
<1>3. Waits(t)'
  BY <1>2, <1>s DEF TabInv, Waits
<1>4. Alone(t)'
  BY <1>2, <1>s DEF TabInv, Alone, FirstRun
<1>5. OneSwitch(t)'
  BY <1>0, <1>1, <1>2 DEF OneSwitch, Switches, Busy
<1>6. Read(t)'
  BY <1>0, <1>1, <1>2 DEF Read
<1>7. Shown(t)'
  BY <1>0, <1>1, <1>2, <1>s DEF TabInv, Shown
<1>8. Listed(t)'
  <2>1. \A d \in Call : Busy(d, t, "list")' => Busy(d, t, "list") /\ stage'[d] = stage[d] /\ ask'[d] = ask[d]
    BY <1>2 DEF Busy
  <2> QED BY <2>1, <1>a, <1>s DEF TabInv, Listed
<1>9. Paged(t)'
  <2>1. ~(Cardinality(view[t].orgs) = 1)
    BY <1>0, <1>1
  <2> QED BY <2>1, <1>a, <1>s DEF TabInv, Paged
<1> QED BY <1>3, <1>4, <1>5, <1>6, <1>7, <1>8, <1>9 DEF TabInv

LEMMA SubmitKeeps ==
  ASSUME Base, NEW t \in Tab, TabInv(t), NEW p \in Product, NEW c \in Call, Submit(t, p, c)
  PROVE  TabInv(t)'
<1>0. /\ stage[c] = "idle" /\ Others(c) /\ UNCHANGED <<api, cookie, tabs, trouble>>
      /\ Sends(c, "create", t, p, cookie) /\ Shell(t)
  BY AtSubmit
<1>1. ask'[c].op = "create"
  BY <1>0 DEF Sends, Asks
<1>2. /\ \A d \in Call : Of(d, t)' <=> Of(d, t) \/ d = c
      /\ \A d \in Call : Of(d, t) => d # c /\ stage'[d] = stage[d] /\ ask'[d] = ask[d]
      /\ \A d \in Call : \A op : Busy(d, t, op)' <=> Busy(d, t, op) \/ (d = c /\ op = "create")
  BY <1>0, <1>1, SentRest
<1>s. /\ view' = view /\ page' = page /\ added' = added /\ overtaken' = overtaken
      /\ member' = member /\ cookie' = cookie /\ catalog' = catalog /\ Shell(t)'
  BY <1>0, <1>1 DEF tabs, api, Shell
<1>b. \A d \in Call : \A op \in {"session", "select", "list", "found"} :
        Busy(d, t, op)' => Busy(d, t, op) /\ stage'[d] = stage[d] /\ ask'[d] = ask[d]
  BY <1>2 DEF Busy
<1>c. \A d \in Call : \A op \in {"session", "select", "list", "found"} : Busy(d, t, op)' <=> Busy(d, t, op)
  BY <1>2
<1>a. \A y : Aim(t, y)' <=> Aim(t, y)
  BY <1>b, <1>c, <1>s DEF Aim
<1>3. Waits(t)'
  BY <1>2, <1>s DEF TabInv, Waits
<1>4. Alone(t)'
  BY <1>2, <1>s DEF TabInv, Alone, FirstRun
<1>w. \A d \in Call : Switches(d, t)' <=> Switches(d, t)
  BY <1>0, <1>1, <1>2 DEF Switches
<1>5. OneSwitch(t)'
  BY <1>w DEF TabInv, OneSwitch
<1>6. Read(t)'
  BY <1>b, <1>s DEF TabInv, Read
<1>7. Shown(t)'
  BY <1>0, <1>1, <1>b, <1>c, <1>s DEF TabInv, Shown
<1>8. Listed(t)'
  BY <1>b, <1>a, <1>s DEF TabInv, Listed
<1>9. Paged(t)'
  BY <1>w, <1>a, <1>s DEF TabInv, Paged
<1> QED BY <1>3, <1>4, <1>5, <1>6, <1>7, <1>8, <1>9 DEF TabInv

LEMMA StartKeeps ==
  ASSUME Base, NEW t \in Tab, TabInv(t), NEW o \in Org, NEW c \in Call, Start(t, o, c)
  PROVE  TabInv(t)'
<1>0. /\ stage[c] = "idle" /\ Others(c) /\ UNCHANGED <<api, cookie, tabs, trouble>>
      /\ Sends(c, "found", t, o, cookie) /\ view[t] = Unread("ready")
      /\ \A d \in Call : ~Busy(d, t, "found") /\ ~Busy(d, t, "session")
  BY AtStart
<1>1. ask'[c].op = "found"
  BY <1>0 DEF Sends, Asks
<1>s. /\ view' = view /\ page' = page
      /\ view[t].status = "ready" /\ view[t].orgs = {} /\ view[t].active = None
  BY <1>0, <1>1, UnreadFields DEF tabs
<1>2. \A d \in Call : ~Of(d, t)
  <2>1. ~Shell(t)
    BY <1>s DEF Shell
  <2>2. \A d \in Call : Of(d, t) => ask[d].op \in {"session", "found"}
    BY <2>1 DEF TabInv, Alone
  <2> QED BY <1>0, <1>1, <2>2 DEF Busy
<1>3. \A d \in Call : Of(d, t)' <=> d = c
  BY <1>0, <1>1, <1>2, SentRest
<1>4. Waits(t)'
  BY <1>2, <1>s DEF TabInv, Waits, Busy
<1>5. Alone(t)'
  BY <1>0, <1>1, <1>3, <1>s DEF Alone, FirstRun, Busy
<1>6. OneSwitch(t)' /\ Read(t)'
  BY <1>0, <1>1, <1>3 DEF OneSwitch, Switches, Read, Busy
<1>7. Shown(t)' /\ Listed(t)' /\ Paged(t)'
  BY <1>s DEF Shown, Listed, Paged, Shell
<1> QED BY <1>4, <1>5, <1>6, <1>7 DEF TabInv

LEMMA GotSessionKeeps ==
  ASSUME Base, NEW c \in Call, NEW t \in Tab, t = ask[c].tab, TabInv(t), GotSession(c)
  PROVE  TabInv(t)'
<1>1. /\ Busy(c, t, "session") /\ stage[c] = "answered" /\ UNCHANGED <<api, cookie, added, trouble>>
      /\ overtaken'[t] <=> ~ask[c].clean
      /\ Shows(c, t)
      /\ \/ Lists(c, t, ask[c].clean) /\ view'[t].orgs # {} /\ view'[t].active # None
         \/ /\ view'[t].orgs # {} /\ view'[t].active = None /\ page'[t] = Page("ready")
            /\ Ends(c) /\ Others(c)
         \/ /\ Shell(t) /\ view'[t].orgs # {} /\ view'[t].active = view[t].active /\ view'[t].active # None
            /\ page'[t] = page[t] /\ Ends(c) /\ Others(c)
         \/ /\ view'[t].orgs = {} /\ page'[t] = Page("none")
            /\ Ends(c) /\ Silences(t, c)
  BY AtGotSession
<1>s. member' = member /\ cookie' = cookie /\ catalog' = catalog /\ added' = added /\ t # None
  BY <1>1, TabIsSomebody DEF api
<1>c. Of(c, t) /\ ask[c].op = "session" /\ Form(c) /\ TabInv(t)
  BY <1>1 DEF Busy, Base
\* The other calls of the tab.
<1>2. \A d \in Call : d # c /\ Of(d, t) => Shell(t) /\ ask[d].op \notin {"session", "select", "found"}
  BY <1>c DEF TabInv, Alone, OneSwitch, Switches, FirstRun, Shell, Busy
\* What is shown when the session was read.
<1>3. view'[t].orgs # {} => /\ Shell(t)' /\ ask[c].ok /\ view'[t].orgs = ask[c].seen
                            /\ view'[t].active = Active(ask[c].jar, ask[c].seen)
  BY <1>1, <1>c DEF Shows, Shell, Form
<1>4. ask[c].clean /\ view'[t].orgs # {} => ask[c].jar = cookie /\ ask[c].seen = member
  BY <1>1, <1>3, <1>c DEF TabInv, Read
<1>5. /\ view'[t].status # "loading" /\ view'[t].active \in view'[t].orgs \cup {None}
      /\ view'[t].orgs = {} => view'[t].active = None
  <2>1. CASE view'[t].orgs = {}
    <3>1. view'[t].active = None
      <4>1. CASE ask[c].ok /\ view'[t].orgs = ask[c].seen /\ view'[t].active = ask[c].tenant
        <5>1. view'[t].active = Active(ask[c].jar, {})
          BY <1>1, <1>c, <2>1, <4>1 DEF Form
        <5> QED BY <5>1, ActiveIsMember
      <4> QED BY <1>1, <4>1 DEF Shows
    <3> QED BY <1>1, <2>1, <3>1 DEF Shows
  <2>2. CASE view'[t].orgs # {}
    BY <1>1, <1>3, <2>2, ActiveIsMember DEF Shows
  <2> QED BY <2>1, <2>2
<1>6. \A d \in Call : ~Switches(d, t)'
  BY <1>1, <1>s, <1>2 DEF Switches, Of, Lists, Sends, Asks, Ends, Others, Silences, Fades
<1>7. \A d \in Call : ~Busy(d, t, "session")' /\ ~Busy(d, t, "select")' /\ ~Busy(d, t, "found")'
  BY <1>1, <1>s, <1>2, <1>6 DEF Switches, Busy, Of, Lists, Sends, Asks, Ends, Others, Silences, Fades
<1>8. view'[t].orgs = {} => \A d \in Call : ~Of(d, t)'
  BY <1>1, <1>s DEF Of, Ends, Silences
<1>9. Waits(t)'
  <2>1. ASSUME page'[t].status = "loading" PROVE \E d \in Call : Busy(d, t, "list")'
    <3>1. CASE Lists(c, t, ask[c].clean)
      BY <3>1 DEF Lists, Sends, Asks, Busy, Of
    <3>2. CASE page'[t] = page[t] /\ Others(c)
      <4>1. PICK d \in Call : Busy(d, t, "list")
        BY <2>1, <3>2 DEF TabInv, Waits
      <4>2. d # c
        BY <4>1, <1>c DEF Busy
      <4> QED BY <3>2, <4>1, <4>2 DEF Others, Busy, Of
    <3> QED BY <1>1, <2>1, <3>1, <3>2, UnreadFields
  <2> QED BY <1>5, <2>1 DEF Waits
<1>10. Alone(t)'
  <2>1. CASE view'[t].orgs = {}
    BY <1>8, <2>1 DEF Alone, Busy
  <2>2. CASE view'[t].orgs # {}
    BY <1>3, <1>7, <2>2 DEF Alone
  <2> QED BY <2>1, <2>2
<1>11. OneSwitch(t)' /\ Read(t)'
  BY <1>6, <1>7 DEF OneSwitch, Read
<1>12. Shown(t)'
  BY <1>1, <1>s, <1>3, <1>4, <1>7 DEF Shown, Shell
<1>13. Listed(t)'
  <2>1. ASSUME NEW d \in Call, Busy(d, t, "list")', ask'[d].clean, view'[t].active # None
        PROVE  /\ stage'[d] = "sent" => view'[t].active = Active(ask'[d].jar, member')
               /\ stage'[d] = "decided" => view'[t].active = ask'[d].tenant
               /\ stage'[d] = "answered" /\ ask'[d].ok =>
                    /\ view'[t].active = ask'[d].tenant
                    /\ \A p \in added'[t] : p \in catalog'[ask'[d].tenant] => p \in ask'[d].seen
    <3>0. view'[t].orgs # {}
      BY <1>5, <2>1
    <3>1. CASE Lists(c, t, ask[c].clean)
      <4>1. d = c
        BY <2>1, <3>1 DEF Lists, Busy, Of, Fades
      <4>2. stage'[c] = "sent" /\ ask'[c].jar = cookie /\ ask[c].clean
        BY <2>1, <3>1, <4>1 DEF Lists, Sends, Asks
      <4> QED BY <1>s, <1>3, <1>4, <3>0, <4>1, <4>2
    <3>2. CASE Shell(t) /\ view'[t].active = view[t].active /\ Ends(c) /\ Others(c)
      <4>1. d # c /\ stage'[d] = stage[d] /\ ask'[d] = ask[d] /\ Busy(d, t, "list")
        BY <2>1, <3>2 DEF Ends, Others, Busy, Of
      <4>2. ask[c].clean
        BY <1>1, <2>1, <4>1 DEF TabInv, Read
      <4>3. \A y : Aim(t, y) => y = view'[t].active
        <5>1. ASSUME NEW y, NEW e \in Call, Busy(e, t, "session"), y = ask[e].jar, ask[e].clean => y \in member
              PROVE  y = view'[t].active
          <6>1. e = c
            BY <1>2, <5>1 DEF Busy
          <6> QED BY <1>3, <1>4, <3>0, <4>2, <5>1, <6>1 DEF Active
        <5> QED BY <3>2, <5>1 DEF Aim
      <4> QED BY <1>s, <2>1, <3>2, <4>1, <4>3 DEF TabInv, Listed
    <3> QED BY <1>1, <2>1, <3>0, <3>1, <3>2
  <2> QED BY <2>1 DEF Listed, Aim
<1>14. Paged(t)'
  <2>1. ASSUME page'[t].status = "ready", page'[t].clean, view'[t].active # None
        PROVE  /\ page'[t].of \in Org
               /\ \A p \in added'[t] : p \in catalog'[page'[t].of] => p \in page'[t].rows
               /\ \/ page'[t].of = view'[t].active
                  \/ overtaken'[t] /\ Cardinality(view'[t].orgs) = 1
    <3>0. view'[t].orgs # {}
      BY <1>5, <2>1
    <3>1. view'[t].active = view[t].active /\ page'[t] = page[t] /\ Shell(t)
      BY <1>1, <2>1, <3>0, UnreadFields DEF Lists
    <3>2. /\ page[t].of \in Org
          /\ \A p \in added[t] : p \in catalog[page[t].of] => p \in page[t].rows
          /\ Aim(t, page[t].of)
      BY <1>c, <2>1, <3>1 DEF TabInv, Paged, Switches
    <3>3. ASSUME page[t].of # view[t].active
          PROVE  page[t].of = view'[t].active \/ (overtaken'[t] /\ Cardinality(view'[t].orgs) = 1)
      <4>1. page[t].of = ask[c].jar /\ (ask[c].clean => ask[c].jar \in member)
        BY <1>2, <3>2, <3>3 DEF Aim, Busy
      <4>2. CASE ask[c].jar \in ask[c].seen
        BY <1>3, <3>0, <4>1, <4>2 DEF Active
      <4>3. CASE ask[c].jar \notin ask[c].seen
        <5>1. ~ask[c].clean
          BY <1>4, <3>0, <4>1, <4>3
        <5>2. Cardinality(ask[c].seen) = 1
          BY <1>3, <2>1, <3>0, <4>3 DEF Active
        <5> QED BY <1>1, <1>3, <3>0, <5>1, <5>2
      <4> QED BY <4>2, <4>3
    <3> QED BY <1>s, <3>1, <3>2, <3>3
  <2> QED BY <2>1, <1>6 DEF Paged, Aim
<1> QED BY <1>9, <1>10, <1>11, <1>12, <1>13, <1>14 DEF TabInv

LEMMA GotSelectKeeps ==
  ASSUME Base, NEW c \in Call, NEW t \in Tab, t = ask[c].tab, TabInv(t), GotSelect(c)
  PROVE  TabInv(t)'
<1>1. /\ Busy(c, t, "select") /\ stage[c] = "answered" /\ UNCHANGED <<api, view, page, added, trouble>>
      /\ cookie' = Chosen(c) /\ Sends(c, "session", t, None, cookie') /\ ask'[c].clean = TRUE
      /\ \/ Others(c) /\ cookie' = cookie /\ overtaken' = overtaken
         \/ Upsets(t, c)
  BY AtGotSelect
<1>s. /\ view' = view /\ page' = page /\ added' = added /\ member' = member /\ catalog' = catalog
      /\ (Shell(t)' <=> Shell(t)) /\ t # None
  BY <1>1, TabIsSomebody DEF api, Shell
<1>c. Of(c, t) /\ ask[c].op = "select" /\ Form(c)
  BY <1>1 DEF Busy, Base
<1>2. /\ \A d \in Call : d # c /\ Of(d, t) => stage'[d] = stage[d] /\ ask'[d] = ask[d]
      /\ \A d \in Call : d # c => (Of(d, t)' <=> Of(d, t))
      /\ overtaken'[t] <=> overtaken[t]
  BY <1>1, <1>s DEF Upsets, Others, Of
<1>3. stage'[c] = "sent" /\ ask'[c].op = "session" /\ ask'[c].tab = t /\ ask'[c].jar = cookie' /\ Of(c, t)'
  BY <1>1 DEF Sends, Asks, Of
<1>4. Shell(t) /\ \A d \in Call : ~Busy(d, t, "session") /\ ~Busy(d, t, "found")
  BY <1>c DEF TabInv, Alone, OneSwitch, Switches, Busy, Shell, FirstRun
<1>5. \A d \in Call : /\ Busy(d, t, "session")' <=> d = c
                      /\ Busy(d, t, "select")' => d # c /\ Busy(d, t, "select")
                      /\ ~Busy(d, t, "found")'
                      /\ Busy(d, t, "list")' <=> Busy(d, t, "list")
                      /\ Busy(d, t, "list")' => stage'[d] = stage[d] /\ ask'[d] = ask[d]
  BY <1>c, <1>2, <1>3, <1>4 DEF Busy
<1>6. \A d \in Call : Switches(d, t)' <=> d = c
  BY <1>c, <1>2, <1>3 DEF TabInv, OneSwitch, Switches
<1>7. \A y : Aim(t, y) => y = view[t].active
  BY <1>4 DEF Aim
<1>8. Waits(t)'
  BY <1>s, <1>5 DEF TabInv, Waits
<1>9. Alone(t)'
  BY <1>s, <1>4, <1>5 DEF Alone
<1>10. OneSwitch(t)'
  BY <1>6 DEF OneSwitch
<1>11. Read(t)'
  BY <1>1, <1>3, <1>5 DEF Read
<1>12. Shown(t)'
  <2> SUFFICES ASSUME Shell(t), ~overtaken[t]
               PROVE  /\ cookie' \in member \/ view[t].active = Active(cookie', member)
                      /\ \A d \in Call : ~Busy(d, t, "select")'
    BY <1>s, <1>2, <1>3, <1>5 DEF Shown
  <2>1. \A d \in Call : ~Busy(d, t, "select")'
    BY <1>6, <1>3 DEF Switches, Busy
  <2>2. CASE ask[c].ok
    BY <1>1, <2>1, <2>2 DEF TabInv, Shown, Chosen
  <2>3. CASE ~ask[c].ok
    BY <1>1, <1>4, <2>1, <2>3 DEF TabInv, Shown, Chosen
  <2> QED BY <2>1, <2>2, <2>3
<1>13. Listed(t)'
  BY <1>s, <1>5, <1>7 DEF TabInv, Listed, Aim
<1>14. Paged(t)'
  <2>1. ~(\A d \in Call : ~Switches(d, t))
    BY <1>c DEF Switches
  <2> QED BY <1>s, <1>7, <2>1 DEF TabInv, Paged, Aim
<1> QED BY <1>8, <1>9, <1>10, <1>11, <1>12, <1>13, <1>14 DEF TabInv

\* A call of tab t ends, or nobody awaits it any more; the others stand.
LEMMA FewerKeeps ==
  ASSUME Base, NEW t \in Tab, TabInv(t), NEW c \in Call, Busy(c, t, ask[c].op), ask[c].op # "session", Shell(t),
         Ends(c) \/ Drops(c), Others(c),
         UNCHANGED <<api, cookie>>, overtaken' = overtaken, view'[t] = view[t], added'[t] = added[t]
  PROVE  /\ page'[t].status # "loading" \/ (page'[t] = page[t] /\ ask[c].op # "list") => Waits(t)'
         /\ Alone(t)' /\ OneSwitch(t)' /\ Read(t)' /\ Shown(t)' /\ Listed(t)'
         /\ \A y : Aim(t, y) => Aim(t, y)'
         /\ page'[t] = page[t] => Paged(t)'
<1>s. member' = member /\ cookie' = cookie /\ catalog' = catalog /\ Shell(t)' /\ t # None
  BY TabIsSomebody DEF api, Shell
<1>1. \A d \in Call : /\ Of(d, t)' <=> Of(d, t) /\ d # c
                      /\ Of(d, t)' => stage'[d] = stage[d] /\ ask'[d] = ask[d]
  BY <1>s DEF Ends, Drops, Others, Of
<1>2. \A d \in Call : \A op : /\ Busy(d, t, op)' <=> Busy(d, t, op) /\ d # c
                              /\ Busy(d, t, op)' => stage'[d] = stage[d] /\ ask'[d] = ask[d]
  BY <1>1 DEF Busy
<1>3. \A d \in Call : /\ Busy(d, t, "session")' <=> Busy(d, t, "session")
                      /\ ask[c].op # "list" => (Busy(d, t, "list")' <=> Busy(d, t, "list"))
  BY <1>2 DEF Busy
<1>4. \A d \in Call : Switches(d, t)' => Switches(d, t)
  BY <1>1 DEF Switches
<1>5. \A y : Aim(t, y) <=> Aim(t, y)'
  BY <1>s, <1>2, <1>3 DEF Aim
<1>6. page'[t].status # "loading" \/ (page'[t] = page[t] /\ ask[c].op # "list") => Waits(t)'
  BY <1>3 DEF TabInv, Waits
<1>7. Alone(t)'
  BY <1>s, <1>2 DEF TabInv, Alone, FirstRun
<1>8. OneSwitch(t)'
  BY <1>4 DEF TabInv, OneSwitch
<1>9. Read(t)'
  BY <1>s, <1>2 DEF TabInv, Read
<1>10. Shown(t)'
  BY <1>s, <1>2, <1>3 DEF TabInv, Shown
<1>11. Listed(t)'
  BY <1>s, <1>2, <1>5 DEF TabInv, Listed
<1>12. page'[t] = page[t] => Paged(t)'
  BY <1>s, <1>4, <1>5 DEF TabInv, Paged
<1> QED BY <1>5, <1>6, <1>7, <1>8, <1>9, <1>10, <1>11, <1>12

LEMMA InShell ==
  ASSUME NEW t \in Tab, TabInv(t), NEW c \in Call, Of(c, t), ask[c].op \in {"select", "list", "create"}
  PROVE  Shell(t)
BY DEF TabInv, Alone

LEMMA GotListKeeps ==
  ASSUME Base, NEW c \in Call, NEW t \in Tab, t = ask[c].tab, TabInv(t), GotList(c)
  PROVE  TabInv(t)'
<1>1. /\ Busy(c, t, "list") /\ stage[c] = "answered"
      /\ UNCHANGED <<api, cookie, view, added, overtaken, trouble>>
      /\ Ends(c) /\ Others(c)
      /\ \/ page'[t] = Page("failed")
         \/ /\ ask[c].ok /\ page'[t].status = "ready"
            /\ page'[t].of = ask[c].tenant /\ page'[t].rows = ask[c].seen
            /\ page'[t].clean = ask[c].clean
  BY AtGotList
<1>2. Shell(t) /\ ask[c].op = "list"
  BY <1>1, InShell DEF Busy
<1>3. view' = view /\ added' = added /\ overtaken' = overtaken /\ catalog' = catalog
  BY <1>1 DEF api
<1>4. page'[t].status \in {"ready", "failed"}
  BY <1>1, UnreadFields
<1>5. /\ Waits(t)' /\ Alone(t)' /\ OneSwitch(t)' /\ Read(t)' /\ Shown(t)' /\ Listed(t)'
      /\ \A y : Aim(t, y) => Aim(t, y)'
  BY <1>1, <1>2, <1>3, <1>4, FewerKeeps
<1>6. Paged(t)'
  <2> SUFFICES ASSUME page'[t].status = "ready", page'[t].clean, view'[t].active # None
               PROVE  /\ page'[t].of \in Org
                      /\ \A p \in added'[t] : p \in catalog'[page'[t].of] => p \in page'[t].rows
                      /\ \A y : y = page'[t].of => Aim(t, y)
    BY <1>5 DEF Paged
  <2>1. /\ ask[c].ok /\ page'[t].of = ask[c].tenant /\ page'[t].rows = ask[c].seen /\ ask[c].clean
    BY <1>1, UnreadFields
  <2>2. Listed(t) /\ Form(c)
    BY DEF TabInv, Base
  <2> QED BY <1>1, <1>2, <1>3, <2>1, <2>2 DEF Listed, Form
<1> QED BY <1>5, <1>6 DEF TabInv

LEMMA GotCreatedKeeps ==
  ASSUME Base, NEW c \in Call, NEW t \in Tab, t = ask[c].tab, TabInv(t), GotCreated(c)
  PROVE  TabInv(t)'
<1>1. /\ Busy(c, t, "create") /\ stage[c] = "answered"
      /\ UNCHANGED <<api, cookie, view, overtaken, trouble>>
      /\ \/ Ends(c) /\ Others(c) /\ UNCHANGED <<added, page>>
         \/ /\ added'[t] = added[t] \cup {ask[c].arg}
            /\ \E clean \in BOOLEAN : Lists(c, t, clean) /\ (clean => ~overtaken[t])
  BY AtGotCreated
<1>c. Of(c, t) /\ ask[c].op = "create"
  BY <1>1 DEF Busy
<1>s. /\ view' = view /\ overtaken' = overtaken /\ catalog' = catalog /\ member' = member /\ cookie' = cookie
      /\ Shell(t) /\ Shell(t)'
  BY <1>1, <1>c, InShell DEF api, Shell
<1>2. CASE Ends(c) /\ Others(c) /\ UNCHANGED <<added, page>>
  <2>1. /\ Waits(t)' /\ Alone(t)' /\ OneSwitch(t)' /\ Read(t)' /\ Shown(t)' /\ Listed(t)' /\ Paged(t)'
    BY <1>1, <1>2, <1>c, <1>s, FewerKeeps
  <2> QED BY <2>1 DEF TabInv
<1>3. ASSUME added'[t] = added[t] \cup {ask[c].arg},
             NEW clean \in BOOLEAN, Lists(c, t, clean), clean => ~overtaken[t]
      PROVE  TabInv(t)'
  <2>1. /\ stage'[c] = "sent" /\ ask'[c].op = "list" /\ ask'[c].tab = t /\ ask'[c].jar = cookie
        /\ ask'[c].clean = clean /\ Of(c, t)' /\ page'[t].status = "loading"
    BY <1>3, UnreadFields DEF Lists, Sends, Asks, Of
  <2>2. \A d \in Call : d # c =>
          /\ Of(d, t)' <=> Of(d, t)
          /\ stage'[d] = stage[d] /\ ask'[d].op = ask[d].op
          /\ IF Busy(d, t, "list") THEN ask'[d].clean = FALSE ELSE ask'[d] = ask[d]
    BY <1>3 DEF Lists, Of, Fades
  <2>3. \A d \in Call : /\ Busy(d, t, "session")' <=> Busy(d, t, "session")
                        /\ Busy(d, t, "select")' <=> Busy(d, t, "select")
                        /\ Busy(d, t, "found")' <=> Busy(d, t, "found")
                        /\ Busy(d, t, "session") \/ Busy(d, t, "select") =>
                             d # c /\ stage'[d] = stage[d] /\ ask'[d] = ask[d]
                        /\ Busy(d, t, "list")' => d = c \/ ~ask'[d].clean
    BY <1>c, <2>1, <2>2 DEF Busy
  <2>4. \A d \in Call : Switches(d, t)' <=> Switches(d, t)
    BY <1>c, <2>1, <2>2 DEF Switches
  <2>5. Waits(t)'
    <3>1. Busy(c, t, "list")'
      BY <2>1 DEF Busy
    <3> QED BY <1>s, <2>3, <3>1 DEF TabInv, Waits
  <2>6. Alone(t)'
    BY <1>s, <2>3 DEF TabInv, Alone, FirstRun
  <2>7. OneSwitch(t)'
    BY <2>4 DEF TabInv, OneSwitch
  <2>8. Read(t)'
    BY <1>s, <1>3, <2>1, <2>3 DEF TabInv, Read
  <2>9. Shown(t)'
    BY <1>s, <2>3 DEF TabInv, Shown
  <2>10. Listed(t)'
    <3> SUFFICES ASSUME clean
                 PROVE  \A y : y = Active(cookie, member) =>
                           \/ y = view'[t].active
                           \/ \E d \in Call : /\ Busy(d, t, "session")' /\ y = ask'[d].jar
                                              /\ ask'[d].clean => y \in member'
      BY <1>s, <2>1, <2>3 DEF Listed, Aim
    <3>1. CASE \A d \in Call : ~Busy(d, t, "session")
      BY <1>3, <1>s, <3>1 DEF TabInv, Shown
    <3>2. ASSUME NEW d \in Call, Busy(d, t, "session")
          PROVE  \/ Active(cookie, member) = view'[t].active
                 \/ /\ Busy(d, t, "session")' /\ Active(cookie, member) = ask'[d].jar
                    /\ Active(cookie, member) \in member'
      <4>1. ask[d].clean
        BY <1>3, <3>2 DEF TabInv, Read
      <4>2. ask[d].jar = cookie /\ (ask[d].jar \in member \/ view[t].active = Active(ask[d].jar, member))
        BY <1>3, <1>s, <3>2, <4>1 DEF TabInv, Read, Shown
      <4>3. CASE cookie \in member
        BY <1>s, <2>3, <3>2, <4>2, <4>3 DEF Active
      <4>4. CASE view[t].active = Active(cookie, member)
        BY <1>s, <4>4
      <4> QED BY <4>2, <4>3, <4>4
    <3> QED BY <3>1, <3>2
  <2>11. Paged(t)'
    BY <2>1 DEF Paged
  <2> QED BY <2>5, <2>6, <2>7, <2>8, <2>9, <2>10, <2>11 DEF TabInv
<1> QED BY <1>1, <1>2, <1>3

\* On the first-run screen there is one call, which founds or reads.
LEMMA FirstRunKeeps ==
  ASSUME NEW t \in Tab, TabInv(t), FirstRun(t), NEW c \in Call,
         view'[t] = view[t], page'[t] = page[t],
         \A d \in Call : Of(d, t)' => d = c,
         Of(c, t)' => \/ ask'[c].op = "found"
                      \/ /\ ask'[c].op = "session" /\ ask'[c].clean /\ ask'[c].jar = cookie'
                         /\ stage'[c] = "sent"
  PROVE  TabInv(t)'
<1>1. ~Shell(t) /\ ~Shell(t)' /\ view'[t].active = None /\ view'[t].status = "ready" /\ FirstRun(t)'
  BY DEF FirstRun, Shell
<1>2. page'[t].status # "loading"
  <2>1. \A d \in Call : ~Busy(d, t, "list")
    BY <1>1 DEF TabInv, Alone, Busy
  <2> QED BY <2>1 DEF TabInv, Waits
<1>3. Waits(t)'
  BY <1>1, <1>2 DEF Waits
<1>4. Alone(t)' /\ OneSwitch(t)' /\ Read(t)'
  BY <1>1 DEF Alone, OneSwitch, Switches, Read, Busy
<1>5. Shown(t)' /\ Listed(t)' /\ Paged(t)'
  BY <1>1 DEF Shown, Listed, Paged
<1> QED BY <1>3, <1>4, <1>5 DEF TabInv

LEMMA InFirstRun ==
  ASSUME NEW t \in Tab, TabInv(t), NEW c \in Call, Busy(c, t, "found")
  PROVE  FirstRun(t) /\ \A d \in Call : Of(d, t) => d = c
BY DEF TabInv, Alone, FirstRun, Shell, Busy

LEMMA GotFoundedKeeps ==
  ASSUME Base, NEW c \in Call, NEW t \in Tab, t = ask[c].tab, TabInv(t), GotFounded(c)
  PROVE  TabInv(t)'
<1>1. /\ Others(c) /\ UNCHANGED <<api, cookie, tabs, trouble>> /\ Busy(c, t, "found")
      /\ \/ Ends(c)
         \/ Sends(c, "session", t, None, cookie) /\ ask'[c].clean = TRUE
  BY AtGotFounded
<1>2. FirstRun(t) /\ \A d \in Call : Of(d, t) => d = c
  BY <1>1, InFirstRun
<1>3. \A d \in Call : Of(d, t)' => d = c
  BY <1>2 , <1>1 DEF Others, Of
<1>4. Of(c, t)' => /\ ask'[c].op = "session" /\ ask'[c].clean /\ ask'[c].jar = cookie'
                   /\ stage'[c] = "sent"
  BY <1>1 DEF Of, Ends, Sends, Asks
<1>5. view' = view /\ page' = page
  BY <1>1 DEF tabs
<1> QED BY <1>2, <1>3, <1>4, <1>5, FirstRunKeeps

LEMMA FoundKeeps ==
  ASSUME Base, NEW c \in Call, NEW t \in Tab, t = ask[c].tab, TabInv(t), CreateOrganization(c)
  PROVE  TabInv(t)'
<1>1. /\ stage[c] = "sent" /\ ask[c].op = "found" /\ UNCHANGED <<catalog, cookie, view, page, added, trouble>>
      /\ \/ Goes(c) /\ Others(c)
         \/ AsAsked(c) /\ Upsets(t, c)
  BY AtCreateOrganization
<1>2. FirstRun(t) /\ \A d \in Call : Of(d, t) => d = c
  BY <1>1, InFirstRun DEF Busy, Of
<1>3. \A d \in Call : Of(d, t)' => d = c
  BY <1>1, <1>2 DEF Others, Upsets, Of
<1>4. ask'[c].op = "found"
  BY <1>1 DEF Goes, AsAsked
<1> QED BY <1>1, <1>2, <1>3, <1>4, FirstRunKeeps

LEMMA LoseKeeps ==
  ASSUME Base, NEW c \in Call, NEW t \in Tab, t = ask[c].tab, TabInv(t), Lose(c)
  PROVE  TabInv(t)'
<1>1. /\ Of(c, t) /\ UNCHANGED <<api, cookie, stage, added, overtaken>>
      /\ \/ /\ ask[c].op = "session" /\ view'[t] = Unread("failed") /\ page'[t] = Page("none")
            /\ Silences(t, c) /\ ask'[c].tab = None
         \/ ask[c].op = "list" /\ page'[t] = Page("failed") /\ view'[t] = view[t] /\ Drops(c)
         \/ /\ ask[c].op \in {"select", "create", "found"} /\ page'[t] = page[t] /\ view'[t] = view[t]
            /\ Drops(c)
  BY AtLose
<1>2. overtaken' = overtaken /\ added' = added /\ t # None /\ UNCHANGED <<api, cookie>>
  BY <1>1, TabIsSomebody
<1>3. CASE ask[c].op = "session" /\ view'[t] = Unread("failed") /\ page'[t] = Page("none") /\ Silences(t, c) /\ ask'[c].tab = None
  <2>1. \A d \in Call : ~Of(d, t)'
    BY <1>2, <1>3 DEF Silences, Of
  <2>2. /\ view'[t].status = "failed" /\ view'[t].orgs = {} /\ view'[t].active = None
        /\ page'[t].status = "none"
    BY <1>3, UnreadFields
  <2> QED BY <2>1, <2>2 DEF TabInv, Waits, Alone, OneSwitch, Switches, Read, Shown, Listed, Paged, Busy, Shell
<1>4. CASE ask[c].op \in {"list", "select", "create"} /\ view'[t] = view[t] /\ Drops(c)
  <2>1. Shell(t) /\ Busy(c, t, ask[c].op) /\ Others(c)
    BY <1>1, <1>4, InShell DEF Busy, Drops
  <2>2. /\ page'[t].status # "loading" \/ (page'[t] = page[t] /\ ask[c].op # "list")
        /\ page'[t] = page[t] \/ page'[t].status = "failed"
    BY <1>1, <1>4, UnreadFields
  <2>3. /\ Waits(t)' /\ Alone(t)' /\ OneSwitch(t)' /\ Read(t)' /\ Shown(t)' /\ Listed(t)'
        /\ page'[t] = page[t] => Paged(t)'
    BY <1>2, <1>4, <2>1, <2>2, FewerKeeps
  <2>4. Paged(t)'
    BY <2>2, <2>3 DEF Paged
  <2> QED BY <2>3, <2>4 DEF TabInv
<1>5. CASE ask[c].op = "found" /\ page'[t] = page[t] /\ view'[t] = view[t] /\ Drops(c)
  <2>1. FirstRun(t) /\ \A d \in Call : Of(d, t) => d = c
    BY <1>1, <1>5, InFirstRun DEF Busy
  <2>2. \A d \in Call : Of(d, t)' => d = c
    BY <1>5, <2>1 DEF Drops, Others, Of
  <2>3. ~Of(c, t)'
    BY <1>2, <1>5 DEF Drops, Of
  <2> QED BY <1>5, <2>1, <2>2, <2>3, FirstRunKeeps
<1> QED BY <1>1, <1>3, <1>4, <1>5

-----------------------------------------------------------------------------
(***************************************************************************)
(* The steps of others.                                                    *)
(***************************************************************************)
LEMMA AsideStands ==
  ASSUME Base, NEW t \in Tab, NEW c \in Call, NEW u, u # t, ~Of(c, t), ~Of(c, t)',
         \/ Others(c) \/ Silences(u, c) \/ \E clean : Lists(c, u, clean),
         view'[t] = view[t], page'[t] = page[t], added'[t] = added[t], Unadded(t),
         cookie' = cookie, member' = member, overtaken'[t] = overtaken[t]
  PROVE  Aside(t)
<1>1. \A d \in Call : Of(d, t) => stage'[d] = stage[d] /\ ask'[d] = ask[d]
  BY DEF Others, Silences, Lists, Busy, Of
<1>2. \A d \in Call : Of(d, t) => ask'[d].tab = t /\ Fades(ask[d], ask'[d])
  BY <1>1, FadesSame DEF Of, Base, Types
<1>3. \A d \in Call : ~Of(d, t) => stage'[d] = "idle" \/ ask'[d].tab # t
  BY TabIsSomebody DEF Others, Silences, Lists, Fades, Of
<1> QED BY <1>1, <1>2, <1>3 DEF Aside

LEMMA AsideUpset ==
  ASSUME Base, NEW t \in Tab, NEW c \in Call, NEW u, u # t, ~Of(c, t), ~Of(c, t)', Upsets(u, c),
         view'[t] = view[t], page'[t] = page[t], added'[t] = added[t], Unadded(t)
  PROVE  Aside(t)
<1>1. \A d \in Call : Of(d, t) => /\ d # c /\ stage'[d] = stage[d] /\ ask'[d].tab = t
                                  /\ Fades(ask[d], ask'[d]) /\ ask'[d].clean = FALSE
  BY DEF Upsets, Of
<1>2. \A d \in Call : ~Of(d, t) => stage'[d] = "idle" \/ ask'[d].tab # t
  BY DEF Upsets, Of
<1>3. overtaken'[t]
  BY DEF Upsets
<1> QED BY <1>1, <1>2, <1>3 DEF Aside

\* A product that is in no catalog yet is none of those a tab added.
LEMMA NothingUnadded ==
  ASSUME Base, New, NEW c \in Call, CreateProduct(c), NEW t \in Tab
  PROVE  Unadded(t)
<1>1. /\ stage[c] = "decided" /\ ask[c].op = "create"
      /\ \A o \in Org : catalog'[o] \subseteq catalog[o] \cup {ask[c].arg}
  BY AtCreateProduct
<1>2. ask[c].arg \notin added[t]
  BY <1>1 DEF New
<1> QED BY <1>1, <1>2 DEF Unadded

LEMMA TabRoute ==
  ASSUME Inv, NEW t \in Tab, NEW c \in Call, Route(c)
  PROVE  TabInv(t)'
<1>0. Base /\ New /\ TabInv(t)
  BY DEF Inv
<1>1. ASSUME Goes(c), Others(c), Unadded(t), UNCHANGED <<member, cookie, tabs>>
      PROVE  TabInv(t)'
  <2>1. CASE ask[c].tab = t
    BY <1>0, <1>1, <2>1, RouteKeeps
  <2>2. CASE ask[c].tab # t
    <3>1. ~Of(c, t) /\ ~Of(c, t)'
      BY <1>1, <2>2 DEF Of, Goes, AsAsked
    <3>2. /\ view'[t] = view[t] /\ page'[t] = page[t] /\ added'[t] = added[t]
          /\ cookie' = cookie /\ member' = member /\ overtaken'[t] = overtaken[t]
      BY <1>1 DEF tabs
    <3>3. Aside(t)
      BY <1>0, <1>1, <2>2, <3>1, <3>2, AsideStands
    <3> QED BY <1>0, <3>3, AsideKeeps
  <2> QED BY <2>1, <2>2
<1>2. CASE ReadSession(c) \/ Remember(c) \/ Resolve(c) \/ Products(c) \/ Falter(c)
  <2>1. Goes(c) /\ Others(c) /\ UNCHANGED <<api, cookie, tabs>>
    BY <1>0, <1>2, AtReadSession, AtRemember, AtResolve, AtProducts, AtFalter
  <2>2. Unadded(t) /\ UNCHANGED <<member, cookie, tabs>>
    BY <2>1 DEF Unadded, api
  <2> QED BY <1>1, <2>1, <2>2
<1>3. CASE CreateProduct(c)
  <2>1. Goes(c) /\ Others(c) /\ UNCHANGED <<taken, member, cookie, tabs, trouble>>
    BY <1>0, <1>3, AtCreateProduct
  <2>2. Unadded(t)
    BY <1>0, <1>3, NothingUnadded
  <2> QED BY <1>1, <2>1, <2>2
<1>4. CASE CreateOrganization(c)
  <2>1. CASE ask[c].tab = t
    BY <1>0, <1>4, <2>1, FoundKeeps
  <2>2. CASE ask[c].tab # t
    <3>1. /\ UNCHANGED <<catalog, cookie, view, page, added, trouble>>
          /\ \/ Goes(c) /\ Others(c) /\ UNCHANGED <<api, tabs>>
             \/ AsAsked(c) /\ stage'[c] = "answered" /\ Upsets(ask[c].tab, c)
      BY <1>0, <1>4, AtCreateOrganization
    <3>2. CASE Goes(c) /\ Others(c) /\ UNCHANGED <<api, tabs>>
      <4>1. Unadded(t) /\ UNCHANGED <<member, cookie, tabs>>
        BY <3>1, <3>2 DEF Unadded, api
      <4> QED BY <1>1, <3>2, <4>1
    <3>3. CASE AsAsked(c) /\ Upsets(ask[c].tab, c)
      <4>1. ~Of(c, t) /\ ~Of(c, t)' /\ Unadded(t)
        BY <2>2, <3>1, <3>3 DEF Of, AsAsked, Unadded
      <4>2. Aside(t)
        BY <1>0, <2>2, <3>1, <3>3, <4>1, AsideUpset
      <4> QED BY <1>0, <4>2, AsideKeeps
    <3> QED BY <3>1, <3>2, <3>3
  <2> QED BY <2>1, <2>2
<1> QED BY <1>2, <1>3, <1>4 DEF Route

LEMMA TabGot ==
  ASSUME Inv, NEW t \in Tab, NEW c \in Call, Got(c)
  PROVE  TabInv(t)'
<1>0. Base /\ TabInv(t)
  BY DEF Inv
<1>1. CASE ask[c].tab = t
  <2>1. ~Vanish(c)
    BY <1>1, TabIsSomebody DEF Vanish
  <2> QED BY <1>0, <1>1, <2>1, GotSessionKeeps, GotSelectKeeps, GotListKeeps, GotCreatedKeeps,
             GotFoundedKeeps, LoseKeeps DEF Got
<1>2. CASE ask[c].tab # t
  <2>0. ~Of(c, t) /\ ask[c].tab \in Tab \cup {None}
    BY <1>0, <1>2 DEF Of, Base, Types, Request
  <2>1. PICK u \in Tab \cup {None} : u = ask[c].tab
    BY <2>0
  <2>2. ASSUME ~Of(c, t)', Others(c) \/ Silences(u, c) \/ \E clean : Lists(c, u, clean),
               view'[t] = view[t], page'[t] = page[t], added'[t] = added[t], UNCHANGED <<api, cookie>>,
               overtaken'[t] = overtaken[t]
        PROVE  TabInv(t)'
    <3>1. Unadded(t) /\ member' = member /\ cookie' = cookie
      BY <2>2 DEF Unadded, api
    <3>2. Aside(t)
      BY <1>0, <1>2, <2>0, <2>1, <2>2, <3>1, AsideStands
    <3> QED BY <1>0, <3>2, AsideKeeps
  <2>3. CASE GotSession(c)
    <3>1. u \in Tab
      BY <2>1, <2>3 DEF GotSession, Answered
    <3>2. /\ UNCHANGED <<api, cookie, added, trouble>>
          /\ OnlyTab(u) /\ \A w \in Tab : w # u => overtaken'[w] = overtaken[w]
          /\ Lists(c, u, ask[c].clean) \/ (Ends(c) /\ Others(c)) \/ (Ends(c) /\ Silences(u, c))
      BY <1>0, <2>1, <2>3, <3>1, AtGotSession
    <3>3. ~Of(c, t)'
      BY <1>2, <2>1, <3>2 DEF Of, Lists, Sends, Asks, Ends
    <3> QED BY <1>2, <2>1, <2>2, <3>2, <3>3 DEF OnlyTab
  <2>4. CASE GotSelect(c)
    <3>1. u \in Tab
      BY <2>1, <2>4 DEF GotSelect, Answered
    <3>2. /\ UNCHANGED <<api, view, page, added, trouble>> /\ Sends(c, "session", u, None, cookie')
          /\ \/ Others(c) /\ cookie' = cookie /\ overtaken' = overtaken
             \/ Upsets(u, c)
      BY <1>0, <2>1, <2>4, <3>1, AtGotSelect
    <3>3. ~Of(c, t)'
      BY <1>2, <2>1, <3>2 DEF Of, Sends, Asks
    <3>4. CASE Others(c) /\ cookie' = cookie /\ overtaken' = overtaken
      BY <2>2, <3>2, <3>3, <3>4
    <3>5. CASE Upsets(u, c)
      <4>1. Unadded(t)
        BY <3>2 DEF Unadded, api
      <4>2. Aside(t)
        BY <1>0, <1>2, <2>0, <2>1, <3>2, <3>3, <3>5, <4>1, AsideUpset
      <4> QED BY <1>0, <4>2, AsideKeeps
    <3> QED BY <3>2, <3>4, <3>5
  <2>5. CASE GotList(c)
    <3>1. u \in Tab
      BY <2>1, <2>5 DEF GotList, Answered
    <3>2. /\ UNCHANGED <<api, cookie, view, added, overtaken, trouble>> /\ Ends(c) /\ Others(c) /\ OnlyTab(u)
      BY <1>0, <2>1, <2>5, <3>1, AtGotList
    <3>3. ~Of(c, t)'
      BY <3>2 DEF Of, Ends
    <3> QED BY <1>2, <2>1, <2>2, <3>2, <3>3 DEF OnlyTab
  <2>6. CASE GotCreated(c)
    <3>1. u \in Tab
      BY <2>1, <2>6 DEF GotCreated, Answered
    <3>2. /\ UNCHANGED <<api, cookie, view, overtaken, trouble>>
          /\ \/ Ends(c) /\ Others(c) /\ UNCHANGED <<added, page>>
             \/ OnlyTab(u) /\ \E clean : Lists(c, u, clean)
      BY <1>0, <2>1, <2>6, <3>1, AtGotCreated
    <3>3. ~Of(c, t)'
      BY <1>2, <2>1, <3>2 DEF Of, Lists, Sends, Asks, Ends
    <3> QED BY <1>2, <2>1, <2>2, <3>2, <3>3 DEF OnlyTab
  <2>7. CASE GotFounded(c)
    <3>1. /\ Others(c) /\ UNCHANGED <<api, cookie, tabs, trouble>>
          /\ Ends(c) \/ Sends(c, "session", ask[c].tab, None, cookie)
      BY <1>0, <2>7, AtGotFounded
    <3>2. ~Of(c, t)'
      BY <1>2, <3>1 DEF Of, Ends, Sends, Asks
    <3> QED BY <2>2, <3>1, <3>2 DEF tabs
  <2>8. CASE Lose(c)
    <3>1. u \in Tab
      BY <2>1, <2>8 DEF Lose
    <3>2. /\ UNCHANGED <<api, cookie, stage, added, overtaken>> /\ OnlyTab(u)
          /\ Silences(u, c) \/ Others(c)
          /\ ask'[c].tab = None
      BY <1>0, <2>1, <2>8, <3>1, AtLose DEF Drops
    <3>3. ~Of(c, t)'
      BY <3>2, TabIsSomebody DEF Of
    <3> QED BY <1>2, <2>1, <2>2, <3>2, <3>3 DEF OnlyTab
  <2>9. CASE Vanish(c)
    <3>1. Others(c) /\ Ends(c) /\ UNCHANGED <<api, cookie, tabs, trouble>>
      BY <1>0, <2>9, AtVanish
    <3>2. ~Of(c, t)'
      BY <3>1 DEF Of, Ends
    <3> QED BY <2>2, <3>1, <3>2 DEF tabs
  <2> QED BY <2>3, <2>4, <2>5, <2>6, <2>7, <2>8, <2>9 DEF Got
<1> QED BY <1>1, <1>2

LEMMA TabUser ==
  ASSUME Inv, NEW t \in Tab, NEW c \in Call, NEW u \in Tab,
         \/ Open(u, c)
         \/ \E o \in Org : Choose(u, o, c) \/ Start(u, o, c)
         \/ \E p \in Product : Submit(u, p, c)
  PROVE  TabInv(t)'
<1>0. Base /\ TabInv(t)
  BY DEF Inv
<1>1. CASE u = t
  BY <1>0, <1>1, OpenKeeps, ChooseKeeps, StartKeeps, SubmitKeeps
<1>2. CASE u # t
  <2>1. ASSUME stage[c] = "idle", stage'[c] = "sent", ask'[c].tab = u, Others(c) \/ Silences(u, c),
               view'[t] = view[t], page'[t] = page[t], added'[t] = added[t], overtaken' = overtaken,
               UNCHANGED <<api, cookie>>
        PROVE  TabInv(t)'
    <3>1. ~Of(c, t) /\ ~Of(c, t)' /\ Unadded(t) /\ member' = member
      BY <1>2, <2>1 DEF Of, Unadded, api
    <3>2. Aside(t)
      BY <1>0, <1>2, <2>1, <3>1, AsideStands
    <3> QED BY <1>0, <3>2, AsideKeeps
  <2>2. CASE Open(u, c)
    <3>1. /\ stage[c] = "idle" /\ UNCHANGED <<api, cookie, overtaken, trouble>>
          /\ Sends(c, "session", u, None, cookie) /\ Silences(u, c) /\ OnlyTab(u)
      BY <1>0, <2>2, AtOpen
    <3> QED BY <1>2, <2>1, <3>1 DEF Sends, Asks, OnlyTab
  <2>3. ASSUME stage[c] = "idle", UNCHANGED <<api, cookie, tabs, trouble>>, Others(c),
               NEW op, NEW arg, Sends(c, op, u, arg, cookie)
        PROVE  TabInv(t)'
    <3>1. stage'[c] = "sent" /\ ask'[c].tab = u
      BY <2>3 DEF Sends, Asks
    <3>2. view' = view /\ page' = page /\ added' = added /\ overtaken' = overtaken
      BY <2>3 DEF tabs
    <3> QED BY <2>1, <2>3, <3>1, <3>2
  <2>4. ASSUME NEW o \in Org, Choose(u, o, c) PROVE TabInv(t)'
    BY <1>0, <2>3, <2>4, AtChoose
  <2>5. ASSUME NEW o \in Org, Start(u, o, c) PROVE TabInv(t)'
    BY <1>0, <2>3, <2>5, AtStart
  <2>6. ASSUME NEW p \in Product, Submit(u, p, c) PROVE TabInv(t)'
    BY <1>0, <2>3, <2>6, AtSubmit
  <2> QED BY <2>2, <2>4, <2>5, <2>6
<1> QED BY <1>1, <1>2

LEMMA TabMembership ==
  ASSUME Inv, NEW t \in Tab, NEW o \in Org, Join(o) \/ Leave(o)
  PROVE  TabInv(t)'
<1>1. Stirs /\ UNCHANGED <<taken, catalog, cookie, view, page, stage, added>>
  BY AtMembership DEF Inv
<1>2. Aside(t)
  BY <1>1 DEF Stirs, Aside, Unadded, Of
<1> QED BY <1>2, AsideKeeps DEF Inv

-----------------------------------------------------------------------------
(***************************************************************************)
(* Submissions.                                                            *)
(***************************************************************************)
AllNamed == \A c \in Call : Named(c)

LEMMA NamedSoft ==
  ASSUME AllNamed, NEW c \in Call, Softly(c), member' = member, Named(c)'
  PROVE  AllNamed'
<1>1. ASSUME NEW d \in Call, d # c PROVE Named(d)'
  BY <1>1 DEF AllNamed, Named, Softly, Fades
<1> QED BY <1>1 DEF AllNamed

\* What happens to the submission of a call that is not the one that moves.
Unmade(d) == ask'[d].op = "create" =>
  /\ ask[d].op = "create" /\ ask'[d].arg = ask[d].arg
  /\ stage'[d] \in {"sent", "decided"} => stage[d] \in {"sent", "decided"}
  /\ stage'[d] = "answered" /\ ask'[d].ok => stage[d] = "answered" /\ ask[d].ok

LEMMA NewStays ==
  ASSUME New, catalog' = catalog, \A d \in Call : Unmade(d), \A t \in Tab : added'[t] \subseteq added[t]
  PROVE  New'
BY DEF New, Unmade

LEMMA NewSoft ==
  ASSUME New, NEW c \in Call, Softly(c), Unmade(c), catalog' = catalog,
         \A t \in Tab : added'[t] \subseteq added[t]
  PROVE  New'
<1>1. \A d \in Call : d # c => Unmade(d)
  BY DEF Softly, Fades, Unmade
<1> QED BY <1>1, NewStays

LEMMA NewCreated ==
  ASSUME Base, New, NEW c \in Call, CreateProduct(c)
  PROVE  New'
<1>1. /\ Goes(c) /\ Others(c) /\ UNCHANGED <<taken, member, cookie, tabs, trouble>>
      /\ stage[c] = "decided" /\ ask[c].op = "create"
      /\ \A o \in Org : catalog[o] \subseteq catalog'[o] /\ catalog'[o] \subseteq catalog[o] \cup {ask[c].arg}
  BY AtCreateProduct
<1>2. /\ \A d \in Call : ask'[d].op = ask[d].op /\ ask'[d].arg = ask[d].arg
      /\ stage'[c] = "answered" /\ ask[c].tenant \in Org
      /\ ask'[c].ok => ask[c].arg \in catalog'[ask[c].tenant]
      /\ \A d \in Call : d # c => stage'[d] = stage[d] /\ ask'[d].ok = ask[d].ok
  BY <1>1 DEF Goes, AsAsked, Others, Base, Form
<1>3. added' = added
  BY <1>1 DEF tabs
<1>4. /\ \A d, e \in Call : d # e /\ ask'[d].op = "create" /\ ask'[e].op = "create" => ask'[d].arg # ask'[e].arg
      /\ \A t \in Tab : \A p \in added'[t] : \E o \in Org : p \in catalog'[o]
  BY <1>1, <1>2, <1>3 DEF New
<1>5. \A d \in Call : ask'[d].op = "create" /\ stage'[d] \in {"sent", "decided"} =>
        \A o \in Org : ask'[d].arg \notin catalog'[o]
  BY <1>1, <1>2 DEF New
<1>6. \A d \in Call : ask'[d].op = "create" /\ stage'[d] = "answered" /\ ask'[d].ok =>
        \E o \in Org : ask'[d].arg \in catalog'[o]
  BY <1>1, <1>2 DEF New
<1> QED BY <1>4, <1>5, <1>6 DEF New

Submissions == New /\ AllNamed

LEMMA SubmissionsRoute == ASSUME Inv, NEW c \in Call, Route(c) PROVE Submissions'
<1>0. Base /\ New /\ AllNamed /\ \A t \in Tab : TabInv(t)
  BY DEF Inv, AllNamed
<1>1. ASSUME Goes(c), Others(c), member' = member PROVE AllNamed'
  <2>1. Named(c)'
    BY <1>0, <1>1 DEF AllNamed, Named, Goes, AsAsked
  <2> QED BY <1>0, <1>1, <2>1, SoftSteps, NamedSoft
<1>2. ASSUME Goes(c), Others(c), catalog' = catalog, added' = added PROVE New'
  <2>1. Unmade(c)
    <3>1. Form(c)
      BY <1>0 DEF Base
    <3> QED BY <1>0, <1>2, <3>1 DEF Unmade, Goes, AsAsked, New, Form
  <2> QED BY <1>0, <1>2, <2>1, SoftSteps, NewSoft
<1>3. CASE ReadSession(c) \/ Remember(c) \/ Resolve(c) \/ Products(c) \/ Falter(c)
  <2>1. Goes(c) /\ Others(c) /\ UNCHANGED <<api, cookie, tabs>>
    BY <1>0, <1>3, AtReadSession, AtRemember, AtResolve, AtProducts, AtFalter
  <2> QED BY <1>1, <1>2, <2>1 DEF api, tabs, Submissions
<1>4. CASE CreateProduct(c)
  <2>1. Goes(c) /\ Others(c) /\ UNCHANGED <<taken, member, cookie, tabs, trouble>>
    BY <1>0, <1>4, AtCreateProduct
  <2> QED BY <1>0, <1>1, <1>4, <2>1, NewCreated DEF Submissions
<1>5. CASE CreateOrganization(c)
  <2>1. /\ UNCHANGED <<catalog, cookie, view, page, added, trouble>> /\ ask[c].op = "found"
        /\ \/ Goes(c) /\ Others(c) /\ UNCHANGED <<api, tabs>>
           \/ AsAsked(c) /\ stage'[c] = "answered" /\ Upsets(ask[c].tab, c)
        /\ stage[c] = "sent"
    BY <1>0, <1>5, AtCreateOrganization
  <2>2. CASE Goes(c) /\ Others(c) /\ UNCHANGED <<api, tabs>>
    BY <1>1, <1>2, <2>1, <2>2 DEF api, Submissions
  <2>3. CASE AsAsked(c) /\ Upsets(ask[c].tab, c)
    <3>1. Softly(c) /\ ask'[c].op = "found"
      BY <1>0, <2>1, <2>3, SoftSteps DEF AsAsked
    <3>2. New'
      BY <1>0, <2>1, <3>1, NewSoft DEF Unmade
    <3>3. ASSUME NEW d \in Call PROVE Named(d)'
      <4>1. CASE d = c
        BY <3>1, <4>1 DEF Named
      <4>2. CASE d # c /\ ask'[d].clean = FALSE
        BY <4>2 DEF Named
      <4>3. CASE d # c /\ ask'[d].clean # FALSE
        <5>1. ask'[d] = ask[d] /\ ask[d].tab = ask[c].tab /\ ask[c].tab # None
          BY <2>3, <4>3 DEF Upsets
        <5>2. PICK t \in Tab : t = ask[c].tab
          BY <1>0, <5>1 DEF Base, Types, Request
        <5>3. ~Of(d, t)
          BY <1>0, <2>1, <4>3, <5>2, InFirstRun DEF Busy, Of
        <5>4. ask[d].op = "none"
          BY <1>0, <5>1, <5>2, <5>3 DEF Of, Base, Form
        <5> QED BY <5>1, <5>4 DEF Named
      <4> QED BY <4>1, <4>2, <4>3
    <3> QED BY <3>2, <3>3 DEF Submissions, AllNamed
  <2> QED BY <2>1, <2>2, <2>3
<1> QED BY <1>3, <1>4, <1>5 DEF Route

LEMMA SubmissionsGot == ASSUME Inv, NEW c \in Call, Got(c) PROVE Submissions'
<1>0. Base /\ New /\ AllNamed
  BY DEF Inv, AllNamed
<1>1. ASSUME Softly(c), UNCHANGED api, ask'[c].op # "create", \A t \in Tab : added'[t] \subseteq added[t]
      PROVE  Submissions'
  <2>1. Named(c)' /\ Unmade(c) /\ member' = member /\ catalog' = catalog
    BY <1>1 DEF Named, Unmade, api
  <2> QED BY <1>0, <1>1, <2>1, NamedSoft, NewSoft DEF Submissions
<1>v. CASE Vanish(c)
  <2>1. Others(c) /\ Ends(c) /\ UNCHANGED <<api, cookie, tabs, trouble>>
    BY <1>0, <1>v, AtVanish
  <2> QED BY <1>0, <1>1, <2>1, SoftSteps DEF Ends, tabs
<1>f. CASE GotFounded(c)
  <2>1. /\ Others(c) /\ UNCHANGED <<api, cookie, tabs, trouble>>
        /\ Ends(c) \/ Sends(c, "session", ask[c].tab, None, cookie)
    BY <1>0, <1>f, AtGotFounded
  <2> QED BY <1>0, <1>1, <2>1, SoftSteps DEF Ends, Sends, Asks, tabs
<1>t. CASE GotSession(c) \/ GotSelect(c) \/ GotList(c) \/ GotCreated(c) \/ Lose(c)
  <2>1. ask[c].tab \in Tab
    BY <1>0, <1>t, Awaited DEF GotSession, GotSelect, GotList, GotCreated, Lose, Base, Types, Request
  <2>2. PICK t \in Tab : t = ask[c].tab
    BY <2>1
  <2>3. CASE GotSession(c)
    <3>1. /\ UNCHANGED <<api, cookie, added, trouble>>
          /\ Lists(c, t, ask[c].clean) \/ (Ends(c) /\ Others(c)) \/ (Ends(c) /\ Silences(t, c))
      BY <1>0, <2>2, <2>3, AtGotSession
    <3>2. Softly(c) /\ ask'[c].op # "create"
      BY <1>0, <3>1, SoftSteps DEF Lists, Sends, Asks, Ends
    <3> QED BY <1>1, <3>1, <3>2
  <2>4. CASE GotSelect(c)
    <3>1. /\ UNCHANGED <<api, view, page, added, trouble>> /\ Sends(c, "session", t, None, cookie')
          /\ Others(c) \/ Upsets(t, c)
      BY <1>0, <2>2, <2>4, AtGotSelect
    <3>2. Softly(c) /\ ask'[c].op # "create"
      BY <1>0, <3>1, SoftSteps DEF Sends, Asks
    <3> QED BY <1>1, <3>1, <3>2
  <2>5. CASE GotList(c)
    <3>1. UNCHANGED <<api, cookie, view, added, overtaken, trouble>> /\ Ends(c) /\ Others(c)
      BY <1>0, <2>2, <2>5, AtGotList
    <3>2. Softly(c) /\ ask'[c].op # "create"
      BY <1>0, <3>1, SoftSteps DEF Ends
    <3> QED BY <1>1, <3>1, <3>2
  <2>6. CASE GotCreated(c)
    <3>1. /\ UNCHANGED <<api, cookie, view, overtaken, trouble>> /\ Busy(c, t, "create") /\ stage[c] = "answered"
          /\ \/ Ends(c) /\ Others(c) /\ UNCHANGED <<added, page>>
             \/ /\ ask[c].ok /\ OnlyTab(t) /\ added'[t] = added[t] \cup {ask[c].arg}
                /\ \E clean : Lists(c, t, clean)
      BY <1>0, <2>2, <2>6, AtGotCreated
    <3>2. Softly(c) /\ ask'[c].op # "create"
      BY <1>0, <3>1, SoftSteps DEF Lists, Sends, Asks, Ends
    <3>3. CASE UNCHANGED added
      BY <1>1, <3>1, <3>2, <3>3
    <3>4. CASE ask[c].ok /\ OnlyTab(t) /\ added'[t] = added[t] \cup {ask[c].arg}
      <4>1. AllNamed' /\ catalog' = catalog
        <5>1. Named(c)' /\ member' = member /\ catalog' = catalog
          BY <3>1, <3>2 DEF Named, api
        <5> QED BY <1>0, <3>2, <5>1, NamedSoft
      <4>2. \E o \in Org : ask[c].arg \in catalog[o]
        BY <1>0, <3>1, <3>4 DEF New, Busy
      <4>3. \A u \in Tab : \A p \in added'[u] : \E o \in Org : p \in catalog'[o]
        BY <1>0, <3>4, <4>1, <4>2 DEF New, OnlyTab
      <4>4. \A d \in Call : Unmade(d)
        BY <3>2 DEF Softly, Fades, Unmade
      <4>5. New'
        BY <1>0, <4>1, <4>3, <4>4 DEF New, Unmade
      <4> QED BY <4>1, <4>5 DEF Submissions
    <3> QED BY <3>1, <3>3, <3>4
  <2>7. CASE Lose(c)
    <3>1. /\ UNCHANGED <<api, cookie, stage, added, overtaken>> /\ Fades(ask[c], ask'[c])
          /\ Silences(t, c) \/ Others(c)
      BY <1>0, <2>2, <2>7, AtLose DEF Drops
    <3>2. Softly(c) /\ stage' = stage /\ added' = added /\ member' = member /\ catalog' = catalog
      BY <1>0, <3>1, SoftSteps DEF api
    <3>3. Named(c)' /\ Unmade(c)
      BY <1>0, <3>1, <3>2 DEF AllNamed, Named, Unmade, Fades
    <3> QED BY <1>0, <3>2, <3>3, NamedSoft, NewSoft DEF Submissions
  <2> QED BY <1>t, <2>3, <2>4, <2>5, <2>6, <2>7
<1> QED BY <1>v, <1>f, <1>t DEF Got

LEMMA SubmissionsUser ==
  ASSUME Inv, NEW c \in Call, NEW t \in Tab,
         \/ Open(t, c)
         \/ \E o \in Org : Choose(t, o, c) \/ Start(t, o, c)
         \/ \E p \in Product : Submit(t, p, c)
  PROVE  Submissions'
<1>0. Base /\ New /\ AllNamed /\ TabInv(t)
  BY DEF Inv, AllNamed
<1>1. ASSUME Softly(c), UNCHANGED api, ask'[c].op # "create", \A u \in Tab : added'[u] \subseteq added[u]
      PROVE  Submissions'
  <2>1. Named(c)' /\ Unmade(c) /\ member' = member /\ catalog' = catalog
    BY <1>1 DEF Named, Unmade, api
  <2> QED BY <1>0, <1>1, <2>1, NamedSoft, NewSoft DEF Submissions
<1>2. CASE Open(t, c)
  <2>1. /\ UNCHANGED <<api, cookie, overtaken, trouble>> /\ Sends(c, "session", t, None, cookie)
        /\ Silences(t, c) /\ OnlyTab(t) /\ added'[t] = {}
    BY <1>0, <1>2, AtOpen
  <2>2. Softly(c) /\ ask'[c].op # "create"
    BY <1>0, <2>1, SoftSteps DEF Sends, Asks
  <2>3. \A u \in Tab : added'[u] \subseteq added[u]
    BY <2>1 DEF OnlyTab
  <2> QED BY <1>1, <2>1, <2>2, <2>3
<1>3. ASSUME UNCHANGED <<api, cookie, tabs, trouble>>, Others(c), NEW arg,
             Sends(c, "select", t, arg, cookie) \/ Sends(c, "found", t, arg, cookie)
      PROVE  Submissions'
  <2>1. Softly(c) /\ ask'[c].op # "create"
    BY <1>0, <1>3, SoftSteps DEF Sends, Asks
  <2> QED BY <1>1, <1>3, <2>1 DEF tabs
<1>4. ASSUME NEW o \in Org, Choose(t, o, c) PROVE Submissions'
  BY <1>0, <1>3, <1>4, AtChoose
<1>5. ASSUME NEW o \in Org, Start(t, o, c) PROVE Submissions'
  BY <1>0, <1>3, <1>5, AtStart
<1>6. ASSUME NEW p \in Product, Submit(t, p, c) PROVE Submissions'
  <2>1. /\ stage[c] = "idle" /\ UNCHANGED <<api, cookie, tabs, trouble>>
        /\ Sends(c, "create", t, p, cookie) /\ Others(c)
        /\ Shell(t) /\ ask'[c].named = view[t].active
        /\ ask'[c].clean => /\ ~overtaken[t]
                            /\ \A d \in Call : ~Busy(d, t, "select") /\ ~Busy(d, t, "session")
        /\ \A o \in Org : p \notin catalog[o]
        /\ \A d \in Call : ask[d].arg # p
    BY <1>0, <1>6, AtSubmit
  <2>2. /\ stage'[c] = "sent" /\ ask'[c].op = "create" /\ ask'[c].arg = p /\ ask'[c].jar = cookie
        /\ \A d \in Call : d # c => stage'[d] = stage[d] /\ ask'[d] = ask[d]
    BY <2>1 DEF Sends, Asks, Others
  <2>3. member' = member /\ catalog' = catalog /\ added' = added
    BY <2>1 DEF api, tabs
  <2>4. Named(c)'
    BY <1>0, <2>1, <2>2, <2>3 DEF Named, TabInv, Shown
  <2>5. AllNamed'
    BY <1>0, <2>1, <2>3, <2>4, SoftSteps, NamedSoft
  <2>6. New'
    BY <1>0, <2>1, <2>2, <2>3 DEF New
  <2> QED BY <2>5, <2>6 DEF Submissions
<1> QED BY <1>2, <1>4, <1>5, <1>6

LEMMA SubmissionsMembership ==
  ASSUME Inv, NEW o \in Org, Join(o) \/ Leave(o)
  PROVE  Submissions'
<1>1. /\ \A d \in Call : stage'[d] = stage[d] /\ Fades(ask[d], ask'[d]) /\ ask'[d].clean = FALSE
      /\ UNCHANGED <<taken, catalog, cookie, view, page, stage, added>>
  BY AtMembership DEF Inv, Stirs
<1>2. AllNamed'
  BY <1>1 DEF AllNamed, Named
<1>3. New'
  <2>1. \A d \in Call : Unmade(d)
    BY <1>1 DEF Unmade, Fades
  <2> QED BY <1>1, <2>1, NewStays DEF Inv
<1> QED BY <1>2, <1>3 DEF Submissions

-----------------------------------------------------------------------------
(***************************************************************************)
(* The theorems.                                                           *)
(***************************************************************************)
LEMMA InvInit == ASSUME Init PROVE Inv
<1>1. Base
  BY BaseInit
<1>2. /\ \A c \in Call : stage[c] = "idle" /\ ask[c].op = "none"
      /\ \A t \in Tab : /\ view[t].status = "closed" /\ view[t].orgs = {} /\ view[t].active = None
                        /\ page[t].status = "none" /\ added[t] = {}
  BY NothingIsRequest, UnreadFields DEF Init
<1>3. New /\ \A c \in Call : Named(c)
  BY <1>2 DEF New, Named
<1>4. \A t \in Tab : TabInv(t)
  BY <1>2 DEF TabInv, Waits, Alone, OneSwitch, Switches, Read, Shown, Listed, Paged, Busy, Of, Shell
<1> QED BY <1>1, <1>3, <1>4 DEF Inv

LEMMA InvStutters == ASSUME Inv, UNCHANGED vars PROVE Inv'
<1>1. /\ taken' = taken /\ member' = member /\ catalog' = catalog /\ cookie' = cookie
      /\ view' = view /\ page' = page /\ added' = added /\ overtaken' = overtaken
      /\ stage' = stage /\ ask' = ask /\ trouble' = trouble
  BY DEF vars, api, tabs
<1>2. Types'
  BY <1>1 DEF Inv, Base, Types
<1>3. \A c \in Call : Form(c)' /\ Named(c)'
  BY <1>1 DEF Inv, Base, Form, Named
<1>4. New'
  BY <1>1 DEF Inv, New
<1>5. \A t \in Tab : TabInv(t)'
  <2> SUFFICES ASSUME NEW t \in Tab PROVE TabInv(t)'
    OBVIOUS
  <2>1. Base /\ TabInv(t)
    BY DEF Inv
  <2>2. \A d \in Call : Fades(ask[d], ask[d])
    BY <2>1, FadesSame DEF Base, Types
  <2>3. Aside(t)
    BY <1>1, <2>2 DEF Aside, Unadded, Of
  <2> QED BY <2>1, <2>3, AsideKeeps
<1> QED BY <1>2, <1>3, <1>4, <1>5 DEF Inv, Base

LEMMA InvNext == ASSUME Inv, Next PROVE Inv'
<1>1. ASSUME Base', Submissions', \A t \in Tab : TabInv(t)' PROVE Inv'
  BY <1>1 DEF Inv, Submissions, AllNamed
<1>2. ASSUME NEW c \in Call, Route(c) PROVE Inv'
  BY <1>1, <1>2, BaseRoute, SubmissionsRoute, TabRoute DEF Inv
<1>3. ASSUME NEW c \in Call, Got(c) PROVE Inv'
  BY <1>1, <1>3, BaseGot, SubmissionsGot, TabGot DEF Inv
<1>4. ASSUME NEW c \in Call, NEW t \in Tab,
             \/ Open(t, c)
             \/ \E o \in Org : Choose(t, o, c) \/ Start(t, o, c)
             \/ \E p \in Product : Submit(t, p, c)
      PROVE  Inv'
  <2>1. Base' /\ Submissions'
    BY <1>4, BaseUser, SubmissionsUser DEF Inv
  <2>2. \A u \in Tab : TabInv(u)'
    BY <1>4, TabUser
  <2> QED BY <1>1, <2>1, <2>2
<1>5. ASSUME NEW o \in Org, Join(o) \/ Leave(o) PROVE Inv'
  BY <1>1, <1>5, BaseMembership, SubmissionsMembership, TabMembership DEF Inv
<1> QED BY <1>2, <1>3, <1>4, <1>5 DEF Next

\* The invariant is one.
THEOREM Invariance == Spec => []Inv
<1>1. Inv /\ [Next]_vars => Inv'
  BY InvNext, InvStutters
<1> QED BY InvInit, <1>1, PTL DEF Spec

\* Console's variables keep their types, and nothing waits for nothing: a page or a
\* shell that is loading has a request under way that ends it.
THEOREM Typing == Spec => []TypeOK
<1>1. Inv => TypeOK
  BY DEF Inv, Base, Types, TabInv, Waits, Busy, Of, Doing, TypeOK
<1> QED BY <1>1, Invariance, PTL

\* A product submitted on a page that is not switching goes where the page says,
\* unless somebody else changed the choice or the memberships meanwhile.
THEOREM FiledWherePageSays == Spec => []FiledWhereNamed
<1>1. Inv => FiledWhereNamed
  BY DEF Inv, Named, FiledWhereNamed
<1> QED BY <1>1, Invariance, PTL

\* A tab at rest names the organization its requests act in, unless somebody else
\* changed the choice or the memberships since its session was read.
THEOREM QuietPageNamesItsTenant == Spec => []QuietPageNamesTheTenant
<1>1. ASSUME Inv, NEW t \in Tab, Quiet(t), Shell(t), ~overtaken[t]
      PROVE  view[t].active = Active(cookie, member)
  <2>1. TabInv(t) /\ \A c \in Call : \A op : ~Busy(c, t, op)
    BY <1>1 DEF Inv, Quiet, Busy, Of
  <2> QED BY <1>1, <2>1 DEF TabInv, Shown, Aim
<1>2. Inv => QuietPageNamesTheTenant
  BY <1>1 DEF QuietPageNamesTheTenant
<1> QED BY <1>2, Invariance, PTL

\* The newest list of such a tab, when it is the one shown, is of that organization and
\* has the products the tab added there.  Nothing is said of a list that was answered
\* after a newer one, which may be of another organization.
THEOREM LatestListIsOfTheTenant == Spec => []LatestListIsTheTenants
<1>1. ASSUME Inv, NEW t \in Tab, Quiet(t), Shell(t), ~overtaken[t],
             page[t].status = "ready", view[t].active # None, page[t].clean
      PROVE  /\ page[t].of = view[t].active
             /\ added[t] \cap catalog[page[t].of] \subseteq page[t].rows
  <2>1. TabInv(t) /\ \A c \in Call : \A op : ~Busy(c, t, op)
    BY <1>1 DEF Inv, Quiet, Busy, Of
  <2> QED BY <1>1, <2>1 DEF TabInv, Shown, Paged, Aim
<1>2. Inv => LatestListIsTheTenants
  BY <1>1 DEF LatestListIsTheTenants
<1> QED BY <1>2, Invariance, PTL
=============================================================================
