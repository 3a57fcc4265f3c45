------------------------------ MODULE PanelViews ------------------------------
(***************************************************************************)
(* The lists that the views of the panel share and the page of the user's  *)
(* transactions, with the server's side of their requests.                 *)
(*                                                                         *)
(* The lists are kept by services, which outlive the views: the user       *)
(* groups and the products are loaded by the first view that finds them    *)
(* empty, the keys are emptied and loaded by every view that shows them.   *)
(* Rows are pushed, changed and removed as the answers come.  The list of  *)
(* transactions and its position belong to a service as well, the number   *)
(* of the page and the flag `loading' to the view.                         *)
(*                                                                         *)
(* Only this page changes the tables.  The session is that of WebClient,   *)
(* cut down to whose views are shown, and begins after a sign-in.  The     *)
(* user's change of group, which may fetch that group, is left out.        *)
(*                                                                         *)
(* Nothing orders the answers of one list, so what is promised of it holds *)
(* until requests for it cross in a way that matters, or one is lost that  *)
(* the server carried out; muddled says for which lists that is so.        *)
(***************************************************************************)
EXTENDS Integers, SequencesExt

\* (Operators named Bug... are slips of the code one definition further down
\* could suffer; each is used to show that a property would notice.)

CONSTANTS
  Users, Admins,
  NoUser,       \* nobody is signed in; the owner of what belongs to all
  Names,        \* names of groups and products, keys in hexadecimal
  Fresh,        \* the name of the first group and of the first product
  Filters,      \* what can be asked for, by range, keys and products: sets of
                \* kinds of transactions
  FirstRows,    \* the transactions of each user at the start, oldest first
  PageSize,     \* 30
  MaxSteps,     \* bound on what the user does
  MaxOut,       \* bound on the requests on their way when he does something
  MaxEvents     \* bound on errors and on transactions that are added

ASSUME PanelAssumption ==
  /\ Admins \subseteq Users /\ NoUser \notin Users
  /\ Names \subseteq Nat \ {0} /\ Fresh \in Names
  /\ PageSize \in Nat \ {0}
  /\ MaxSteps \in Nat /\ MaxOut \in Nat /\ MaxEvents \in Nat
  /\ Filters # {} /\ FirstRows \in [Users -> Seq(UNION Filters)]

Lists == {"groups", "products", "keys"}
Pages == {"fetch", "next", "back"}

VARIABLES
  table,     \* rows of the tables: records of id, name and owner
  lastId,    \* AUTO_INCREMENT
  booked,    \* the transactions of each user, oldest first
  self,      \* who signed in
  logged,    \* UserService's loggedUser
  view,
  list,      \* the lists of the services: bags of pairs of id and name
  form,      \* $scope.form of the admin's views, <<id, name>>
  shown, position, query,         \* UserTransactionService
  page, loading, error, opened,   \* scope of the view of the transactions
  timer,     \* the scopes whose timeout will end their loading
  req,       \* requests on their way
  muddled,   \* history: lists, or "page", that met one of the accidents below
  steps, events

server == <<table, lastId, booked>>
session == <<self, logged, view>>
pager  == <<shown, position, query>>
scope  == <<page, loading, error, opened>>
counts == <<steps, events>>
vars == <<server, session, list, form, pager, scope, timer, req, muddled, counts>>

NoForm == <<0, 0>>
AnyFilter == UNION Filters

TypeOK ==
  /\ DOMAIN table = Lists /\ DOMAIN lastId = Lists
  /\ \A l \in Lists : \A r \in table[l] :
       /\ r.id \in 1..lastId[l] /\ r.name \in Names
       /\ (l = "keys") = (r.owner # NoUser)
  /\ booked \in [Users -> Seq(AnyFilter)]
  /\ self \in Users \cup {NoUser} /\ logged \in Users \cup {NoUser}
  /\ view \in {"none", "dashboard", "settings", "groups", "products", "transactions"}
  /\ view # "none" => self # NoUser /\ logged # NoUser
  /\ \A l \in Lists : BagToSet(list[l]) \subseteq (1..lastId[l]) \X Names
  /\ form \in Nat \X (Names \cup {0})
  /\ Len(shown) <= PageSize /\ position \in Int /\ query \subseteq AnyFilter
  /\ page \in Int /\ loading \in BOOLEAN /\ error \in BOOLEAN
  /\ timer \subseteq 1..opened
  /\ \A r \in req : r.stage \in {"sent", "ok", "denied", "error"}
  /\ muddled \subseteq Lists \cup {"page"}
  /\ steps \in 0..MaxSteps /\ events \in 0..MaxEvents

Init ==
  /\ table = [l \in Lists |->
       IF l = "keys" THEN {} ELSE {[id |-> 1, name |-> Fresh, owner |-> NoUser]}]
  /\ lastId = [l \in Lists |-> 1]
  /\ booked = FirstRows
  /\ self \in Users /\ logged = self /\ view = "dashboard"
  /\ list = [l \in Lists |-> EmptyBag]
  /\ form = NoForm
  /\ shown = <<>> /\ position = 0 /\ query = AnyFilter
  /\ page = 0 /\ loading = FALSE /\ error = FALSE /\ opened = 0
  /\ timer = {}
  /\ req = {}
  /\ muddled = {}
  /\ steps = 0 /\ events = 0

-----------------------------------------------------------------------------
(* Requests *)

\* of: the list, or "page"; row: what is sent, put: what the callback holds,
\* which is the form itself as long as live; inst: the scope of a fetch; rows
\* and page: the answer.
Blank == [kind |-> "load", of |-> "keys", n |-> 0, user |-> logged, row |-> NoForm,
          put |-> NoForm, live |-> FALSE, query |-> query, pos |-> 0, inst |-> 0,
          stage |-> "sent", rows |-> {}, page |-> <<>>]

Pending(l)  == {r \in req : r.of = l}
Step  == steps < MaxSteps /\ Cardinality(req) <= MaxOut /\ steps' = steps + 1
Event == events < MaxEvents /\ events' = events + 1

\* The next request for l; n keeps equal ones apart.
Ask(kind, l) ==
  [Blank EXCEPT !.kind = kind, !.of = l,
                !.n = 1 + Max({r.n : r \in Pending(l)} \cup {0})]

Load(l)     == Ask("load", l)
Turn(kind, pos, q, inst) ==
  [Ask(kind, "page") EXCEPT !.pos = pos, !.query = q, !.inst = inst]

\* A list is off when it is loaded while an earlier request for it is on its
\* way, and as it should be again when it is loaded with none.
Loaded(asked) ==
  {r.of : r \in {r \in asked : Pending(r.of) # {}}}
    \cup (muddled \ {r.of : r \in asked})

\* A change sent while a load, or an edit while another edit, is on its way.
Changed(l, kind) ==
  IF \E r \in Pending(l) : r.kind = "load" \/ (kind = "edit" /\ r.kind = "edit")
    THEN muddled \cup {l} ELSE muddled

\* A form that is replaced is not what pending edits refer to any more.
LetGo(asked) == {[r EXCEPT !.live = FALSE] : r \in req} \cup asked

-----------------------------------------------------------------------------
(* The user *)

\* The sign-in, or an admin's visit to a user and its end: the copy of the
\* user is replaced, the lists are not touched.
Become(u) ==
  /\ Step
  /\ view # "none" => self \in Admins /\ logged # u
  /\ self' = IF view = "none" THEN u ELSE self
  /\ logged' = u
  /\ view' = "dashboard"
  /\ UNCHANGED <<server, list, form, pager, scope, timer, req, muddled, events>>

\* ClearService
SignOut ==
  /\ Step
  /\ view # "none"
  /\ view' = "none"
  /\ self' = NoUser /\ logged' = NoUser
  /\ list' = [l \in Lists |-> EmptyBag]
  /\ shown' = <<>> /\ position' = 0 /\ query' = AnyFilter
  /\ UNCHANGED <<server, form, scope, timer, req, muddled, events>>

\* The keys are emptied and loaded, another list is loaded if it is empty.
BugKeysKept(l) == list
KeysEmptied(l) == [list EXCEPT !["keys"] = EmptyBag]
LoadsFor(l) ==
  {Load("keys")} \cup (IF list[l] = EmptyBag THEN {Load(l)} ELSE {})

OpenSettings ==
  /\ Step
  /\ view \notin {"none", "settings"}
  /\ view' = "settings"
  /\ list' = KeysEmptied("groups")
  /\ req' = req \cup LoadsFor("groups")
  /\ muddled' = Loaded(LoadsFor("groups"))
  /\ UNCHANGED <<server, self, logged, form, pager, scope, timer, events>>

OpenList(l) ==
  /\ Step
  /\ view \notin {"none", l} /\ self \in Admins
  /\ view' = l
  /\ form' = NoForm
  /\ LET asked == IF list[l] = EmptyBag THEN {Load(l)} ELSE {}
     IN  req' = LetGo(asked) /\ muddled' = Loaded(asked)
  /\ UNCHANGED <<server, self, logged, list, pager, scope, timer, events>>

OpenGroups   == OpenList("groups")
OpenProducts == OpenList("products")

\* emptyFilter, then the last seven days are fetched by a new scope.
OpenTransactions ==
  /\ Step
  /\ view \notin {"none", "transactions"}
  /\ view' = "transactions"
  /\ list' = KeysEmptied("products")
  /\ position' = 0 /\ query' = AnyFilter
  /\ page' = 0 /\ loading' = TRUE /\ error' = FALSE /\ opened' = opened + 1
  /\ LET asked == LoadsFor("products") \cup {Turn("fetch", 0, AnyFilter, opened + 1)}
     IN  req' = req \cup asked /\ muddled' = Loaded(asked)
  /\ UNCHANGED <<server, self, logged, form, shown, timer, events>>

SaveKey(name) ==
  /\ Step
  /\ view = "settings"
  /\ req' = req \cup {[Ask("add", "keys") EXCEPT !.row = <<0, name>>]}
  /\ muddled' = Changed("keys", "add")
  /\ UNCHANGED <<server, session, list, form, pager, scope, timer, events>>

DeleteKey(row) ==
  /\ Step
  /\ view = "settings"
  /\ req' = req \cup {[Ask("delete", "keys") EXCEPT !.row = row]}
  /\ muddled' = Changed("keys", "delete")
  /\ UNCHANGED <<server, session, list, form, pager, scope, timer, events>>

\* A new row gets a new form; the row to edit is copied into the form that is
\* there, which is also the object that an edit on its way was given.
NewForm(name) ==
  /\ Step
  /\ view \in {"groups", "products"}
  /\ form' = <<0, name>>
  /\ req' = LetGo({})
  /\ UNCHANGED <<server, session, list, pager, scope, timer, muddled, events>>

EditForm(id, name) ==
  /\ Step
  /\ view \in {"groups", "products"}
  /\ form' = <<id, name>>
  /\ req' = {IF r.live THEN [r EXCEPT !.put = form'] ELSE r : r \in req}
  /\ muddled' = IF \E r \in req : r.live THEN muddled \cup {view} ELSE muddled
  /\ UNCHANGED <<server, session, list, pager, scope, timer, events>>

\* $scope.action
Action == IF form[1] = 0 THEN "add" ELSE "edit"

\* The dialog stays open, so the same may be sent again.
SubmitForm ==
  /\ Step
  /\ view \in {"groups", "products"} /\ form # NoForm
  /\ req' = req \cup {[Ask(Action, view) EXCEPT !.row = form, !.put = form,
                                              !.live = Action = "edit"]}
  /\ muddled' = Changed(view, Action)
  /\ UNCHANGED <<server, session, list, form, pager, scope, timer, events>>

\* setFilter goes to the first page; a new range stays where the list is.
BugFilterStays == position
FirstPosition  == 0

Filter(q) ==
  /\ Step
  /\ view = "transactions" /\ ~loading
  /\ page' = 0
  /\ query' = q
  /\ position' = FirstPosition
  /\ loading' = TRUE
  /\ LET asked == {Turn("fetch", FirstPosition, q, opened)}
     IN  req' = req \cup asked /\ muddled' = Loaded(asked)
  /\ UNCHANGED <<server, session, list, form, shown, error, opened, timer, events>>

NewRange(q) ==
  /\ Step
  /\ view = "transactions" /\ ~loading
  /\ query' = q
  /\ loading' = TRUE
  /\ req' = req \cup {Turn("fetch", position, q, opened)}
  /\ muddled' = IF Pending("page") # {} THEN muddled \cup {"page"} ELSE muddled
  /\ UNCHANGED <<server, session, list, form, shown, position, page, error, opened,
                 timer, events>>

\* Next is there if the page is full, back unless it is the first; neither
\* sets `loading', the number of the page follows with the answer.
TurnPage(kind) ==
  /\ Step
  /\ view = "transactions" /\ ~loading
  /\ IF kind = "next" THEN Len(shown) = PageSize
     ELSE page # 0 /\ (Len(shown) = PageSize \/ page > 0)
  /\ position' = IF kind = "next" THEN position + PageSize
                 ELSE position - (position % PageSize) - PageSize
  /\ req' = req \cup {Turn(kind, position', query, opened)}
  /\ muddled' = IF Pending("page") # {} THEN muddled \cup {"page"} ELSE muddled
  /\ UNCHANGED <<server, session, list, form, shown, query, scope, timer, events>>

User ==
  \/ \E u \in Users : Become(u)
  \/ SignOut
  \/ OpenSettings
  \/ OpenGroups \/ OpenProducts
  \/ OpenTransactions
  \/ \E name \in Names : SaveKey(name) \/ NewForm(name)
  \/ \E row \in BagToSet(list["keys"]) : DeleteKey(row)
  \/ \E name \in Names, l \in {view} \cap Lists :
       \E row \in BagToSet(list[l]) : EditForm(row[1], name)
  \/ SubmitForm
  \/ \E q \in Filters : Filter(q) \/ NewRange(q)
  \/ \E kind \in {"next", "back"} : TurnPage(kind)

-----------------------------------------------------------------------------
(* The server *)

Rows(l, u) == {<<r.id, r.name>> : r \in {r \in table[l] : r.owner \in {u, NoUser}}}

\* The rows that the query finds among the first n transactions, newest first:
\* from the i-th of them on there are i, itself and the newer ones.
Matching(done, q) ==
  LET hits == {k \in 1..Len(done) : done[k] \in q}
  IN  [i \in 1..Cardinality(hits) |->
         done[CHOOSE k \in hits : Cardinality({j \in hits : j >= k}) = i]]
Found(u, q, n) == Matching(SubSeq(booked[u], 1, n), q)
Limited(rows, pos, n) ==
  SubSeq(rows, pos + 1, IF pos + n < Len(rows) THEN pos + n ELSE Len(rows))
BugOneMore(rows, pos) == Limited(rows, pos, PageSize + 1)
PageOf(rows, pos)     == Limited(rows, pos, PageSize)

Answered(r, rows, seq) ==
  req' = (req \ {r}) \cup {[r EXCEPT !.stage = "ok", !.rows = rows, !.page = seq]}
Failed(r, stage) == req' = (req \ {r}) \cup {[r EXCEPT !.stage = stage]}

\* UNIQUE: the number of a product, the key.
Taken(l, name, id) ==
  l # "groups" /\ \E r \in table[l] : r.name = name /\ r.id # id

ServeLoad(r) ==
  /\ r.kind = "load"
  /\ Answered(r, Rows(r.of, r.user), <<>>)
  /\ UNCHANGED <<table, lastId>>

NewRow(r, id) ==
  [id |-> id, name |-> r.row[2], owner |-> IF r.of = "keys" THEN r.user ELSE NoUser]

ServeAdd(r) ==
  /\ r.kind = "add"
  /\ lastId' = [lastId EXCEPT ![r.of] = @ + 1]
  /\ IF Taken(r.of, r.row[2], 0) THEN Failed(r, "error") /\ UNCHANGED table
     ELSE /\ table' = [table EXCEPT ![r.of] = @ \cup
               {NewRow(r, lastId'[r.of])}]
          /\ Answered(r, {<<lastId'[r.of], r.row[2]>>}, <<>>)

ServeEdit(r) ==
  /\ r.kind = "edit"
  /\ IF Taken(r.of, r.row[2], r.row[1]) THEN Failed(r, "error") /\ UNCHANGED table
     ELSE /\ table' = [table EXCEPT ![r.of] =
               {IF x.id = r.row[1] THEN [x EXCEPT !.name = r.row[2]] ELSE x : x \in @}]
          /\ Answered(r, {}, <<>>)
  /\ UNCHANGED lastId

ServeDelete(r) ==
  LET gone == {x \in table["keys"] : x.id = r.row[1] /\ x.owner = r.user} IN
  /\ r.kind = "delete"
  /\ table' = [table EXCEPT !["keys"] = @ \ gone]
  /\ IF gone = {} THEN Failed(r, "error") ELSE Answered(r, {}, <<>>)
  /\ UNCHANGED lastId

ServePage(r) ==
  LET rows == Found(r.user, r.query, Len(booked[r.user])) IN
  /\ r.kind \in Pages
  /\ IF r.pos < 0 THEN Failed(r, "error") ELSE Answered(r, {}, PageOf(rows, r.pos))
  /\ UNCHANGED <<table, lastId>>

Serve(r) ==
  /\ r.stage = "sent"
  /\ ServeLoad(r) \/ ServeAdd(r) \/ ServeEdit(r) \/ ServeDelete(r) \/ ServePage(r)
  /\ UNCHANGED <<booked, session, list, form, pager, scope, timer, muddled, counts>>

\* A transaction is booked while its user reads.
Book(kind) ==
  /\ Event
  /\ view = "transactions"
  /\ booked' = [booked EXCEPT ![logged] = Append(@, kind)]
  /\ UNCHANGED <<table, lastId, session, list, form, pager, scope, timer, req,
                 muddled, steps>>

\* The request or its answer is lost, or the server no longer takes the token,
\* which only the list of groups does without.
Lose(r) ==
  /\ Event
  /\ \/ r.stage \in {"sent", "ok"} /\ Failed(r, "error")
     \/ /\ r.stage = "sent" /\ ~(r.kind = "load" /\ r.of = "groups")
        /\ Failed(r, "denied")
  /\ muddled' = IF r.stage = "ok" /\ r.kind \in {"add", "edit", "delete"}
                  THEN muddled \cup {r.of} ELSE muddled
  /\ UNCHANGED <<server, session, list, form, pager, scope, timer, steps>>

-----------------------------------------------------------------------------
(* The answers *)

\* One of the rows that a loop to the first match may find, none if there is no.
Matches(old, id) ==
  LET found == {row \in BagToSet(old) : row[1] = id}
  IN  IF found = {} THEN {EmptyBag} ELSE {SetToBag({row}) : row \in found}

\* The keys are pushed to what is there, the other lists replaced.
AfterLoad(r, old) ==
  {IF r.of = "keys" THEN old (+) SetToBag(r.rows) ELSE SetToBag(r.rows)}
AfterAdd(r, old)    == {old (+) SetToBag(r.rows)}
AfterEdit(r, old)   ==
  {IF m = EmptyBag THEN old ELSE (old (-) m) (+) SetToBag({r.put})
     : m \in Matches(old, r.put[1])}
AfterDelete(r, old) == {old (-) m : m \in Matches(old, r.row[1])}

After(r, old) ==
  CASE r.kind = "load"   -> AfterLoad(r, old)
    [] r.kind = "add"    -> AfterAdd(r, old)
    [] r.kind = "edit"   -> AfterEdit(r, old)
    [] r.kind = "delete" -> AfterDelete(r, old)

\* A list that is not empty is not loaded again, so a push to an empty one is an
\* accident, as is a list of keys that did not come.
ListAnswer(r) ==
  /\ r.of \in Lists
  /\ IF r.stage = "ok" THEN \E new \in After(r, list[r.of]) : list' = [list EXCEPT ![r.of] = new]
     ELSE UNCHANGED list
  /\ muddled' =
       IF \/ r.kind = "load" /\ r.of = "keys" /\ r.stage # "ok"
          \/ r.kind = "add" /\ r.of # "keys" /\ list[r.of] = EmptyBag /\ r.stage = "ok"
         THEN muddled \cup {r.of} ELSE muddled
  /\ UNCHANGED <<pager, scope, timer>>

\* A fetch clears `error' when it succeeds and ends `loading' 50 ms later in
\* any case; next and back count when they succeed.  The list is the service's,
\* the rest is for the scope that asked.
BugOnlyIfFine(r) == IF r.stage = "ok" THEN {r.inst} ELSE {}
EndsLoading(r)   == {r.inst}

PageAnswer(r) ==
  LET fine == r.stage = "ok"
      mine == r.inst = opened
  IN
  /\ r.of = "page"
  /\ shown' = IF fine THEN r.page ELSE <<>>
  /\ timer' = IF r.kind = "fetch" THEN timer \cup EndsLoading(r) ELSE timer
  /\ error' = IF ~mine \/ (fine /\ r.kind # "fetch") THEN error ELSE ~fine
  /\ page' = CASE mine /\ fine /\ r.kind = "next" -> page + 1
               [] mine /\ fine /\ r.kind = "back" -> page - 1
               [] OTHER -> page
  /\ muddled' = IF ~fine /\ r.kind # "fetch" THEN muddled \cup {"page"} ELSE muddled
  /\ UNCHANGED <<list, position, query, loading, opened>>

\* A refusal takes the token away and leads to the sign-in; nothing is emptied.
Answer(r) ==
  /\ r.stage # "sent"
  /\ ListAnswer(r) \/ PageAnswer(r)
  /\ req' = req \ {r}
  /\ IF r.stage = "denied" THEN view' = "none" /\ self' = NoUser ELSE UNCHANGED <<view, self>>
  /\ UNCHANGED <<server, logged, form, counts>>

TimerFires(i) ==
  /\ i \in timer
  /\ timer' = timer \ {i}
  /\ loading' = (loading /\ i # opened)
  /\ UNCHANGED <<server, session, list, form, pager, page, error, opened, req, muddled,
                 counts>>

-----------------------------------------------------------------------------
Handle == (\E r \in req : Serve(r) \/ Answer(r)) \/ \E i \in timer : TimerFires(i)

Next ==
  \/ User
  \/ \E kind \in AnyFilter : Book(kind)
  \/ \E r \in req : Lose(r)
  \/ Handle

\* The server answers or the connection breaks, and the browser goes on.
Spec == Init /\ [][Next]_vars /\ WF_vars(Handle)

-----------------------------------------------------------------------------
(* Properties *)

\* A list that is shown holds the rows of the table, for the keys those of the
\* user whose views are shown, and each of them once, when nothing for it is on
\* its way: the rows that were loaded, and every change since, once each
\* (userKeyService.js, userGroupsService.js, transactionPurposesService.js).
ListsAgree ==
  \A l \in Lists \ muddled :
    /\ Pending(l) = {}
    /\ view # "none"
    /\ IF l = "keys" THEN view \in {"settings", "transactions"} ELSE list[l] # EmptyBag
    => list[l] = SetToBag(Rows(l, logged))

\* The number of the page and the position go together, and what is shown is
\* that page of what the filter and the range ask for, as the transactions were
\* at some moment, or nothing with an error (yourTransactions.js).
PageIsTrue ==
  /\ view = "transactions"
  /\ Pending("page") = {}
  /\ "page" \notin muddled
  => /\ position = page * PageSize
     /\ \/ error /\ shown = <<>>
        \/ \E n \in 0..Len(booked[logged]) :
             shown = PageOf(Found(logged, query, n), position)

\* The page never waits for ever: whatever becomes of the request, the flag that
\* hides the table and bars the next fetch is taken back (yourTransactions.js).
LoadingEnds == loading ~> ~loading
===============================================================================
