--------------------------- MODULE PanelViewsProofs ---------------------------
(***************************************************************************)
(* Proofs about what the views of the panel keep of the server's rows      *)
(* (PanelViews), for any users, names and filters, any size of a page and  *)
(* any number of requests.                                                 *)
(*                                                                         *)
(* The page.  One that says it is loading has something left that will end *)
(* that (LoadingHeld), and the page, its number and its position belong    *)
(* together unless requests for it crossed or one failed.  Without such an *)
(* accident there is at most one request for the page, which asks for what *)
(* the view stands at (TurnInv).                                           *)
(*                                                                         *)
(* Types.  Answers come when their view is long gone, so what a row, a     *)
(* form and a request may hold must be said of the ids the table has given *)
(* (TInv): they only grow.                                                 *)
(*                                                                         *)
(* The lists.  ListsAgree speaks of a list with no request on its way,     *)
(* which says nothing of how it got there.  AInv says of every list        *)
(* without an accident that it is being loaded by its only request, was    *)
(* not loaded, or follows the table: what is shown and not in the table,   *)
(* or the other way round, is what the requests that were carried out and  *)
(* not answered will change, each of them another row (InStep).            *)
(***************************************************************************)
EXTENDS PanelViews, FiniteSetTheorems, TLAPS

\* Every request says what it is and which scope asked.
ReqShape == \A r \in req : {"kind", "of", "inst", "stage"} \subseteq DOMAIN r

\* The fetches of a scope, and only they, are answered as such.
FetchShape == \A r \in req : r.kind = "fetch" => r.of = "page"

\* As long as the page is loading, the request that the view in front waits
\* for is on its way, or its timeout is pending (yourTransactions.js,
\* fetchTransactions).
LoadingHeld ==
  loading => \/ opened \in timer
             \/ \E r \in req : r.kind = "fetch" /\ r.inst = opened

LInv == ReqShape /\ FetchShape /\ LoadingHeld

-----------------------------------------------------------------------------
\* What Ask and Turn make is a request with all fields, that names its list.
LEMMA AskShape ==
  ASSUME NEW kind, NEW l
  PROVE  /\ {"kind", "of", "inst", "stage"} \subseteq DOMAIN Ask(kind, l)
         /\ Ask(kind, l).kind = kind /\ Ask(kind, l).of = l
BY DEF Ask, Blank

\* A turn is for the page, and for the scope it is given.
LEMMA TurnShape ==
  ASSUME NEW kind, NEW pos, NEW q, NEW inst
  PROVE  /\ {"kind", "of", "inst", "stage"} \subseteq
              DOMAIN Turn(kind, pos, q, inst)
         /\ Turn(kind, pos, q, inst).kind = kind
         /\ Turn(kind, pos, q, inst).of = "page"
         /\ Turn(kind, pos, q, inst).inst = inst
BY DEF Turn, Ask, Blank

\* What is asked besides.
Shaped(s) == /\ {"kind", "of", "inst", "stage"} \subseteq DOMAIN s
             /\ s.kind = "fetch" => s.of = "page"
StateOfPage == <<loading, opened, timer>>

Same(s, r) == s.kind = r.kind /\ s.inst = r.inst

\* A step that touches the requests only, adds what it likes and forgets none,
\* keeps the page held.
LEMMA Kept ==
  ASSUME LInv, \A s \in req' : Shaped(s), \A r \in req : \E s \in req' : Same(s, r),
         UNCHANGED StateOfPage
  PROVE  LInv'
BY DEF LInv, ReqShape, FetchShape, LoadingHeld, Shaped, Same, StateOfPage

LEMMA Added ==
  ASSUME LInv, NEW asked, \A s \in asked : Shaped(s),
         req' = req \cup asked, UNCHANGED StateOfPage
  PROVE  LInv'
<1>1. \A s \in req' : Shaped(s)
  BY DEF LInv, ReqShape, FetchShape, Shaped
<1>2. \A r \in req : \E s \in req' : Same(s, r)
  BY DEF Same
<1> QED BY <1>1, <1>2, Kept

\* The loads of a view are shaped, and are for lists.
LEMMA LoadShape ==
  ASSUME NEW l PROVE Shaped(Load(l))
BY AskShape DEF Load, Shaped

LEMMA LoadsShape ==
  ASSUME NEW l PROVE \A s \in LoadsFor(l) : Shaped(s)
BY LoadShape DEF LoadsFor

-----------------------------------------------------------------------------
LEMMA UserKeeps ==
  ASSUME LInv, User PROVE LInv'
<1> USE DEF scope, StateOfPage
<1>1. ASSUME NEW u \in Users, Become(u) PROVE LInv'
  BY <1>1 DEF Become, LInv, ReqShape, FetchShape, LoadingHeld
<1>2. CASE SignOut
  BY <1>2 DEF SignOut, LInv, ReqShape, FetchShape, LoadingHeld
<1>3. CASE OpenSettings
  BY <1>3, LoadsShape, Added DEF OpenSettings
<1>4. ASSUME NEW l, OpenList(l) PROVE LInv'
  <2> DEFINE asked == IF list[l] = EmptyBag THEN {Load(l)} ELSE {}
  <2>1. req' = {[r EXCEPT !.live = FALSE] : r \in req} \cup asked
    BY <1>4 DEF OpenList, LetGo
  <2>2. \A s \in asked : Shaped(s)
    BY LoadShape
  <2>3. \A r \in req : Same([r EXCEPT !.live = FALSE], r)
                       /\ Shaped([r EXCEPT !.live = FALSE])
    BY DEF LInv, ReqShape, FetchShape, Same, Shaped
  <2>4. UNCHANGED StateOfPage
    BY <1>4 DEF OpenList
  <2>5. \A s \in req' : Shaped(s)
    BY <2>1, <2>2, <2>3
  <2>6. \A r \in req : \E s \in req' : Same(s, r)
    BY <2>1, <2>3
  <2> QED BY <2>4, <2>5, <2>6, Kept
<1>5. CASE OpenTransactions
  <2> DEFINE turn == Turn("fetch", 0, AnyFilter, opened + 1)
  <2>1. req' = req \cup (LoadsFor("products") \cup {turn}) /\ opened' = opened + 1
    BY <1>5 DEF OpenTransactions
  <2>2. Shaped(turn) /\ turn.kind = "fetch" /\ turn.inst = opened + 1
    BY TurnShape DEF Shaped
  <2>3. ReqShape' /\ FetchShape'
    BY <2>1, <2>2, LoadsShape DEF LInv, ReqShape, FetchShape, Shaped
  <2>4. turn \in req' BY <2>1
  <2>5. LoadingHeld' BY <2>1, <2>2, <2>4 DEF LoadingHeld
  <2> QED BY <2>3, <2>5 DEF LInv
<1>6. ASSUME NEW name \in Names, SaveKey(name) PROVE LInv'
  <2> DEFINE add == [Ask("add", "keys") EXCEPT !.row = <<0, name>>]
  <2>1. Shaped(add) /\ req' = req \cup {add}
    BY <1>6, AskShape DEF SaveKey, Shaped
  <2> QED BY <1>6, <2>1, Added DEF SaveKey
<1>7. ASSUME NEW row, DeleteKey(row) PROVE LInv'
  <2> DEFINE delete == [Ask("delete", "keys") EXCEPT !.row = row]
  <2>1. Shaped(delete) /\ req' = req \cup {delete}
    BY <1>7, AskShape DEF DeleteKey, Shaped
  <2> QED BY <1>7, <2>1, Added DEF DeleteKey
<1>8. ASSUME NEW name \in Names, NewForm(name) PROVE LInv'
  <2>1. req' = {[r EXCEPT !.live = FALSE] : r \in req}
    BY <1>8 DEF NewForm, LetGo
  <2>2. \A r \in req : Same([r EXCEPT !.live = FALSE], r)
                       /\ Shaped([r EXCEPT !.live = FALSE])
    BY DEF LInv, ReqShape, FetchShape, Same, Shaped
  <2>3. /\ \A s \in req' : Shaped(s)
        /\ \A r \in req : \E s \in req' : Same(s, r)
    BY <2>1, <2>2
  <2> QED BY <1>8, <2>3, Kept DEF NewForm
<1>9. ASSUME NEW id, NEW name, EditForm(id, name) PROVE LInv'
  <2> DEFINE filled(r) == IF r.live THEN [r EXCEPT !.put = form'] ELSE r
  <2>1. req' = {filled(r) : r \in req}
    BY <1>9 DEF EditForm
  <2>2. \A r \in req : Same(filled(r), r) /\ Shaped(filled(r))
    BY DEF LInv, ReqShape, FetchShape, Same, Shaped
  <2>3. /\ \A s \in req' : Shaped(s)
        /\ \A r \in req : \E s \in req' : Same(s, r)
    BY <2>1, <2>2
  <2> QED BY <1>9, <2>3, Kept DEF EditForm
<1>10. CASE SubmitForm
  <2> DEFINE change == [Ask(Action, view) EXCEPT !.row = form, !.put = form,
                                                 !.live = Action = "edit"]
  <2>1. req' = req \cup {change}
    BY <1>10 DEF SubmitForm
  <2>2. Shaped(change)
    BY AskShape DEF Shaped, Action
  <2>3. UNCHANGED StateOfPage
    BY <1>10 DEF SubmitForm
  <2> DEFINE asked == {change}
  <2>4. req' = req \cup asked /\ \A s \in asked : Shaped(s)
    BY <2>1, <2>2
  <2> HIDE DEF asked
  <2> QED BY <2>3, <2>4, Added
\* A fetch holds the page that it makes wait.
<1>11. ASSUME NEW pos, NEW q,
              req' = req \cup {Turn("fetch", pos, q, opened)}, opened' = opened
       PROVE  LInv'
  <2> DEFINE turn == Turn("fetch", pos, q, opened)
  <2>1. Shaped(turn) /\ turn.kind = "fetch" /\ turn.inst = opened
    BY TurnShape DEF Shaped
  <2>2. ReqShape' /\ FetchShape'
    BY <1>11, <2>1 DEF LInv, ReqShape, FetchShape, Shaped
  <2>3. LoadingHeld'
    BY <1>11, <2>1 DEF LoadingHeld
  <2> QED BY <2>2, <2>3 DEF LInv
<1>12. ASSUME NEW q, Filter(q) PROVE LInv'
  BY <1>11, <1>12 DEF Filter
<1>13. ASSUME NEW q, NewRange(q) PROVE LInv'
  BY <1>11, <1>13 DEF NewRange
<1>14. ASSUME NEW kind \in {"next", "back"}, TurnPage(kind) PROVE LInv'
  <2> DEFINE turn == Turn(kind, position', query, opened)
  <2>1. req' = req \cup {turn}
    BY <1>14 DEF TurnPage
  <2>2. Shaped(turn)
    BY TurnShape DEF Shaped
  <2>3. UNCHANGED StateOfPage
    BY <1>14 DEF TurnPage
  <2> DEFINE asked == {turn}
  <2>4. req' = req \cup asked /\ \A s \in asked : Shaped(s)
    BY <2>1, <2>2
  <2> HIDE DEF asked
  <2> QED BY <2>3, <2>4, Added
<1> QED
  BY <1>1, <1>2, <1>3, <1>4, <1>5, <1>6, <1>7, <1>8, <1>9, <1>10, <1>12, <1>13, <1>14
  DEF User, OpenGroups, OpenProducts

\* A request that moves on to another stage is still the same.
LEMMA MovedOn ==
  ASSUME LInv, NEW r \in req, NEW s, Same(s, r), Shaped(s),
         req' = (req \ {r}) \cup {s}, UNCHANGED StateOfPage
  PROVE  LInv'
<1>1. \A x \in req' : Shaped(x)
  BY DEF LInv, ReqShape, FetchShape, Shaped
<1>2. \A x \in req : \E y \in req' : Same(y, x)
  BY DEF Same
<1> QED BY <1>1, <1>2, Kept

LEMMA AnsweredKeeps ==
  ASSUME LInv, NEW r \in req, NEW rows, NEW seq, Answered(r, rows, seq),
         UNCHANGED StateOfPage
  PROVE  LInv'
<1> DEFINE s == [r EXCEPT !.stage = "ok", !.rows = rows, !.page = seq]
<1>1. Same(s, r) /\ Shaped(s)
  BY DEF LInv, ReqShape, FetchShape, Same, Shaped
<1> QED BY <1>1, MovedOn DEF Answered

LEMMA FailedKeeps ==
  ASSUME LInv, NEW r \in req, NEW stage, Failed(r, stage), UNCHANGED StateOfPage
  PROVE  LInv'
<1> DEFINE s == [r EXCEPT !.stage = stage]
<1>1. Same(s, r) /\ Shaped(s)
  BY DEF LInv, ReqShape, FetchShape, Same, Shaped
<1> QED BY <1>1, MovedOn DEF Failed

LEMMA ServeHolds ==
  ASSUME LInv, NEW r \in req, Serve(r) PROVE LInv'
<1>1. UNCHANGED StateOfPage
  BY DEF Serve, scope, StateOfPage
<1>2. CASE ServeLoad(r)
  BY <1>1, <1>2, AnsweredKeeps DEF ServeLoad
<1>3. CASE ServeAdd(r)
  BY <1>1, <1>3, AnsweredKeeps, FailedKeeps DEF ServeAdd
<1>4. CASE ServeEdit(r)
  BY <1>1, <1>4, AnsweredKeeps, FailedKeeps DEF ServeEdit
<1>5. CASE ServeDelete(r)
  BY <1>1, <1>5, AnsweredKeeps, FailedKeeps DEF ServeDelete
<1>6. CASE ServePage(r)
  BY <1>1, <1>6, AnsweredKeeps, FailedKeeps DEF ServePage
<1> QED BY <1>2, <1>3, <1>4, <1>5, <1>6 DEF Serve

\* The answer to the fetch the page waits for starts the timeout.
LEMMA AnswerHolds ==
  ASSUME LInv, NEW r \in req, Answer(r) PROVE LInv'
<1>1. ReqShape' /\ FetchShape'
  BY DEF Answer, LInv, ReqShape, FetchShape
<1>2. CASE ListAnswer(r)
  <2>1. r.kind # "fetch"
    BY <1>2 DEF ListAnswer, Lists, LInv, FetchShape
  <2>2. UNCHANGED StateOfPage /\ req' = req \ {r}
    BY <1>2 DEF ListAnswer, Answer, scope, StateOfPage
  <2> QED BY <1>1, <2>1, <2>2 DEF LInv, LoadingHeld, StateOfPage
<1>3. CASE PageAnswer(r)
  <2>1. /\ loading' = loading /\ opened' = opened /\ req' = req \ {r}
        /\ timer' = IF r.kind = "fetch" THEN timer \cup {r.inst} ELSE timer
    BY <1>3 DEF PageAnswer, EndsLoading, Answer
  <2> QED BY <1>1, <2>1 DEF LInv, LoadingHeld
<1> QED BY <1>2, <1>3 DEF Answer

LEMMA StepKeeps == LInv /\ [Next]_vars => LInv'
<1> SUFFICES ASSUME LInv, [Next]_vars PROVE LInv'
  OBVIOUS
<1>1. CASE User
  BY <1>1, UserKeeps
<1>2. ASSUME NEW kind, Book(kind) PROVE LInv'
  BY <1>2 DEF Book, scope, LInv, ReqShape, FetchShape, LoadingHeld
<1>3. ASSUME NEW r \in req, Lose(r) PROVE LInv'
  BY <1>3, FailedKeeps DEF Lose, scope, StateOfPage
<1>4. ASSUME NEW i, TimerFires(i) PROVE LInv'
  BY <1>4 DEF TimerFires, LInv, ReqShape, FetchShape, LoadingHeld
<1>5. CASE UNCHANGED vars
  BY <1>5 DEF vars, scope, LInv, ReqShape, FetchShape, LoadingHeld
<1> QED
  BY <1>1, <1>2, <1>3, <1>4, <1>5, ServeHolds, AnswerHolds DEF Next,
     Handle

\* Whatever becomes of views, requests and answers, the page that shows "loading"
\* has something on its way that will end it.
THEOREM LoadingIsHeld == Spec => []LoadingHeld
<1>1. Init => LInv
  BY DEF Init, LInv, ReqShape, FetchShape, LoadingHeld
<1>2. LInv => LoadingHeld
  BY DEF LInv
<1> QED BY <1>1, <1>2, StepKeeps, PTL DEF Spec

-----------------------------------------------------------------------------
(* The page of the transactions. *)

\* A request has all its fields, and is for the page exactly if it turns it.
Fields == {"kind", "of", "n", "user", "row", "put", "live", "query", "pos", "inst",
           "stage", "rows", "page"}
Whole(s)  == DOMAIN s = Fields /\ (s.kind \in Pages <=> s.of = "page")
WholeInv  == \A r \in req : Whole(r)

ReaderInv ==
  /\ booked \in [Users -> Seq(AnyFilter)]
  /\ view # "none" => logged \in Users
  /\ page \in Int /\ position \in Int

\* A page of what the filter and the range ask for now, as the transactions
\* were at some moment.
OnPage(rows) ==
  \E n \in 0..Len(booked[logged]) :
    rows = PageOf(Found(logged, query, n), position)

Shows ==
  /\ position = page * PageSize
  /\ (error /\ shown = <<>>) \/ OnPage(shown)

\* The page that is shown when the answer to r has come.
PageAfter(r) == CASE r.kind = "next" -> page + 1
                  [] r.kind = "back" -> page - 1
                  [] OTHER -> page

\* r asks for what the view will show, and its answer is that.
Asks(r) ==
  /\ r.user = logged /\ r.query = query /\ r.pos = position /\ r.inst = opened
  /\ position = PageAfter(r) * PageSize
  /\ r.stage = "ok" => OnPage(r.page)

\* What PageIsTrue needs: without an accident there is at most one request for
\* the page, and it asks for what the view stands at.
TurnInv ==
  view = "transactions" /\ "page" \notin muddled =>
    \/ Pending("page") = {} /\ Shows
    \/ \E r : Pending("page") = {r} /\ Asks(r)

PInv == WholeInv /\ ReaderInv /\ TurnInv

\* What TurnInv speaks about besides the requests.
Reading == <<booked, logged, view, page, position, query, shown, error, opened>>

-----------------------------------------------------------------------------
\* A request is made whole.
LEMMA AskWhole ==
  ASSUME NEW kind, NEW l, kind \in Pages <=> l = "page"
  PROVE  /\ Whole(Ask(kind, l))
         /\ Ask(kind, l).of = l /\ Ask(kind, l).kind = kind
BY DEF Ask, Blank, Whole, Fields

\* A turn is whole, asks for the user who is shown and is not answered yet.
LEMMA TurnWhole ==
  ASSUME NEW kind \in Pages, NEW pos, NEW q, NEW inst
  PROVE  LET turn == Turn(kind, pos, q, inst) IN
         /\ Whole(turn) /\ turn.kind = kind /\ turn.of = "page"
         /\ turn.user = logged /\ turn.query = q /\ turn.pos = pos /\ turn.inst = inst
         /\ turn.stage = "sent"
BY DEF Turn, Ask, Blank, Whole, Fields

\* The loads of a view are whole, and none is for the page.
LEMMA LoadsWhole ==
  ASSUME NEW l, l # "page"
  PROVE  \A s \in LoadsFor(l) \cup {Load(l)} : Whole(s) /\ s.of # "page"
<1>1. "load" \notin Pages
  BY DEF Pages
<1> QED BY <1>1, AskWhole DEF LoadsFor, Load

\* A step that leaves alone what is read and what was asked for it keeps it.
LEMMA PageStays ==
  ASSUME ReaderInv, TurnInv, UNCHANGED Reading,
         Pending("page")' = Pending("page"),
         "page" \in muddled => "page" \in muddled'
  PROVE  ReaderInv' /\ TurnInv'
<1>1. \A rows : OnPage(rows) => OnPage(rows)'
  BY DEF Reading, OnPage, Found, PageOf, Limited
<1>2. Shows => Shows'
  BY <1>1 DEF Reading, Shows
<1>3. \A r : Asks(r) => Asks(r)'
  BY <1>1 DEF Reading, Asks, PageAfter
<1>4. ReaderInv'
  BY DEF Reading, ReaderInv
<1> QED BY <1>2, <1>3, <1>4 DEF Reading, TurnInv

\* When the first turn is asked for, the accidents of the page are over, and if
\* one is on its way, there is one.
LEMMA LoadedPage ==
  ASSUME NEW asked, NEW turn \in asked, turn.of = "page",
         "page" \notin Loaded(asked)
  PROVE  Pending("page") = {}
BY DEF Loaded

\* A turn that is asked for when none is out is the only one.
LEMMA OnlyTurn ==
  ASSUME NEW asked, NEW turn, turn.of = "page", \A s \in asked : s.of # "page",
         Pending("page") = {}, req' = req \cup (asked \cup {turn})
  PROVE  Pending("page")' = {turn}
BY DEF Pending

\* Pages follow each other by PageSize.
LEMMA PageSteps ==
  ASSUME NEW n \in Int, PageSize \in Nat \ {0}
  PROVE  /\ (n + 1) * PageSize = n * PageSize + PageSize
         /\ (n - 1) * PageSize = n * PageSize - PageSize
         /\ (n * PageSize) % PageSize = 0
OBVIOUS

-----------------------------------------------------------------------------
\* What the user does.
LEMMA UserReads ==
  ASSUME PanelAssumption, PInv, User PROVE PInv'
<1> USE DEF PInv
<1>1. ASSUME NEW u \in Users, Become(u) PROVE PInv'
  BY <1>1 DEF Become, WholeInv, ReaderInv, TurnInv, server, pager,
     scope
<1>2. CASE SignOut
  BY <1>2 DEF SignOut, WholeInv, ReaderInv, TurnInv, server, scope
<1>3. CASE OpenSettings
  BY <1>3, LoadsWhole DEF OpenSettings, WholeInv, ReaderInv, TurnInv,
     server, pager, scope
<1>4. ASSUME NEW l \in {"groups", "products"}, OpenList(l) PROVE PInv'
  <2> DEFINE asked == IF list[l] = EmptyBag THEN {Load(l)} ELSE {}
  <2>1. req' = {[r EXCEPT !.live = FALSE] : r \in req} \cup asked
    BY <1>4 DEF OpenList, LetGo
  <2>2. \A s \in asked : Whole(s)
    BY LoadsWhole
  <2>3. \A r \in req : Whole([r EXCEPT !.live = FALSE])
    BY DEF WholeInv, Whole, Fields
  <2>4. WholeInv'
    BY <2>1, <2>2, <2>3 DEF WholeInv
  <2>5. ReaderInv' /\ TurnInv'
    BY <1>4 DEF OpenList, ReaderInv, TurnInv, server, pager,
       scope
  <2> QED BY <2>4, <2>5
<1>5. CASE OpenTransactions
  <2>0. PICK turn : turn = Turn("fetch", 0, AnyFilter, opened + 1)
    OBVIOUS
  <2> DEFINE asked == LoadsFor("products")
  <2>1. /\ req' = req \cup (asked \cup {turn})
        /\ muddled' = Loaded(asked \cup {turn})
        /\ opened' = opened + 1 /\ position' = 0 /\ page' = 0
        /\ query' = AnyFilter
        /\ view # "none" /\ view' = "transactions"
        /\ UNCHANGED <<booked, logged>>
    BY <1>5, <2>0 DEF OpenTransactions, server
  <2>2. "fetch" \in Pages
    BY DEF Pages
  <2>3. /\ Whole(turn) /\ turn.kind = "fetch" /\ turn.of = "page" /\ turn.user = logged
        /\ turn.query = AnyFilter /\ turn.pos = 0 /\ turn.inst = opened + 1
        /\ turn.stage = "sent"
    BY <2>0, <2>2, TurnWhole
  <2>4. \A s \in asked : Whole(s) /\ s.of # "page"
    BY LoadsWhole
  <2> HIDE DEF asked
  <2>5. WholeInv'
    BY <2>1, <2>3, <2>4 DEF WholeInv
  <2>6. ReaderInv'
    BY <2>1 DEF ReaderInv
  <2>7. ASSUME "page" \notin muddled' PROVE Pending("page") = {}
    <3>1. PICK all : all = asked \cup {turn}
      OBVIOUS
    <3>2. turn \in all /\ turn.of = "page" /\ "page" \notin Loaded(all)
      BY <2>1, <2>3, <2>7, <3>1
    <3> QED BY <3>2, LoadedPage
  <2>8. "page" \notin muddled' => Pending("page")' = {turn}
    BY <2>1, <2>3, <2>4, <2>7, OnlyTurn
  <2>9. Asks(turn)'
    BY <2>1, <2>3 DEF Asks, PageAfter
  <2> QED BY <2>5, <2>6, <2>8, <2>9 DEF TurnInv
\* A change is made in another view.
<1>6. ASSUME NEW change, Whole(change), req' = req \cup {change},
             view # "transactions", UNCHANGED Reading
      PROVE  PInv'
  BY <1>6 DEF WholeInv, ReaderInv, TurnInv, Reading
<1>7. ASSUME NEW name \in Names, SaveKey(name) PROVE PInv'
  <2> DEFINE change == [Ask("add", "keys") EXCEPT !.row = <<0, name>>]
  <2>1. "add" \notin Pages
    BY DEF Pages
  <2>2. Whole(change)
    BY <2>1, AskWhole DEF Whole, Fields
  <2>3. req' = req \cup {change} /\ view # "transactions" /\ UNCHANGED Reading
    BY <1>7 DEF SaveKey, server, session, pager, scope,
       Reading
  <2> QED BY <1>6, <2>2, <2>3
<1>8. ASSUME NEW row, DeleteKey(row) PROVE PInv'
  <2> DEFINE change == [Ask("delete", "keys") EXCEPT !.row = row]
  <2>1. "delete" \notin Pages
    BY DEF Pages
  <2>2. Whole(change)
    BY <2>1, AskWhole DEF Whole, Fields
  <2>3. req' = req \cup {change} /\ view # "transactions" /\ UNCHANGED Reading
    BY <1>8 DEF DeleteKey, server, session, pager,
       scope, Reading
  <2> QED BY <1>6, <2>2, <2>3
<1>9. ASSUME NEW name \in Names, NewForm(name) PROVE PInv'
  <2>1. req' = {[r EXCEPT !.live = FALSE] : r \in req}
    BY <1>9 DEF NewForm, LetGo
  <2>2. WholeInv'
    BY <2>1 DEF WholeInv, Whole, Fields
  <2> QED
    BY <1>9, <2>2 DEF NewForm, ReaderInv, TurnInv, server, session,
       pager, scope
<1>10. ASSUME NEW id, NEW name, EditForm(id, name) PROVE PInv'
  <2> DEFINE filled(r) == IF r.live THEN [r EXCEPT !.put = form'] ELSE r
  <2>1. req' = {filled(r) : r \in req}
    BY <1>10 DEF EditForm
  <2>2. \A r \in req : Whole(filled(r))
    BY DEF WholeInv, Whole, Fields
  <2>3. WholeInv'
    BY <2>1, <2>2 DEF WholeInv
  <2> QED
    BY <1>10, <2>3 DEF EditForm, ReaderInv, TurnInv, server,
       session, pager, scope
<1>11. CASE SubmitForm
  <2> DEFINE change == [Ask(Action, view) EXCEPT !.row = form, !.put = form,
                                                 !.live = Action = "edit"]
  <2>1. Action \notin Pages /\ view # "page"
    BY <1>11 DEF Action, Pages, SubmitForm
  <2>2. Whole(change)
    BY <2>1, AskWhole DEF Whole, Fields
  <2>3. req' = req \cup {change} /\ view # "transactions" /\ UNCHANGED Reading
    BY <1>11 DEF SubmitForm, server, session, pager,
       scope, Reading
  <2> QED BY <1>6, <2>2, <2>3
\* A turn goes out from a page that is as it should be, or is an accident.
<1>12. ASSUME NEW kind \in Pages, NEW turn,
              turn = Turn(kind, position', query', opened),
              req' = req \cup {turn}, UNCHANGED <<booked, logged, view, opened>>,
              view = "transactions", page' \in Int, position' \in Int,
              "page" \notin muddled' =>
                Pending("page") = {} /\ position' = PageAfter(turn)' * PageSize
       PROVE  PInv'
  <2>1. /\ Whole(turn) /\ turn.of = "page" /\ turn.user = logged /\ turn.query = query'
        /\ turn.pos = position' /\ turn.inst = opened /\ turn.stage = "sent"
    BY <1>12, TurnWhole
  <2>2. WholeInv' /\ ReaderInv'
    BY <1>12, <2>1 DEF WholeInv, ReaderInv
  <2>3. "page" \notin muddled' => Pending("page")' = {turn}
    BY <1>12, <2>1, OnlyTurn DEF Pending
  <2>4. "page" \notin muddled' => Asks(turn)'
    BY <1>12, <2>1 DEF Asks
  <2> QED BY <2>2, <2>3, <2>4 DEF TurnInv
<1>13. ASSUME NEW q, Filter(q) PROVE PInv'
  <2>0. PICK turn : turn = Turn("fetch", FirstPosition, q, opened)
    OBVIOUS
  <2>1. /\ position' = 0 /\ page' = 0 /\ query' = q /\ view = "transactions"
        /\ req' = req \cup {turn} /\ muddled' = Loaded({turn})
        /\ UNCHANGED <<booked, logged, view, opened>>
    BY <1>13, <2>0 DEF Filter, FirstPosition, server, session
  <2>2. "fetch" \in Pages
    BY DEF Pages
  <2>3. turn = Turn("fetch", position', query', opened) /\ turn.of = "page"
        /\ turn.kind = "fetch"
    BY <2>0, <2>1, <2>2, TurnWhole DEF FirstPosition
  <2>4. "page" \notin muddled' => Pending("page") = {}
    BY <2>1, <2>3, LoadedPage
  <2>5. position' = PageAfter(turn)' * PageSize
    BY <2>1, <2>3 DEF PageAfter
  <2> QED BY <1>12, <2>1, <2>2, <2>3, <2>4, <2>5
<1>14. ASSUME NEW q, NewRange(q) PROVE PInv'
  <2>0. PICK turn : turn = Turn("fetch", position, q, opened)
    OBVIOUS
  <2>1. /\ query' = q /\ view = "transactions" /\ req' = req \cup {turn}
        /\ UNCHANGED <<booked, logged, view, opened, position, page>>
        /\ "page" \notin muddled' => Pending("page") = {} /\ "page" \notin muddled
    BY <1>14, <2>0 DEF NewRange, server, session
  <2>2. "fetch" \in Pages
    BY DEF Pages
  <2>3. turn = Turn("fetch", position', query', opened) /\ turn.kind = "fetch"
    BY <2>0, <2>1, <2>2, TurnWhole
  <2>4. "page" \notin muddled' => position = page * PageSize
    BY <2>1 DEF TurnInv, Shows
  <2>5. "page" \notin muddled' => position' = PageAfter(turn)' * PageSize
    BY <2>1, <2>3, <2>4 DEF PageAfter
  <2>6. page' \in Int /\ position' \in Int
    BY <2>1 DEF ReaderInv
  <2> QED BY <1>12, <2>1, <2>2, <2>3, <2>5, <2>6
<1>15. ASSUME NEW kind \in {"next", "back"}, TurnPage(kind) PROVE PInv'
  <2>0. PICK turn : turn = Turn(kind, position', query, opened)
    OBVIOUS
  <2>1. /\ view = "transactions" /\ req' = req \cup {turn}
        /\ UNCHANGED <<booked, logged, view, opened, query, page>>
        /\ "page" \notin muddled' => Pending("page") = {} /\ "page" \notin muddled
        /\ position' = IF kind = "next" THEN position + PageSize
                       ELSE position - (position % PageSize) - PageSize
    BY <1>15, <2>0 DEF TurnPage, server, session, scope
  <2>2. kind \in Pages
    BY DEF Pages
  <2>3. turn = Turn(kind, position', query', opened) /\ turn.kind = kind
    BY <2>0, <2>1, <2>2, TurnWhole
  <2>4. page' \in Int /\ position' \in Int
    BY <2>1 DEF ReaderInv
  <2>5. "page" \notin muddled' => position = page * PageSize
    BY <2>1 DEF TurnInv, Shows
  <2>6. /\ (page + 1) * PageSize = page * PageSize + PageSize
        /\ (page - 1) * PageSize = page * PageSize - PageSize
        /\ (page * PageSize) % PageSize = 0
    BY PageSteps DEF ReaderInv, PanelAssumption
  <2>7. PageAfter(turn)' = IF kind = "next" THEN page + 1 ELSE page - 1
    BY <2>1, <2>3 DEF PageAfter
  <2>8. "page" \notin muddled' => position' = PageAfter(turn)' * PageSize
    <3>1. CASE kind = "next"
      BY <2>1, <2>5, <2>6, <2>7, <3>1
    <3>2. CASE kind = "back"
      <4>1. "page" \notin muddled' => position % PageSize = 0
        BY <2>5, <2>6
      <4>2. "page" \notin muddled' => position' = position - PageSize
        BY <2>1, <3>2, <4>1 DEF ReaderInv
      <4> QED BY <2>5, <2>6, <2>7, <3>2, <4>2
    <3> QED BY <3>1, <3>2
  <2> QED BY <1>12, <2>1, <2>2, <2>3, <2>4, <2>8
<1> QED
  BY <1>1, <1>2, <1>3, <1>4, <1>5, <1>7, <1>8, <1>9, <1>10, <1>11, <1>13, <1>14, <1>15
  DEF User, OpenGroups, OpenProducts

\* Another transaction of the same user leaves the pages there were.
LEMMA BookReads ==
  ASSUME PInv, NEW kind \in AnyFilter, Book(kind) PROVE PInv'
<1> USE DEF PInv
<1>1. /\ view = "transactions" /\ booked' = [booked EXCEPT ![logged] = Append(@, kind)]
      /\ UNCHANGED <<req, muddled, logged, view, page, position, query, shown, error,
                     opened>>
  BY DEF Book, session, pager, scope
<1>2. logged \in Users /\ booked[logged] \in Seq(AnyFilter)
  BY <1>1 DEF ReaderInv
<1>3. /\ booked' \in [Users -> Seq(AnyFilter)]
      /\ booked'[logged] = Append(booked[logged], kind)
      /\ Len(booked'[logged]) = Len(booked[logged]) + 1
  BY <1>1, <1>2 DEF ReaderInv
<1>4. ASSUME NEW n \in 0..Len(booked[logged])
      PROVE  Found(logged, query, n)' = Found(logged, query, n)
  <2>1. SubSeq(booked'[logged], 1, n) = SubSeq(booked[logged], 1, n)
    BY <1>2, <1>3
  <2> QED BY <1>1, <2>1 DEF Found
<1>5. ASSUME NEW rows, OnPage(rows) PROVE OnPage(rows)'
  <2>1. PICK n \in 0..Len(booked[logged]) :
             rows = PageOf(Found(logged, query, n), position)
    BY <1>5 DEF OnPage
  <2>2. n \in 0..Len(booked'[logged])
    BY <1>2, <1>3
  <2>3. rows = PageOf(Found(logged, query, n)', position)
    BY <1>4, <2>1
  <2> QED BY <1>1, <2>2, <2>3 DEF OnPage, PageOf, Limited
<1>6. Shows => Shows'
  BY <1>1, <1>5 DEF Shows
<1>7. \A r : Asks(r) => Asks(r)'
  BY <1>1, <1>5 DEF Asks, PageAfter
<1>8. Pending("page")' = Pending("page")
  BY <1>1 DEF Pending
<1>9. WholeInv' /\ ReaderInv'
  BY <1>1, <1>3 DEF WholeInv, ReaderInv
<1> QED BY <1>1, <1>6, <1>7, <1>8, <1>9 DEF TurnInv

\* A request for the page that moves on, and asks for the same as before.
LEMMA TurnMoves ==
  ASSUME PInv, NEW r \in req, NEW s, Whole(s), s.of = r.of,
         req' = (req \ {r}) \cup {s}, UNCHANGED Reading,
         "page" \in muddled => "page" \in muddled',
         r.of = "page" /\ view = "transactions" /\ "page" \notin muddled /\ Asks(r)
           => Asks(s)
  PROVE  PInv'
<1>1. WholeInv'
  BY DEF PInv, WholeInv
<1>2. CASE r.of # "page"
  <2>1. Pending("page")' = Pending("page")
    BY <1>2 DEF Pending
  <2> QED BY <1>1, <2>1, PageStays DEF PInv
<1>3. CASE r.of = "page"
  <2>1. /\ r \in Pending("page")
        /\ Pending("page")' = (Pending("page") \ {r}) \cup {s}
    BY <1>3 DEF Pending
  <2>2. ASSUME view' = "transactions", "page" \notin muddled'
        PROVE  Pending("page")' = {s} /\ Asks(s)'
    <3>1. view = "transactions" /\ "page" \notin muddled
      BY <2>2 DEF Reading
    <3>2. Pending("page") = {r} /\ Asks(r)
      BY <2>1, <3>1 DEF PInv, TurnInv
    <3>3. Asks(s)
      BY <1>3, <3>1, <3>2
    <3>4. Asks(s)'
      BY <3>3 DEF Asks, OnPage, PageAfter, Found, PageOf, Limited,
         Reading
    <3> QED BY <2>1, <3>2, <3>4
  <2>3. ReaderInv'
    BY DEF PInv, ReaderInv, Reading
  <2> QED BY <1>1, <2>2, <2>3 DEF PInv, TurnInv
<1> QED BY <1>2, <1>3

\* A failure asks for the same.
LEMMA FailedReads ==
  ASSUME PInv, NEW r \in req, NEW stage, stage # "ok", Failed(r, stage),
         UNCHANGED Reading, "page" \in muddled => "page" \in muddled'
  PROVE  PInv'
<1> DEFINE s == [r EXCEPT !.stage = stage]
<1>1. Whole(r)
  BY DEF PInv, WholeInv
<1>2. /\ Whole(s) /\ s.of = r.of /\ s.kind = r.kind /\ s.user = r.user
      /\ s.query = r.query /\ s.pos = r.pos /\ s.inst = r.inst /\ s.stage = stage
  BY <1>1 DEF Whole, Fields
<1>3. Asks(r) => Asks(s)
  BY <1>2 DEF Asks, PageAfter
<1>4. req' = (req \ {r}) \cup {s}
  BY DEF Failed
<1> HIDE DEF s
<1> QED BY <1>2, <1>3, <1>4, TurnMoves

\* So does an answer, which for a turn is a page.
LEMMA AnsweredReads ==
  ASSUME PInv, NEW r \in req, NEW rows, NEW seq, Answered(r, rows, seq),
         UNCHANGED Reading, UNCHANGED muddled,
         r.of = "page" /\ view = "transactions" /\ Asks(r) => OnPage(seq)
  PROVE  PInv'
<1> DEFINE s == [r EXCEPT !.stage = "ok", !.rows = rows, !.page = seq]
<1>1. Whole(r)
  BY DEF PInv, WholeInv
<1>2. /\ Whole(s) /\ s.of = r.of /\ s.kind = r.kind /\ s.user = r.user
      /\ s.query = r.query /\ s.pos = r.pos /\ s.inst = r.inst /\ s.page = seq
  BY <1>1 DEF Whole, Fields
<1>3. r.of = "page" /\ view = "transactions" /\ "page" \notin muddled /\ Asks(r)
        => Asks(s)
  BY <1>2 DEF Asks, PageAfter
<1>4. req' = (req \ {r}) \cup {s}
  BY DEF Answered
<1> HIDE DEF s
<1> QED BY <1>2, <1>3, <1>4, TurnMoves

LEMMA ServeReads ==
  ASSUME PInv, NEW r \in req, Serve(r) PROVE PInv'
<1>1. UNCHANGED Reading /\ UNCHANGED muddled
  BY DEF Serve, session, pager, scope, Reading
<1>2. r.kind \in Pages <=> r.of = "page"
  BY DEF PInv, WholeInv, Whole
<1>3. CASE ServeLoad(r)
  <2>1. r.of # "page"
    BY <1>2, <1>3 DEF ServeLoad, Pages
  <2> QED BY <1>1, <1>3, <2>1, AnsweredReads DEF ServeLoad
<1>4. CASE ServeAdd(r)
  <2>1. r.of # "page"
    BY <1>2, <1>4 DEF ServeAdd, Pages
  <2> QED BY <1>1, <1>4, <2>1, AnsweredReads, FailedReads DEF ServeAdd
<1>5. CASE ServeEdit(r)
  <2>1. r.of # "page"
    BY <1>2, <1>5 DEF ServeEdit, Pages
  <2> QED BY <1>1, <1>5, <2>1, AnsweredReads, FailedReads DEF ServeEdit
<1>6. CASE ServeDelete(r)
  <2>1. r.of # "page"
    BY <1>2, <1>6 DEF ServeDelete, Pages
  <2> QED BY <1>1, <1>6, <2>1, AnsweredReads, FailedReads DEF ServeDelete
<1>7. CASE ServePage(r)
  <2> DEFINE all == Len(booked[r.user])
             seq == PageOf(Found(r.user, r.query, all), r.pos)
  <2>1. CASE r.pos < 0
    BY <1>1, <1>7, <2>1, FailedReads DEF ServePage
  <2>2. CASE ~(r.pos < 0)
    <3>1. Answered(r, {}, seq)
      BY <1>7, <2>2 DEF ServePage
    <3>2. ASSUME view = "transactions", Asks(r) PROVE OnPage(seq)
      <4>1. r.user = logged /\ r.query = query /\ r.pos = position
        BY <3>2 DEF Asks
      <4>2. all \in 0..Len(booked[logged])
        BY <3>2, <4>1 DEF PInv, ReaderInv
      <4> QED BY <4>1, <4>2 DEF OnPage
    <3> HIDE DEF seq
    <3> QED BY <1>1, <3>1, <3>2, AnsweredReads
  <2> QED BY <2>1, <2>2
<1> QED BY <1>3, <1>4, <1>5, <1>6, <1>7 DEF Serve

LEMMA LoseReads ==
  ASSUME PInv, NEW r \in req, Lose(r) PROVE PInv'
<1>1. UNCHANGED Reading /\ ("page" \in muddled => "page" \in muddled')
  BY DEF Lose, server, session, pager, scope, Reading
<1> QED BY <1>1, FailedReads DEF Lose

\* The answer to the one turn is what the view then shows.
LEMMA AnswerReads ==
  ASSUME PInv, NEW r \in req, Answer(r) PROVE PInv'
<1> USE DEF PInv
<1>1. /\ req' = req \ {r} /\ UNCHANGED <<booked, logged>>
      /\ view' = view \/ view' = "none"
  BY DEF Answer, server
<1>2. WholeInv'
  BY <1>1 DEF WholeInv
<1>3. r.kind \in Pages <=> r.of = "page"
  BY DEF WholeInv, Whole
<1>4. CASE view' # view
  <2>1. page' \in Int /\ position' \in Int
    BY DEF Answer, ListAnswer, PageAnswer, pager,
       scope, ReaderInv
  <2> QED BY <1>1, <1>2, <1>4, <2>1 DEF ReaderInv, TurnInv
<1>5. CASE view' = view /\ ListAnswer(r)
  <2>1. Pending("page")' = Pending("page")
    BY <1>1, <1>5 DEF ListAnswer, Lists, Pending
  <2>2. UNCHANGED Reading /\ ("page" \in muddled => "page" \in muddled')
    BY <1>1, <1>5 DEF ListAnswer, pager, scope, Reading
  <2> QED BY <1>2, <2>1, <2>2, PageStays
<1>6. CASE view' = view /\ PageAnswer(r)
  <2>1. r.of = "page" /\ UNCHANGED <<position, query, opened>>
    BY <1>6 DEF PageAnswer
  <2>2. /\ shown' = IF r.stage = "ok" THEN r.page ELSE <<>>
        /\ r.inst = opened /\ r.stage = "ok" => page' = PageAfter(r)
        /\ r.inst = opened /\ r.kind = "fetch" /\ r.stage # "ok" => error'
        /\ r.stage # "ok" => page' = page
        /\ muddled' = IF r.stage # "ok" /\ r.kind # "fetch" THEN muddled \cup {"page"}
                      ELSE muddled
    BY <1>6 DEF PageAnswer, PageAfter
  <2>3. ReaderInv'
    BY <1>1, <1>6, <2>1 DEF PageAnswer, ReaderInv
  <2>4. ASSUME view' = "transactions", "page" \notin muddled'
        PROVE  Pending("page")' = {} /\ Shows'
    <3>1. "page" \notin muddled /\ (r.stage = "ok" \/ r.kind = "fetch")
      BY <2>2, <2>4
    <3>2. r \in Pending("page")
      BY <2>1 DEF Pending
    <3>3. Pending("page") = {r} /\ Asks(r)
      BY <1>6, <2>4, <3>1, <3>2 DEF TurnInv
    <3>4. Pending("page")' = {}
      BY <1>1, <3>3 DEF Pending
    <3>5. \A rows : OnPage(rows) => OnPage(rows)'
      BY <1>1, <2>1 DEF OnPage, Found, PageOf, Limited
    <3>6. r.inst = opened /\ position = PageAfter(r) * PageSize
      BY <3>3 DEF Asks
    <3>7. CASE r.stage = "ok"
      <4>1. OnPage(r.page)'
        BY <3>3, <3>5, <3>7 DEF Asks
      <4>2. shown' = r.page /\ position' = page' * PageSize
        BY <2>1, <2>2, <3>6, <3>7
      <4> QED BY <3>4, <4>1, <4>2 DEF Shows
    <3>8. CASE r.stage # "ok"
      <4>1. shown' = <<>> /\ error' /\ page' = page /\ PageAfter(r) = page
        BY <2>2, <3>1, <3>6, <3>8 DEF PageAfter
      <4> QED BY <2>1, <3>4, <3>6, <4>1 DEF Shows
    <3> QED BY <3>7, <3>8
  <2> QED BY <1>2, <2>3, <2>4 DEF TurnInv
<1> QED BY <1>4, <1>5, <1>6 DEF Answer

LEMMA StepReads == PanelAssumption /\ PInv /\ [Next]_vars => PInv'
<1> SUFFICES ASSUME PanelAssumption, PInv, [Next]_vars PROVE PInv'
  OBVIOUS
<1>1. ASSUME NEW i, TimerFires(i) PROVE PInv'
  <2>1. UNCHANGED Reading /\ UNCHANGED <<req, muddled>>
    BY <1>1 DEF TimerFires, server, session, pager, Reading
  <2> QED BY <2>1, PageStays DEF PInv, WholeInv, Pending
<1>2. CASE UNCHANGED vars
  <2>1. UNCHANGED Reading /\ UNCHANGED <<req, muddled>>
    BY <1>2 DEF vars, server, session, pager, scope,
       Reading
  <2> QED BY <2>1, PageStays DEF PInv, WholeInv, Pending
<1> QED
  BY <1>1, <1>2, UserReads, BookReads, LoseReads, ServeReads, AnswerReads
  DEF Next, Handle

LEMMA InitReads == PanelAssumption /\ Init => PInv
<1> SUFFICES ASSUME PanelAssumption, Init PROVE PInv
  OBVIOUS
<1>1. booked \in [Users -> Seq(AnyFilter)]
  BY DEF Init, AnyFilter, PanelAssumption
<1> QED BY <1>1 DEF Init, PInv, WholeInv, ReaderInv, TurnInv

\* The number of the page and the position go together and the rows belong to
\* what is asked for now, unless two requests for the page crossed or one failed,
\* for any size of a page, any filters and any number of requests
\* (yourTransactions.js, userTransactionService.js).
THEOREM PagesAreTrue == Spec => []PageIsTrue
<1>1. PInv => PageIsTrue
  <2>1. \A r : Pending("page") # {} \/ Pending("page") # {r}
    OBVIOUS
  <2> QED BY <2>1 DEF PInv, TurnInv, Shows, OnPage, PageIsTrue
<1> QED BY <1>1, PanelAssumption, InitReads, StepReads, PTL DEF Spec

-----------------------------------------------------------------------------
(* The lists.  What a view shows of one, P: the requests for it, S: the rows  *)
(* that are shown, T: those of the table.                                    *)

Made(r, kind) == r.kind = kind /\ r.stage = "ok"
Changes(r)    == r.kind \in {"edit", "delete"}
HasId(S, id)  == \E x \in S : x[1] = id
UniqueIds(S)  == \A x, y \in S : x[1] = y[1] => x = y

\* A row that is shown and not in the table was changed, and the answer is due.
Backed(P, S, T) ==
  \A x \in S : x \in T \/ \E r \in P : /\ Made(r, "edit") \/ Made(r, "delete")
                                       /\ r.row[1] = x[1]

\* So was one that is in the table and not shown.
Covered(P, S, T) ==
  \A x \in T :
    \/ x \in S
    \/ \E r \in P : Made(r, "add") /\ r.rows = {x}
    \/ \E r \in P : Made(r, "edit") /\ r.row = x /\ HasId(S, x[1])

\* A row that was added and not answered is in the table and not shown.
AddsApart(P, S, T) ==
  /\ \A a \in P : Made(a, "add") => \E x \in T : a.rows = {x} /\ ~HasId(S, x[1])
  /\ \A a, b \in P : Made(a, "add") /\ Made(b, "add") /\ a.rows = b.rows => a = b

\* One that was deleted is shown and not in the table.
DeletesApart(P, S, T) ==
  /\ \A d \in P : Made(d, "delete") => HasId(S, d.row[1]) /\ ~HasId(T, d.row[1])
  /\ \A d, e \in P :
       Made(d, "delete") /\ Made(e, "delete") /\ d.row[1] = e.row[1] => d = e

\* One edit at a time, and the form still holds what was sent.
EditAlone(P, S, T) ==
  \A e \in P : e.kind = "edit" =>
    /\ e.put = e.row
    /\ e.stage = "ok" /\ HasId(S, e.row[1]) => e.row \in T
    /\ \A f \in P : f.kind = "edit" => f = e

\* Nothing that is to be changed, by a request or by the form, is as new as
\* not to be shown yet.
Older(P, ids) ==
  \A a \in P : Made(a, "add") =>
    /\ \A id \in ids : ~HasId(a.rows, id)
    /\ \A e \in P : Changes(e) => ~HasId(a.rows, e.row[1])

InStep(P, S, T, ids) ==
  /\ \A r \in P : r.kind # "load"
  /\ UniqueIds(S)
  /\ Backed(P, S, T)
  /\ Covered(P, S, T)
  /\ AddsApart(P, S, T)
  /\ DeletesApart(P, S, T)
  /\ EditAlone(P, S, T)
  /\ Older(P, ids)

\* With nothing on its way, what is shown is the table.
LEMMA InStepAgrees ==
  ASSUME NEW S, NEW T, NEW ids, InStep({}, S, T, ids)
  PROVE  S = T
BY DEF InStep, Backed, Covered

\* What was loaded is in step.
LEMMA LoadInStep ==
  ASSUME NEW T, NEW ids, UniqueIds(T)
  PROVE  InStep({}, T, T, ids)
BY DEF InStep, Backed, Covered, AddsApart, DeletesApart, EditAlone, Older

\* Fewer rows in the form.
LEMMA FormInStep ==
  ASSUME NEW P, NEW S, NEW T, NEW ids, InStep(P, S, T, ids),
         NEW new, \A a \in P : Made(a, "add") => \A id \in new : ~HasId(a.rows, id)
  PROVE  InStep(P, S, T, new)
BY DEF InStep, Older

\* A request that says the same.
SameRequest(s, r) ==
  /\ s.of = r.of /\ s.kind = r.kind /\ s.user = r.user /\ s.stage = r.stage
  /\ s.row = r.row /\ s.put = r.put /\ s.rows = r.rows

\* The requests that f makes of those there were say the same as before.
Renews(f, P, Q) ==
  /\ \A r \in P : f[r] \in Q /\ SameRequest(f[r], r)
  /\ \A q \in Q : \E r \in P : q = f[r]

\* They are in step as before.
LEMMA SameInStep ==
  ASSUME NEW P, NEW Q, NEW S, NEW T, NEW ids, InStep(P, S, T, ids),
         NEW f, Renews(f, P, Q)
  PROVE  InStep(Q, S, T, ids)
<1> USE DEF Renews, SameRequest, Made, Changes
<1>1. \A q \in Q : \E r \in P : q = f[r] /\ SameRequest(q, r)
  OBVIOUS
<1>2. \A r \in P : f[r] \in Q /\ SameRequest(f[r], r)
  OBVIOUS
<1>3. Backed(Q, S, T)
  BY <1>2 DEF InStep, Backed
<1>4. Covered(Q, S, T)
  BY <1>2 DEF InStep, Covered
<1>5. AddsApart(Q, S, T)
  BY <1>1 DEF InStep, AddsApart
<1>6. DeletesApart(Q, S, T)
  BY <1>1 DEF InStep, DeletesApart
<1>7. EditAlone(Q, S, T)
  BY <1>1 DEF InStep, EditAlone
<1>8. Older(Q, ids)
  BY <1>1 DEF InStep, Older
<1> QED BY <1>1, <1>3, <1>4, <1>5, <1>6, <1>7, <1>8 DEF InStep

\* A change is asked for.
LEMMA AskInStep ==
  ASSUME NEW P, NEW S, NEW T, NEW ids, InStep(P, S, T, ids),
         NEW s, s.kind # "load", s.stage = "sent",
         s.kind = "edit" => s.put = s.row /\ \A e \in P : e.kind # "edit",
         Changes(s) => \A a \in P : Made(a, "add") => ~HasId(a.rows, s.row[1])
  PROVE  InStep(P \cup {s}, S, T, ids)
<1> USE DEF Made
<1>1. Backed(P \cup {s}, S, T)
  BY DEF InStep, Backed
<1>2. Covered(P \cup {s}, S, T)
  BY DEF InStep, Covered
<1>3. AddsApart(P \cup {s}, S, T)
  BY DEF InStep, AddsApart
<1>4. DeletesApart(P \cup {s}, S, T)
  BY DEF InStep, DeletesApart
<1>5. EditAlone(P \cup {s}, S, T)
  BY DEF InStep, EditAlone
<1>6. Older(P \cup {s}, ids)
  BY DEF InStep, Older, Changes
<1> QED BY <1>1, <1>2, <1>3, <1>4, <1>5, <1>6 DEF InStep

\* A request that is not carried out, or is not any more what it was.
LEMMA FailInStep ==
  ASSUME NEW P, NEW S, NEW T, NEW ids, InStep(P, S, T, ids),
         NEW r \in P, r.stage # "ok",
         NEW s, s.kind = r.kind, s.row = r.row, s.put = r.put, s.stage # "ok"
  PROVE  InStep((P \ {r}) \cup {s}, S, T, ids)
<1> DEFINE Q == (P \ {r}) \cup {s}
<1> USE DEF Made, Changes
<1>1. Backed(Q, S, T)
  BY DEF InStep, Backed
<1>2. Covered(Q, S, T)
  BY DEF InStep, Covered
<1>3. AddsApart(Q, S, T)
  BY DEF InStep, AddsApart
<1>4. DeletesApart(Q, S, T)
  BY DEF InStep, DeletesApart
<1>5. EditAlone(Q, S, T)
  BY DEF InStep, EditAlone
<1>6. Older(Q, ids)
  BY DEF InStep, Older
<1> QED BY <1>1, <1>2, <1>3, <1>4, <1>5, <1>6 DEF InStep

\* And its answer.
LEMMA DropInStep ==
  ASSUME NEW P, NEW S, NEW T, NEW ids, InStep(P, S, T, ids),
         NEW r \in P, r.stage # "ok"
  PROVE  InStep(P \ {r}, S, T, ids)
<1> DEFINE Q == P \ {r}
<1> USE DEF Made, Changes
<1>1. Backed(Q, S, T)
  BY DEF InStep, Backed
<1>2. Covered(Q, S, T)
  BY DEF InStep, Covered
<1>3. AddsApart(Q, S, T) /\ DeletesApart(Q, S, T)
  BY DEF InStep, AddsApart, DeletesApart
<1>4. EditAlone(Q, S, T) /\ Older(Q, ids)
  BY DEF InStep, EditAlone, Older
<1> QED BY <1>1, <1>2, <1>3, <1>4 DEF InStep

-----------------------------------------------------------------------------
\* A new row, with an id that nobody knows.
LEMMA AddServed ==
  ASSUME NEW P, NEW S, NEW T, NEW ids, InStep(P, S, T, ids),
         NEW r \in P, r.kind = "add", r.stage # "ok", NEW x,
         ~HasId(S, x[1]), ~HasId(T, x[1]), x[1] \notin ids,
         \A e \in P : Changes(e) => e.row[1] # x[1],
         NEW s, s.kind = "add", s.stage = "ok", s.rows = {x}
  PROVE  InStep((P \ {r}) \cup {s}, S, T \cup {x}, ids)
<1> DEFINE Q == (P \ {r}) \cup {s}
           U == T \cup {x}
<1> USE DEF Made, Changes
<1>0. ~Changes(s) /\ ~Changes(r) /\ s \in Q /\ x \notin T /\ s.kind # "load"
      /\ (\A q \in Q : q = s \/ q \in P)
      /\ (\A q \in P : q = r \/ q \in Q)
  BY DEF HasId
<1>1. Backed(Q, S, U)
  BY DEF InStep, Backed
<1>2. Covered(Q, S, U)
  BY DEF InStep, Covered
<1>3. AddsApart(Q, S, U)
  <2>1. \A a \in P : Made(a, "add") => a.rows # s.rows
    BY <1>0 DEF InStep, AddsApart
  <2>2. \A a \in Q : Made(a, "add") => \E y \in U : a.rows = {y} /\ ~HasId(S, y[1])
    BY <1>0 DEF InStep, AddsApart
  <2>3. \A a, b \in Q : Made(a, "add") /\ Made(b, "add") /\ a.rows = b.rows => a = b
    <3> SUFFICES ASSUME NEW a \in Q, NEW b \in Q, Made(a, "add"), Made(b, "add"),
                        a.rows = b.rows
                 PROVE  a = b
      OBVIOUS
    <3>1. (a = s) <=> (b = s)
      BY <1>0, <2>1
    <3> QED BY <1>0, <3>1 DEF InStep, AddsApart
  <2> QED BY <2>2, <2>3 DEF AddsApart
<1>4. DeletesApart(Q, S, U)
  <2>1. \A d \in P : Made(d, "delete") => ~HasId(U, d.row[1])
    BY DEF InStep, DeletesApart, HasId
  <2> QED BY <2>1, <1>0 DEF InStep, DeletesApart
<1>5. EditAlone(Q, S, U)
  BY DEF InStep, EditAlone
<1>6. Older(Q, ids)
  BY DEF InStep, Older, HasId
<1> HIDE DEF U
<1>7. \A q \in Q : q.kind # "load"
  BY <1>0 DEF InStep
<1>8. UniqueIds(S)
  BY DEF InStep
<1> QED BY <1>1, <1>2, <1>3, <1>4, <1>5, <1>6, <1>7, <1>8 DEF InStep, U

\* A row that is given another name.
LEMMA EditServed ==
  ASSUME NEW P, NEW S, NEW T, NEW ids, InStep(P, S, T, ids),
         \A e \in P : e.kind # "delete",
         NEW r \in P, r.kind = "edit", r.stage # "ok",
         NEW U,
         \A x : x \in U <=> \/ x \in T /\ x[1] # r.row[1]
                            \/ x = r.row /\ HasId(T, r.row[1]),
         NEW s, s.kind = "edit", s.stage = "ok", s.row = r.row, s.put = r.put
  PROVE  InStep((P \ {r}) \cup {s}, S, U, ids)
<1> DEFINE Q == (P \ {r}) \cup {s}
<1> USE DEF Made, Changes
<1>0. /\ s \in Q /\ (\A q \in Q : q = s \/ q \in P) /\ (\A q \in P : q = r \/ q \in Q)
      /\ \A e \in P : e.kind = "edit" => e = r
  BY DEF InStep, EditAlone
<1>1. \A i : HasId(U, i) <=> HasId(T, i)
  BY DEF HasId
<1>2. Backed(Q, S, U)
  <2> SUFFICES ASSUME NEW x \in S
               PROVE  x \in U \/ \E q \in Q : /\ Made(q, "edit") \/ Made(q, "delete")
                                              /\ q.row[1] = x[1]
    BY DEF Backed
  <2>1. CASE x[1] = r.row[1]
    BY <2>1
  <2>2. CASE x[1] # r.row[1]
    <3>1. x \in T
      BY <1>0 DEF InStep, Backed
    <3> QED BY <2>2, <3>1
  <2> QED BY <2>1, <2>2
<1>3. Covered(Q, S, U)
  <2> SUFFICES ASSUME NEW x \in U
               PROVE  \/ x \in S
                      \/ \E q \in Q : Made(q, "add") /\ q.rows = {x}
                      \/ \E q \in Q : Made(q, "edit") /\ q.row = x /\ HasId(S, x[1])
    BY DEF Covered
  <2>1. CASE x \in T /\ x[1] # r.row[1]
    BY <1>0, <2>1 DEF InStep, Covered
  <2>2. CASE x = r.row /\ HasId(T, r.row[1])
    <3>1. PICK y \in T : y[1] = r.row[1]
      BY <2>2 DEF HasId
    <3>2. \A a \in P : Made(a, "add") => a.rows # {y}
      BY <3>1 DEF InStep, Older, HasId
    <3>3. y \in S
      BY <1>0, <3>2 DEF InStep, Covered
    <3>4. HasId(S, x[1])
      BY <2>2, <3>1, <3>3 DEF HasId
    <3> QED BY <2>2, <3>4
  <2> QED BY <2>1, <2>2
<1>4. AddsApart(Q, S, U)
  <2>1. ASSUME NEW a \in P, Made(a, "add")
        PROVE  \E x \in U : a.rows = {x} /\ ~HasId(S, x[1])
    <3>1. PICK x \in T : a.rows = {x} /\ ~HasId(S, x[1])
      BY <2>1 DEF InStep, AddsApart
    <3>2. x[1] # r.row[1]
      BY <2>1, <3>1 DEF InStep, Older, HasId
    <3> QED BY <3>1, <3>2
  <2>2. \A a \in Q : Made(a, "add") => a \in P
    OBVIOUS
  <2> QED BY <2>1, <2>2 DEF InStep, AddsApart
<1>5. DeletesApart(Q, S, U)
  BY <1>0 DEF DeletesApart
<1>6. EditAlone(Q, S, U)
  <2>1. \A e \in Q : e.kind = "edit" => e = s
    BY <1>0
  <2>2. HasId(S, r.row[1]) => r.row \in U
    <3> SUFFICES ASSUME NEW x \in S, x[1] = r.row[1] PROVE HasId(T, r.row[1])
      BY DEF HasId
    <3>1. x \in T
      BY <1>0 DEF InStep, Backed
    <3> QED BY <3>1 DEF HasId
  <2>3. s.put = s.row
    BY DEF InStep, EditAlone
  <2> QED BY <2>1, <2>2, <2>3 DEF EditAlone
<1>7. Older(Q, ids)
  BY DEF InStep, Older
<1>8. (\A q \in Q : q.kind # "load") /\ UniqueIds(S)
  BY <1>0 DEF InStep
<1> QED BY <1>2, <1>3, <1>4, <1>5, <1>6, <1>7, <1>8 DEF InStep

\* A row that is deleted.
LEMMA DeleteServed ==
  ASSUME NEW P, NEW S, NEW T, NEW ids, InStep(P, S, T, ids), UniqueIds(T),
         \A e \in P : e.kind # "edit",
         NEW r \in P, r.kind = "delete", r.stage # "ok", HasId(T, r.row[1]),
         NEW U, \A x : x \in U <=> x \in T /\ x[1] # r.row[1],
         NEW s, s.kind = "delete", s.stage = "ok", s.row = r.row
  PROVE  InStep((P \ {r}) \cup {s}, S, U, ids)
<1> DEFINE Q == (P \ {r}) \cup {s}
<1> USE DEF Made, Changes
<1>0. /\ s \in Q /\ (\A q \in Q : q = s \/ q \in P) /\ (\A q \in P : q = r \/ q \in Q)
  OBVIOUS
<1>1. PICK y \in T : y[1] = r.row[1]
  BY DEF HasId
<1>2. Backed(Q, S, U)
  BY DEF InStep, Backed
<1>3. Covered(Q, S, U)
  BY DEF InStep, Covered
<1>4. AddsApart(Q, S, U)
  <2>1. ASSUME NEW a \in P, Made(a, "add")
        PROVE  \E x \in U : a.rows = {x} /\ ~HasId(S, x[1])
    <3>1. PICK x \in T : a.rows = {x} /\ ~HasId(S, x[1])
      BY <2>1 DEF InStep, AddsApart
    <3>2. x[1] # r.row[1]
      BY <2>1, <3>1 DEF InStep, Older, HasId
    <3> QED BY <3>1, <3>2
  <2>2. \A a \in Q : Made(a, "add") => a \in P
    OBVIOUS
  <2> QED BY <2>1, <2>2 DEF InStep, AddsApart
<1>5. DeletesApart(Q, S, U)
  <2>1. HasId(S, r.row[1])
    <3>1. \A a \in P : Made(a, "add") => a.rows # {y}
      BY <1>1 DEF InStep, Older, HasId
    <3>2. y \in S
      BY <3>1 DEF InStep, Covered
    <3> QED BY <1>1, <3>2 DEF HasId
  <2>2. ~HasId(U, r.row[1])
    BY DEF HasId
  <2>3. \A d \in P : Made(d, "delete") =>
          HasId(S, d.row[1]) /\ ~HasId(U, d.row[1]) /\ d.row[1] # r.row[1]
    BY <1>1 DEF InStep, DeletesApart, HasId
  <2> QED BY <2>1, <2>2, <2>3 DEF InStep, DeletesApart
<1>6. EditAlone(Q, S, U)
  BY <1>0 DEF EditAlone
<1>7. Older(Q, ids)
  BY DEF InStep, Older
<1>8. (\A q \in Q : q.kind # "load") /\ UniqueIds(S)
  BY <1>0 DEF InStep
<1> QED BY <1>2, <1>3, <1>4, <1>5, <1>6, <1>7, <1>8 DEF InStep

-----------------------------------------------------------------------------
\* The answer to an add: its row is shown.
LEMMA AddTaken ==
  ASSUME NEW P, NEW S, NEW T, NEW ids, InStep(P, S, T, ids), UniqueIds(T),
         NEW r \in P, Made(r, "add")
  PROVE  InStep(P \ {r}, S \cup r.rows, T, ids) /\ S \cap r.rows = {}
<1> DEFINE Q == P \ {r}
<1> USE DEF Made, Changes
<1>1. PICK x \in T : r.rows = {x} /\ ~HasId(S, x[1])
  BY DEF InStep, AddsApart
<1> DEFINE R == S \cup {x}
<1>2. /\ \A y \in S : y[1] # x[1]
      /\ \A i : HasId(R, i) <=> HasId(S, i) \/ i = x[1]
  BY <1>1 DEF HasId
<1>3. UniqueIds(R)
  BY <1>2 DEF InStep, UniqueIds
<1>4. Backed(Q, R, T)
  BY <1>1 DEF InStep, Backed
<1>5. Covered(Q, R, T)
  <2> SUFFICES ASSUME NEW y \in T, y \notin R
               PROVE  \/ \E q \in Q : Made(q, "add") /\ q.rows = {y}
                      \/ \E q \in Q : Made(q, "edit") /\ q.row = y /\ HasId(R, y[1])
    BY DEF Covered
  <2>1. y \notin S /\ y # x
    OBVIOUS
  <2>2. \/ \E q \in P : Made(q, "add") /\ q.rows = {y}
        \/ \E q \in P : Made(q, "edit") /\ q.row = y /\ HasId(S, y[1])
    BY <2>1 DEF InStep, Covered
  <2>3. CASE \E q \in P : Made(q, "add") /\ q.rows = {y}
    BY <1>1, <2>1, <2>3
  <2>4. CASE \E q \in P : Made(q, "edit") /\ q.row = y /\ HasId(S, y[1])
    <3>1. HasId(R, y[1])
      BY <1>2, <2>4
    <3> QED BY <2>4, <3>1
  <2> QED BY <2>2, <2>3, <2>4
<1>6. AddsApart(Q, R, T)
  <2>1. ASSUME NEW a \in Q, Made(a, "add")
        PROVE  \E y \in T : a.rows = {y} /\ ~HasId(R, y[1])
    <3>1. PICK y \in T : a.rows = {y} /\ ~HasId(S, y[1])
      BY <2>1 DEF InStep, AddsApart
    <3>2. y # x
      BY <1>1, <2>1, <3>1 DEF InStep, AddsApart
    <3>3. y[1] # x[1]
      BY <3>2 DEF UniqueIds
    <3> QED BY <1>2, <3>1, <3>3
  <2> QED BY <2>1 DEF InStep, AddsApart
<1>7. DeletesApart(Q, R, T)
  BY <1>2 DEF InStep, DeletesApart
<1>8. EditAlone(Q, R, T)
  <2>1. \A e \in P : Changes(e) => e.row[1] # x[1]
    BY <1>1 DEF InStep, Older, HasId
  <2> QED BY <1>2, <2>1 DEF InStep, EditAlone
<1>9. Older(Q, ids)
  BY DEF InStep, Older
<1>10. S \cap r.rows = {} /\ S \cup r.rows = R
  BY <1>1, <1>2
<1> HIDE DEF R
<1> QED BY <1>3, <1>4, <1>5, <1>6, <1>7, <1>8, <1>9, <1>10 DEF InStep

\* The answer to an edit: the row that was found is replaced, if one was.
LEMMA EditTaken ==
  ASSUME NEW P, NEW S, NEW T, NEW ids, InStep(P, S, T, ids),
         UniqueIds(T), NEW r \in P, Made(r, "edit"), \A e \in P : e.kind # "delete",
         NEW x \in S, x[1] = r.row[1]
  PROVE  InStep(P \ {r}, (S \ {x}) \cup {r.put}, T, ids)
<1> DEFINE Q == P \ {r}
           R == (S \ {x}) \cup {r.put}
<1> USE DEF Made, Changes
<1>1. r.put = r.row /\ r.row \in T /\ \A e \in P : e.kind = "edit" => e = r
  BY DEF InStep, EditAlone, HasId
<1>2. \A i : HasId(R, i) <=> HasId(S, i)
  BY <1>1 DEF HasId
<1>3. UniqueIds(R)
  BY <1>1 DEF InStep, UniqueIds
<1>4. Backed(Q, R, T)
  <2> SUFFICES ASSUME NEW y \in R PROVE y \in T
    BY DEF Backed
  <2>1. y \in S /\ y # x => y[1] # r.row[1]
    BY DEF InStep, UniqueIds
  <2> QED BY <1>1, <2>1 DEF InStep, Backed
<1>5. Covered(Q, R, T)
  <2> SUFFICES ASSUME NEW y \in T, y \notin R
               PROVE  \E q \in Q : Made(q, "add") /\ q.rows = {y}
    BY DEF Covered
  <2>1. CASE y = x
    <3>1. y[1] = r.row[1] /\ r.row \in T
      BY <1>1, <2>1
    <3>2. y = r.row
      BY <3>1 DEF UniqueIds
    <3> QED BY <1>1, <3>2
  <2>2. CASE y # x
    BY <1>1, <2>2 DEF InStep, Covered
  <2> QED BY <2>1, <2>2
<1>6. AddsApart(Q, R, T)
  BY <1>2 DEF InStep, AddsApart
<1>7. DeletesApart(Q, R, T)
  BY DEF DeletesApart
<1>8. EditAlone(Q, R, T)
  BY <1>1 DEF EditAlone
<1>9. Older(Q, ids)
  BY DEF InStep, Older
<1>10. \A q \in Q : q.kind # "load"
  BY DEF InStep
<1> HIDE DEF R
<1> QED BY <1>3, <1>4, <1>5, <1>6, <1>7, <1>8, <1>9, <1>10 DEF InStep, R

LEMMA EditMissed ==
  ASSUME NEW P, NEW S, NEW T, NEW ids, InStep(P, S, T, ids),
         NEW r \in P, Made(r, "edit"), ~HasId(S, r.row[1])
  PROVE  InStep(P \ {r}, S, T, ids)
<1> DEFINE Q == P \ {r}
<1> USE DEF Made, Changes
<1>1. Backed(Q, S, T)
  BY DEF InStep, Backed, HasId
<1>2. Covered(Q, S, T)
  BY DEF InStep, Covered
<1>3. AddsApart(Q, S, T) /\ DeletesApart(Q, S, T)
  BY DEF InStep, AddsApart, DeletesApart
<1>4. EditAlone(Q, S, T) /\ Older(Q, ids)
  BY DEF InStep, EditAlone, Older
<1> QED BY <1>1, <1>2, <1>3, <1>4 DEF InStep

\* The answer to a delete: the row is shown and is taken away.
LEMMA DeleteTaken ==
  ASSUME NEW P, NEW S, NEW T, NEW ids, InStep(P, S, T, ids),
         NEW r \in P, Made(r, "delete"), \A e \in P : e.kind # "edit",
         NEW x \in S, x[1] = r.row[1]
  PROVE  InStep(P \ {r}, S \ {x}, T, ids)
<1> DEFINE Q == P \ {r}
           R == S \ {x}
<1> USE DEF Made, Changes
<1>1. \A i : HasId(R, i) <=> HasId(S, i) /\ i # x[1]
  BY DEF InStep, UniqueIds, HasId
<1>2. UniqueIds(R)
  BY DEF InStep, UniqueIds
<1>3. Backed(Q, R, T)
  BY DEF InStep, Backed, UniqueIds
<1>4. Covered(Q, R, T)
  <2>1. x \notin T
    BY DEF InStep, DeletesApart, HasId
  <2> QED BY <2>1 DEF InStep, Covered
<1>5. AddsApart(Q, R, T)
  BY <1>1 DEF InStep, AddsApart
<1>6. DeletesApart(Q, R, T)
  BY <1>1 DEF InStep, DeletesApart
<1>7. EditAlone(Q, R, T)
  BY DEF EditAlone
<1>8. Older(Q, ids) /\ \A q \in Q : q.kind # "load"
  BY DEF InStep, Older
<1> HIDE DEF R
<1> QED BY <1>2, <1>3, <1>4, <1>5, <1>6, <1>7, <1>8 DEF InStep, R

-----------------------------------------------------------------------------
(* Bags that hold each row once. *)

LEMMA BagOfSet ==
  ASSUME NEW S, NEW R
  PROVE  /\ BagToSet(SetToBag(S)) = S
         /\ SetToBag(S) = SetToBag(R) => S = R
         /\ SetToBag(S) = EmptyBag <=> S = {}
         /\ BagToSet(EmptyBag) = {}
<1>1. \A X : BagToSet(SetToBag(X)) = X
  BY DEF BagToSet, SetToBag
<1> QED BY <1>1 DEF EmptyBag

LEMMA BagPlus ==
  ASSUME NEW S, NEW R, S \cap R = {}
  PROVE  SetToBag(S) (+) SetToBag(R) = SetToBag(S \cup R)
BY DEF SetToBag, (+)

LEMMA BagMinus ==
  ASSUME NEW S, NEW R
  PROVE  SetToBag(S) (-) SetToBag(R) = SetToBag(S \ R)
<1> DEFINE B == [e \in S |-> IF e \in R THEN 1 - 1 ELSE 1]
<1>1. SetToBag(S) (-) SetToBag(R) = [e \in {d \in DOMAIN B : B[d] > 0} |-> B[e]]
  BY DEF SetToBag, (-)
<1>2. {d \in DOMAIN B : B[d] > 0} = S \ R
  OBVIOUS
<1>3. \A e \in S \ R : B[e] = 1
  OBVIOUS
<1> QED BY <1>1, <1>2, <1>3 DEF SetToBag

\* What may be in a sum and in a difference of bags.
LEMMA BagDomains ==
  ASSUME NEW A, NEW B
  PROVE  /\ BagToSet(A (+) B) = BagToSet(A) \cup BagToSet(B)
         /\ BagToSet(A (-) B) \subseteq BagToSet(A)
BY DEF BagToSet, (+), (-)

\* The rows that are shown, after the answer to a request of the list.
LEMMA MatchesOf ==
  ASSUME NEW S, NEW id
  PROVE  /\ ~HasId(S, id) => Matches(SetToBag(S), id) = {EmptyBag}
         /\ HasId(S, id) => \A m \in Matches(SetToBag(S), id) :
              \E x \in S : x[1] = id /\ m = SetToBag({x}) /\ m # EmptyBag
<1> DEFINE found == {row \in S : row[1] = id}
<1>1. Matches(SetToBag(S), id) =
        IF found = {} THEN {EmptyBag} ELSE {SetToBag({row}) : row \in found}
  BY BagOfSet DEF Matches
<1>2. found = {} <=> ~HasId(S, id)
  BY DEF HasId
<1>3. \A x : SetToBag({x}) # EmptyBag
  BY BagOfSet
<1> QED BY <1>1, <1>2, <1>3

-----------------------------------------------------------------------------
(* Types. *)

\* A row as it is shown, and who may own one.
Pairs(l) == (1..lastId[l]) \X Names
Owned(l) == IF l = "keys" THEN Users ELSE {NoUser}

ServerInv ==
  /\ DOMAIN table = Lists /\ DOMAIN lastId = Lists
  /\ \A l \in Lists :
       /\ lastId[l] \in Nat \ {0}
       /\ \A x \in table[l] : x \in [id : 1..lastId[l], name : Names, owner : Owned(l)]
       /\ \A x, y \in table[l] : x.id = y.id => x = y
  /\ booked \in [Users -> Seq(AnyFilter)]

SessionInv ==
  /\ self \in Users \cup {NoUser} /\ logged \in Users \cup {NoUser}
  /\ view \in {"none", "dashboard", "settings", "groups", "products", "transactions"}
  /\ view # "none" => self \in Users /\ logged \in Users

ListInv ==
  /\ DOMAIN list = Lists
  /\ \A l \in Lists : BagToSet(list[l]) \subseteq Pairs(l)

\* The form is empty, for a new row, or holds one that the list had.
FormInv ==
  /\ form \in Nat \X (Names \cup {0})
  /\ form = NoForm \/ form[2] \in Names
  /\ view \in {"groups", "products"} =>
       /\ form[1] <= lastId[view]
       /\ \A r \in req : r.live => r.of = view

ScopeInv ==
  /\ Len(shown) <= PageSize /\ position \in Int /\ query \subseteq AnyFilter
  /\ page \in Int /\ loading \in BOOLEAN /\ error \in BOOLEAN /\ opened \in Nat
  /\ view = "transactions" => opened >= 1
  /\ timer \subseteq 1..opened

BoundInv ==
  /\ muddled \subseteq Lists \cup {"page"}
  /\ steps \in 0..MaxSteps /\ events \in 0..MaxEvents

\* A request for a list, with ids that the list has given.
ListTyped(r) ==
  /\ r.kind \in {"load", "add", IF r.of = "keys" THEN "delete" ELSE "edit"}
  /\ r.rows \subseteq Pairs(r.of)
  /\ r.kind = "add" => r.row[2] \in Names
  /\ r.kind = "edit" => r.row \in Pairs(r.of) /\ r.put \in Pairs(r.of)
  /\ r.kind = "delete" => r.row \in Pairs(r.of)

Typed(r) ==
  /\ Whole(r)
  /\ r.user \in Users
  /\ r.stage \in {"sent", "ok", "denied", "error"}
  /\ r.of \in Lists \cup {"page"}
  /\ r.of = "page" => Len(r.page) <= PageSize /\ r.inst \in 1..opened /\ r.pos \in Int
  /\ r.of \in Lists => ListTyped(r)
  /\ r.live => r.kind = "edit"

RequestInv == \A r \in req : Typed(r)

TInv ==
  /\ ServerInv /\ SessionInv /\ ListInv /\ FormInv /\ ScopeInv /\ BoundInv /\ RequestInv

LEMMA InitTyped == PanelAssumption /\ Init => TInv
<1> SUFFICES ASSUME PanelAssumption, Init PROVE TInv
  OBVIOUS
<1> USE DEF Init
<1>1. ServerInv
  <2>1. booked \in [Users -> Seq(AnyFilter)]
    BY DEF AnyFilter, PanelAssumption
  <2>2. DOMAIN table = Lists /\ DOMAIN lastId = Lists
    OBVIOUS
  <2> DEFINE first == [id |-> 1, name |-> Fresh, owner |-> NoUser]
  <2>3. ASSUME NEW l \in Lists, NEW x \in table[l] PROVE x = first /\ l # "keys"
    BY <2>3
  <2>4. first \in [id : 1..1, name : Names, owner : {NoUser}]
    BY DEF PanelAssumption
  <2>5. \A l \in Lists : lastId[l] = 1
    OBVIOUS
  <2> HIDE DEF first
  <2>6. ASSUME NEW l \in Lists, NEW x \in table[l]
        PROVE  x \in [id : 1..lastId[l], name : Names, owner : Owned(l)]
    BY <2>3, <2>4, <2>5, <2>6 DEF Owned
  <2>7. \A l \in Lists : \A x, y \in table[l] : x.id = y.id => x = y
    BY <2>3
  <2>8. \A l \in Lists : lastId[l] \in Nat \ {0}
    BY <2>5
  <2> HIDE DEF Init
  <2> QED BY <2>1, <2>2, <2>6, <2>7, <2>8 DEF ServerInv
<1>2. SessionInv
  BY DEF SessionInv
<1>3. ListInv
  BY BagOfSet DEF ListInv
<1>4. FormInv
  BY DEF FormInv, NoForm
<1>5. ScopeInv
  <2>1. /\ shown = <<>> /\ position = 0 /\ query = AnyFilter /\ page = 0
        /\ loading = FALSE /\ error = FALSE /\ opened = 0 /\ timer = {}
        /\ view = "dashboard"
    OBVIOUS
  <2>2. PageSize \in Nat /\ Len(<<>>) = 0
    BY DEF PanelAssumption
  <2> HIDE DEF Init
  <2>3. Len(shown) <= PageSize
    BY <2>1, <2>2
  <2>4. loading \in BOOLEAN /\ error \in BOOLEAN
    BY <2>1
  <2>5. position \in Int /\ page \in Int /\ opened \in Nat
    BY <2>1
  <2> QED BY <2>1, <2>3, <2>4, <2>5 DEF ScopeInv
<1>6. BoundInv /\ RequestInv
  BY DEF BoundInv, RequestInv, PanelAssumption
<1> QED BY <1>1, <1>2, <1>3, <1>4, <1>5, <1>6 DEF TInv

LEMMA TypesFollow == PanelAssumption /\ TInv => TypeOK
<1> SUFFICES ASSUME PanelAssumption, TInv PROVE TypeOK
  OBVIOUS
<1> USE DEF TInv
<1>1. \A l \in Lists : \A r \in table[l] :
        r.id \in 1..lastId[l] /\ r.name \in Names /\ (l = "keys") = (r.owner # NoUser)
  <2> SUFFICES ASSUME NEW l \in Lists, NEW r \in table[l]
               PROVE  /\ r.id \in 1..lastId[l] /\ r.name \in Names
                      /\ (l = "keys") = (r.owner # NoUser)
    OBVIOUS
  <2>1. r \in [id : 1..lastId[l], name : Names, owner : Owned(l)]
    BY DEF ServerInv
  <2>2. r.id \in 1..lastId[l] /\ r.name \in Names /\ r.owner \in Owned(l)
    BY <2>1
  <2>3. (l = "keys") = (r.owner # NoUser)
    BY <2>2 DEF Owned, PanelAssumption
  <2> QED BY <2>2, <2>3
<1>2. view # "none" => self # NoUser /\ logged # NoUser
  BY DEF SessionInv, PanelAssumption
<1>3. \A r \in req : r.stage \in {"sent", "ok", "denied", "error"}
  BY DEF RequestInv, Typed
<1> QED
  BY <1>1, <1>2, <1>3 DEF TypeOK, ServerInv, SessionInv, ListInv, FormInv, ScopeInv,
     BoundInv, Pairs

\* Ids and scopes are only added.
Grows == /\ opened \in Nat /\ opened' \in Nat /\ opened <= opened'
         /\ \A l \in Lists : /\ lastId[l] \in Nat /\ lastId'[l] \in Nat
                             /\ lastId[l] <= lastId'[l]

LEMMA PairsGrow ==
  ASSUME Grows, NEW l \in Lists PROVE Pairs(l) \subseteq Pairs(l)'
<1>1. 1..lastId[l] \subseteq 1..lastId'[l]
  BY DEF Grows
<1> QED BY <1>1 DEF Pairs

LEMMA TypedStays ==
  ASSUME Grows, NEW r, Typed(r) PROVE Typed(r)'
<1>1. r.of \in Lists => ListTyped(r)'
  <2> SUFFICES ASSUME r.of \in Lists PROVE ListTyped(r)'
    OBVIOUS
  <2>1. Pairs(r.of) \subseteq Pairs(r.of)'
    BY PairsGrow
  <2> QED BY <2>1 DEF Typed, ListTyped
<1>2. r.inst \in 1..opened => r.inst \in 1..opened'
  BY DEF Grows
<1> QED BY <1>1, <1>2 DEF Typed

\* What is asked for is typed.
LEMMA AskTyped ==
  ASSUME logged \in Users, NEW l \in Lists, NEW kind
  PROVE  LET r == Ask(kind, l) IN
         /\ DOMAIN r = Fields /\ r.kind = kind /\ r.of = l /\ r.user = logged
         /\ r.stage = "sent" /\ ~r.live /\ r.rows = {} /\ r.page = <<>>
BY DEF Ask, Blank, Fields

LEMMA LoadTyped ==
  ASSUME logged \in Users, NEW l \in Lists
  PROVE  Typed(Load(l)) /\ Load(l).of = l /\ ~Load(l).live
<1> DEFINE r == Ask("load", l)
<1>1. /\ DOMAIN r = Fields /\ r.kind = "load" /\ r.of = l /\ r.user = logged
      /\ r.stage = "sent" /\ ~r.live /\ r.rows = {} /\ r.page = <<>>
  BY AskTyped
<1>2. r = Load(l)
  BY DEF Load
<1> HIDE DEF r
<1>3. Whole(r) /\ r.of # "page"
  BY <1>1 DEF Whole, Pages, Lists
<1>4. ListTyped(r)
  BY <1>1 DEF ListTyped
<1> QED BY <1>1, <1>2, <1>3, <1>4 DEF Typed

LEMMA LoadsTyped ==
  ASSUME logged \in Users, NEW l \in Lists
  PROVE  \A r \in LoadsFor(l) : Typed(r) /\ ~r.live /\ r.of \in {l, "keys"}
<1>1. "keys" \in Lists
  BY DEF Lists
<1> QED BY <1>1, LoadTyped DEF LoadsFor

LEMMA TurnTyped ==
  ASSUME logged \in Users, PageSize \in Nat, NEW kind \in Pages, NEW pos \in Int, NEW q,
         NEW inst \in 1..opened
  PROVE  LET r == Turn(kind, pos, q, inst) IN Typed(r) /\ ~r.live /\ r.of = "page"
<1> DEFINE r == Turn(kind, pos, q, inst)
<1>1. /\ DOMAIN r = Fields /\ r.kind = kind /\ r.of = "page" /\ r.user = logged
      /\ r.stage = "sent" /\ ~r.live /\ r.page = <<>> /\ r.pos = pos /\ r.inst = inst
  BY DEF Turn, Ask, Blank, Fields
<1> HIDE DEF r
<1>2. r.of \notin Lists /\ Whole(r) /\ Len(r.page) <= PageSize
  BY <1>1 DEF Lists, Whole
<1>3. Typed(r)
  BY <1>1, <1>2 DEF Typed
<1> QED BY <1>1, <1>3 DEF r

-----------------------------------------------------------------------------
\* Nothing the user does touches the server, and no scope is taken back.
LEMMA UserGrows ==
  ASSUME TInv, UNCHANGED server, opened' = opened \/ opened' = opened + 1
  PROVE  ServerInv' /\ Grows
<1>1. ServerInv'
  BY DEF TInv, server, ServerInv, Owned
<1>2. Grows
  BY DEF TInv, server, ServerInv, ScopeInv, Grows
<1> QED BY <1>1, <1>2

LEMMA AskedTyped ==
  ASSUME RequestInv, Grows, NEW asked, \A s \in asked : Typed(s)',
         \A s \in req' : s \in req \cup asked
  PROVE  RequestInv'
BY TypedStays DEF RequestInv

\* The requests that a view lets go are what they were.
LEMMA LetGoTyped ==
  ASSUME RequestInv, Grows, NEW asked, \A s \in asked : Typed(s)' /\ ~s.live,
         req' = LetGo(asked)
  PROVE  RequestInv' /\ \A s \in req' : ~s.live
<1>1. ASSUME NEW r \in req
      PROVE  LET s == [r EXCEPT !.live = FALSE] IN Typed(s) /\ ~s.live
  <2> DEFINE s == [r EXCEPT !.live = FALSE]
  <2>1. Typed(r) /\ DOMAIN r = Fields
    BY DEF RequestInv, Typed, Whole
  <2>2. /\ DOMAIN s = Fields /\ ~s.live /\ s.kind = r.kind /\ s.of = r.of /\ s.user = r.user
        /\ s.row = r.row /\ s.put = r.put /\ s.stage = r.stage /\ s.rows = r.rows
        /\ s.page = r.page /\ s.inst = r.inst /\ s.pos = r.pos
    BY <2>1 DEF Fields
  <2> HIDE DEF s
  <2>3. Typed(s)
    BY <2>1, <2>2 DEF Typed, Whole, ListTyped
  <2> QED BY <2>2, <2>3 DEF s
<1>2. \A s \in req' : s \in asked \/ \E r \in req : s = [r EXCEPT !.live = FALSE]
  BY DEF LetGo
<1>3. \A s \in req' : Typed(s)' /\ ~s.live
  BY <1>1, <1>2, TypedStays
<1> QED BY <1>3 DEF RequestInv

LEMMA FormStays ==
  ASSUME FormInv, Grows, form' = form,
         view' = view \/ view' \notin {"groups", "products"},
         \A s \in req' : s.live => s.of = view \/ (\E r \in req : r.live /\ s.of = r.of)
  PROVE  FormInv'
<1>1. view' \in {"groups", "products"} => form'[1] <= lastId'[view']
  <2> SUFFICES ASSUME view' \in {"groups", "products"} PROVE form'[1] <= lastId'[view']
    OBVIOUS
  <2>1. view' = view /\ view \in Lists
    BY DEF Lists
  <2>2. form[1] \in Nat /\ form[1] <= lastId[view]
    BY <2>1 DEF FormInv
  <2>3. lastId[view] \in Nat /\ lastId'[view] \in Nat /\ lastId[view] <= lastId'[view]
    BY <2>1 DEF Grows
  <2> QED BY <2>1, <2>2, <2>3
<1> QED BY <1>1 DEF FormInv

LEMMA ListStays ==
  ASSUME ListInv, Grows, DOMAIN list' = Lists,
         \A l \in Lists : list'[l] = list[l] \/ list'[l] = EmptyBag
  PROVE  ListInv'
<1>1. \A l \in Lists : BagToSet(list'[l]) \subseteq Pairs(l)
  BY BagOfSet DEF ListInv
<1> QED BY <1>1, PairsGrow DEF ListInv

LEMMA StepBound ==
  ASSUME BoundInv, PanelAssumption, Step, events' = events,
         muddled' \subseteq muddled \cup Lists \cup {"page"}
  PROVE  BoundInv'
BY DEF BoundInv, PanelAssumption, Step

\* What is loaded can only muddle lists and the page.
LEMMA LoadedIn ==
  ASSUME NEW asked, \A r \in asked : r.of \in Lists \cup {"page"}
  PROVE  Loaded(asked) \subseteq muddled \cup Lists \cup {"page"}
BY DEF Loaded

LEMMA ChangedIn ==
  ASSUME NEW l \in Lists, NEW kind
  PROVE  Changed(l, kind) \subseteq muddled \cup Lists \cup {"page"}
BY DEF Changed

LEMMA KeysEmptiedList ==
  ASSUME ListInv, NEW l, list' = KeysEmptied(l)
  PROVE  /\ DOMAIN list' = Lists /\ list'["keys"] = EmptyBag
         /\ \A k \in Lists \ {"keys"} : list'[k] = list[k]
BY DEF ListInv, KeysEmptied, Lists

-----------------------------------------------------------------------------
LEMMA BecomeTyped ==
  ASSUME PanelAssumption, TInv, NEW u \in Users, Become(u) PROVE TInv'
<1> USE DEF TInv
<1>1. ServerInv' /\ Grows
  BY UserGrows DEF Become, scope
<1>2. SessionInv'
  BY DEF Become, SessionInv
<1>3. ListInv'
  BY <1>1, ListStays DEF Become, ListInv
<1>4. FormInv'
  BY <1>1, FormStays DEF Become
<1>5. ScopeInv'
  BY DEF Become, ScopeInv, scope, pager
<1>6. BoundInv'
  BY StepBound DEF Become
<1>7. RequestInv'
  BY <1>1, TypedStays DEF Become, RequestInv
<1> QED BY <1>1, <1>2, <1>3, <1>4, <1>5, <1>6, <1>7

LEMMA SignOutTyped ==
  ASSUME PanelAssumption, TInv, SignOut PROVE TInv'
<1> USE DEF TInv
<1>1. ServerInv' /\ Grows
  BY UserGrows DEF SignOut, scope
<1>2. SessionInv'
  BY DEF SignOut, SessionInv
<1>3. ListInv'
  BY <1>1, ListStays DEF SignOut, ListInv
<1>4. FormInv'
  BY <1>1, FormStays DEF SignOut
<1>5. ScopeInv'
  <2>1. shown' = <<>> /\ position' = 0 /\ query' = AnyFilter /\ view' = "none"
        /\ UNCHANGED <<scope, timer>>
    BY DEF SignOut
  <2>2. Len(shown') <= PageSize
    BY <2>1 DEF PanelAssumption
  <2> QED BY <2>1, <2>2 DEF ScopeInv, scope
<1>6. BoundInv'
  BY StepBound DEF SignOut
<1>7. RequestInv'
  BY <1>1, TypedStays DEF SignOut, RequestInv
<1> QED BY <1>1, <1>2, <1>3, <1>4, <1>5, <1>6, <1>7

LEMMA OpenSettingsTyped ==
  ASSUME PanelAssumption, TInv, OpenSettings PROVE TInv'
<1> USE DEF TInv
<1> DEFINE asked == LoadsFor("groups")
<1>1. ServerInv' /\ Grows
  BY UserGrows DEF OpenSettings, scope
<1>2. logged \in Users /\ "groups" \in Lists /\ "keys" \in Lists
  BY DEF OpenSettings, SessionInv, Lists
<1>3. \A r \in asked : Typed(r) /\ ~r.live /\ r.of \in Lists
  BY <1>2, LoadsTyped
<1>4. req' = req \cup asked /\ muddled' = Loaded(asked)
  BY DEF OpenSettings
<1> HIDE DEF asked
<1>5. SessionInv'
  BY DEF OpenSettings, SessionInv
<1>6. ListInv'
  BY <1>1, ListStays, KeysEmptiedList DEF OpenSettings
<1>7. FormInv'
  BY <1>1, <1>3, <1>4, FormStays DEF OpenSettings
<1>8. ScopeInv'
  BY DEF OpenSettings, ScopeInv, scope, pager
<1>9. BoundInv'
  BY <1>3, <1>4, LoadedIn, StepBound DEF OpenSettings
<1>10. RequestInv'
  BY <1>1, <1>3, <1>4, AskedTyped, TypedStays
<1> QED BY <1>1, <1>5, <1>6, <1>7, <1>8, <1>9, <1>10

LEMMA OpenListTyped ==
  ASSUME PanelAssumption, TInv, NEW l \in {"groups", "products"}, OpenList(l) PROVE TInv'
<1> USE DEF TInv
<1> DEFINE asked == IF list[l] = EmptyBag THEN {Load(l)} ELSE {}
<1>1. ServerInv' /\ Grows
  BY UserGrows DEF OpenList, scope
<1>2. logged \in Users /\ l \in Lists
  BY DEF OpenList, SessionInv, Lists
<1>3. \A r \in asked : Typed(r) /\ ~r.live /\ r.of \in Lists
  BY <1>2, LoadTyped
<1>4. req' = LetGo(asked) /\ muddled' = Loaded(asked)
  BY DEF OpenList
<1> HIDE DEF asked
<1>5. SessionInv'
  BY DEF OpenList, SessionInv
<1>6. ListInv'
  BY <1>1, ListStays DEF OpenList, ListInv
<1>7. RequestInv' /\ \A s \in req' : ~s.live
  BY <1>1, <1>3, <1>4, LetGoTyped, TypedStays
<1>8. FormInv'
  <2>1. lastId' = lastId /\ lastId[l] \in Nat /\ 0 <= lastId[l]
    BY <1>2 DEF OpenList, server, ServerInv
  <2>2. form' = NoForm /\ view' = l
    BY DEF OpenList
  <2> QED BY <1>7, <2>1, <2>2 DEF FormInv, NoForm
<1>9. ScopeInv'
  BY DEF OpenList, ScopeInv, scope, pager
<1>10. BoundInv'
  BY <1>3, <1>4, LoadedIn, StepBound DEF OpenList
<1> QED BY <1>1, <1>5, <1>6, <1>7, <1>8, <1>9, <1>10

LEMMA OpenTransactionsTyped ==
  ASSUME PanelAssumption, TInv, OpenTransactions PROVE TInv'
<1> USE DEF TInv
<1> DEFINE turn == Turn("fetch", 0, AnyFilter, opened + 1)
           asked == LoadsFor("products") \cup {turn}
<1>1. ServerInv' /\ Grows
  BY UserGrows DEF OpenTransactions
<1>2. logged \in Users /\ "products" \in Lists /\ "keys" \in Lists /\ opened \in Nat
  BY DEF OpenTransactions, SessionInv, Lists, ScopeInv
<1>3. \A r \in LoadsFor("products") : Typed(r) /\ ~r.live /\ r.of \in Lists
  BY <1>2, LoadsTyped
<1>4. opened' = opened + 1 /\ logged' = logged
  BY DEF OpenTransactions
<1>5. ASSUME NEW r, r = turn PROVE Typed(r)' /\ ~r.live /\ r.of = "page"
  <2>1. /\ DOMAIN r = Fields /\ r.kind = "fetch" /\ r.of = "page"
        /\ r.user = logged /\ r.stage = "sent" /\ ~r.live /\ r.page = <<>>
        /\ r.pos = 0 /\ r.inst = opened + 1
    BY <1>5 DEF Turn, Ask, Blank, Fields
  <2>2. r.of \notin Lists /\ Whole(r) /\ Len(r.page) <= PageSize
    BY <2>1 DEF Lists, Whole, Pages, PanelAssumption
  <2>3. r.inst \in 1..opened'
    BY <1>2, <1>4, <2>1
  <2> QED BY <1>2, <2>1, <2>2, <2>3 DEF Typed
<1>6. req' = req \cup asked /\ muddled' = Loaded(asked)
  BY DEF OpenTransactions
<1>7. \A r \in asked : Typed(r)' /\ ~r.live /\ r.of \in Lists \cup {"page"}
  <2> HIDE DEF turn
  <2> QED BY <1>1, <1>3, <1>5, TypedStays
<1> HIDE DEF asked, turn
<1>8. SessionInv'
  BY DEF OpenTransactions, SessionInv
<1>9. ListInv'
  BY <1>1, ListStays, KeysEmptiedList DEF OpenTransactions
<1>10. FormInv'
  BY <1>1, <1>6, <1>7, FormStays DEF OpenTransactions
<1>11. ScopeInv'
  <2>1. /\ position' = 0 /\ query' = AnyFilter /\ page' = 0 /\ loading' = TRUE
        /\ error' = FALSE /\ shown' = shown /\ timer' = timer
    BY DEF OpenTransactions
  <2>2. opened' \in Nat /\ opened' >= 1 /\ 1..opened \subseteq 1..opened'
    BY <1>2, <1>4
  <2>3. loading' \in BOOLEAN /\ error' \in BOOLEAN
    BY <2>1
  <2> QED BY <2>1, <2>2, <2>3 DEF ScopeInv
<1>12. BoundInv'
  BY <1>6, <1>7, LoadedIn, StepBound DEF OpenTransactions
<1>13. RequestInv'
  BY <1>1, <1>6, <1>7, AskedTyped
<1> QED BY <1>1, <1>8, <1>9, <1>10, <1>11, <1>12, <1>13

\* A change of a list is asked for.
LEMMA ChangeTyped ==
  ASSUME PanelAssumption, TInv, UNCHANGED <<server, session, list, form, pager, scope, timer>>,
         NEW l \in Lists, NEW s, Typed(s), s.of = l, s.live => l = view,
         req' = req \cup {s}, NEW kind, muddled' = Changed(l, kind), Step, events' = events
  PROVE  TInv'
<1> USE DEF TInv
<1>1. ServerInv' /\ Grows
  BY UserGrows DEF scope
<1>2. SessionInv'
  BY DEF SessionInv, session
<1>3. ListInv'
  BY <1>1, ListStays DEF ListInv
<1>4. FormInv'
  BY <1>1, FormStays DEF session
<1>5. ScopeInv'
  BY DEF ScopeInv, scope, pager, session
<1>6. BoundInv'
  BY ChangedIn, StepBound
<1>7. RequestInv'
  BY <1>1, TypedStays DEF RequestInv
<1> QED BY <1>1, <1>2, <1>3, <1>4, <1>5, <1>6, <1>7

LEMMA SaveKeyTyped ==
  ASSUME PanelAssumption, TInv, NEW name \in Names, SaveKey(name) PROVE TInv'
<1> DEFINE s == [Ask("add", "keys") EXCEPT !.row = <<0, name>>]
<1>1. logged \in Users /\ "keys" \in Lists
  BY DEF SaveKey, TInv, SessionInv, Lists
<1>2. /\ DOMAIN s = Fields /\ s.kind = "add" /\ s.of = "keys" /\ s.user = logged
      /\ s.stage = "sent" /\ ~s.live /\ s.rows = {} /\ s.row = <<0, name>>
  BY DEF Ask, Blank, Fields
<1>3. req' = req \cup {s} /\ muddled' = Changed("keys", "add") /\ Step /\ events' = events
      /\ UNCHANGED <<server, session, list, form, pager, scope, timer>>
  BY DEF SaveKey
<1> HIDE DEF s
<1>4. Typed(s)
  BY <1>1, <1>2 DEF Typed, Whole, ListTyped, Pages
<1> QED BY <1>1, <1>2, <1>3, <1>4, ChangeTyped

LEMMA DeleteKeyTyped ==
  ASSUME PanelAssumption, TInv, NEW row \in BagToSet(list["keys"]), DeleteKey(row)
  PROVE  TInv'
<1> DEFINE s == [Ask("delete", "keys") EXCEPT !.row = row]
<1>1. logged \in Users /\ "keys" \in Lists /\ row \in Pairs("keys")
  BY DEF DeleteKey, TInv, SessionInv, ListInv, Lists
<1>2. /\ DOMAIN s = Fields /\ s.kind = "delete" /\ s.of = "keys" /\ s.user = logged
      /\ s.stage = "sent" /\ ~s.live /\ s.rows = {} /\ s.row = row
  BY DEF Ask, Blank, Fields
<1>3. req' = req \cup {s} /\ muddled' = Changed("keys", "delete") /\ Step /\ events' = events
      /\ UNCHANGED <<server, session, list, form, pager, scope, timer>>
  BY DEF DeleteKey
<1> HIDE DEF s
<1>4. Typed(s)
  BY <1>1, <1>2 DEF Typed, Whole, ListTyped, Pages
<1> QED BY <1>1, <1>2, <1>3, <1>4, ChangeTyped

LEMMA SubmitFormTyped ==
  ASSUME PanelAssumption, TInv, SubmitForm PROVE TInv'
<1> DEFINE s == [Ask(Action, view) EXCEPT !.row = form, !.put = form,
                                          !.live = Action = "edit"]
<1>1. logged \in Users /\ view \in Lists \ {"keys"} /\ view \in {"groups", "products"}
  BY DEF SubmitForm, TInv, SessionInv, Lists
<1>2. /\ DOMAIN s = Fields /\ s.kind = Action /\ s.of = view /\ s.user = logged
      /\ s.stage = "sent" /\ s.live = (Action = "edit") /\ s.rows = {}
      /\ s.row = form /\ s.put = form
  BY DEF Ask, Blank, Fields
<1>3. req' = req \cup {s} /\ muddled' = Changed(view, Action) /\ Step /\ events' = events
      /\ UNCHANGED <<server, session, list, form, pager, scope, timer>>
  BY DEF SubmitForm
<1> HIDE DEF s
<1>4. form[2] \in Names /\ (Action = "edit" => form \in Pairs(view))
  <2>1. form # NoForm
    BY DEF SubmitForm
  <2>2. form \in Nat \X (Names \cup {0}) /\ form[2] \in Names /\ form[1] <= lastId[view]
    BY <1>1, <2>1 DEF TInv, FormInv
  <2>3. lastId[view] \in Nat
    BY <1>1 DEF TInv, ServerInv
  <2>4. Action = "edit" => form[1] \in 1..lastId[view]
    BY <2>2, <2>3 DEF Action
  <2> QED BY <2>2, <2>4 DEF Pairs
<1>5. Action \in {"add", "edit"}
  BY DEF Action
<1>6. Typed(s)
  <2>1. Whole(s)
    BY <1>1, <1>2, <1>5 DEF Whole, Pages, Lists
  <2>2. ListTyped(s)
    BY <1>1, <1>2, <1>4, <1>5 DEF ListTyped
  <2> QED BY <1>1, <1>2, <1>5, <2>1, <2>2 DEF Typed, Lists
<1> QED BY <1>1, <1>2, <1>3, <1>6, ChangeTyped

LEMMA NewFormTyped ==
  ASSUME PanelAssumption, TInv, NEW name \in Names, NewForm(name) PROVE TInv'
<1> USE DEF TInv
<1>1. ServerInv' /\ Grows
  BY UserGrows DEF NewForm, scope
<1>2. SessionInv'
  BY DEF NewForm, SessionInv, session
<1>3. ListInv'
  BY <1>1, ListStays DEF NewForm, ListInv
<1>4. RequestInv' /\ \A s \in req' : ~s.live
  BY <1>1, LetGoTyped DEF NewForm
<1>5. FormInv'
  <2>1. /\ form' = <<0, name>> /\ lastId' = lastId /\ view' = view
        /\ view \in {"groups", "products"}
    BY DEF NewForm, server, session
  <2>2. lastId[view] \in Nat /\ 0 <= lastId[view]
    BY <2>1 DEF ServerInv, Lists
  <2> QED BY <1>4, <2>1, <2>2 DEF FormInv
<1>6. ScopeInv'
  BY DEF NewForm, ScopeInv, scope, pager, session
<1>7. BoundInv'
  BY StepBound DEF NewForm
<1> QED BY <1>1, <1>2, <1>3, <1>4, <1>5, <1>6, <1>7

LEMMA EditFormTyped ==
  ASSUME PanelAssumption, TInv, NEW name \in Names, NEW row, view \in Lists,
         row \in BagToSet(list[view]), EditForm(row[1], name)
  PROVE  TInv'
<1> USE DEF TInv
<1>1. ServerInv' /\ Grows
  BY UserGrows DEF EditForm, scope
<1>2. SessionInv'
  BY DEF EditForm, SessionInv, session
<1>3. ListInv'
  BY <1>1, ListStays DEF EditForm, ListInv
<1>4. /\ form' = <<row[1], name>> /\ lastId' = lastId /\ view' = view
      /\ view \in {"groups", "products"}
  BY DEF EditForm, server, session
<1>5. /\ lastId[view] \in Nat /\ row[1] \in 1..lastId[view]
      /\ form' \in Pairs(view)
  BY <1>4 DEF ServerInv, ListInv, Pairs
<1> PICK put : put = form'
  OBVIOUS
<1>6. /\ req' = {IF r.live THEN [r EXCEPT !.put = put] ELSE r : r \in req}
      /\ \A r \in req : r.live => r.of = view
  BY <1>4 DEF EditForm, FormInv
<1>7. ASSUME NEW r \in req, r.live
      PROVE  LET s == [r EXCEPT !.put = put] IN Typed(s) /\ s.of = r.of
  <2> DEFINE s == [r EXCEPT !.put = put]
  <2>1. Typed(r) /\ DOMAIN r = Fields /\ r.of = view
    BY <1>6, <1>7 DEF RequestInv, Typed, Whole
  <2>2. /\ DOMAIN s = Fields /\ s.live = r.live /\ s.kind = r.kind /\ s.of = r.of
        /\ s.user = r.user
        /\ s.row = r.row /\ s.put = put /\ s.stage = r.stage /\ s.rows = r.rows
        /\ s.page = r.page /\ s.inst = r.inst /\ s.pos = r.pos
    BY <2>1 DEF Fields
  <2> HIDE DEF s
  <2>3. s.put \in Pairs(s.of)
    BY <1>5, <1>7, <2>1, <2>2
  <2>4. Typed(s)
    BY <2>1, <2>2, <2>3 DEF Typed, Whole, ListTyped
  <2> QED BY <2>2, <2>4 DEF s
<1>8. \A s \in req' : Typed(s) /\ \E r \in req : s = r \/ (r.live /\ s.of = r.of)
  BY <1>6, <1>7 DEF RequestInv
<1>9. RequestInv'
  BY <1>1, <1>8, TypedStays DEF RequestInv
<1>10. FormInv'
  <2>1. \A s \in req' : s.live => s.of = view
    BY <1>6, <1>8
  <2>2. row[1] \in Nat /\ row[1] <= lastId[view]
    BY <1>5
  <2> QED BY <1>4, <2>1, <2>2 DEF FormInv
<1>11. ScopeInv'
  BY DEF EditForm, ScopeInv, scope, pager, session
<1>12. BoundInv'
  BY StepBound DEF EditForm
<1> QED BY <1>1, <1>2, <1>3, <1>9, <1>10, <1>11, <1>12

\* A page is asked for.
LEMMA TurnKeeps ==
  ASSUME PanelAssumption, TInv, UNCHANGED <<server, session, list, form, shown, error, opened,
                                            timer, events>>,
         view = "transactions", NEW kind \in Pages, NEW pos \in Int, NEW q,
         req' = req \cup {Turn(kind, pos, q, opened)}, Step,
         muddled' \subseteq muddled \cup Lists \cup {"page"},
         position' \in Int, page' \in Int, query' \subseteq AnyFilter, loading' \in BOOLEAN
  PROVE  TInv'
<1> USE DEF TInv
<1> DEFINE s == Turn(kind, pos, q, opened)
<1>1. ServerInv' /\ Grows
  BY UserGrows
<1>2. opened \in 1..opened /\ logged \in Users /\ PageSize \in Nat
  BY DEF ScopeInv, SessionInv, PanelAssumption
<1>3. Typed(s) /\ ~s.live /\ s.of = "page"
  BY <1>2, TurnTyped
<1>4. SessionInv'
  BY DEF SessionInv, session
<1>5. ListInv'
  BY <1>1, ListStays DEF ListInv
<1>6. FormInv'
  BY <1>1, <1>3, FormStays DEF session
<1>7. ScopeInv'
  BY DEF ScopeInv, session
<1>8. BoundInv'
  BY StepBound
<1>9. RequestInv'
  BY <1>1, <1>3, TypedStays DEF RequestInv
<1> QED BY <1>1, <1>4, <1>5, <1>6, <1>7, <1>8, <1>9

LEMMA FilterTyped ==
  ASSUME PanelAssumption, TInv, NEW q \in Filters, Filter(q) PROVE TInv'
<1> DEFINE asked == {Turn("fetch", FirstPosition, q, opened)}
<1>1. /\ UNCHANGED <<server, session, list, form, shown, error, opened, timer, events>>
      /\ view = "transactions" /\ req' = req \cup asked /\ muddled' = Loaded(asked) /\ Step
      /\ position' = FirstPosition /\ page' = 0 /\ query' = q /\ loading' = TRUE
  BY DEF Filter
<1>2. \A r \in asked : r.of \in Lists \cup {"page"}
  BY TurnShape
<1>3. muddled' \subseteq muddled \cup Lists \cup {"page"}
  BY <1>1, <1>2, LoadedIn
<1>4. q \subseteq AnyFilter /\ FirstPosition \in Int /\ "fetch" \in Pages
  BY DEF AnyFilter, FirstPosition, Pages
<1>5. req' = req \cup {Turn("fetch", FirstPosition, q, opened)}
  BY <1>1
<1>6. position' \in Int /\ page' \in Int /\ query' \subseteq AnyFilter /\ loading' \in BOOLEAN
  BY <1>1, <1>4
<1> HIDE DEF asked
<1> QED BY <1>1, <1>3, <1>4, <1>5, <1>6, TurnKeeps

LEMMA NewRangeTyped ==
  ASSUME PanelAssumption, TInv, NEW q \in Filters, NewRange(q) PROVE TInv'
<1>1. /\ UNCHANGED <<server, session, list, form, shown, position, page, error, opened,
                     timer, events>>
      /\ view = "transactions" /\ query' = q /\ loading' = TRUE /\ Step
      /\ req' = req \cup {Turn("fetch", position, q, opened)}
      /\ muddled' \subseteq muddled \cup Lists \cup {"page"}
  BY DEF NewRange
<1>2. q \subseteq AnyFilter /\ position \in Int /\ page \in Int /\ "fetch" \in Pages
  BY DEF AnyFilter, Pages, TInv, ScopeInv
<1>3. loading' \in BOOLEAN
  BY <1>1
<1> QED BY <1>1, <1>2, <1>3, TurnKeeps

LEMMA TurnPageTyped ==
  ASSUME PanelAssumption, TInv, NEW kind \in {"next", "back"}, TurnPage(kind) PROVE TInv'
<1>1. /\ UNCHANGED <<server, session, list, form, shown, query, page, loading, error, opened,
                     timer, events>>
      /\ view = "transactions" /\ Step
      /\ req' = req \cup {Turn(kind, position', query, opened)}
      /\ muddled' \subseteq muddled \cup Lists \cup {"page"}
      /\ position' = IF kind = "next" THEN position + PageSize
                     ELSE position - (position % PageSize) - PageSize
  BY DEF TurnPage, scope
<1>2. position \in Int /\ page \in Int /\ query \subseteq AnyFilter /\ loading \in BOOLEAN
  BY DEF TInv, ScopeInv
<1>3. position' \in Int /\ kind \in Pages
  BY <1>1, <1>2 DEF PanelAssumption, Pages
<1> QED BY <1>1, <1>2, <1>3, TurnKeeps

LEMMA UserTyped == PanelAssumption /\ TInv /\ User => TInv'
<1> SUFFICES ASSUME PanelAssumption, TInv, User PROVE TInv'
  OBVIOUS
<1>1. ASSUME NEW name \in Names, NEW l \in {view} \cap Lists,
             NEW row \in BagToSet(list[l]), EditForm(row[1], name)
      PROVE  TInv'
  BY <1>1, EditFormTyped
<1> QED
  BY <1>1, BecomeTyped, SignOutTyped, OpenSettingsTyped, OpenListTyped,
     OpenTransactionsTyped, SaveKeyTyped, DeleteKeyTyped, NewFormTyped, SubmitFormTyped,
     FilterTyped, NewRangeTyped, TurnPageTyped
  DEF User, OpenGroups, OpenProducts

-----------------------------------------------------------------------------
\* A request that moves on to another stage.
LEMMA MovesTyped ==
  ASSUME TInv, NEW r \in req, NEW s, Typed(s)', s.live = r.live, s.of = r.of,
         req' = (req \ {r}) \cup {s}, Grows,
         UNCHANGED <<session, list, form, pager, scope, timer>>
  PROVE  SessionInv' /\ ListInv' /\ FormInv' /\ ScopeInv' /\ RequestInv'
<1> USE DEF TInv
<1>1. SessionInv'
  BY DEF SessionInv, session
<1>2. ListInv'
  BY ListStays DEF ListInv
<1>3. FormInv'
  BY FormStays DEF session
<1>4. ScopeInv'
  BY DEF ScopeInv, scope, pager, session
<1>5. RequestInv'
  BY TypedStays DEF RequestInv
<1> QED BY <1>1, <1>2, <1>3, <1>4, <1>5

\* An answer that is typed makes a request that is.
LEMMA AnsweredTyped ==
  ASSUME TInv, Grows, NEW r \in req, NEW rows, NEW seq, Answered(r, rows, seq),
         r.of \in Lists => rows \subseteq Pairs(r.of)',
         r.of = "page" => Len(seq) <= PageSize,
         UNCHANGED <<session, list, form, pager, scope, timer>>
  PROVE  SessionInv' /\ ListInv' /\ FormInv' /\ ScopeInv' /\ RequestInv'
<1> PICK s : s = [r EXCEPT !.stage = "ok", !.rows = rows, !.page = seq]
  OBVIOUS
<1>1. Typed(r)' /\ DOMAIN r = Fields
  BY TypedStays DEF TInv, RequestInv, Typed, Whole
<1>2. /\ DOMAIN s = Fields /\ s.live = r.live /\ s.kind = r.kind /\ s.of = r.of
      /\ s.user = r.user /\ s.row = r.row /\ s.put = r.put /\ s.stage = "ok"
      /\ s.rows = rows /\ s.page = seq /\ s.inst = r.inst /\ s.pos = r.pos
  BY <1>1 DEF Fields
<1>3. req' = (req \ {r}) \cup {s}
  BY DEF Answered
<1>4. Typed(s)'
  BY <1>1, <1>2 DEF Typed, Whole, ListTyped
<1> QED BY <1>2, <1>3, <1>4, MovesTyped

LEMMA FailedTyped ==
  ASSUME TInv, Grows, NEW r \in req, NEW stage \in {"denied", "error"}, Failed(r, stage),
         UNCHANGED <<session, list, form, pager, scope, timer>>
  PROVE  SessionInv' /\ ListInv' /\ FormInv' /\ ScopeInv' /\ RequestInv'
<1> PICK s : s = [r EXCEPT !.stage = stage]
  OBVIOUS
<1>1. Typed(r)' /\ DOMAIN r = Fields
  BY TypedStays DEF TInv, RequestInv, Typed, Whole
<1>2. /\ DOMAIN s = Fields /\ s.live = r.live /\ s.kind = r.kind /\ s.of = r.of
      /\ s.user = r.user /\ s.row = r.row /\ s.put = r.put /\ s.stage = stage
      /\ s.rows = r.rows /\ s.page = r.page /\ s.inst = r.inst /\ s.pos = r.pos
  BY <1>1 DEF Fields
<1>3. req' = (req \ {r}) \cup {s}
  BY DEF Failed
<1>4. Typed(s)'
  BY <1>1, <1>2 DEF Typed, Whole, ListTyped
<1> QED BY <1>2, <1>3, <1>4, MovesTyped

\* A page is no longer than it may be: what is found is a sequence, of which at
\* most PageSize rows are taken.
LEMMA PageShort ==
  ASSUME PanelAssumption, NEW done, Len(done) \in Nat, NEW q, NEW pos \in Nat
  PROVE  Len(PageOf(Matching(done, q), pos)) <= PageSize
<1> DEFINE hits == {k \in 1..Len(done) : done[k] \in q}
           rows == Matching(done, q)
           last == IF pos + PageSize < Len(rows) THEN pos + PageSize ELSE Len(rows)
<1>1. IsFiniteSet(hits)
  <2>1. IsFiniteSet(1..Len(done))
    BY FS_Interval
  <2>2. hits \in SUBSET (1..Len(done))
    OBVIOUS
  <2> HIDE DEF hits
  <2> QED BY <2>1, <2>2, FS_Subset
<1>2. Cardinality(hits) \in Nat
  BY <1>1, FS_CardinalityType
<1>3. DOMAIN rows = 1..Cardinality(hits)
  BY DEF Matching
<1>4. Len(rows) \in Nat
  BY <1>2, <1>3
<1>5. last \in Nat /\ last <= pos + PageSize
  BY <1>4 DEF PanelAssumption
<1>6. PageOf(rows, pos) = [i \in 1..(last - (pos + 1) + 1) |-> rows[i + (pos + 1) - 1]]
  BY DEF PageOf, Limited, SubSeq
<1> DEFINE size == last - (pos + 1) + 1
           taken == PageOf(rows, pos)
<1> HIDE DEF last, rows
<1>7. size \in Int /\ size <= PageSize /\ PageSize \in Nat
  BY <1>5 DEF PanelAssumption
<1>8. DOMAIN taken = 1..size
  BY <1>6
<1> HIDE DEF size, taken
<1>9. CASE size \in Nat
  <2>1. Len(taken) = size
    BY <1>8, <1>9
  <2> QED BY <1>7, <2>1 DEF taken, rows
<1>10. CASE size \notin Nat
  <2> PICK none \in Nat : none = 0
    OBVIOUS
  <2>1. 1..size = 1..none
    <3>1. size < 0
      BY <1>7, <1>10
    <3>2. \A i \in Int : i \notin 1..size /\ i \notin 1..none
      BY <1>7, <3>1
    <3> QED BY <3>2
  <2>2. DOMAIN taken = 1..none
    BY <1>8, <2>1
  <2> HIDE DEF taken
  <2>3. Len(taken) = none
    BY <2>2
  <2> QED BY <1>7, <2>3 DEF taken, rows
<1> QED BY <1>9, <1>10

\* The rows of the table are pairs.
LEMMA RowsPairs ==
  ASSUME ServerInv, NEW l \in Lists, NEW u PROVE Rows(l, u) \subseteq Pairs(l)
<1> SUFFICES ASSUME NEW x \in table[l] PROVE <<x.id, x.name>> \in Pairs(l)
  BY DEF Rows
<1>1. x \in [id : 1..lastId[l], name : Names, owner : Owned(l)]
  BY DEF ServerInv
<1> QED BY <1>1 DEF Pairs

\* A step of the server that adds a row to the table, changes one or takes some away.
LEMMA TableGrows ==
  ASSUME TInv, NEW l \in Lists, UNCHANGED <<booked, opened>>,
         DOMAIN table' = Lists, DOMAIN lastId' = Lists,
         \A k \in Lists \ {l} : table'[k] = table[k] /\ lastId'[k] = lastId[k],
         lastId'[l] = lastId[l] \/ lastId'[l] = lastId[l] + 1,
         \A x \in table'[l] : x \in [id : 1..lastId'[l], name : Names, owner : Owned(l)],
         \A x, y \in table'[l] : x.id = y.id => x = y
  PROVE  ServerInv' /\ Grows
<1> USE DEF TInv
<1>1. \A k \in Lists : lastId[k] \in Nat \ {0}
  BY DEF ServerInv
<1>2. \A k \in Lists : /\ lastId'[k] \in Nat \ {0} /\ lastId[k] <= lastId'[k]
  <2> TAKE k \in Lists
  <2>1. CASE k = l
    BY <1>1, <2>1
  <2>2. CASE k # l
    BY <1>1, <2>2
  <2> QED BY <2>1, <2>2
<1>3. Grows
  BY <1>1, <1>2 DEF Grows, ScopeInv
<1>4. \A k \in Lists :
        /\ \A x \in table'[k] : x \in [id : 1..lastId'[k], name : Names, owner : Owned(k)]
        /\ \A x, y \in table'[k] : x.id = y.id => x = y
  <2> TAKE k \in Lists
  <2>1. CASE k = l
    BY <2>1
  <2>2. CASE k # l
    BY <2>2 DEF ServerInv
  <2> QED BY <2>1, <2>2
<1> QED BY <1>2, <1>3, <1>4 DEF ServerInv, Owned

LEMMA ServeAddGrows ==
  ASSUME TInv, NEW r \in req, ServeAdd(r), UNCHANGED <<booked, opened>>
  PROVE  /\ ServerInv' /\ Grows
         /\ r.of \in Lists /\ <<lastId'[r.of], r.row[2]>> \in Pairs(r.of)'
         /\ lastId'[r.of] = lastId[r.of] + 1
<1> USE DEF TInv
<1> DEFINE l == r.of
<1>1. r.kind = "add" /\ Typed(r)
  BY DEF ServeAdd, RequestInv
<1>2. l \in Lists /\ r.row[2] \in Names /\ r.user \in Users
  BY <1>1 DEF Typed, Whole, Pages, ListTyped
<1>3. /\ lastId' = [lastId EXCEPT ![l] = @ + 1]
      /\ \/ table' = table
         \/ table' = [table EXCEPT ![l] = @ \cup {NewRow(r, lastId'[l])}]
  BY <1>1 DEF ServeAdd
<1>4. /\ DOMAIN table = Lists /\ DOMAIN lastId = Lists /\ lastId[l] \in Nat \ {0}
      /\ \A x \in table[l] : x \in [id : 1..lastId[l], name : Names, owner : Owned(l)]
      /\ \A x, y \in table[l] : x.id = y.id => x = y
  BY <1>2 DEF ServerInv
<1>5. PICK new : new = NewRow(r, lastId'[l])
  OBVIOUS
<1>6. lastId'[l] = lastId[l] + 1
  BY <1>2, <1>3, <1>4
<1>7. new.id = lastId[l] + 1
      /\ new \in [id : 1..lastId'[l], name : Names, owner : Owned(l)]
  BY <1>2, <1>4, <1>5, <1>6 DEF NewRow, Owned
<1>8. \A x \in table[l] : x \in [id : 1..lastId'[l], name : Names, owner : Owned(l)]
                          /\ x.id \in 1..lastId[l]
  BY <1>4, <1>6
<1>9. /\ DOMAIN table' = Lists /\ DOMAIN lastId' = Lists
      /\ \A k \in Lists \ {l} : table'[k] = table[k] /\ lastId'[k] = lastId[k]
      /\ table'[l] \subseteq table[l] \cup {new}
  BY <1>2, <1>3, <1>4, <1>5
<1>10. \A x, y \in table'[l] : x.id = y.id => x = y
  <2>1. \A x \in table[l] : x.id # new.id
    BY <1>4, <1>7, <1>8
  <2> QED BY <1>4, <1>9, <2>1
<1>11. \A x \in table'[l] : x \in [id : 1..lastId'[l], name : Names, owner : Owned(l)]
  BY <1>7, <1>8, <1>9
<1>12. <<lastId'[l], r.row[2]>> \in Pairs(l)'
  <2>1. lastId'[l] \in 1..lastId'[l]
    BY <1>4, <1>6
  <2> QED BY <1>2, <2>1 DEF Pairs
<1> QED BY <1>2, <1>6, <1>9, <1>10, <1>11, <1>12, TableGrows

\* The row is given another name.
Renamed(r, x) == IF x.id = r.row[1] THEN [x EXCEPT !.name = r.row[2]] ELSE x

LEMMA ServeEditGrows ==
  ASSUME TInv, NEW r \in req, ServeEdit(r), UNCHANGED <<booked, opened>>
  PROVE  /\ ServerInv' /\ Grows
         /\ r.of \in Lists \ {"keys"} /\ r.row \in Pairs(r.of)
         /\ \A x \in table[r.of] :
              LET y == Renamed(r, x) IN
              y.id = x.id /\ y.name = (IF x.id = r.row[1] THEN r.row[2] ELSE x.name)
                /\ y.owner = x.owner
<1> USE DEF TInv
<1> DEFINE l == r.of
<1>1. r.kind = "edit" /\ Typed(r)
  BY DEF ServeEdit, RequestInv
<1>2. l \in Lists \ {"keys"} /\ r.row \in Pairs(l)
  BY <1>1 DEF Typed, Whole, Pages, ListTyped
<1>3. /\ UNCHANGED lastId
      /\ \/ table' = table
         \/ table' = [table EXCEPT ![l] = {Renamed(r, x) : x \in @}]
  BY DEF ServeEdit, Renamed
<1>4. /\ DOMAIN table = Lists /\ DOMAIN lastId = Lists /\ lastId[l] \in Nat \ {0}
      /\ \A x \in table[l] : x \in [id : 1..lastId[l], name : Names, owner : Owned(l)]
      /\ \A x, y \in table[l] : x.id = y.id => x = y
  BY <1>2 DEF ServerInv
<1>5. r.row[2] \in Names
  BY <1>2 DEF Pairs
<1>6. \A x \in table[l] :
        LET y == Renamed(r, x) IN
        /\ y.id = x.id /\ y.name = (IF x.id = r.row[1] THEN r.row[2] ELSE x.name)
        /\ y.owner = x.owner
        /\ y \in [id : 1..lastId[l], name : Names, owner : Owned(l)]
  BY <1>4, <1>5 DEF Renamed
<1>7. /\ DOMAIN table' = Lists /\ DOMAIN lastId' = Lists
      /\ \A k \in Lists \ {l} : table'[k] = table[k] /\ lastId'[k] = lastId[k]
      /\ \/ table'[l] = table[l]
         \/ table'[l] = {Renamed(r, x) : x \in table[l]}
  BY <1>2, <1>3, <1>4
<1>8. \A x, y \in table'[l] : x.id = y.id => x = y
  BY <1>4, <1>6, <1>7
<1>9. \A x \in table'[l] : x \in [id : 1..lastId'[l], name : Names, owner : Owned(l)]
  BY <1>3, <1>4, <1>6, <1>7
<1>10. ServerInv' /\ Grows
  BY <1>2, <1>3, <1>7, <1>8, <1>9, TableGrows
<1> QED BY <1>2, <1>6, <1>10

LEMMA ServeDeleteGrows ==
  ASSUME TInv, NEW r \in req, ServeDelete(r), UNCHANGED <<booked, opened>>
  PROVE  ServerInv' /\ Grows
<1> USE DEF TInv
<1> DEFINE gone == {x \in table["keys"] : x.id = r.row[1] /\ x.owner = r.user}
<1>1. table' = [table EXCEPT !["keys"] = @ \ gone] /\ UNCHANGED lastId
  BY DEF ServeDelete
<1>2. "keys" \in Lists
  BY DEF Lists
<1>3. /\ DOMAIN table' = Lists /\ DOMAIN lastId' = Lists
      /\ \A k \in Lists \ {"keys"} : table'[k] = table[k] /\ lastId'[k] = lastId[k]
      /\ table'["keys"] \subseteq table["keys"]
      /\ lastId'["keys"] = lastId["keys"]
  BY <1>1, <1>2 DEF ServerInv
<1>4. /\ \A x \in table'["keys"] :
           x \in [id : 1..lastId'["keys"], name : Names, owner : Owned("keys")]
      /\ \A x, y \in table'["keys"] : x.id = y.id => x = y
  BY <1>2, <1>3 DEF ServerInv
<1> QED BY <1>2, <1>3, <1>4, TableGrows

LEMMA ServeTyped ==
  ASSUME PanelAssumption, TInv, NEW r \in req, Serve(r) PROVE TInv'
<1> USE DEF TInv
<1>1. UNCHANGED <<booked, session, list, form, pager, scope, timer, muddled, counts>>
      /\ opened' = opened
  BY DEF Serve, scope
<1>2. BoundInv'
  BY <1>1 DEF BoundInv, counts
<1>3. Typed(r)
  BY DEF RequestInv
<1>4. ASSUME UNCHANGED <<table, lastId>> PROVE ServerInv' /\ Grows
  BY <1>1, <1>4, UserGrows DEF server
<1>5. CASE ServeLoad(r)
  <2>1. r.of \in Lists /\ r.of # "page"
    BY <1>3, <1>5 DEF ServeLoad, Typed, Whole, Pages, Lists
  <2>2. UNCHANGED <<table, lastId>> /\ Answered(r, Rows(r.of, r.user), <<>>)
    BY <1>5 DEF ServeLoad
  <2>3. Rows(r.of, r.user) \subseteq Pairs(r.of)'
    BY <2>1, <2>2, RowsPairs DEF Pairs
  <2> QED BY <1>1, <1>2, <1>4, <2>1, <2>2, <2>3, AnsweredTyped
<1>6. CASE ServeAdd(r)
  <2>1. /\ ServerInv' /\ Grows
        /\ r.of \in Lists /\ <<lastId'[r.of], r.row[2]>> \in Pairs(r.of)'
    BY <1>1, <1>6, ServeAddGrows
  <2>2. \/ Failed(r, "error")
        \/ Answered(r, {<<lastId'[r.of], r.row[2]>>}, <<>>)
    BY <1>6 DEF ServeAdd
  <2>3. r.of # "page"
    BY <2>1 DEF Lists
  <2> QED BY <1>1, <1>2, <2>1, <2>2, <2>3, AnsweredTyped, FailedTyped
<1>7. CASE ServeEdit(r)
  <2>1. ServerInv' /\ Grows /\ r.of \in Lists /\ r.of # "page"
    BY <1>1, <1>7, ServeEditGrows DEF Lists
  <2>2. Failed(r, "error") \/ Answered(r, {}, <<>>)
    BY <1>7 DEF ServeEdit
  <2> QED BY <1>1, <1>2, <2>1, <2>2, AnsweredTyped, FailedTyped
<1>8. CASE ServeDelete(r)
  <2>1. ServerInv' /\ Grows
    BY <1>1, <1>8, ServeDeleteGrows
  <2>2. Failed(r, "error") \/ Answered(r, {}, <<>>)
    BY <1>8 DEF ServeDelete
  <2>3. r.of # "page"
    BY <1>3, <1>8 DEF ServeDelete, Typed, Whole, Pages
  <2> QED BY <1>1, <1>2, <2>1, <2>2, <2>3, AnsweredTyped, FailedTyped
<1>9. CASE ServePage(r)
  <2> DEFINE seq == PageOf(Found(r.user, r.query, Len(booked[r.user])), r.pos)
  <2>1. UNCHANGED <<table, lastId>>
        /\ IF r.pos < 0 THEN Failed(r, "error") ELSE Answered(r, {}, seq)
    BY <1>9 DEF ServePage
  <2>2. r.of = "page" /\ r.pos \in Int /\ r.user \in Users /\ r.of \notin Lists
    BY <1>3, <1>9 DEF ServePage, Typed, Whole, Lists
  <2>3. ASSUME r.pos >= 0 PROVE Len(seq) <= PageSize
    <3>1. booked[r.user] \in Seq(AnyFilter)
      BY <2>2 DEF ServerInv
    <3>2. SubSeq(booked[r.user], 1, Len(booked[r.user])) = booked[r.user]
      BY <3>1
    <3>3. r.pos \in Nat /\ Len(booked[r.user]) \in Nat
      BY <2>2, <2>3, <3>1
    <3> QED BY <3>2, <3>3, PageShort DEF Found
  <2> HIDE DEF seq
  <2> QED BY <1>1, <1>2, <1>4, <2>1, <2>2, <2>3, AnsweredTyped, FailedTyped
<1> QED BY <1>5, <1>6, <1>7, <1>8, <1>9 DEF Serve

LEMMA BookTyped ==
  ASSUME PanelAssumption, TInv, NEW kind \in AnyFilter, Book(kind) PROVE TInv'
<1> USE DEF TInv
<1>1. /\ UNCHANGED <<table, lastId, session, list, form, pager, scope, timer, req, muddled,
                     steps>>
      /\ view = "transactions" /\ Event
      /\ booked' = [booked EXCEPT ![logged] = Append(@, kind)]
  BY DEF Book
<1>2. booked' \in [Users -> Seq(AnyFilter)]
  <2>1. logged \in Users /\ booked[logged] \in Seq(AnyFilter)
    BY <1>1 DEF ServerInv, SessionInv
  <2>2. Append(booked[logged], kind) \in Seq(AnyFilter)
    BY <2>1
  <2> QED BY <1>1, <2>1, <2>2 DEF ServerInv
<1>3. ServerInv'
  BY <1>1, <1>2 DEF ServerInv, Owned
<1>4. Grows
  BY <1>1 DEF ServerInv, ScopeInv, scope, Grows
<1>5. SessionInv'
  BY <1>1 DEF SessionInv, session
<1>6. ListInv'
  BY <1>1, <1>4, ListStays DEF ListInv
<1>7. FormInv'
  BY <1>1, <1>4, FormStays DEF session
<1>8. ScopeInv'
  BY <1>1 DEF ScopeInv, scope, pager, session
<1>9. BoundInv'
  BY <1>1 DEF BoundInv, Event, PanelAssumption
<1>10. RequestInv'
  BY <1>1, <1>4, TypedStays DEF RequestInv
<1> QED BY <1>3, <1>5, <1>6, <1>7, <1>8, <1>9, <1>10

LEMMA LoseTyped ==
  ASSUME PanelAssumption, TInv, NEW r \in req, Lose(r) PROVE TInv'
<1> USE DEF TInv
<1>1. /\ UNCHANGED <<server, session, list, form, pager, scope, timer, steps>> /\ Event
      /\ \E stage \in {"denied", "error"} : Failed(r, stage)
      /\ muddled' = muddled \/ muddled' = muddled \cup {r.of}
  BY DEF Lose
<1>2. ServerInv' /\ Grows
  BY <1>1, UserGrows DEF scope
<1>3. r.of \in Lists \cup {"page"}
  BY DEF RequestInv, Typed
<1>4. BoundInv'
  BY <1>1, <1>3 DEF BoundInv, Event, PanelAssumption
<1> QED BY <1>1, <1>2, <1>4, FailedTyped

\* What the answer makes of a list is made of rows with ids that it has given.
LEMMA AfterTyped ==
  ASSUME NEW r, Typed(r), r.of \in Lists, NEW old, BagToSet(old) \subseteq Pairs(r.of),
         NEW new \in After(r, old)
  PROVE  BagToSet(new) \subseteq Pairs(r.of)
<1>1. ListTyped(r) /\ r.rows \subseteq Pairs(r.of) /\ BagToSet(SetToBag(r.rows)) = r.rows
  BY BagOfSet DEF Typed, ListTyped
<1>2. CASE r.kind = "load"
  <2>1. new = SetToBag(r.rows) \/ new = old (+) SetToBag(r.rows)
    BY <1>2 DEF After, AfterLoad
  <2> QED BY <1>1, <2>1, BagDomains
<1>3. CASE r.kind = "add"
  <2>1. new = old (+) SetToBag(r.rows)
    BY <1>3 DEF After, AfterAdd
  <2> QED BY <1>1, <2>1, BagDomains
<1>4. CASE r.kind = "edit"
  <2>1. PICK m : new = IF m = EmptyBag THEN old ELSE (old (-) m) (+) SetToBag({r.put})
    BY <1>4 DEF After, AfterEdit
  <2>2. r.put \in Pairs(r.of) /\ BagToSet(SetToBag({r.put})) = {r.put}
    BY <1>1, <1>4, BagOfSet DEF ListTyped
  <2>3. CASE m = EmptyBag
    BY <2>1, <2>3
  <2>4. CASE m # EmptyBag
    <3>1. /\ BagToSet(new) = BagToSet(old (-) m) \cup BagToSet(SetToBag({r.put}))
          /\ BagToSet(old (-) m) \subseteq BagToSet(old)
      BY <2>1, <2>4, BagDomains
    <3> QED BY <2>2, <3>1
  <2> QED BY <2>3, <2>4
<1>5. CASE r.kind = "delete"
  <2>1. PICK m : new = old (-) m
    BY <1>5 DEF After, AfterDelete
  <2> QED BY <2>1, BagDomains
<1> QED BY <1>1, <1>2, <1>3, <1>4, <1>5 DEF ListTyped

LEMMA AnswerTyped ==
  ASSUME PanelAssumption, TInv, NEW r \in req, Answer(r) PROVE TInv'
<1> USE DEF TInv
<1>1. /\ UNCHANGED <<server, logged, form, counts>> /\ req' = req \ {r}
      /\ (view' = "none" /\ self' = NoUser) \/ UNCHANGED <<view, self>>
  BY DEF Answer
<1>2. opened' = opened
  BY DEF Answer, ListAnswer, PageAnswer, scope
<1>3. ServerInv' /\ Grows
  BY <1>1, <1>2, UserGrows
<1>4. SessionInv'
  BY <1>1 DEF SessionInv
<1>5. FormInv'
  BY <1>1, <1>3, FormStays
<1>6. RequestInv' /\ Typed(r)
  BY <1>1, <1>3, TypedStays DEF RequestInv
<1>7. CASE ListAnswer(r)
  <2>1. /\ r.of \in Lists /\ UNCHANGED <<pager, scope, timer>>
        /\ list' = list \/ \E new \in After(r, list[r.of]) : list' = [list EXCEPT ![r.of] = new]
        /\ muddled' = muddled \/ muddled' = muddled \cup {r.of}
    BY <1>7 DEF ListAnswer
  <2>2. /\ DOMAIN list' = Lists
        /\ \A l \in Lists : BagToSet(list'[l]) \subseteq Pairs(l)
    <3>1. CASE list' = list
      BY <3>1 DEF ListInv
    <3>2. CASE \E new \in After(r, list[r.of]) : list' = [list EXCEPT ![r.of] = new]
      <4>1. PICK new \in After(r, list[r.of]) : list' = [list EXCEPT ![r.of] = new]
        BY <3>2
      <4>2. BagToSet(new) \subseteq Pairs(r.of)
        BY <1>6, <2>1, AfterTyped DEF ListInv
      <4> QED BY <2>1, <4>1, <4>2 DEF ListInv
    <3> QED BY <2>1, <3>1, <3>2
  <2>3. ListInv'
    BY <1>3, <2>2, PairsGrow DEF ListInv
  <2>4. ScopeInv'
    BY <1>1, <2>1 DEF ScopeInv, scope, pager
  <2>5. BoundInv'
    BY <1>1, <2>1 DEF BoundInv, counts
  <2> QED BY <1>3, <1>4, <1>5, <1>6, <2>3, <2>4, <2>5
<1>8. CASE PageAnswer(r)
  <2>1. /\ r.of = "page" /\ UNCHANGED <<list, position, query, loading>>
        /\ shown' = r.page \/ shown' = <<>>
        /\ timer' = timer \/ timer' = timer \cup {r.inst}
        /\ error' = error \/ error' = (r.stage # "ok")
        /\ page' \in {page, page + 1, page - 1}
        /\ muddled' = muddled \/ muddled' = muddled \cup {"page"}
    BY <1>8 DEF PageAnswer, EndsLoading
  <2>2. Len(r.page) <= PageSize /\ r.inst \in 1..opened
    BY <1>6, <2>1 DEF Typed
  <2>3. Len(shown') <= PageSize
    BY <2>1, <2>2 DEF PanelAssumption
  <2>4. error' \in BOOLEAN
    BY <2>1 DEF ScopeInv
  <2>5. ScopeInv'
    <3>1. timer' \subseteq 1..opened' /\ page' \in Int
      <4>1. timer \subseteq 1..opened /\ page \in Int
        BY DEF ScopeInv
      <4>2. page' \in Int
        BY <2>1, <4>1
      <4>3. timer' \subseteq 1..opened
        BY <2>1, <2>2, <4>1
      <4> QED BY <1>2, <4>2, <4>3
    <3>2. view' = "transactions" => opened' >= 1
      <4>1. view' = "transactions" => view = "transactions"
        BY <1>1
      <4> QED BY <1>2, <4>1 DEF ScopeInv
    <3> QED BY <1>2, <2>1, <2>3, <2>4, <3>1, <3>2 DEF ScopeInv
  <2>6. ListInv'
    BY <1>3, <2>1, ListStays DEF ListInv
  <2>7. BoundInv'
    BY <1>1, <2>1 DEF BoundInv, counts
  <2> QED BY <1>3, <1>4, <1>5, <1>6, <2>5, <2>6, <2>7
<1> QED BY <1>7, <1>8 DEF Answer

\* A step that leaves all but the end of a loading.
LEMMA TimerTyped ==
  ASSUME TInv, UNCHANGED <<server, session, list, form, pager, page, error, opened, req, muddled,
                           counts>>,
         loading' \in BOOLEAN, timer' \subseteq timer
  PROVE  TInv'
<1> USE DEF TInv
<1>1. ServerInv' /\ Grows
  BY UserGrows
<1>2. SessionInv'
  BY DEF SessionInv, session
<1>3. ListInv'
  BY <1>1, ListStays DEF ListInv
<1>4. FormInv'
  BY <1>1, FormStays DEF session
<1>5. ScopeInv'
  BY DEF ScopeInv, pager, session
<1>6. BoundInv'
  BY DEF BoundInv, counts
<1>7. RequestInv'
  BY <1>1, TypedStays DEF RequestInv
<1> QED BY <1>1, <1>2, <1>3, <1>4, <1>5, <1>6, <1>7

LEMMA StepTyped == PanelAssumption /\ TInv /\ [Next]_vars => TInv'
<1> SUFFICES ASSUME PanelAssumption, TInv, [Next]_vars PROVE TInv'
  OBVIOUS
<1>1. ASSUME NEW i, TimerFires(i) PROVE TInv'
  <2>1. loading' \in BOOLEAN
    BY <1>1 DEF TimerFires
  <2>2. timer' \subseteq timer
    BY <1>1 DEF TimerFires
  <2>3. UNCHANGED <<server, session, list, form, pager, page, error, opened, req, muddled,
                    counts>>
    BY <1>1 DEF TimerFires
  <2> QED BY <2>1, <2>2, <2>3, TimerTyped
<1>2. CASE UNCHANGED vars
  <2>1. loading' \in BOOLEAN
    BY <1>2 DEF vars, scope, TInv, ScopeInv
  <2> QED BY <1>2, <2>1, TimerTyped DEF vars, scope
<1> QED
  BY <1>1, <1>2, UserTyped, BookTyped, LoseTyped, ServeTyped, AnswerTyped DEF Next, Handle

LEMMA AlwaysTyped == Spec => []TInv
BY PanelAssumption, InitTyped, StepTyped, PTL DEF Spec

\* Ids that a list or a request holds were given by the table, an owner goes with
\* the keys and only with them, a page never holds more than the page size, for any
\* users, names and filters.
THEOREM TypeCorrect == Spec => []TypeOK
BY PanelAssumption, AlwaysTyped, TypesFollow, PTL

-----------------------------------------------------------------------------
\* The row that the form may change.
FormIds(l) == IF view = l THEN {form[1]} \ {0} ELSE {}

\* The list is what the answer to its one request will make it.
Loading(l) ==
  /\ list[l] = EmptyBag
  /\ \E r : /\ Pending(l) = {r} /\ r.kind = "load"
            /\ r.stage = "ok" => r.rows = Rows(l, logged)

\* It is empty, and the next view that shows it will load it.
NotLoaded(l) ==
  /\ l # "keys" /\ list[l] = EmptyBag
  /\ \A r \in Pending(l) : r.kind # "load"

\* It follows the table, each row once.
Follows(l) ==
  /\ list[l] = SetToBag(BagToSet(list[l]))
  /\ InStep(Pending(l), BagToSet(list[l]), Rows(l, logged), FormIds(l))

\* What is promised of a list, and for which: the keys are loaded by every view
\* that shows them and no request for them is another user's.
Mirrors(l) ==
  /\ Loading(l) \/ NotLoaded(l) \/ Follows(l)
  /\ l = "keys" => \A r \in Pending(l) : r.user = logged

Counts(l) ==
  /\ l \in Lists \ muddled
  /\ l = "keys" => view \in {"settings", "transactions"}

AInv == \A l : Counts(l) => Mirrors(l)

LEMMA FollowsOf ==
  ASSUME NEW l, NEW S, list[l] = SetToBag(S),
         InStep(Pending(l), S, Rows(l, logged), FormIds(l))
  PROVE  Follows(l)
BY BagOfSet DEF Follows

LEMMA FollowsNext ==
  ASSUME NEW l, NEW S, list'[l] = SetToBag(S),
         InStep(Pending(l)', S, Rows(l, logged)', FormIds(l)')
  PROVE  Follows(l)'
BY BagOfSet DEF Follows

\* The rows of a list that belongs to all are the same for everyone.
LEMMA RowsStay ==
  ASSUME ServerInv, NEW l \in Lists, table'[l] = table[l], l = "keys" => logged' = logged
  PROVE  Rows(l, logged)' = Rows(l, logged)
<1>1. CASE l = "keys"
  BY <1>1 DEF Rows
<1>2. CASE l # "keys"
  <2>1. ASSUME NEW x \in table[l] PROVE x.owner = NoUser
    <3>1. x \in [id : 1..lastId[l], name : Names, owner : Owned(l)]
      BY DEF ServerInv
    <3> QED BY <1>2, <3>1 DEF Owned
  <2> QED BY <2>1 DEF Rows
<1> QED BY <1>1, <1>2

LEMMA RowsShared ==
  ASSUME ServerInv, NEW l \in Lists, l # "keys", NEW u, NEW v
  PROVE  Rows(l, u) = Rows(l, v)
<1>1. ASSUME NEW x \in table[l] PROVE x.owner = NoUser
  <2>1. x \in [id : 1..lastId[l], name : Names, owner : Owned(l)]
    BY DEF ServerInv
  <2> QED BY <2>1 DEF Owned
<1> QED BY <1>1 DEF Rows

LEMMA RowsUnique ==
  ASSUME ServerInv, NEW l \in Lists, NEW u PROVE UniqueIds(Rows(l, u))
<1>1. \A x, y \in table[l] : x.id = y.id => x = y
  BY DEF ServerInv
<1>2. \A p \in Rows(l, u) : \E x \in table[l] : p = <<x.id, x.name>>
  BY DEF Rows
<1> QED BY <1>1, <1>2 DEF UniqueIds

\* A step that may only shorten what the form refers to.
LEMMA MirrorsStay ==
  ASSUME ServerInv, NEW l \in Lists, Mirrors(l), list'[l] = list[l],
         Pending(l)' = Pending(l), table'[l] = table[l], l = "keys" => logged' = logged,
         FormIds(l)' \subseteq FormIds(l)
  PROVE  Mirrors(l)'
<1>1. Rows(l, logged)' = Rows(l, logged)
  BY RowsStay
<1>2. Loading(l) => Loading(l)'
  BY <1>1 DEF Loading
<1>3. NotLoaded(l) => NotLoaded(l)'
  BY DEF NotLoaded
<1>4. ASSUME Follows(l) PROVE Follows(l)'
  <2> DEFINE S == BagToSet(list[l])
  <2>1. list[l] = SetToBag(S) /\ InStep(Pending(l), S, Rows(l, logged), FormIds(l))
    BY <1>4 DEF Follows
  <2>2. \A a \in Pending(l) : Made(a, "add") => \A id \in FormIds(l)' : ~HasId(a.rows, id)
    BY <2>1 DEF InStep, Older
  <2>3. InStep(Pending(l), S, Rows(l, logged), FormIds(l)')
    BY <2>1, <2>2, FormInStep
  <2> HIDE DEF S
  <2> QED BY <1>1, <2>1, <2>3, FollowsNext
<1> QED BY <1>2, <1>3, <1>4 DEF Mirrors

\* A view that lets its requests go.
LEMMA MirrorsLetGo ==
  ASSUME TInv, NEW l \in Lists, Mirrors(l), list'[l] = list[l],
         NEW asked, \A s \in asked : s.of # l, req' = LetGo(asked), table'[l] = table[l],
         logged' = logged, FormIds(l)' = {}
  PROVE  Mirrors(l)'
<1> PICK f : f = [r \in Pending(l) |-> [r EXCEPT !.live = FALSE]]
  OBVIOUS
<1>1. Rows(l, logged)' = Rows(l, logged)
  BY RowsStay DEF TInv
<1>2. ASSUME NEW r \in req
      PROVE  SameRequest([r EXCEPT !.live = FALSE], r)
  <2>1. DOMAIN r = Fields
    BY DEF TInv, RequestInv, Typed, Whole
  <2> QED BY <2>1 DEF Fields, SameRequest
<1>3. \A r \in Pending(l) : f[r] = [r EXCEPT !.live = FALSE] /\ SameRequest(f[r], r)
  BY <1>2 DEF Pending
<1>4. Renews(f, Pending(l), Pending(l)')
  <2>1. \A s \in req' : s \in asked \/ \E r \in req : s = [r EXCEPT !.live = FALSE]
    BY DEF LetGo
  <2>2. \A r \in req : [r EXCEPT !.live = FALSE] \in req'
    BY DEF LetGo
  <2>3. ASSUME NEW s \in Pending(l)' PROVE \E r \in Pending(l) : s = f[r]
    <3>1. s \in req' /\ s.of = l
      BY DEF Pending
    <3>2. PICK r \in req : s = [r EXCEPT !.live = FALSE]
      BY <2>1, <3>1
    <3>3. r \in Pending(l)
      BY <1>2, <3>1, <3>2 DEF Pending, SameRequest
    <3> QED BY <1>3, <3>2, <3>3
  <2>4. ASSUME NEW r \in Pending(l) PROVE f[r] \in Pending(l)'
    <3>1. f[r] \in req' /\ f[r].of = l
      BY <1>3, <2>2 DEF Pending, SameRequest
    <3> QED BY <3>1 DEF Pending
  <2> QED BY <1>3, <2>3, <2>4 DEF Renews
<1>5. ASSUME Loading(l) PROVE Loading(l)'
  <2>1. PICK r : /\ Pending(l) = {r} /\ r.kind = "load"
                 /\ r.stage = "ok" => r.rows = Rows(l, logged)
    BY <1>5 DEF Loading
  <2>2. SameRequest(f[r], r) /\ f[r] \in Pending(l)' /\ \A s \in Pending(l)' : s = f[r]
    BY <1>4, <2>1 DEF Renews
  <2>3. list'[l] = EmptyBag
    BY <1>5 DEF Loading
  <2>4. Pending(l)' = {f[r]}
    BY <2>2
  <2> QED BY <1>1, <2>1, <2>2, <2>3, <2>4 DEF Loading, SameRequest
<1>6. NotLoaded(l) => NotLoaded(l)'
  BY <1>4 DEF NotLoaded, Renews, SameRequest
<1>7. ASSUME Follows(l) PROVE Follows(l)'
  <2> DEFINE S == BagToSet(list[l])
  <2>1. list[l] = SetToBag(S) /\ InStep(Pending(l), S, Rows(l, logged), FormIds(l))
    BY <1>7 DEF Follows
  <2>2. InStep(Pending(l), S, Rows(l, logged), {})
    BY <2>1, FormInStep
  <2>3. InStep(Pending(l)', S, Rows(l, logged), {})
    BY <1>4, <2>2, SameInStep
  <2> HIDE DEF S
  <2> QED BY <1>1, <2>1, <2>3, FollowsNext
<1>8. l = "keys" => \A r \in Pending(l)' : r.user = logged'
  BY <1>4 DEF Mirrors, Renews, SameRequest
<1> QED BY <1>5, <1>6, <1>7, <1>8 DEF Mirrors

\* A list that is loaded with nothing else on its way is on its way.
LEMMA LoadAsked ==
  ASSUME NEW l, NEW asked, NEW load \in asked, load = Load(l),
         \A s \in asked : s.of = l => s = load,
         l \notin Loaded(asked), list'[l] = EmptyBag,
         \A s \in req' : s.of = l => s \in asked \/ Pending(l) # {}, load \in req',
         logged' = logged
  PROVE  Mirrors(l)'
<1>1. load.kind = "load" /\ load.of = l /\ load.stage = "sent" /\ load.user = logged
  BY DEF Load, Ask, Blank
<1>2. Pending(l) = {}
  BY <1>1 DEF Loaded
<1>3. Pending(l)' = {load}
  BY <1>1, <1>2 DEF Pending
<1>4. Loading(l)'
  BY <1>1, <1>3 DEF Loading
<1> QED BY <1>1, <1>3, <1>4 DEF Mirrors

\* One that is not loaded counts now if it counts then.
LEMMA NotAsked ==
  ASSUME NEW l, NEW asked, \A s \in asked : s.of # l, l \notin Loaded(asked)
  PROVE  l \notin muddled
BY DEF Loaded

-----------------------------------------------------------------------------
LEMMA BecomeMirrors ==
  ASSUME TInv, AInv, NEW u, Become(u), NEW l, Counts(l)' PROVE Mirrors(l)'
<1>1. /\ view' = "dashboard" /\ UNCHANGED <<table, list, req, muddled>>
  BY DEF Become, server
<1>2. l \in Lists /\ l # "keys" /\ Mirrors(l) /\ view' # l
  BY <1>1 DEF Counts, AInv, Lists
<1>3. Pending(l)' = Pending(l) /\ FormIds(l)' = {}
  BY <1>1, <1>2 DEF Pending, FormIds
<1> QED BY <1>1, <1>2, <1>3, MirrorsStay DEF TInv

\* What a list followed is not loaded any more.
LEMMA SignOutMirrors ==
  ASSUME TInv, AInv, SignOut, NEW l, Counts(l)' PROVE Mirrors(l)'
<1>1. /\ view' = "none" /\ UNCHANGED <<table, req, muddled>>
      /\ list' = [k \in Lists |-> EmptyBag]
  BY DEF SignOut, server
<1>2. l \in Lists /\ l # "keys" /\ Mirrors(l) /\ list'[l] = EmptyBag
  BY <1>1 DEF Counts, AInv
<1>3. Pending(l)' = Pending(l) /\ Rows(l, logged)' = Rows(l, logged)
  BY <1>1, <1>2, RowsStay DEF Pending, TInv
<1>4. Loading(l) => Loading(l)'
  BY <1>2, <1>3 DEF Loading
<1>5. NotLoaded(l) \/ Follows(l) => NotLoaded(l)'
  BY <1>2, <1>3 DEF NotLoaded, Follows, InStep
<1> QED BY <1>2, <1>4, <1>5 DEF Mirrors

\* A view that shows the keys, and one other list.
LEMMA ShowsKeys ==
  ASSUME TInv, AInv, NEW other \in {"groups", "products"},
         view' \in {"settings", "transactions"}, list' = KeysEmptied(other), table' = table,
         logged' = logged,
         NEW asked, LoadsFor(other) \subseteq asked,
         \A s \in asked : s \in LoadsFor(other) \/ s.of = "page",
         req' = req \cup asked, muddled' = Loaded(asked), NEW l, Counts(l)'
  PROVE  Mirrors(l)'
<1>1. l \in Lists /\ l # "page" /\ l \notin Loaded(asked)
  BY DEF Counts, Lists
<1>2. /\ \A k : Load(k).of = k
      /\ Load("keys") \in asked /\ (list[other] = EmptyBag => Load(other) \in asked)
      /\ \A s \in LoadsFor(other) :
           s = Load("keys") \/ (s = Load(other) /\ list[other] = EmptyBag)
  <2>1. \A k : Load(k).of = k
    BY AskShape DEF Load
  <2> QED BY <2>1 DEF LoadsFor
<1>3. \A s \in req' : s.of = l => s \in asked \/ Pending(l) # {}
  BY DEF Pending
<1>4. /\ list'["keys"] = EmptyBag
      /\ \A k \in Lists \ {"keys"} : list'[k] = list[k]
  BY KeysEmptiedList DEF TInv
<1>5. ASSUME l = "keys" \/ (l = other /\ list[other] = EmptyBag) PROVE Mirrors(l)'
  <2> PICK load : load = Load(l)
    OBVIOUS
  <2>1. load \in asked /\ load \in req' /\ \A s \in asked : s.of = l => s = load
    BY <1>1, <1>2, <1>5
  <2>2. list'[l] = EmptyBag
    BY <1>1, <1>4, <1>5
  <2> QED BY <1>1, <1>3, <2>1, <2>2, LoadAsked
<1>6. ASSUME l # "keys", l = other => list[other] # EmptyBag PROVE Mirrors(l)'
  <2>1. \A s \in asked : s.of # l
    BY <1>1, <1>2, <1>6
  <2>2. Mirrors(l)
    BY <1>1, <1>6, <2>1, NotAsked DEF Counts, AInv
  <2>3. Pending(l)' = Pending(l) /\ FormIds(l)' = {} /\ list'[l] = list[l]
    BY <1>1, <1>4, <1>6, <2>1 DEF Pending, FormIds, Lists
  <2> QED BY <1>1, <1>6, <2>2, <2>3, MirrorsStay DEF TInv
<1> QED BY <1>5, <1>6

LEMMA OpenSettingsMirrors ==
  ASSUME TInv, AInv, OpenSettings, NEW l, Counts(l)' PROVE Mirrors(l)'
<1>1. /\ view' = "settings" /\ list' = KeysEmptied("groups") /\ table' = table
      /\ logged' = logged /\ req' = req \cup LoadsFor("groups")
      /\ muddled' = Loaded(LoadsFor("groups"))
  BY DEF OpenSettings, server
<1> QED BY <1>1, ShowsKeys

LEMMA OpenTransactionsMirrors ==
  ASSUME TInv, AInv, OpenTransactions, NEW l, Counts(l)' PROVE Mirrors(l)'
<1> DEFINE turn == Turn("fetch", 0, AnyFilter, opened + 1)
           asked == LoadsFor("products") \cup {turn}
<1>1. turn.of = "page"
  BY DEF Turn, Ask, Blank
<1>2. /\ view' = "transactions" /\ list' = KeysEmptied("products") /\ table' = table
      /\ logged' = logged /\ req' = req \cup asked /\ muddled' = Loaded(asked)
  BY DEF OpenTransactions, server
<1> HIDE DEF turn
<1>3. LoadsFor("products") \subseteq asked
      /\ \A s \in asked : s \in LoadsFor("products") \/ s.of = "page"
  BY <1>1
<1> HIDE DEF asked
<1> QED BY <1>2, <1>3, ShowsKeys

LEMMA OpenListMirrors ==
  ASSUME TInv, AInv, NEW o \in {"groups", "products"}, OpenList(o), NEW l, Counts(l)'
  PROVE  Mirrors(l)'
<1> DEFINE asked == IF list[o] = EmptyBag THEN {Load(o)} ELSE {}
<1>1. /\ view' = o /\ form' = NoForm /\ list' = list /\ table' = table /\ logged' = logged
      /\ req' = LetGo(asked) /\ muddled' = Loaded(asked)
  BY DEF OpenList, server
<1>2. Load(o).of = o
  BY DEF Load, Ask, Blank
<1>3. l \in Lists /\ l # "keys" /\ l \notin Loaded(asked)
  BY <1>1 DEF Counts
<1>4. FormIds(l)' = {}
  BY <1>1 DEF FormIds, NoForm
<1>5. CASE \E s \in asked : s.of = l
  <2>1. l = o /\ list[l] = EmptyBag /\ asked = {Load(l)}
    BY <1>2, <1>5
  <2> PICK load : load = Load(l)
    OBVIOUS
  <2>2. load \in asked /\ \A s \in asked : s = load
    BY <2>1
  <2>3. load \in req'
    BY <1>1, <2>2 DEF LetGo
  <2>4. \A s \in req' : s.of = l => s \in asked \/ Pending(l) # {}
    <3>1. ASSUME NEW r \in req PROVE [r EXCEPT !.live = FALSE].of = r.of
      BY DEF TInv, RequestInv, Typed, Whole, Fields
    <3>2. \A s \in req' : s \in asked \/ \E r \in req : s = [r EXCEPT !.live = FALSE]
      BY <1>1 DEF LetGo
    <3>3. \A s \in req' : s \in asked \/ \E r \in req : s.of = r.of
      BY <3>1, <3>2
    <3> HIDE DEF asked
    <3> QED BY <3>3 DEF Pending
  <2> HIDE DEF asked
  <2> QED BY <1>1, <1>3, <2>1, <2>2, <2>3, <2>4, LoadAsked
<1>6. CASE \A s \in asked : s.of # l
  <2> HIDE DEF asked
  <2>1. Mirrors(l)
    BY <1>3, <1>6, NotAsked DEF Counts, AInv
  <2> QED BY <1>1, <1>3, <1>4, <1>6, <2>1, MirrorsLetGo
<1> QED BY <1>5, <1>6

LEMMA NewFormMirrors ==
  ASSUME TInv, AInv, NEW name, NewForm(name), NEW l, Counts(l)' PROVE Mirrors(l)'
<1>1. /\ view' = view /\ form' = <<0, name>> /\ list' = list /\ table' = table
      /\ logged' = logged /\ req' = LetGo({}) /\ muddled' = muddled
  BY DEF NewForm, server, session
<1>2. l \in Lists /\ Mirrors(l)
  BY <1>1 DEF Counts, AInv
<1>3. FormIds(l)' = {}
  BY <1>1 DEF FormIds
<1> QED BY <1>1, <1>2, <1>3, MirrorsLetGo

\* An edit on its way holds the form, so what is in it may only be replaced when
\* there is none.
LEMMA EditFormMirrors ==
  ASSUME TInv, AInv, NEW name, NEW row, view \in Lists, row \in BagToSet(list[view]),
         EditForm(row[1], name), NEW l, Counts(l)'
  PROVE  Mirrors(l)'
<1>1. /\ view' = view /\ view \in {"groups", "products"} /\ list' = list /\ table' = table
      /\ logged' = logged /\ form' = <<row[1], name>>
      /\ muddled' = IF \E r \in req : r.live THEN muddled \cup {view} ELSE muddled
  BY DEF EditForm, server, session
<1>2. l \in Lists /\ l \notin muddled /\ Mirrors(l)
  BY <1>1 DEF Counts, AInv
<1> PICK put : put = form'
  OBVIOUS
<1>3. req' = {IF r.live THEN [r EXCEPT !.put = put] ELSE r : r \in req}
  BY DEF EditForm
<1>4. ASSUME NEW r \in req PROVE [r EXCEPT !.put = put].of = r.of
  BY DEF TInv, RequestInv, Typed, Whole, Fields
<1>5. \A r \in req : r.live => r.of = view
  BY <1>1 DEF TInv, FormInv
<1>6. Pending(l)' = Pending(l) /\ (l = view => \A r \in req : ~r.live)
  <2>1. CASE \E r \in req : r.live
    <3>1. l # view
      BY <1>1, <2>1 DEF Counts
    <3>2. \A r \in req : r.of = l => ~r.live
      BY <1>5, <3>1
    <3>3. ASSUME NEW s \in req', s.of = l PROVE s \in req
      <4>1. PICK r \in req : s = IF r.live THEN [r EXCEPT !.put = put] ELSE r
        BY <1>3
      <4>2. s.of = r.of
        BY <1>4, <4>1
      <4> QED BY <3>2, <3>3, <4>1, <4>2
    <3>4. \A s \in req : s.of = l => s \in req'
      BY <1>3, <3>2
    <3> QED BY <3>1, <3>3, <3>4 DEF Pending
  <2>2. CASE \A r \in req : ~r.live
    <3>1. req' = req
      BY <1>3, <2>2
    <3> QED BY <2>2, <3>1 DEF Pending
  <2> QED BY <2>1, <2>2
<1>7. CASE l # view
  <2>1. FormIds(l)' = {}
    BY <1>1, <1>7 DEF FormIds
  <2> QED BY <1>1, <1>2, <1>6, <2>1, MirrorsStay DEF TInv
<1>8. CASE l = view
  <2>1. Rows(l, logged)' = Rows(l, logged)
    BY <1>1, <1>2, RowsStay DEF TInv
  <2>2. Loading(l) => Loading(l)'
    BY <1>1, <1>6, <2>1 DEF Loading
  <2>3. NotLoaded(l) => NotLoaded(l)'
    BY <1>1, <1>6 DEF NotLoaded
  <2>4. ASSUME Follows(l) PROVE Follows(l)'
    <3> DEFINE S == BagToSet(list[l])
               P == Pending(l)
               T == Rows(l, logged)
    <3>1. list[l] = SetToBag(S) /\ InStep(P, S, T, FormIds(l)) /\ row \in S
      BY <1>8, <2>4 DEF Follows
    <3>2. FormIds(l)' \subseteq {row[1]}
      BY <1>1 DEF FormIds
    <3> HIDE DEF S, P, T
    <3>3. \A a \in P : Made(a, "add") => \A id \in FormIds(l)' : ~HasId(a.rows, id)
      BY <3>1, <3>2 DEF InStep, AddsApart, HasId
    <3>4. InStep(P, S, T, FormIds(l)')
      BY <3>1, <3>3, FormInStep
    <3> USE DEF P, T
    <3>5. list'[l] = SetToBag(S)
      BY <1>1, <3>1
    <3> QED BY <1>6, <2>1, <3>4, <3>5, FollowsNext
  <2>5. l # "keys"
    BY <1>1, <1>8
  <2> QED BY <1>2, <2>2, <2>3, <2>4, <2>5 DEF Mirrors
<1> QED BY <1>7, <1>8

\* A change is asked for, of a list that follows the table or will be loaded.
LEMMA ChangeMirrors ==
  ASSUME TInv, AInv, UNCHANGED <<table, list, logged, view, form>>,
         NEW l \in Lists, NEW s, s.of = l, s.stage = "sent", s.user = logged,
         NEW kind \in {"add", "edit", "delete"}, s.kind = kind,
         req' = req \cup {s}, muddled' = Changed(l, kind),
         kind = "edit" => s.put = s.row,
         Follows(l) /\ Changes(s) =>
           \A a \in Pending(l) : Made(a, "add") => ~HasId(a.rows, s.row[1]),
         NEW k, Counts(k)'
  PROVE  Mirrors(k)'
<1>1. k \in Lists /\ k \notin muddled /\ Mirrors(k)
  BY DEF Counts, AInv, Changed
<1>2. FormIds(k)' = FormIds(k) /\ Rows(k, logged)' = Rows(k, logged)
  BY DEF FormIds, Rows
<1>3. CASE k # l
  <2>1. Pending(k)' = Pending(k)
    BY <1>3 DEF Pending
  <2> QED BY <1>1, <1>2, <2>1, MirrorsStay DEF TInv
<1>4. CASE k = l
  <2>1. Pending(k)' = Pending(k) \cup {s}
    BY <1>4 DEF Pending
  <2>2. \A r \in Pending(k) : r.kind # "load" /\ (kind = "edit" => r.kind # "edit")
    BY <1>1, <1>4 DEF Counts, Changed
  <2>3. ~Loading(k)
    BY <2>2 DEF Loading
  <2>4. NotLoaded(k) => NotLoaded(k)'
    BY <2>1, <2>2 DEF NotLoaded
  <2>5. ASSUME Follows(k) PROVE Follows(k)'
    <3> DEFINE S == BagToSet(list[k])
               P == Pending(k)
               T == Rows(k, logged)
               ids == FormIds(k)
    <3>1. list[k] = SetToBag(S) /\ InStep(P, S, T, ids)
      BY <2>5 DEF Follows
    <3>2. /\ s.kind = "edit" => s.put = s.row /\ \A e \in P : e.kind # "edit"
          /\ Changes(s) => \A a \in P : Made(a, "add") => ~HasId(a.rows, s.row[1])
      BY <1>4, <2>2, <2>5
    <3> HIDE DEF S, P, T, ids
    <3>3. InStep(P \cup {s}, S, T, ids)
      BY <3>1, <3>2, AskInStep
    <3>4. list'[k] = SetToBag(S)
      BY <3>1
    <3> QED BY <1>2, <2>1, <3>3, <3>4, FollowsNext DEF P, T, ids
  <2>6. k = "keys" => \A r \in Pending(k)' : r.user = logged'
    BY <1>1, <2>1 DEF Mirrors
  <2> QED BY <1>1, <2>3, <2>4, <2>5, <2>6 DEF Mirrors
<1> QED BY <1>3, <1>4

LEMMA SaveKeyMirrors ==
  ASSUME TInv, AInv, NEW name, SaveKey(name), NEW k, Counts(k)' PROVE Mirrors(k)'
<1> PICK s : s = [Ask("add", "keys") EXCEPT !.row = <<0, name>>]
  OBVIOUS
<1>1. s.kind = "add" /\ s.of = "keys" /\ s.user = logged /\ s.stage = "sent"
  BY DEF Ask, Blank
<1>2. /\ UNCHANGED <<table, list, logged, view, form>>
      /\ req' = req \cup {s} /\ muddled' = Changed("keys", "add")
  BY DEF SaveKey, server, session
<1>3. "keys" \in Lists /\ ~Changes(s)
  BY <1>1 DEF Lists, Changes
<1> QED BY <1>1, <1>2, <1>3, ChangeMirrors

LEMMA DeleteKeyMirrors ==
  ASSUME TInv, AInv, NEW row \in BagToSet(list["keys"]), DeleteKey(row), NEW k, Counts(k)'
  PROVE  Mirrors(k)'
<1> PICK s : s = [Ask("delete", "keys") EXCEPT !.row = row]
  OBVIOUS
<1>1. s.kind = "delete" /\ s.of = "keys" /\ s.user = logged /\ s.stage = "sent"
      /\ s.row = row
  BY DEF Ask, Blank
<1>2. /\ UNCHANGED <<table, list, logged, view, form>>
      /\ req' = req \cup {s} /\ muddled' = Changed("keys", "delete")
  BY DEF DeleteKey, server, session
<1>3. ASSUME Follows("keys"), NEW a \in Pending("keys"), Made(a, "add")
      PROVE  ~HasId(a.rows, s.row[1])
  BY <1>1, <1>3 DEF Follows, InStep, AddsApart, HasId
<1>4. "keys" \in Lists
  BY DEF Lists
<1> QED BY <1>1, <1>2, <1>3, <1>4, ChangeMirrors

LEMMA SubmitFormMirrors ==
  ASSUME TInv, AInv, SubmitForm, NEW k, Counts(k)' PROVE Mirrors(k)'
<1> PICK s : s = [Ask(Action, view) EXCEPT !.row = form, !.put = form,
                                           !.live = Action = "edit"]
  OBVIOUS
<1>1. s.kind = Action /\ s.of = view /\ s.user = logged /\ s.stage = "sent"
      /\ s.row = form /\ s.put = form
  BY DEF Ask, Blank
<1>2. /\ UNCHANGED <<table, list, logged, view, form>> /\ view \in {"groups", "products"}
      /\ req' = req \cup {s} /\ muddled' = Changed(view, Action)
  BY DEF SubmitForm, server, session
<1>3. view \in Lists /\ Action \in {"add", "edit", "delete"}
      /\ (Changes(s) => form[1] # 0)
  BY <1>1, <1>2 DEF Lists, Action, Changes
<1>4. ASSUME Follows(view), Changes(s), NEW a \in Pending(view), Made(a, "add")
      PROVE  ~HasId(a.rows, s.row[1])
  <2>1. form[1] \in FormIds(view)
    BY <1>3, <1>4 DEF FormIds
  <2> QED BY <1>1, <1>4, <2>1 DEF Follows, InStep, Older
<1> QED BY <1>1, <1>2, <1>3, <1>4, ChangeMirrors

\* The requests for the page leave the lists alone.
LEMMA TurnMirrors ==
  ASSUME TInv, AInv, UNCHANGED <<table, list, logged, view, form>>,
         \A l \in Lists : l \in muddled => l \in muddled',
         \A l \in Lists : Pending(l)' = Pending(l),
         NEW k, Counts(k)'
  PROVE  Mirrors(k)'
<1>1. k \in Lists /\ Mirrors(k)
  BY DEF Counts, AInv
<1>2. FormIds(k)' = FormIds(k)
  BY DEF FormIds
<1> QED BY <1>1, <1>2, MirrorsStay DEF TInv

LEMMA PageMirrors ==
  ASSUME TInv, AInv, NEW k, Counts(k)', NEW q, NEW kind,
         Filter(q) \/ NewRange(q) \/ TurnPage(kind)
  PROVE  Mirrors(k)'
<1>1. UNCHANGED <<table, list, logged, view, form>>
  BY DEF Filter, NewRange, TurnPage, server, session
<1>2. PICK turn : turn.of = "page" /\ req' = req \cup {turn}
                  /\ (muddled \subseteq muddled' \/ muddled' = Loaded({turn}))
  <2>1. CASE Filter(q)
    <3>1. /\ req' = req \cup {Turn("fetch", FirstPosition, q, opened)}
          /\ muddled' = Loaded({Turn("fetch", FirstPosition, q, opened)})
      BY <2>1 DEF Filter
    <3> PICK turn : turn = Turn("fetch", FirstPosition, q, opened)
      OBVIOUS
    <3>2. turn.of = "page"
      BY TurnShape
    <3> QED BY <3>1, <3>2
  <2>2. CASE NewRange(q)
    <3>1. /\ req' = req \cup {Turn("fetch", position, q, opened)}
          /\ muddled \subseteq muddled'
      BY <2>2 DEF NewRange
    <3> QED BY <3>1, TurnShape
  <2>3. CASE TurnPage(kind)
    <3>1. /\ req' = req \cup {Turn(kind, position', query, opened)}
          /\ muddled \subseteq muddled'
      BY <2>3 DEF TurnPage
    <3> QED BY <3>1, TurnShape
  <2> QED BY <2>1, <2>2, <2>3
<1>3. \A l \in Lists : l \in muddled => l \in muddled'
  BY <1>2 DEF Loaded, Lists
<1>4. \A l \in Lists : Pending(l)' = Pending(l)
  BY <1>2 DEF Pending, Lists
<1> QED BY <1>1, <1>3, <1>4, TurnMirrors

LEMMA UserMirrors ==
  ASSUME TInv, AInv, User, NEW l, Counts(l)' PROVE Mirrors(l)'
<1>1. ASSUME NEW name \in Names, NEW k \in {view} \cap Lists,
             NEW row \in BagToSet(list[k]), EditForm(row[1], name)
      PROVE  Mirrors(l)'
  BY <1>1, EditFormMirrors
<1>2. ASSUME NEW q \in Filters, Filter(q) \/ NewRange(q) PROVE Mirrors(l)'
  BY <1>2, PageMirrors
<1>3. ASSUME NEW kind \in {"next", "back"}, TurnPage(kind) PROVE Mirrors(l)'
  BY <1>3, PageMirrors
<1> QED
  BY <1>1, <1>2, <1>3, BecomeMirrors, SignOutMirrors, OpenSettingsMirrors,
     OpenListMirrors, OpenTransactionsMirrors, SaveKeyMirrors, DeleteKeyMirrors,
     NewFormMirrors, SubmitFormMirrors
  DEF User, OpenGroups, OpenProducts

-----------------------------------------------------------------------------
LEMMA StayMirrors ==
  ASSUME TInv, AInv, UNCHANGED <<table, list, logged, view, form, req>>,
         muddled \subseteq muddled', NEW k, Counts(k)'
  PROVE  Mirrors(k)'
BY TurnMirrors DEF Pending

\* One request takes the place of another, for the same list.
LEMMA PendingMoves ==
  ASSUME NEW r \in req, NEW s, s.of = r.of, req' = (req \ {r}) \cup {s}
  PROVE  /\ r \in Pending(r.of)
         /\ Pending(r.of)' = (Pending(r.of) \ {r}) \cup {s}
         /\ \A k : k # r.of => Pending(k)' = Pending(k)
BY DEF Pending

LEMMA FailShape ==
  ASSUME TInv, NEW r \in req, NEW stage, Failed(r, stage)
  PROVE  \E s : /\ s.of = r.of /\ s.kind = r.kind /\ s.user = r.user /\ s.row = r.row
                /\ s.put = r.put /\ s.stage = stage
                /\ req' = (req \ {r}) \cup {s}
<1> PICK s : s = [r EXCEPT !.stage = stage]
  OBVIOUS
<1>1. DOMAIN r = Fields
  BY DEF TInv, RequestInv, Typed, Whole
<1>2. /\ s.of = r.of /\ s.kind = r.kind /\ s.user = r.user /\ s.row = r.row
      /\ s.put = r.put /\ s.stage = stage
  BY <1>1 DEF Fields
<1>3. req' = (req \ {r}) \cup {s}
  BY DEF Failed
<1> QED BY <1>2, <1>3

LEMMA AnswerShape ==
  ASSUME TInv, NEW r \in req, NEW rows, NEW seq, Answered(r, rows, seq)
  PROVE  \E s : /\ s.of = r.of /\ s.kind = r.kind /\ s.user = r.user /\ s.row = r.row
                /\ s.put = r.put /\ s.stage = "ok" /\ s.rows = rows
                /\ req' = (req \ {r}) \cup {s}
<1> PICK s : s = [r EXCEPT !.stage = "ok", !.rows = rows, !.page = seq]
  OBVIOUS
<1>1. DOMAIN r = Fields
  BY DEF TInv, RequestInv, Typed, Whole
<1>2. /\ s.of = r.of /\ s.kind = r.kind /\ s.user = r.user /\ s.row = r.row
      /\ s.put = r.put /\ s.stage = "ok" /\ s.rows = rows
  BY <1>1 DEF Fields
<1>3. req' = (req \ {r}) \cup {s}
  BY DEF Answered
<1> QED BY <1>2, <1>3

\* A list that the request is not for, and whose rows stay.
LEMMA OtherMirrors ==
  ASSUME TInv, AInv, NEW r \in req, NEW s, s.of = r.of, req' = (req \ {r}) \cup {s},
         UNCHANGED <<list, logged, view, form>>, muddled \subseteq muddled',
         NEW k, k # r.of, Counts(k)', table'[k] = table[k]
  PROVE  Mirrors(k)'
<1>1. k \in Lists /\ Mirrors(k)
  BY DEF Counts, AInv
<1>2. Pending(k)' = Pending(k) /\ FormIds(k)' = FormIds(k)
  BY PendingMoves DEF FormIds
<1> QED BY <1>1, <1>2, MirrorsStay DEF TInv

\* A change that is not carried out leaves its list in step, and so does a load.
LEMMA FailMirrors ==
  ASSUME TInv, AInv, NEW r \in req, NEW stage \in {"denied", "error"}, Failed(r, stage),
         \A l \in Lists : table'[l] = table[l],
         UNCHANGED <<list, logged, view, form>>, muddled \subseteq muddled',
         NEW k, Counts(k)', k = r.of /\ r.kind # "load" => r.stage # "ok"
  PROVE  Mirrors(k)'
<1> PICK s : /\ s.of = r.of /\ s.kind = r.kind /\ s.user = r.user /\ s.row = r.row
             /\ s.put = r.put /\ s.stage = stage
             /\ req' = (req \ {r}) \cup {s}
  BY FailShape
<1>1. CASE k # r.of
  BY <1>1, OtherMirrors DEF Counts
<1>2. CASE k = r.of
  <2>1. k \in Lists /\ Mirrors(k)
    BY DEF Counts, AInv
  <2>2. r \in Pending(k) /\ Pending(k)' = (Pending(k) \ {r}) \cup {s}
    BY <1>2, PendingMoves
  <2>3. Rows(k, logged)' = Rows(k, logged) /\ FormIds(k)' = FormIds(k)
    BY <2>1 DEF Rows, FormIds
  <2>4. Loading(k) => Loading(k)'
    BY <2>2 DEF Loading
  <2>5. NotLoaded(k) => NotLoaded(k)'
    BY <2>2 DEF NotLoaded
  <2>6. ASSUME Follows(k) PROVE Follows(k)'
    <3> DEFINE S == BagToSet(list[k])
               P == Pending(k)
               T == Rows(k, logged)
               ids == FormIds(k)
    <3>1. list[k] = SetToBag(S) /\ InStep(P, S, T, ids) /\ r \in P
      BY <2>2, <2>6 DEF Follows
    <3>2. r.stage # "ok" /\ s.stage # "ok"
      BY <1>2, <3>1 DEF InStep
    <3> HIDE DEF S, P, T, ids
    <3>3. InStep((P \ {r}) \cup {s}, S, T, ids)
      BY <3>1, <3>2, FailInStep
    <3>4. list'[k] = SetToBag(S)
      BY <3>1
    <3> QED BY <2>2, <2>3, <3>3, <3>4, FollowsNext DEF P, T, ids
  <2>7. k = "keys" => \A q \in Pending(k)' : q.user = logged'
    BY <2>1, <2>2 DEF Mirrors
  <2> QED BY <2>1, <2>4, <2>5, <2>6, <2>7 DEF Mirrors
<1> QED BY <1>1, <1>2

LEMMA LoseMirrors ==
  ASSUME TInv, AInv, NEW r \in req, Lose(r), NEW k, Counts(k)' PROVE Mirrors(k)'
<1>1. /\ UNCHANGED <<table, list, logged, view, form>>
      /\ \E stage \in {"denied", "error"} : Failed(r, stage)
      /\ muddled' = IF r.stage = "ok" /\ r.kind \in {"add", "edit", "delete"}
                      THEN muddled \cup {r.of} ELSE muddled
  BY DEF Lose, server, session
<1>2. r.of \in Lists => r.kind \in {"load", "add", "edit", "delete"}
  BY DEF TInv, RequestInv, Typed, ListTyped
<1>3. k = r.of /\ r.kind # "load" => r.stage # "ok"
  BY <1>1, <1>2 DEF Counts
<1> QED BY <1>1, <1>3, FailMirrors

-----------------------------------------------------------------------------
LEMMA ServeLoadMirrors ==
  ASSUME TInv, AInv, NEW r \in req, ServeLoad(r),
         UNCHANGED <<list, logged, view, form, muddled>>, NEW k, Counts(k)'
  PROVE  Mirrors(k)'
<1>1. r.kind = "load" /\ Answered(r, Rows(r.of, r.user), <<>>) /\ table' = table
  BY DEF ServeLoad
<1> PICK rows : rows = Rows(r.of, r.user)
  OBVIOUS
<1> PICK s : /\ s.of = r.of /\ s.kind = r.kind /\ s.user = r.user /\ s.row = r.row
             /\ s.put = r.put /\ s.stage = "ok" /\ s.rows = rows
             /\ req' = (req \ {r}) \cup {s}
  BY <1>1, AnswerShape
<1>2. CASE k # r.of
  BY <1>1, <1>2, OtherMirrors
<1>3. CASE k = r.of
  <2>1. k \in Lists /\ Mirrors(k)
    BY DEF Counts, AInv
  <2>2. r \in Pending(k) /\ Pending(k)' = (Pending(k) \ {r}) \cup {s}
    BY <1>3, PendingMoves
  <2>3. Pending(k) = {r} /\ list[k] = EmptyBag
    BY <1>1, <2>1, <2>2 DEF Mirrors, Loading, NotLoaded, Follows, InStep
  <2>4. rows = Rows(k, logged)
    <3>1. CASE k = "keys"
      BY <1>3, <2>1, <2>2, <3>1 DEF Mirrors
    <3>2. CASE k # "keys"
      BY <1>3, <2>1, <3>2, RowsShared DEF TInv
    <3> QED BY <3>1, <3>2
  <2>5. Rows(k, logged)' = Rows(k, logged)
    BY <1>1 DEF Rows
  <2>6. Pending(k)' = {s}
    BY <2>2, <2>3
  <2>7. Loading(k)'
    BY <1>1, <2>3, <2>4, <2>5, <2>6 DEF Loading
  <2>8. k = "keys" => s.user = logged'
    BY <2>1, <2>2 DEF Mirrors
  <2> QED BY <2>6, <2>7, <2>8 DEF Mirrors
<1> QED BY <1>2, <1>3

\* Ids in a list, in what the form holds, and in what is asked for, were given.
LEMMA OldIds ==
  ASSUME TInv, NEW k \in Lists, NEW id, id = lastId[k] + 1
  PROVE  /\ ~HasId(BagToSet(list[k]), id) /\ \A u : ~HasId(Rows(k, u), id)
         /\ id \notin FormIds(k)
         /\ \A e \in Pending(k) : Changes(e) => e.row[1] # id
<1>1. lastId[k] \in Nat
  BY DEF TInv, ServerInv
<1>2. \A x \in Pairs(k) : x[1] # id
  BY <1>1 DEF Pairs
<1>3. ~HasId(BagToSet(list[k]), id)
  BY <1>2 DEF TInv, ListInv, HasId
<1>4. \A u : ~HasId(Rows(k, u), id)
  BY <1>2, RowsPairs DEF TInv, HasId
<1>5. id \notin FormIds(k)
  <2>1. CASE view = k
    <3>1. view \in {"groups", "products"}
      BY <2>1 DEF TInv, SessionInv, Lists
    <3>2. form[1] <= lastId[k] /\ form[1] \in Nat
      BY <2>1, <3>1 DEF TInv, FormInv
    <3> QED BY <1>1, <2>1, <3>2 DEF FormIds
  <2> QED BY <2>1 DEF FormIds
<1>6. \A e \in Pending(k) : Changes(e) => e.row[1] # id
  BY <1>2 DEF TInv, RequestInv, Typed, ListTyped, Pending, Changes
<1> QED BY <1>3, <1>4, <1>5, <1>6

\* A change that is carried out.
LEMMA ServedMirrors ==
  ASSUME TInv, AInv, NEW r \in req, r.kind # "load",
         NEW s, s.of = r.of, s.kind = r.kind, s.user = r.user, req' = (req \ {r}) \cup {s},
         UNCHANGED <<list, logged, view, form, muddled>>,
         \A l \in Lists \ {r.of} : table'[l] = table[l],
         Counts(r.of) /\ Follows(r.of) =>
           InStep((Pending(r.of) \ {r}) \cup {s}, BagToSet(list[r.of]),
                  Rows(r.of, logged)', FormIds(r.of)),
         NEW k, Counts(k)'
  PROVE  Mirrors(k)'
<1>1. k \in Lists /\ Mirrors(k) /\ Counts(k)
  BY DEF Counts, AInv
<1>2. CASE k # r.of
  BY <1>1, <1>2, OtherMirrors
<1>3. CASE k = r.of
  <2>1. r \in Pending(k) /\ Pending(k)' = (Pending(k) \ {r}) \cup {s}
    BY <1>3, PendingMoves
  <2>2. FormIds(k)' = FormIds(k)
    BY DEF FormIds
  <2>3. ~Loading(k)
    BY <2>1 DEF Loading
  <2>4. NotLoaded(k) => NotLoaded(k)'
    BY <2>1 DEF NotLoaded
  <2>5. ASSUME Follows(k) PROVE Follows(k)'
    <3> DEFINE S == BagToSet(list[k])
    <3>1. list[k] = SetToBag(S)
      BY <2>5 DEF Follows
    <3>2. InStep(Pending(k)', S, Rows(k, logged)', FormIds(k)')
      BY <1>1, <1>3, <2>1, <2>2, <2>5
    <3> HIDE DEF S
    <3>3. list'[k] = SetToBag(S)
      BY <3>1
    <3> QED BY <3>2, <3>3, FollowsNext
  <2>6. k = "keys" => \A q \in Pending(k)' : q.user = logged'
    BY <1>1, <2>1 DEF Mirrors
  <2> QED BY <1>1, <2>3, <2>4, <2>5, <2>6 DEF Mirrors
<1> QED BY <1>2, <1>3

LEMMA ServeAddMirrors ==
  ASSUME TInv, AInv, NEW r \in req, r.stage = "sent", ServeAdd(r),
         UNCHANGED <<booked, opened, list, logged, view, form, muddled>>, NEW k, Counts(k)'
  PROVE  Mirrors(k)'
<1> DEFINE l == r.of
<1>1. r.kind = "add" /\ l \in Lists /\ lastId'[l] = lastId[l] + 1
  BY ServeAddGrows DEF ServeAdd
<1>2. CASE Taken(l, r.row[2], 0)
  <2>1. Failed(r, "error") /\ UNCHANGED table
    BY <1>2 DEF ServeAdd
  <2> QED BY <2>1, FailMirrors
<1>3. CASE ~Taken(l, r.row[2], 0)
  <2> PICK id : id = lastId'[l]
    OBVIOUS
  <2> PICK new : new = NewRow(r, id)
    OBVIOUS
  <2> DEFINE x == <<id, r.row[2]>>
  <2>1. /\ table' = [table EXCEPT ![l] = @ \cup {new}]
        /\ Answered(r, {x}, <<>>)
    BY <1>3 DEF ServeAdd
  <2>2. PICK s : /\ s.of = r.of /\ s.kind = r.kind /\ s.user = r.user /\ s.row = r.row
                 /\ s.put = r.put /\ s.stage = "ok" /\ s.rows = {x}
                 /\ req' = (req \ {r}) \cup {s}
    BY <2>1, AnswerShape
  <2>3. /\ table'[l] = table[l] \cup {new}
        /\ \A q \in Lists \ {l} : table'[q] = table[q]
    BY <1>1, <2>1 DEF TInv, ServerInv
  <2>4. new.id = id /\ new.name = r.row[2]
        /\ new.owner = IF l = "keys" THEN r.user ELSE NoUser
    BY DEF NewRow
  <2>5. r \in Pending(l) /\ x[1] = id
    BY DEF Pending
  <2>6. ASSUME Counts(l), Follows(l)
        PROVE  InStep((Pending(l) \ {r}) \cup {s}, BagToSet(list[l]), Rows(l, logged)',
                      FormIds(l))
    <3>1. l = "keys" => r.user = logged
      BY <2>5, <2>6 DEF AInv, Mirrors
    <3>2. new.owner \in {logged, NoUser}
      BY <2>4, <3>1
    <3>3. Rows(l, logged)' = Rows(l, logged) \cup {x}
      BY <2>3, <2>4, <3>2 DEF Rows
    <3> DEFINE S == BagToSet(list[l])
               P == Pending(l)
               T == Rows(l, logged)
               ids == FormIds(l)
    <3>4. /\ ~HasId(S, x[1]) /\ ~HasId(T, x[1]) /\ x[1] \notin ids
          /\ \A e \in P : Changes(e) => e.row[1] # x[1]
      BY <1>1, <2>5, OldIds
    <3>5. InStep(P, S, T, ids) /\ r \in P
      BY <2>5, <2>6 DEF Follows
    <3> HIDE DEF S, P, T, ids, x
    <3>6. InStep((P \ {r}) \cup {s}, S, T \cup {x}, ids)
      BY <1>1, <2>2, <3>4, <3>5, AddServed
    <3> QED BY <3>3, <3>6 DEF S, P, T, ids
  <2> HIDE DEF x
  <2> QED BY <1>1, <2>2, <2>3, <2>6, ServedMirrors
<1> QED BY <1>2, <1>3

LEMMA ServeEditMirrors ==
  ASSUME TInv, AInv, NEW r \in req, r.stage = "sent", ServeEdit(r),
         UNCHANGED <<booked, opened, list, logged, view, form, muddled>>, NEW k, Counts(k)'
  PROVE  Mirrors(k)'
<1> DEFINE l == r.of
<1>1. /\ r.kind = "edit" /\ l \in Lists \ {"keys"} /\ r.row \in Pairs(l)
      /\ \A x \in table[l] :
           LET y == Renamed(r, x) IN
           y.id = x.id /\ y.name = (IF x.id = r.row[1] THEN r.row[2] ELSE x.name)
             /\ y.owner = x.owner
  BY ServeEditGrows DEF ServeEdit
<1>2. CASE Taken(l, r.row[2], r.row[1])
  <2>1. Failed(r, "error") /\ UNCHANGED table
    BY <1>2 DEF ServeEdit
  <2> QED BY <2>1, FailMirrors
<1>3. CASE ~Taken(l, r.row[2], r.row[1])
  <2>1. /\ table' = [table EXCEPT ![l] = {Renamed(r, x) : x \in @}]
        /\ Answered(r, {}, <<>>)
    BY <1>3 DEF ServeEdit, Renamed
  <2>2. PICK s : /\ s.of = r.of /\ s.kind = r.kind /\ s.user = r.user /\ s.row = r.row
                 /\ s.put = r.put /\ s.stage = "ok" /\ s.rows = {}
                 /\ req' = (req \ {r}) \cup {s}
    BY <2>1, AnswerShape
  <2>3. /\ table'[l] = {Renamed(r, x) : x \in table[l]}
        /\ \A q \in Lists \ {l} : table'[q] = table[q]
    BY <1>1, <2>1 DEF TInv, ServerInv
  <2>4. r.row = <<r.row[1], r.row[2]>>
    BY <1>1 DEF Pairs
  <2>5. \A x \in table[l] : x.owner = NoUser
    <3> SUFFICES ASSUME NEW x \in table[l] PROVE x.owner = NoUser
      OBVIOUS
    <3>1. x \in [id : 1..lastId[l], name : Names, owner : Owned(l)]
      BY <1>1 DEF TInv, ServerInv
    <3> QED BY <1>1, <3>1 DEF Owned
  <2> DEFINE T == Rows(l, logged)
             U == Rows(l, logged)'
  <2>6. \A p : p \in T <=> \E x \in table[l] : p = <<x.id, x.name>>
    BY <2>5 DEF Rows
  <2>7. \A p : p \in U <=> \E x \in table[l] : p = <<x.id, Renamed(r, x).name>>
    <3>1. \A p : p \in U <=> \E y \in table'[l] : /\ y.owner \in {logged', NoUser}
                                                  /\ p = <<y.id, y.name>>
      BY DEF Rows
    <3>2. \A y : y \in table'[l] <=> \E x \in table[l] : y = Renamed(r, x)
      BY <2>3
    <3>3. \A x \in table[l] : Renamed(r, x).id = x.id /\ Renamed(r, x).owner = NoUser
      BY <1>1, <2>5
    <3> HIDE DEF U
    <3> QED BY <3>1, <3>2, <3>3
  <2>8. \A p : p \in U <=> \/ p \in T /\ p[1] # r.row[1]
                           \/ p = r.row /\ HasId(T, r.row[1])
    <3>1. \A x \in table[l] : Renamed(r, x).name = IF x.id = r.row[1] THEN r.row[2]
                                                   ELSE x.name
      BY <1>1
    <3>2. HasId(T, r.row[1]) <=> \E x \in table[l] : x.id = r.row[1]
      <4> HIDE DEF T
      <4>1. ASSUME NEW p \in T, p[1] = r.row[1] PROVE \E x \in table[l] : x.id = r.row[1]
        BY <2>6, <4>1
      <4>2. ASSUME NEW x \in table[l], x.id = r.row[1]
            PROVE  <<x.id, x.name>> \in T /\ <<x.id, x.name>>[1] = r.row[1]
        BY <2>6, <4>2
      <4> QED BY <4>1, <4>2 DEF HasId
    <3> HIDE DEF U, T
    <3>3. ASSUME NEW p \in U PROVE \/ p \in T /\ p[1] # r.row[1]
                                   \/ p = r.row /\ HasId(T, r.row[1])
      <4>1. PICK x \in table[l] : p = <<x.id, Renamed(r, x).name>>
        BY <2>7, <3>3
      <4>2. CASE x.id = r.row[1]
        BY <2>4, <3>1, <3>2, <4>1, <4>2
      <4>3. CASE x.id # r.row[1]
        BY <2>6, <3>1, <4>1, <4>3
      <4> QED BY <4>2, <4>3
    <3>4. ASSUME NEW p \in T, p[1] # r.row[1] PROVE p \in U
      <4>1. PICK x \in table[l] : p = <<x.id, x.name>>
        BY <2>6, <3>4
      <4> QED BY <2>7, <3>1, <3>4, <4>1
    <3>5. HasId(T, r.row[1]) => r.row \in U
      BY <2>4, <2>7, <3>1, <3>2
    <3> QED BY <3>3, <3>4, <3>5
  <2>9. r \in Pending(l)
    BY DEF Pending
  <2>10. ASSUME Counts(l), Follows(l)
         PROVE  InStep((Pending(l) \ {r}) \cup {s}, BagToSet(list[l]), U, FormIds(l))
    <3> DEFINE S == BagToSet(list[l])
               P == Pending(l)
               ids == FormIds(l)
    <3>1. InStep(P, S, T, ids) /\ r \in P
      BY <2>9, <2>10 DEF Follows
    <3>2. \A e \in P : e.kind # "delete"
      BY <1>1 DEF Pending, TInv, RequestInv, Typed, ListTyped
    <3> HIDE DEF S, P, T, U, ids
    <3>3. InStep((P \ {r}) \cup {s}, S, U, ids)
      BY <1>1, <2>2, <2>8, <3>1, <3>2, EditServed
    <3> QED BY <3>3 DEF S, P, ids
  <2> HIDE DEF T
  <2> QED BY <1>1, <2>2, <2>3, <2>10, ServedMirrors
<1> QED BY <1>2, <1>3

LEMMA ServeDeleteMirrors ==
  ASSUME TInv, AInv, NEW r \in req, r.stage = "sent", ServeDelete(r),
         UNCHANGED <<booked, opened, list, logged, view, form, muddled>>, NEW k, Counts(k)'
  PROVE  Mirrors(k)'
<1> DEFINE gone == {x \in table["keys"] : x.id = r.row[1] /\ x.owner = r.user}
<1>1. r.kind = "delete" /\ table' = [table EXCEPT !["keys"] = @ \ gone]
      /\ r.of = "keys" /\ "keys" \in Lists
  BY DEF ServeDelete, TInv, RequestInv, Typed, Whole, Pages, ListTyped, Lists
<1>2. /\ table'["keys"] = table["keys"] \ gone
      /\ \A q \in Lists \ {"keys"} : table'[q] = table[q]
  BY <1>1 DEF TInv, ServerInv
<1>3. CASE gone = {}
  <2>1. Failed(r, "error")
    BY <1>3 DEF ServeDelete
  <2>2. \A l \in Lists : table'[l] = table[l]
    BY <1>2, <1>3
  <2> QED BY <2>1, <2>2, FailMirrors
<1>4. CASE gone # {}
  <2>1. Answered(r, {}, <<>>)
    BY <1>4 DEF ServeDelete
  <2>2. PICK s : /\ s.of = r.of /\ s.kind = r.kind /\ s.user = r.user /\ s.row = r.row
                 /\ s.put = r.put /\ s.stage = "ok" /\ s.rows = {}
                 /\ req' = (req \ {r}) \cup {s}
    BY <2>1, AnswerShape
  <2>3. r \in Pending("keys")
    BY <1>1 DEF Pending
  <2>4. ASSUME Counts("keys"), Follows("keys")
        PROVE  InStep((Pending("keys") \ {r}) \cup {s}, BagToSet(list["keys"]),
                      Rows("keys", logged)', FormIds("keys"))
    <3> DEFINE S == BagToSet(list["keys"])
               P == Pending("keys")
               T == Rows("keys", logged)
               U == Rows("keys", logged)'
               ids == FormIds("keys")
    <3>1. r.user = logged
      BY <2>3, <2>4 DEF AInv, Mirrors
    <3>2. InStep(P, S, T, ids) /\ r \in P
      BY <2>3, <2>4 DEF Follows
    <3>3. UniqueIds(T)
      BY <1>1, RowsUnique DEF TInv
    <3>4. \A e \in P : e.kind # "edit"
      BY <1>1 DEF Pending, TInv, RequestInv, Typed, ListTyped
    <3>5. HasId(T, r.row[1])
      <4>1. PICK g \in table["keys"] : g.id = r.row[1] /\ g.owner = logged
        BY <1>4, <3>1
      <4>2. <<g.id, g.name>> \in T /\ <<g.id, g.name>>[1] = r.row[1]
        BY <4>1 DEF Rows
      <4> HIDE DEF T
      <4> QED BY <4>2 DEF HasId
    <3>6. \A x, y \in table["keys"] : x.id = y.id => x = y
      BY <1>1 DEF TInv, ServerInv
    <3>7. \A p : p \in U <=> p \in T /\ p[1] # r.row[1]
      <4>1. \A p : p \in T <=> \E x \in table["keys"] : /\ x.owner \in {logged, NoUser}
                                                        /\ p = <<x.id, x.name>>
        BY DEF Rows
      <4>2. \A p : p \in U <=> \E x \in table["keys"] \ gone : /\ x.owner \in {logged, NoUser}
                                                               /\ p = <<x.id, x.name>>
        BY <1>2 DEF Rows
      <4>3. PICK g \in table["keys"] : g.id = r.row[1] /\ g.owner = r.user
        BY <1>4
      <4>4. \A x \in table["keys"] : x \in gone <=> x.id = r.row[1]
        BY <3>6, <4>3
      <4> HIDE DEF T, U, gone
      <4> QED BY <4>1, <4>2, <4>4
    <3> HIDE DEF S, P, T, U, ids
    <3>8. InStep((P \ {r}) \cup {s}, S, U, ids)
      BY <1>1, <2>2, <3>2, <3>3, <3>4, <3>5, <3>7, DeleteServed
    <3> QED BY <3>8 DEF S, P, U, ids
  <2> QED BY <1>1, <1>2, <2>2, <2>4, ServedMirrors
<1> QED BY <1>3, <1>4

LEMMA ServeMirrors ==
  ASSUME TInv, AInv, NEW r \in req, Serve(r), NEW k, Counts(k)' PROVE Mirrors(k)'
<1>1. /\ UNCHANGED <<booked, opened, list, logged, view, form, muddled>>
      /\ r.stage = "sent"
  BY DEF Serve, session, scope
<1>2. CASE ServePage(r)
  <2>1. r.of = "page" /\ table' = table
    BY <1>2 DEF ServePage, TInv, RequestInv, Typed, Whole
  <2>2. PICK s : s.of = r.of /\ req' = (req \ {r}) \cup {s}
    BY <1>2, FailShape, AnswerShape DEF ServePage
  <2>3. k # r.of
    BY <2>1 DEF Counts, Lists
  <2> QED BY <1>1, <2>1, <2>2, <2>3, OtherMirrors
<1> QED
  BY <1>1, <1>2, ServeLoadMirrors, ServeAddMirrors, ServeEditMirrors, ServeDeleteMirrors
  DEF Serve

-----------------------------------------------------------------------------
\* What the answer to a request makes of its list.
LEMMA AnswerFollows ==
  ASSUME TInv, NEW r \in req, r.stage = "ok", r.kind # "load", r.of \in Lists, Follows(r.of),
         NEW new \in After(r, list[r.of])
  PROVE  \E S : /\ new = SetToBag(S)
                /\ InStep(Pending(r.of) \ {r}, S, Rows(r.of, logged), FormIds(r.of))
<1> DEFINE l == r.of
           old == list[l]
           S == BagToSet(old)
           P == Pending(l)
           T == Rows(l, logged)
           ids == FormIds(l)
<1>1. old = SetToBag(S) /\ InStep(P, S, T, ids)
  BY DEF Follows
<1>2. r \in P /\ UniqueIds(T)
  BY RowsUnique DEF Pending, TInv
<1>3. /\ \A e \in P : l = "keys" => e.kind # "edit"
      /\ \A e \in P : l # "keys" => e.kind # "delete"
      /\ r.kind \in {"add", IF l = "keys" THEN "delete" ELSE "edit"}
  BY DEF Pending, TInv, RequestInv, Typed, ListTyped
<1> HIDE DEF S, P, T, ids, old
<1>4. CASE r.kind = "add"
  <2>1. new = old (+) SetToBag(r.rows)
    BY <1>4 DEF After, AfterAdd, old
  <2>2. InStep(P \ {r}, S \cup r.rows, T, ids) /\ S \cap r.rows = {}
    BY <1>1, <1>2, <1>4, AddTaken DEF Made
  <2>3. new = SetToBag(S \cup r.rows)
    BY <1>1, <2>1, <2>2, BagPlus
  <2> QED BY <2>2, <2>3 DEF P, T, ids
<1>5. CASE r.kind = "edit"
  <2>1. PICK m \in Matches(old, r.put[1]) :
          new = IF m = EmptyBag THEN old ELSE (old (-) m) (+) SetToBag({r.put})
    BY <1>5 DEF After, AfterEdit, old
  <2>2. r.put = r.row /\ \A e \in P : e.kind # "delete"
    BY <1>1, <1>2, <1>3, <1>5 DEF InStep, EditAlone
  <2>3. CASE ~HasId(S, r.row[1])
    <3>1. m = EmptyBag
      BY <1>1, <2>1, <2>2, <2>3, MatchesOf
    <3>2. InStep(P \ {r}, S, T, ids)
      BY <1>1, <1>2, <1>5, <2>3, EditMissed DEF Made
    <3> QED BY <1>1, <2>1, <3>1, <3>2 DEF P, T, ids
  <2>4. CASE HasId(S, r.row[1])
    <3>1. PICK x \in S : x[1] = r.row[1] /\ m = SetToBag({x}) /\ m # EmptyBag
      BY <1>1, <2>1, <2>2, <2>4, MatchesOf
    <3>2. InStep(P \ {r}, (S \ {x}) \cup {r.put}, T, ids)
      BY <1>1, <1>2, <1>5, <2>2, <3>1, EditTaken DEF Made
    <3>3. (S \ {x}) \cap {r.put} = {}
      BY <1>1, <2>2, <3>1 DEF InStep, UniqueIds
    <3>4. new = SetToBag((S \ {x}) \cup {r.put})
      BY <1>1, <2>1, <3>1, <3>3, BagMinus, BagPlus
    <3> QED BY <3>2, <3>4 DEF P, T, ids
  <2> QED BY <2>3, <2>4
<1>6. CASE r.kind = "delete"
  <2>1. PICK m \in Matches(old, r.row[1]) : new = old (-) m
    BY <1>6 DEF After, AfterDelete, old
  <2>2. HasId(S, r.row[1])
    BY <1>1, <1>2, <1>6 DEF InStep, DeletesApart, Made
  <2>3. PICK x \in S : x[1] = r.row[1] /\ m = SetToBag({x})
    BY <1>1, <2>1, <2>2, MatchesOf
  <2>4. \A e \in P : e.kind # "edit"
    BY <1>3, <1>6
  <2>5. InStep(P \ {r}, S \ {x}, T, ids)
    BY <1>1, <1>2, <1>6, <2>3, <2>4, DeleteTaken DEF Made
  <2>6. new = SetToBag(S \ {x})
    BY <1>1, <2>1, <2>3, BagMinus
  <2> QED BY <2>5, <2>6 DEF P, T, ids
<1> QED BY <1>3, <1>4, <1>5, <1>6

LEMMA AnswerMirrors ==
  ASSUME TInv, AInv, NEW r \in req, Answer(r), NEW k, Counts(k)' PROVE Mirrors(k)'
<1>1. /\ table' = table /\ logged' = logged /\ form' = form /\ req' = req \ {r}
      /\ view' = view \/ view' = "none"
      /\ muddled \subseteq muddled' /\ r.stage # "sent"
  BY DEF Answer, ListAnswer, PageAnswer, server
<1>2. k \in Lists /\ Counts(k) /\ Mirrors(k)
  BY <1>1 DEF Counts, AInv
<1>3. FormIds(k)' \subseteq FormIds(k)
  <2>1. "none" \notin Lists
    BY DEF Lists
  <2> QED BY <1>1, <1>2, <2>1 DEF FormIds
<1>4. Rows(k, logged)' = Rows(k, logged)
  BY <1>1 DEF Rows
<1>5. CASE k # r.of
  <2>1. list'[k] = list[k]
    BY <1>2, <1>5 DEF Answer, ListAnswer, PageAnswer, TInv, ListInv
  <2>2. Pending(k)' = Pending(k)
    BY <1>1, <1>5 DEF Pending
  <2> QED BY <1>1, <1>2, <1>3, <2>1, <2>2, MirrorsStay DEF TInv
<1>6. CASE k = r.of
  <2>1. r \in Pending(k) /\ Pending(k)' = Pending(k) \ {r}
    BY <1>1, <1>6 DEF Pending
  <2>2. ListAnswer(r)
    BY <1>2, <1>6 DEF Answer, PageAnswer, Lists
  <2>3. /\ r.kind = "load" /\ k = "keys" => r.stage = "ok"
        /\ r.kind = "add" /\ k # "keys" /\ r.stage = "ok" => list[k] # EmptyBag
    BY <1>6, <2>2 DEF ListAnswer, Counts
  <2>4. k = "keys" => \A q \in Pending(k)' : q.user = logged'
    BY <1>1, <1>2, <2>1 DEF Mirrors
  <2>5. r.stage # "ok" => list' = list
    BY <2>2 DEF ListAnswer
  <2>6. ASSUME r.stage = "ok"
        PROVE  \E new \in After(r, list[k]) : list'[k] = new
    BY <1>2, <1>6, <2>2, <2>6 DEF ListAnswer, TInv, ListInv
  <2>7. CASE Loading(k)
    <3>1. /\ r.kind = "load" /\ list[k] = EmptyBag
          /\ r.stage = "ok" => r.rows = Rows(k, logged)
          /\ Pending(k)' = {}
      BY <2>1, <2>7 DEF Loading
    <3>2. CASE r.stage = "ok"
      <4> DEFINE T == Rows(k, logged)
      <4>1. list'[k] = EmptyBag (+) SetToBag(T) \/ list'[k] = SetToBag(T)
        BY <2>6, <3>1, <3>2 DEF After, AfterLoad
      <4>2. EmptyBag (+) SetToBag(T) = SetToBag({} \cup T)
        BY BagPlus DEF EmptyBag
      <4>3. list'[k] = SetToBag(T)
        BY <4>1, <4>2
      <4>4. UniqueIds(T)
        BY <1>2, RowsUnique DEF TInv
      <4> DEFINE newIds == FormIds(k)'
      <4> HIDE DEF T, newIds
      <4>5. InStep({}, T, T, newIds)
        BY <4>4, LoadInStep
      <4>6. Follows(k)'
        BY <1>4, <3>1, <4>3, <4>5, FollowsNext DEF T, newIds
      <4> QED BY <1>2, <2>4, <4>6 DEF Mirrors
    <3>3. CASE r.stage # "ok"
      BY <2>3, <2>4, <2>5, <3>1, <3>3 DEF Mirrors, NotLoaded
    <3> QED BY <3>2, <3>3
  <2>8. CASE NotLoaded(k)
    <3>1. /\ k # "keys" /\ list[k] = EmptyBag /\ r.kind # "load"
          /\ \A q \in Pending(k)' : q.kind # "load"
      BY <2>1, <2>8 DEF NotLoaded
    <3>2. list'[k] = EmptyBag
      <4>1. CASE r.stage # "ok"
        BY <2>5, <3>1, <4>1
      <4>2. CASE r.stage = "ok"
        <5>1. r.kind = "edit"
          BY <1>2, <1>6, <2>3, <3>1, <4>2 DEF TInv, RequestInv, Typed, ListTyped
        <5>2. PICK m \in Matches(EmptyBag, r.put[1]) :
                list'[k] = IF m = EmptyBag THEN EmptyBag
                           ELSE (EmptyBag (-) m) (+) SetToBag({r.put})
          BY <2>6, <3>1, <4>2, <5>1 DEF After, AfterEdit
        <5>3. ~HasId({}, r.put[1])
          BY DEF HasId
        <5>4. Matches(EmptyBag, r.put[1]) = {EmptyBag}
          BY <5>3, MatchesOf DEF EmptyBag
        <5> QED BY <5>2, <5>4
      <4> QED BY <4>1, <4>2
    <3> QED BY <3>1, <3>2 DEF Mirrors, NotLoaded
  <2>9. CASE Follows(k)
    <3>1. r.kind # "load"
      BY <2>1, <2>9 DEF Follows, InStep
    <3>2. ASSUME NEW S, list'[k] = SetToBag(S),
                 InStep(Pending(k) \ {r}, S, Rows(k, logged), FormIds(k))
          PROVE  Mirrors(k)'
      <4> DEFINE P == Pending(k) \ {r}
                 T == Rows(k, logged)
                 newIds == FormIds(k)'
      <4>1. \A a \in P : Made(a, "add") => \A id \in newIds : ~HasId(a.rows, id)
        BY <1>3, <3>2 DEF InStep, Older
      <4>2. InStep(P, S, T, FormIds(k))
        BY <3>2
      <4> HIDE DEF P, T, newIds
      <4>3. InStep(P, S, T, newIds)
        BY <4>1, <4>2, FormInStep
      <4>4. Follows(k)'
        BY <1>4, <2>1, <3>2, <4>3, FollowsNext DEF P, T, newIds
      <4> QED BY <2>4, <4>4 DEF Mirrors
    <3>3. CASE r.stage # "ok"
      <4> DEFINE S == BagToSet(list[k])
                 P == Pending(k)
                 T == Rows(k, logged)
      <4>1. list[k] = SetToBag(S) /\ InStep(P, S, T, FormIds(k)) /\ r \in P
        BY <2>1, <2>9 DEF Follows
      <4> HIDE DEF S, P, T
      <4>2. InStep(P \ {r}, S, T, FormIds(k))
        BY <3>3, <4>1, DropInStep
      <4>3. list'[k] = SetToBag(S)
        BY <2>5, <3>3, <4>1
      <4> QED BY <3>2, <4>2, <4>3 DEF P, T
    <3>4. CASE r.stage = "ok"
      BY <1>2, <1>6, <2>6, <2>9, <3>1, <3>2, <3>4, AnswerFollows
    <3> QED BY <3>3, <3>4
  <2> QED BY <1>2, <2>7, <2>8, <2>9 DEF Mirrors
<1> QED BY <1>5, <1>6

LEMMA InitMirrors == Init => AInv
<1> SUFFICES ASSUME Init, NEW l, Counts(l) PROVE Mirrors(l)
  BY DEF AInv
<1>1. l \in Lists /\ l # "keys" /\ list[l] = EmptyBag /\ Pending(l) = {}
  BY DEF Init, Counts, Pending
<1> QED BY <1>1 DEF Mirrors, NotLoaded

LEMMA StepMirrors == TInv /\ AInv /\ [Next]_vars => AInv'
<1> SUFFICES ASSUME TInv, AInv, [Next]_vars, NEW l, Counts(l)' PROVE Mirrors(l)'
  BY DEF AInv
<1>1. ASSUME NEW kind, Book(kind) PROVE Mirrors(l)'
  BY <1>1, StayMirrors DEF Book, session
<1>2. ASSUME NEW i, TimerFires(i) PROVE Mirrors(l)'
  BY <1>2, StayMirrors DEF TimerFires, server, session
<1>3. CASE UNCHANGED vars
  BY <1>3, StayMirrors DEF vars, server, session
<1> QED
  BY <1>1, <1>2, <1>3, UserMirrors, LoseMirrors, ServeMirrors, AnswerMirrors
  DEF Next, Handle

\* With nothing for it on its way, a list that is shown holds the rows of the table,
\* each once, for any users, names and number of requests, unless requests for it
\* crossed in a way that matters (userKeyService.js, userGroupsService.js,
\* transactionPurposesService.js).
THEOREM ListsAreTrue == Spec => []ListsAgree
<1>1. AInv => ListsAgree
  <2> SUFFICES ASSUME AInv, NEW l \in Lists \ muddled, Pending(l) = {}, view # "none",
                      IF l = "keys" THEN view \in {"settings", "transactions"}
                      ELSE list[l] # EmptyBag
               PROVE  list[l] = SetToBag(Rows(l, logged))
    BY DEF ListsAgree
  <2>1. Mirrors(l)
    BY DEF AInv, Counts
  <2>2. Follows(l)
    BY <2>1 DEF Mirrors, Loading, NotLoaded
  <2>3. BagToSet(list[l]) = Rows(l, logged)
    BY <2>2, InStepAgrees DEF Follows
  <2> QED BY <2>2, <2>3 DEF Follows
<1> QED BY <1>1, AlwaysTyped, InitMirrors, StepMirrors, PTL DEF Spec

=============================================================================
