---------------------------- MODULE BrowserProofs ----------------------------
(***************************************************************************)
(* Proofs about the session of a page (WebClient), for any users, any      *)
(* number of requests, sign-ins and panels: the panel shows the user it    *)
(* says it shows, and the settings the page keeps of him are the server's. *)
(*                                                                         *)
(* A request says enough of itself for its answer to be understood         *)
(* wherever the page has gone to meanwhile (Shape).  So until an answer    *)
(* strays to a panel it was not asked for, or asked for another user than  *)
(* the page has by then, what is loaded and what is shown follow each      *)
(* other (ShownInv).  A load that no change of a setting met carries what  *)
(* the server has when it is handled (FreshInv); the change of a setting   *)
(* that met no accident is the only one on its way, is for the user of the *)
(* copy, and knows at each of its stages which of copy and account has the *)
(* old value (ChangeInv, and CopyInv for the time after it).               *)
(***************************************************************************)
EXTENDS WebClient, Integers, TLAPS

(* The session. *)

Out(q) == q.stage # "done"

\* What a request says of itself, wherever its answer finds the page: a load is
\* for a user, and its answer is about that user; a panel that still stands is
\* an admin's if it asked for a visit, and quits to its own user.
Shape(q) ==
  /\ q.kind = "none" <=> q.stage = "done"
  /\ q.panel <= panel
  /\ q.kind \in Loads \cup {"signIn", "set"} => q.id \in Users
  /\ q.kind \in Loads /\ q.stage = "ok" => q.body.id = q.id
  /\ q.kind = "refresh" => q.id = q.from
  /\ q.kind = "signIn" /\ q.stage = "ok" => q.new \in 1 .. Len(holder)
  /\ q.kind = "visit" /\ Live(q) => self \in Admins
  /\ q.kind = "quit" /\ Live(q) => q.id = self

PanelInv == InPanel => self \in Users /\ loggedUser.id \in Users

\* ShownIsLoaded without its timeout: who is logged in does not wait for it.
ShownInv ==
  InPanel /\ "stray" \notin mishaps =>
    /\ ~timer => user.id = loggedUser.id
    /\ loggedUser.id # self => visit /\ self \in Admins

\* A load that met no change of a setting holds what the server has.
FreshInv(q) ==
  q.kind \in Loads /\ q.fresh =>
    /\ Pending({"set"}) = {}
    /\ q.stage = "ok" => q.body.set = account[q.id]

Agrees(s) == loggedUser.set[s] = account[loggedUser.id][s]

\* A change of a setting that is under way and has met no accident is the only
\* one, and for the user of the copy: before the server carries it out copy and
\* account still agree, afterwards the account has what will be noted.
ChangeInv(q, s) ==
  q.kind = "set" /\ q.setting = s /\ loggedUser.id # NoUser =>
    /\ loggedUser.id = q.id
    /\ q.stage # "ok" => Agrees(s)
    /\ q.stage = "ok" => account[q.id][s] = q.value
    /\ s = "mail" /\ q.stage \in {"sent", "ok"} => loggedUser.set[s] = ~q.value

CopyInv(s) ==
  s \notin astray =>
    /\ \A i, k \in Pending({"set"}) :
         req[i].setting = s /\ req[k].setting = s => i = k
    /\ \A i \in DOMAIN req : ChangeInv(req[i], s)
    /\ s \notin Unsettled /\ loggedUser.id # NoUser => Agrees(s)


\* What a sequence of requests must be to take the place of req, seen from the
\* state before: each says of itself what is so, and the changes of settings in
\* it are those of req.
Fine(R) ==
  /\ R \in Seq(Request)
  /\ \A k \in DOMAIN R : Shape(R[k]) /\ FreshInv(R[k])

SameChanges(R) ==
  \A k \in Nat :
    /\ k \in DOMAIN R /\ R[k].kind = "set"
         <=> k \in DOMAIN req /\ req[k].kind = "set"
    /\ k \in DOMAIN R /\ R[k].kind = "set" => R[k] = req[k]

IInv ==
  /\ TypeOK
  /\ Fine(req)
  /\ PanelInv /\ ShownInv
  /\ \A s \in Settings : CopyInv(s)

USE WebAssumption

-----------------------------------------------------------------------------
(* Requests *)

LEMMA DoneIs ==
  /\ Done \in Request /\ Done.kind = "none" /\ Done.stage = "done"
  /\ Empty \in Object /\ Empty.id = NoUser
BY DEF Done, Request, Empty, Object, Copy, Settings, Loads

\* One more request.
LEMMA AppendIs ==
  ASSUME NEW S, NEW R \in Seq(S), NEW x \in S
  PROVE  /\ Append(R, x) \in Seq(S)
         /\ Len(Append(R, x)) = Len(R) + 1
         /\ \A k \in DOMAIN Append(R, x) :
              \/ k \in DOMAIN R /\ Append(R, x)[k] = R[k]
              \/ k = Len(R) + 1 /\ Append(R, x)[k] = x
         /\ \A k \in DOMAIN R : k \in DOMAIN Append(R, x) /\ Append(R, x)[k] = R[k]
         /\ Append(R, x)[Len(R) + 1] = x
OBVIOUS

\* One request changed.
LEMMA ExceptIs ==
  ASSUME NEW S, NEW R \in Seq(S), NEW i \in DOMAIN R, NEW x \in S
  PROVE  /\ [R EXCEPT ![i] = x] \in Seq(S)
         /\ Len([R EXCEPT ![i] = x]) = Len(R)
         /\ DOMAIN [R EXCEPT ![i] = x] = DOMAIN R
         /\ \A k \in DOMAIN R : [R EXCEPT ![i] = x][k] = IF k = i THEN x ELSE R[k]
OBVIOUS

LEMMA InDomain ==
  ASSUME NEW S, NEW R \in Seq(S), NEW i \in DOMAIN R
  PROVE  R[i] \in S /\ i \in Nat /\ i # 0 /\ i <= Len(R) /\ Len(R) \in Nat
OBVIOUS

Kinds == Loads \cup {"signIn", "ping", "set"}

LEMMA AskIs ==
  ASSUME TypeOK, NEW kind \in Kinds, NEW id \in Users \cup {NoUser}, NEW t \in Nat
  PROVE  LET q == Ask(kind, id, t)
         IN  /\ q \in Request
             /\ q.kind = kind /\ q.id = id /\ q.stage = "sent" /\ q.panel = panel
             /\ q.from = loggedUser.id /\ q.fresh = (Pending({"set"}) = {})
<1>1. Done \in Request /\ loggedUser.id \in Users \cup {NoUser} /\ panel \in Nat
  BY DoneIs DEF TypeOK, Object
<1>2. (Pending({"set"}) = {}) \in BOOLEAN
  OBVIOUS
<1> QED BY <1>1, <1>2, ZenonT(40) DEF Ask, Request, Kinds, Done

\* What is asked is fine if it is for a user, and about the panel if it is a
\* visit's.
LEMMA AskFine ==
  ASSUME TypeOK, NEW kind \in Kinds, NEW id \in Users \cup {NoUser}, NEW t \in Nat,
         kind \in Loads \cup {"signIn", "set"} => id \in Users,
         kind = "refresh" => id = loggedUser.id,
         kind = "visit" => self \in Admins,
         kind = "quit" => id = self
  PROVE  Shape(Ask(kind, id, t)) /\ FreshInv(Ask(kind, id, t))
<1> DEFINE q == Ask(kind, id, t)
<1>1. /\ q.kind = kind /\ q.id = id /\ q.stage = "sent" /\ q.panel = panel
      /\ q.from = loggedUser.id /\ q.fresh = (Pending({"set"}) = {})
  BY AskIs
<1>2. panel \in Nat /\ kind # "none"
  BY DEF TypeOK, Kinds, Loads
<1>3. kind = "refresh" => q.id = q.from
  BY <1>1
<1> HIDE DEF q
<1>4. Shape(q)
  BY <1>1, <1>2, <1>3 DEF Shape
<1>5. FreshInv(q)
  BY <1>1 DEF FreshInv
<1> QED BY <1>4, <1>5 DEF q

LEMMA FineAppend ==
  ASSUME NEW R, Fine(R), SameChanges(R),
         NEW q \in Request, Shape(q), FreshInv(q), q.kind # "set"
  PROVE  /\ Fine(Append(R, q)) /\ SameChanges(Append(R, q))
         /\ Len(Append(R, q)) = Len(R) + 1
<1>1. R \in Seq(Request) /\ Len(R) \in Nat /\ DOMAIN R = 1 .. Len(R)
  BY DEF Fine
<1> DEFINE A == Append(R, q)
<1>2. /\ A \in Seq(Request) /\ Len(A) = Len(R) + 1
      /\ \A k \in DOMAIN A : \/ k \in DOMAIN R /\ A[k] = R[k]
                             \/ k = Len(R) + 1 /\ A[k] = q
      /\ \A k \in DOMAIN R : k \in DOMAIN A /\ A[k] = R[k]
  BY <1>1, AppendIs
<1> HIDE DEF A
<1>3. Fine(A)
  BY <1>2 DEF Fine
<1>4. SameChanges(A)
  BY <1>2, <1>1 DEF SameChanges
<1> QED BY <1>2, <1>3, <1>4 DEF A

\* A request in another stage.
LEMMA FineExcept ==
  ASSUME Fine(req), NEW i \in DOMAIN req,
         NEW q \in Request, Shape(q), FreshInv(q)
  PROVE  LET R == [req EXCEPT ![i] = q]
         IN  /\ Fine(R) /\ Len(R) = Len(req)
             /\ req[i].kind # "set" /\ q.kind # "set" => SameChanges(R)
<1> DEFINE R == [req EXCEPT ![i] = q]
<1>1. req \in Seq(Request)
  BY DEF Fine
<1>2. /\ R \in Seq(Request) /\ Len(R) = Len(req) /\ DOMAIN R = DOMAIN req
      /\ \A k \in DOMAIN req : R[k] = IF k = i THEN q ELSE req[k]
  BY <1>1, ExceptIs
<1> HIDE DEF R
<1>3. Fine(R)
  BY <1>2 DEF Fine
<1>4. req[i].kind # "set" /\ q.kind # "set" => SameChanges(R)
  BY <1>2 DEF SameChanges
<1> QED BY <1>2, <1>3, <1>4 DEF R

LEMMA FineAnswered ==
  ASSUME TypeOK, Fine(req), NEW i \in DOMAIN req
  PROVE  /\ Fine(Answered(i)) /\ Len(Answered(i)) = Len(req)
         /\ req[i].kind # "set" => SameChanges(Answered(i))
<1>1. Done \in Request /\ Done.kind = "none" /\ Done.stage = "done" /\ Done.panel = 0
  BY DoneIs DEF Done
<1>2. Shape(Done) /\ FreshInv(Done)
  BY <1>1 DEF Shape, FreshInv, TypeOK, Loads
<1> QED BY <1>1, <1>2, FineExcept DEF Answered

LEMMA FineReq == Fine(req) => SameChanges(req)
BY DEF SameChanges

-----------------------------------------------------------------------------
(* What a step keeps *)

\* What a request says of itself stays true as long as a panel that still
\* stands is the same one.
LEMMA ShapesKept ==
  ASSUME TypeOK, TypeOK', Fine(req'),
         \/ panel' = panel /\ (InPanel' => InPanel /\ self' = self)
         \/ panel' = panel + 1,
         Len(holder) <= Len(holder')
  PROVE  (\A k \in DOMAIN req : Shape(req[k]))'
<1> SUFFICES ASSUME NEW q \in Request, Shape(q) PROVE Shape(q)'
  <2>1. \A k \in DOMAIN req' : req'[k] \in Request /\ Shape(req'[k])
    BY DEF Fine
  <2> QED BY <2>1, SMTT(20)
<1>0. q.panel \in Nat /\ q.panel <= panel
  BY DEF Request, Shape
<1>1. /\ panel \in Nat /\ panel' \in Nat /\ q.panel \in Nat /\ q.panel <= panel
      /\ Len(holder) \in Nat /\ Len(holder') \in Nat
  BY <1>0 DEF TypeOK
<1>2. q.panel <= panel'
  BY <1>1
<1>3. Live(q)' => Live(q) /\ self' = self
  BY <1>1 DEF Live
<1>4. q.kind = "signIn" /\ q.stage = "ok" => q.new \in 1 .. Len(holder')
  BY <1>1 DEF Shape
<1> QED BY <1>2, <1>3, <1>4 DEF Shape

\* A panel that stands and shows what it showed shows it rightly.
LEMMA ViewKept ==
  ASSUME PanelInv, ShownInv,
         InPanel' => InPanel /\ UNCHANGED <<loggedUser, user, timer, self, visit>>,
         mishaps \subseteq mishaps'
  PROVE  PanelInv' /\ ShownInv'
BY DEF PanelInv, ShownInv

\* Changes that are the same before and after.
LEMMA ChangesKept ==
  ASSUME IInv, req' \in Seq(Request), SameChanges(req'), UNCHANGED account,
         \A k \in DOMAIN req' :
           FreshInv(req'[k]) /\ (req'[k].kind = "set" => req'[k].stage # "done")
  PROVE  /\ Pending({"set"})' = Pending({"set"})
         /\ \A k \in Pending({"set"}) :
              k \in DOMAIN req /\ req[k].kind = "set" /\ req'[k] = req[k]
         /\ (\A k \in DOMAIN req : FreshInv(req[k]))'
<1>1. \A k \in Nat : k \in Pending({"set"})' <=> k \in Pending({"set"})
  <2>1. \A k \in DOMAIN req : k \in Nat /\ Shape(req[k])
    BY InDomain DEF IInv, Fine
  <2>2. \A k \in DOMAIN req' : k \in Nat
    BY InDomain
  <2>3. \A k \in DOMAIN req : req[k].kind = "set" => req[k].stage # "done"
    BY <2>1 DEF Shape
  <2> QED BY <2>1, <2>2, <2>3 DEF SameChanges, Pending
<1>2. \A k \in Pending({"set"}) \cup Pending({"set"})' : k \in Nat
  BY InDomain DEF IInv, Fine, Pending
<1>3. Pending({"set"})' = Pending({"set"})
  BY <1>1, <1>2
<1>4. \A k \in Pending({"set"}) :
         k \in DOMAIN req /\ req[k].kind = "set" /\ req'[k] = req[k]
  BY <1>2 DEF SameChanges, Pending
<1>5. (\A k \in DOMAIN req : FreshInv(req[k]))'
  <2> SUFFICES ASSUME NEW k \in DOMAIN req' PROVE FreshInv(req[k])'
    OBVIOUS
  <2> QED BY <1>3 DEF FreshInv
<1> QED BY <1>3, <1>4, <1>5

\* Nothing happens to the copy of the settings, but that it may be thrown away,
\* nor to the accounts or to the changes that are under way.
LEMMA CopyKept ==
  ASSUME IInv, req' \in Seq(Request), SameChanges(req'),
         UNCHANGED <<account, astray>>,
         \A k \in DOMAIN req' :
           FreshInv(req'[k]) /\ (req'[k].kind = "set" => req'[k].stage # "done"),
         loggedUser' = loggedUser \/ loggedUser' = Empty
  PROVE  /\ (\A k \in DOMAIN req : FreshInv(req[k]))'
         /\ (\A s \in Settings : CopyInv(s))'
<1>1. Pending({"set"})' = Pending({"set"})
  BY ChangesKept
<1>2. \A k \in Pending({"set"}) :
         k \in DOMAIN req /\ req[k].kind = "set" /\ req'[k] = req[k]
  BY ChangesKept
<1>3. (\A k \in DOMAIN req : FreshInv(req[k]))'
  BY ChangesKept
<1>4. Unsettled' = Unsettled
  BY <1>1, <1>2 DEF Unsettled
<1>5. ASSUME NEW s \in Settings, CopyInv(s) PROVE CopyInv(s)'
  <2> SUFFICES ASSUME s \notin astray PROVE CopyInv(s)'
    BY DEF CopyInv
  <2>1. (\A i, k \in Pending({"set"}) :
           req[i].setting = s /\ req[k].setting = s => i = k)'
    BY <1>1, <1>2, <1>5 DEF CopyInv
  <2>2. loggedUser'.id # NoUser => loggedUser' = loggedUser
    BY DoneIs
  <2>3. (s \notin Unsettled /\ loggedUser.id # NoUser => Agrees(s))'
    BY <1>4, <1>5, <2>2 DEF CopyInv, Agrees
  <2>4. ASSUME NEW i \in DOMAIN req' PROVE ChangeInv(req[i], s)'
    <3> SUFFICES ASSUME req'[i].kind = "set", loggedUser'.id # NoUser
                 PROVE  ChangeInv(req[i], s)'
      BY DEF ChangeInv
    <3>1. i \in Nat
      BY InDomain
    <3>2. i \in DOMAIN req /\ req'[i] = req[i]
      BY <3>1 DEF SameChanges
    <3>3. ChangeInv(req[i], s)
      BY <3>2, <1>5 DEF CopyInv
    <3> QED BY <3>2, <3>3, <2>2 DEF ChangeInv, Agrees
  <2> QED BY <2>1, <2>3, <2>4 DEF CopyInv
<1> QED BY <1>3, <1>5 DEF IInv

\* The step of an action that leaves the copy of the settings alone.
LEMMA QuietStep ==
  ASSUME IInv, TypeOK', Fine(req'), SameChanges(req'), UNCHANGED <<account, astray>>,
         loggedUser' = loggedUser \/ loggedUser' = Empty,
         \/ panel' = panel /\ (InPanel' => InPanel /\ self' = self)
         \/ panel' = panel + 1,
         Len(holder) <= Len(holder'),
         PanelInv' /\ ShownInv'
  PROVE  IInv'
<1>1. TypeOK BY DEF IInv
<1>2. (\A k \in DOMAIN req : Shape(req[k]))'
  BY <1>1, ShapesKept
<1>3. /\ (\A k \in DOMAIN req : FreshInv(req[k]))'
      /\ (\A s \in Settings : CopyInv(s))'
  <2>1. req' \in Seq(Request) /\ \A k \in DOMAIN req' :
          FreshInv(req'[k]) /\ (req'[k].kind = "set" => req'[k].stage # "done")
    BY DEF Fine, Shape
  <2> QED BY <2>1, CopyKept
<1>4. req' \in Seq(Request)
  BY DEF TypeOK
<1> QED BY <1>2, <1>3, <1>4 DEF IInv, Fine

\* The scope unchanged: the common case.
LEMMA ScopeStep ==
  ASSUME IInv, TypeOK', Fine(req'), SameChanges(req'),
         UNCHANGED <<account, astray, loggedUser, scope>>, InPanel' => InPanel,
         mishaps \subseteq mishaps', Len(holder) <= Len(holder')
  PROVE  IInv'
<1>1. PanelInv' /\ ShownInv'
  BY ViewKept DEF IInv, scope
<1> QED BY <1>1, QuietStep DEF scope

\* The sign-in view.
LEMMA SignInStep ==
  ASSUME IInv, TypeOK', Fine(req'), SameChanges(req'),
         UNCHANGED <<account, astray, holder>>, ToSignIn,
         loggedUser' = loggedUser \/ loggedUser' = Empty
  PROVE  IInv'
<1>1. ~InPanel' /\ panel' = panel
  BY DEF ToSignIn, InPanel, Panel
<1>2. PanelInv' /\ ShownInv'
  BY <1>1 DEF PanelInv, ShownInv
<1>3. Len(holder) <= Len(holder')
  BY DEF IInv, TypeOK
<1> QED BY <1>1, <1>2, <1>3, QuietStep

-----------------------------------------------------------------------------
(* What the user does *)

\* What an action that only asks does to the types.
LEMMA AskedType ==
  ASSUME TypeOK, Fine(req'), Len(req') >= Len(req),
         UNCHANGED <<server, token, entry, loggedUser, scope, history, astray>>,
         seg' \in {"signIn", "resolving"} \cup Panel, switch' \in Copy
  PROVE  TypeOK'
<1>1. req' \in Seq(Request) /\ Len(req') \in Nat /\ Len(req) \in Nat
  BY DEF Fine, TypeOK
<1>2. entry \in 0 .. Len(req')
  BY <1>1 DEF TypeOK
<1> QED BY <1>1, <1>2 DEF TypeOK, server, scope, history

\* An action of the panel or the sign-in that asks for something.
LEMMA AsksKeep ==
  ASSUME IInv, NEW kind \in Kinds \ {"set"}, NEW id \in Users, NEW t \in Nat,
         kind = "refresh" => id = loggedUser.id,
         kind = "visit" => self \in Admins,
         kind = "quit" => id = self,
         req' = Append(req, Ask(kind, id, t)),
         seg' = seg \/ (seg' = "panel" /\ InPanel), switch' \in Copy,
         UNCHANGED <<server, token, entry, loggedUser, scope, history, astray>>
  PROVE  IInv'
<1> DEFINE q == Ask(kind, id, t)
<1>1. TypeOK /\ Fine(req) /\ SameChanges(req)
  BY FineReq DEF IInv
<1>2. q \in Request /\ q.kind = kind /\ Shape(q) /\ FreshInv(q)
  BY <1>1, AskIs, AskFine
<1> HIDE DEF q
<1>3. Fine(req') /\ SameChanges(req') /\ Len(req') = Len(req) + 1
  BY <1>1, <1>2, FineAppend DEF q
<1>4. seg' \in {"signIn", "resolving"} \cup Panel /\ (InPanel' => InPanel)
  BY <1>1 DEF TypeOK, InPanel, Panel
<1>5. Len(req) \in Nat /\ Len(holder) \in Nat
  BY <1>1 DEF TypeOK
<1>6. TypeOK'
  BY <1>1, <1>3, <1>4, <1>5, AskedType
<1>7. UNCHANGED <<account, astray, loggedUser, mishaps, holder>>
  BY DEF server, history
<1>8. Len(holder) <= Len(holder') /\ mishaps \subseteq mishaps'
  BY <1>5, <1>7
<1> QED BY <1>3, <1>4, <1>6, <1>7, <1>8, ScopeStep

\* A new view of the same scope, or the sign-in.
LEMMA SignInType ==
  ASSUME TypeOK, ToSignIn, UNCHANGED <<server, req, history, astray>>,
         token' = token \/ token' = 0,
         loggedUser' = loggedUser \/ loggedUser' = Empty
  PROVE  TypeOK'
<1>1. token' \in 0 .. Len(holder) /\ Len(req) \in Nat /\ Len(holder) \in Nat
  BY DEF TypeOK
<1>2. loggedUser' \in Object /\ user' \in Object /\ switch' \in Copy
  BY DoneIs DEF TypeOK, ToSignIn, Object
<1>3. /\ seg' = "signIn" /\ entry' = 0 /\ bound' = FALSE /\ timer' = FALSE
      /\ self' = NoUser /\ visit' = FALSE /\ panel' = panel
  BY DEF ToSignIn
<1>4. UNCHANGED <<account, holder, expired, req, mishaps, events, astray>>
  BY DEF server, history
<1>5. token' \in 0 .. Len(holder') /\ entry' \in 0 .. Len(req')
  BY <1>1, <1>3, <1>4
<1>6. account' \in [Users -> Copy] /\ holder' \in Seq(Users) /\ req' \in Seq(Request)
      /\ Len(holder') <= MaxTokens /\ expired' \subseteq 1 .. Len(holder')
  BY <1>4 DEF TypeOK
<1>7. seg' \in {"signIn", "resolving"} \cup Panel /\ self' \in Users \cup {NoUser}
      /\ panel' \in Nat /\ visit' \in BOOLEAN /\ bound' \in BOOLEAN
      /\ timer' \in BOOLEAN
  BY <1>3 DEF TypeOK
<1>8. /\ astray' \subseteq Settings /\ mishaps' \subseteq {"stray", "robbed"}
      /\ events' \in 0 .. MaxEvents
  BY <1>4 DEF TypeOK
<1> QED BY <1>2, <1>5, <1>6, <1>7, <1>8 DEF TypeOK

LEMMA SignInKeeps ==
  ASSUME IInv, NEW u \in Users, SignIn(u) PROVE IInv'
<1>1. token \in Nat /\ switch \in Copy
  BY DEF IInv, TypeOK
<1> QED BY <1>1, AsksKeep DEF SignIn, Kinds, Loads, route

LEMMA OpenDashboardKeeps ==
  ASSUME IInv, OpenDashboard PROVE IInv'
<1>1. token \in Nat /\ loggedUser.id \in Users
  BY DEF IInv, TypeOK, PanelInv, OpenDashboard
<1>2. switch' \in Copy
  BY DoneIs DEF OpenDashboard, Object
<1> QED BY <1>1, <1>2, AsksKeep DEF OpenDashboard, Kinds, Loads

LEMMA VisitUserKeeps ==
  ASSUME IInv, NEW u \in Users, VisitUser(u) PROVE IInv'
<1>1. token \in Nat /\ switch \in Copy
  BY DEF IInv, TypeOK
<1> QED BY <1>1, AsksKeep DEF VisitUser, Kinds, Loads, route

LEMMA QuitVisitKeeps ==
  ASSUME IInv, QuitVisit PROVE IInv'
<1>1. token \in Nat /\ switch \in Copy /\ self \in Users
  BY DEF IInv, TypeOK, PanelInv, QuitVisit
<1> QED BY <1>1, AsksKeep DEF QuitVisit, Kinds, Loads, route

LEMMA OpenSettingsKeeps ==
  ASSUME IInv, OpenSettings PROVE IInv'
<1>1. TypeOK /\ Fine(req) /\ SameChanges(req)
  BY FineReq DEF IInv
<1>2. Fine(req') /\ SameChanges(req') /\ UNCHANGED req
  BY <1>1 DEF OpenSettings
<1>3. switch' \in Copy /\ Len(req) \in Nat /\ Len(holder) \in Nat
  BY <1>1 DEF OpenSettings, TypeOK, Object
<1>4. seg' \in {"signIn", "resolving"} \cup Panel /\ (InPanel' => InPanel)
  BY DEF OpenSettings, InPanel, Panel
<1>5. Len(req') >= Len(req)
  BY <1>2, <1>3
<1>6. TypeOK'
  BY <1>1, <1>2, <1>3, <1>4, <1>5, AskedType DEF OpenSettings
<1>7. /\ UNCHANGED <<account, astray, loggedUser, scope, mishaps, holder>>
      /\ Len(holder) <= Len(holder') /\ mishaps \subseteq mishaps'
  BY <1>3 DEF OpenSettings, server, history
<1> QED BY <1>2, <1>4, <1>6, <1>7, ScopeStep

LEMMA EndKeeps ==
  ASSUME IInv, OpenWithoutToken \/ Logout PROVE IInv'
<1>1. TypeOK /\ Fine(req) /\ SameChanges(req)
  BY FineReq DEF IInv
<1>2. /\ UNCHANGED <<server, req, history, astray>> /\ ToSignIn
      /\ token' = token \/ token' = 0
      /\ loggedUser' = loggedUser \/ loggedUser' = Empty
  BY DEF OpenWithoutToken, Logout
<1>3. TypeOK'
  BY <1>1, <1>2, SignInType
<1>4. Fine(req') /\ SameChanges(req')
  BY <1>1, <1>2
<1>5. UNCHANGED <<account, astray, holder>>
  BY <1>2 DEF server
<1> QED BY <1>2, <1>3, <1>4, <1>5, SignInStep

\* The three ways to the panel, for a sequence of requests that may take the
\* place of req.
LEMMA ToPanelAsks ==
  ASSUME IInv, NEW t \in Nat, NEW sent, NEW same \in BOOLEAN, Fine(sent),
         SameChanges(sent), Len(sent) = Len(req), ToPanel(t, sent, same)
  PROVE  /\ Fine(req') /\ SameChanges(req') /\ Len(req') >= Len(req)
         /\ entry' \in 0 .. Len(req')
<1>1. TypeOK /\ Len(req) \in Nat /\ entry \in 0 .. Len(req)
  BY DEF IInv, TypeOK
<1>2. CASE req' = sent
  <2>1. entry' \in 0 .. Len(sent)
    BY <1>1, <1>2 DEF ToPanel, ToSignIn
  <2> QED BY <2>1, <1>1, <1>2
<1>3. CASE req' = Append(sent, Ask("ping", NoUser, t)) /\ entry' = Len(req')
  <2> DEFINE q == Ask("ping", NoUser, t)
  <2>1. q \in Request /\ q.kind = "ping" /\ Shape(q) /\ FreshInv(q)
    BY <1>1, AskIs, AskFine DEF Kinds, Loads
  <2> HIDE DEF q
  <2>2. Fine(req') /\ SameChanges(req') /\ Len(req') = Len(sent) + 1
    BY <2>1, <1>3, FineAppend DEF q
  <2>3. entry' \in 0 .. Len(req')
    BY <2>2, <1>1, <1>3
  <2> QED BY <2>2, <2>3, <1>1
<1> QED BY <1>2, <1>3 DEF ToPanel

LEMMA ToPanelType ==
  ASSUME IInv, NEW t \in Nat, NEW sent, NEW same \in BOOLEAN, ToPanel(t, sent, same)
  PROVE  /\ seg' \in {"signIn", "resolving"} \cup Panel
         /\ user' \in Object /\ bound' \in BOOLEAN /\ timer' \in BOOLEAN
         /\ self' \in Users \cup {NoUser} /\ panel' = panel /\ visit' \in BOOLEAN
         /\ switch' \in Copy
         /\ InPanel' => InPanel /\ UNCHANGED <<user, timer, self, visit>>
<1>1. TypeOK /\ Empty \in Object /\ Empty.set \in Copy
  BY DoneIs DEF IInv, Object
<1>2. CASE ToSignIn
  BY <1>1, <1>2 DEF ToSignIn, InPanel, Panel, TypeOK
<1>3. CASE seg' = "resolving" /\ UNCHANGED <<switch, scope>>
  BY <1>1, <1>3 DEF scope, TypeOK, InPanel, Panel
<1>4. CASE /\ seg' = IF InPanel THEN "panel" ELSE seg
           /\ switch' = Empty.set /\ bound' = same
           /\ UNCHANGED <<entry, user, timer, self, panel, visit>>
  BY <1>1, <1>4 DEF TypeOK, InPanel, Panel
<1> QED BY <1>2, <1>3, <1>4 DEF ToPanel

\* Opening the panel, and the answer to a sign-in.
LEMMA ToPanelKeeps ==
  ASSUME IInv, NEW sent, Fine(sent), SameChanges(sent), Len(sent) = Len(req),
         token' \in 0 .. Len(holder), ToPanel(token', sent, bound),
         UNCHANGED <<server, loggedUser, history, astray>>
  PROVE  IInv'
<1>1. TypeOK /\ bound \in BOOLEAN /\ Len(holder) \in Nat /\ token' \in Nat
  BY DEF IInv, TypeOK
<1>2. /\ Fine(req') /\ SameChanges(req') /\ Len(req') >= Len(req)
      /\ entry' \in 0 .. Len(req')
  BY <1>1, ToPanelAsks
<1>3. /\ seg' \in {"signIn", "resolving"} \cup Panel
      /\ user' \in Object /\ bound' \in BOOLEAN /\ timer' \in BOOLEAN
      /\ self' \in Users \cup {NoUser} /\ panel' = panel /\ visit' \in BOOLEAN
      /\ switch' \in Copy
      /\ InPanel' => InPanel /\ UNCHANGED <<user, timer, self, visit>>
  BY <1>1, ToPanelType
<1>4. UNCHANGED <<account, holder, expired, mishaps, events>>
  BY DEF server, history
<1>5. req' \in Seq(Request)
  BY <1>2 DEF Fine
<1>6. TypeOK'
  BY <1>1, <1>2, <1>3, <1>4, <1>5 DEF TypeOK
<1>7. PanelInv' /\ ShownInv'
  BY <1>3, <1>4, ViewKept DEF IInv
<1>8. Len(holder) <= Len(holder')
  BY <1>1, <1>4
<1> QED BY <1>2, <1>3, <1>4, <1>6, <1>7, <1>8, QuietStep

LEMMA OpenPanelKeeps ==
  ASSUME IInv, OpenPanel PROVE IInv'
<1>1. Fine(req) /\ SameChanges(req) /\ token \in 0 .. Len(holder)
  BY FineReq DEF IInv, TypeOK
<1>2. token' \in 0 .. Len(holder) /\ ToPanel(token', req, bound)
  BY <1>1 DEF OpenPanel
<1> QED BY <1>1, <1>2, ToPanelKeeps DEF OpenPanel

-----------------------------------------------------------------------------
(* Changes of a setting under way *)

\* The place of a change among the pending ones.
LEMMA PendingIs ==
  ASSUME Fine(req)
  PROVE  \A i : i \in Pending({"set"}) <=> i \in DOMAIN req /\ req[i].kind = "set"
BY DEF Fine, Shape, Pending

LEMMA ChangeUser ==
  ASSUME IInv, NEW i \in DOMAIN req, req[i].kind = "set"
  PROVE  /\ req[i] \in Request /\ req[i].setting \in Settings
         /\ req[i].value \in BOOLEAN
         /\ req[i].id \in Users /\ req[i].stage # "done"
<1>1. req[i] \in Request /\ Shape(req[i])
  BY InDomain DEF IInv, Fine
<1> QED BY <1>1 DEF Shape, Request

\* One change goes on to another stage, or is done with, or begins: what must
\* be shown about the setting it is for, and that the others do not notice.
LEMMA ChangeStep ==
  ASSUME IInv, TypeOK', Fine(req'), NEW i \in DOMAIN req',
         req'[i].kind \in {"set", "none"},
         NEW s \in Settings,
         \A k \in DOMAIN req' \ {i} :
           req'[k].kind = "set" =>
             /\ k \in DOMAIN req /\ req[k].kind = "set"
             /\ \A f \in {"id", "setting", "value", "stage"} : req'[k][f] = req[k][f],
         \A k \in DOMAIN req \ {i} : req[k].kind = "set" =>
            k \in DOMAIN req' /\ req'[k].kind = "set"
            /\ req'[k].setting = req[k].setting,
         i \in DOMAIN req /\ req[i].kind = "set" => req[i].setting = s,
         req'[i].kind = "set" => req'[i].setting = s,
         loggedUser'.id = loggedUser.id, astray \subseteq astray',
         astray' \subseteq astray \cup {s},
         \A x \in Settings \ {s} :
           /\ loggedUser'.set[x] = loggedUser.set[x]
           /\ \A u \in Users : account'[u][x] = account[u][x]
  PROVE  \A x \in Settings \ {s} : CopyInv(x)'
<1> TAKE x \in Settings \ {s}
<1> SUFFICES ASSUME x \notin astray' PROVE CopyInv(x)'
  BY DEF CopyInv
<1>1. CopyInv(x) /\ x \notin astray /\ x # s
  BY DEF IInv
<1>2. \A k : k \in Pending({"set"}) <=> k \in DOMAIN req /\ req[k].kind = "set"
  BY PendingIs DEF IInv
<1>3. \A k : k \in Pending({"set"})' <=> k \in DOMAIN req' /\ req'[k].kind = "set"
  BY DEF Fine, Shape, Pending
<1>4. \A k \in Pending({"set"})' : req'[k].setting = x =>
         /\ k \in Pending({"set"}) /\ req[k].setting = x /\ req[k].kind = "set"
         /\ \A f \in {"id", "setting", "value", "stage"} : req'[k][f] = req[k][f]
  BY <1>1, <1>2, <1>3
<1>5. \A k \in Pending({"set"}) : req[k].setting = x =>
         k \in Pending({"set"})' /\ req'[k].setting = x
  BY <1>1, <1>2, <1>3
<1>6. (\A k, j \in Pending({"set"}) :
         req[k].setting = x /\ req[j].setting = x => k = j)'
  BY <1>1, <1>4 DEF CopyInv
<1>7. x \in Unsettled' <=> x \in Unsettled
  BY <1>4, <1>5 DEF Unsettled
<1>8. loggedUser.id \in Users \cup {NoUser}
  BY DEF IInv, TypeOK, Object
<1>9. loggedUser.id # NoUser => (Agrees(x)' <=> Agrees(x))
  BY <1>8, <1>1 DEF Agrees
<1>10. (x \notin Unsettled /\ loggedUser.id # NoUser => Agrees(x))'
  BY <1>1, <1>7, <1>9 DEF CopyInv
<1>11. ASSUME NEW k \in DOMAIN req' PROVE ChangeInv(req[k], x)'
  <2> SUFFICES ASSUME req'[k].kind = "set", req'[k].setting = x,
                      loggedUser'.id # NoUser
               PROVE  ChangeInv(req[k], x)'
    BY DEF ChangeInv
  <2>1. /\ k \in DOMAIN req /\ req[k].kind = "set" /\ req[k].setting = x
        /\ req'[k].id = req[k].id /\ req'[k].value = req[k].value
        /\ req'[k].stage = req[k].stage
    BY <1>2, <1>3, <1>4
  <2>2. ChangeInv(req[k], x)
    BY <2>1, <1>1 DEF CopyInv
  <2>3. req[k].id \in Users
    BY <2>1, ChangeUser
  <2>4. account'[req[k].id][x] = account[req[k].id][x]
        /\ loggedUser'.set[x] = loggedUser.set[x]
    BY <2>3, <1>1
  <2> QED BY <2>1, <2>2, <2>4, <1>9 DEF ChangeInv
<1> QED BY <1>6, <1>10, <1>11 DEF CopyInv

\* No load that met no change is under way while there is a change.
LEMMA NoFresh ==
  ASSUME IInv, NEW i \in DOMAIN req, req[i].kind = "set"
  PROVE  \A k \in DOMAIN req : ~(req[k].kind \in Loads /\ req[k].fresh)
<1>1. i \in Pending({"set"})
  BY PendingIs DEF IInv
<1> QED BY <1>1 DEF IInv, Fine, FreshInv

-----------------------------------------------------------------------------
(* The server *)

\* A request that moves on without an answer of its own.
LEMMA StageIs ==
  ASSUME IInv, NEW i \in DOMAIN req, req[i].stage # "done",
         NEW st \in {"denied", "error"}
  PROVE  LET q == [req[i] EXCEPT !.stage = st]
         IN  /\ q \in Request /\ Shape(q) /\ FreshInv(q)
             /\ q.stage = st /\ q.kind = req[i].kind /\ q.id = req[i].id
             /\ q.setting = req[i].setting /\ q.value = req[i].value
<1> DEFINE q == [req[i] EXCEPT !.stage = st]
<1>1. req[i] \in Request /\ Shape(req[i]) /\ FreshInv(req[i])
  BY InDomain DEF IInv, Fine
<1>2. /\ q \in Request /\ q.stage = st /\ q.kind = req[i].kind /\ q.id = req[i].id
      /\ q.setting = req[i].setting /\ q.value = req[i].value
      /\ q.panel = req[i].panel
      /\ q.from = req[i].from /\ q.fresh = req[i].fresh
  BY <1>1 DEF Request
<1> HIDE DEF q
<1>3. Shape(q)
  BY <1>1, <1>2 DEF Shape, Live
<1>4. FreshInv(q)
  BY <1>1, <1>2 DEF FreshInv
<1> QED BY <1>2, <1>3, <1>4 DEF q

\* The server touches requests, accounts and holders only.
LEMMA ServerType ==
  ASSUME TypeOK, Fine(req'), Len(req') = Len(req),
         account' \in [Users -> Copy], holder' \in Seq(Users),
         Len(holder') <= MaxTokens,
         Len(holder) <= Len(holder'), events' \in 0 .. MaxEvents,
         astray' \subseteq Settings,
         UNCHANGED <<expired, token, route, loggedUser, scope, mishaps>>
  PROVE  TypeOK'
<1>1. Len(holder) \in Nat /\ Len(holder') \in Nat
  BY DEF TypeOK
<1>2. /\ expired' \subseteq 1 .. Len(holder') /\ token' \in 0 .. Len(holder')
      /\ entry' \in 0 .. Len(req')
  BY <1>1 DEF TypeOK, route
<1>3. req' \in Seq(Request)
  BY DEF Fine
<1> QED BY <1>2, <1>3 DEF TypeOK, route, scope

\* A change of a setting that moves on: what is known of it is all there is to
\* show.
LEMMA ChangeMoves ==
  ASSUME IInv, NEW i \in DOMAIN req, req[i].kind = "set",
         NEW q \in Request, Shape(q), FreshInv(q),
         q.kind = "set", q.stage # "done", q.id = req[i].id,
         q.setting = req[i].setting, q.value = req[i].value,
         req' = [req EXCEPT ![i] = q],
         UNCHANGED <<holder, expired, token, route, loggedUser, scope, mishaps>>,
         events' \in 0 .. MaxEvents, account' \in [Users -> Copy],
         astray' \in {astray, astray \cup {q.setting}},
         \A x \in Settings \ {q.setting} : \A u \in Users : account'[u][x] = account[u][x],
         q.setting \notin astray' => ChangeInv(req[i], q.setting)'
  PROVE  IInv'
<1> DEFINE s == req[i].setting
<1>1. TypeOK /\ Fine(req) /\ s \in Settings /\ q.id \in Users
  BY ChangeUser DEF IInv
<1>2. Fine(req') /\ Len(req') = Len(req)
  BY <1>1, FineExcept
<1>3. /\ DOMAIN req' = DOMAIN req
      /\ \A k \in DOMAIN req : req'[k] = IF k = i THEN q ELSE req[k]
  BY <1>1, ExceptIs DEF Fine
<1>4. TypeOK'
  <2>1. holder' \in Seq(Users) /\ Len(holder') <= MaxTokens
        /\ Len(holder) <= Len(holder')
    BY <1>1 DEF TypeOK
  <2>2. astray' \subseteq Settings
    BY <1>1 DEF TypeOK
  <2> QED BY <1>1, <1>2, <2>1, <2>2, ServerType
<1>5. (\A k \in DOMAIN req : Shape(req[k]))'
  <2>1. /\ panel' = panel /\ (InPanel' => InPanel /\ self' = self)
        /\ Len(holder) <= Len(holder')
    BY <1>1 DEF route, scope, InPanel, TypeOK
  <2> QED BY <2>1, <1>1, <1>2, <1>4, ShapesKept
<1>6. (\A k \in DOMAIN req : FreshInv(req[k]))'
  <2>1. \A k \in DOMAIN req' : ~(req'[k].kind \in Loads /\ req'[k].fresh)
    BY <1>3, NoFresh DEF Loads
  <2> QED BY <2>1 DEF FreshInv
<1>7. PanelInv' /\ ShownInv'
  BY ViewKept DEF IInv, route, scope, InPanel
<1>8. \A x \in Settings \ {s} : CopyInv(x)'
  BY <1>1, <1>2, <1>3, <1>4, ChangeStep
<1>9. CopyInv(s)'
  <2> SUFFICES ASSUME s \notin astray' PROVE CopyInv(s)'
    BY DEF CopyInv
  <2>1. CopyInv(s) /\ s \notin astray
    BY <1>1 DEF IInv
  <2>2. \A k : k \in Pending({"set"}) <=> k \in DOMAIN req /\ req[k].kind = "set"
    BY PendingIs DEF IInv
  <2>3. \A k : k \in Pending({"set"})' <=> k \in DOMAIN req' /\ req'[k].kind = "set"
    BY <1>2 DEF Fine, Shape, Pending
  <2>4. \A k \in DOMAIN req' : req'[k].kind = "set" /\ req'[k].setting = s => k = i
    BY <1>3, <2>1, <2>2 DEF CopyInv
  <2>5. (\A k, j \in Pending({"set"}) :
           req[k].setting = s /\ req[j].setting = s => k = j)'
    BY <2>3, <2>4
  <2>6. s \in Unsettled'
    BY <1>3, <2>3 DEF Unsettled
  <2>7. \A k \in DOMAIN req' : ChangeInv(req[k], s)'
    BY <2>4 DEF ChangeInv
  <2> QED BY <2>5, <2>6, <2>7 DEF CopyInv
<1> QED
  <2>1. req' \in Seq(Request)
    BY <1>2 DEF Fine
  <2>2. \A x \in Settings : CopyInv(x)'
    BY <1>8, <1>9
  <2> QED BY <1>4, <1>5, <1>6, <1>7, <2>1, <2>2 DEF IInv, Fine

\* Any other request moves on.
LEMMA OtherMoves ==
  ASSUME IInv, NEW i \in DOMAIN req, req[i].kind # "set",
         NEW q \in Request, Shape(q), FreshInv(q), q.kind # "set",
         req' = [req EXCEPT ![i] = q], events' \in 0 .. MaxEvents,
         UNCHANGED <<account, holder, expired, token, route, loggedUser, scope,
                     mishaps, astray>>
  PROVE  IInv'
<1>1. TypeOK /\ Fine(req)
  BY DEF IInv
<1>2. Fine(req') /\ Len(req') = Len(req) /\ SameChanges(req')
  BY <1>1, FineExcept
<1>3. /\ account' \in [Users -> Copy] /\ holder' \in Seq(Users)
      /\ Len(holder') <= MaxTokens
      /\ Len(holder) <= Len(holder') /\ astray' \subseteq Settings
  BY <1>1 DEF TypeOK
<1>4. TypeOK'
  BY <1>1, <1>2, <1>3, ServerType
<1>5. (InPanel' => InPanel) /\ mishaps \subseteq mishaps'
  BY DEF route, InPanel
<1> QED BY <1>2, <1>3, <1>4, <1>5, ScopeStep

LEMMA ServeKeeps ==
  ASSUME IInv, NEW i \in DOMAIN req, Serve(i) PROVE IInv'
<1>1. /\ req[i].stage = "sent" /\ req[i].kind # "signIn"
      /\ UNCHANGED <<holder, expired, token, route, loggedUser, scope, history,
                     astray>>
  BY DEF Serve
<1>2. /\ TypeOK /\ req[i] \in Request /\ Shape(req[i]) /\ FreshInv(req[i])
      /\ req \in Seq(Request) /\ account \in [Users -> Copy]
      /\ events' \in 0 .. MaxEvents /\ mishaps' = mishaps
  BY <1>1, InDomain DEF IInv, Fine, TypeOK, history
<1>3. CASE ~Admitted(req[i])
  <2>0. PICK q : q = [req[i] EXCEPT !.stage = "denied"]
    OBVIOUS
  <2>1. /\ q \in Request /\ Shape(q) /\ FreshInv(q)
        /\ q.stage = "denied" /\ q.kind = req[i].kind /\ q.id = req[i].id
        /\ q.setting = req[i].setting /\ q.value = req[i].value
    BY <1>1, <2>0, StageIs
  <2>2. req' = [req EXCEPT ![i] = q] /\ account' = account
    BY <1>1, <1>3, <2>0 DEF Serve
  <2>3. CASE req[i].kind = "set"
    <3>1. q.setting \notin astray => ChangeInv(req[i], q.setting)'
      <4> SUFFICES ASSUME q.setting \notin astray
                   PROVE  ChangeInv(req[i], q.setting)'
        OBVIOUS
      <4>1. req'[i] = q
        BY <2>2, <1>2
      <4>2. ChangeInv(req[i], q.setting)
        BY <2>1, <2>3, ChangeUser DEF IInv, CopyInv
      <4> QED BY <1>1, <2>1, <2>2, <2>3, <4>1, <4>2 DEF ChangeInv, Agrees
    <3>2. /\ q.kind = "set" /\ q.stage # "done" /\ account' \in [Users -> Copy]
          /\ astray' = astray
      BY <1>1, <1>2, <2>1, <2>2, <2>3
    <3>3. \A x \in Settings \ {q.setting} : \A u \in Users : account'[u][x] = account[u][x]
      BY <2>2
    <3> QED BY <1>1, <1>2, <2>1, <2>2, <2>3, <3>1, <3>2, <3>3, ChangeMoves
  <2>4. CASE req[i].kind # "set"
    BY <1>1, <1>2, <2>1, <2>2, <2>4, OtherMoves
  <2> QED BY <2>3, <2>4
<1>4. CASE Admitted(req[i]) /\ req[i].kind # "set"
  <2> DEFINE body == IF req[i].kind \in Loads
                     THEN [id |-> req[i].id, set |-> account[req[i].id]] ELSE Empty
             q == [req[i] EXCEPT !.stage = "ok", !.body = body]
  <2>1. account' = account /\ req' = [req EXCEPT ![i] = q]
    <3>1. req' = [req EXCEPT ![i].stage = "ok", ![i].body = body]
          /\ account' = account
      BY <1>4 DEF Serve
    <3>2. [req EXCEPT ![i].stage = "ok", ![i].body = body] = [req EXCEPT ![i] = q]
      OBVIOUS
    <3> QED BY <3>1, <3>2
  <2>2. body \in Object
    <3>1. req[i].kind \in Loads => req[i].id \in Users
      BY <1>2 DEF Shape
    <3> QED BY <3>1, <1>2, DoneIs DEF Object
  <2>3. req[i].kind \in Loads => body.id = req[i].id /\ body.set = account[req[i].id]
    OBVIOUS
  <2> HIDE DEF body
  <2>4. /\ q \in Request /\ q.stage = "ok" /\ q.kind = req[i].kind /\ q.id = req[i].id
        /\ q.panel = req[i].panel /\ q.from = req[i].from /\ q.fresh = req[i].fresh
        /\ q.body = body
    BY <1>2, <2>2 DEF Request
  <2> HIDE DEF q
  <2>5. Shape(q)
    BY <1>1, <1>2, <2>3, <2>4 DEF Shape, Live
  <2>6. FreshInv(q)
    BY <1>2, <2>3, <2>4 DEF FreshInv
  <2> QED BY <1>1, <1>2, <1>4, <2>1, <2>4, <2>5, <2>6, OtherMoves
<1>5. CASE Admitted(req[i]) /\ req[i].kind = "set"
  <2> DEFINE q == [req[i] EXCEPT !.stage = "ok", !.body = Empty]
             s == req[i].setting
  <2>1. /\ account' = [account EXCEPT ![req[i].id][s] = req[i].value]
        /\ req' = [req EXCEPT ![i] = q]
    <3>1. req[i].kind \notin Loads
      BY <1>5 DEF Loads
    <3>2. req' = [req EXCEPT ![i].stage = "ok", ![i].body = Empty]
      BY <1>5, <3>1 DEF Serve
    <3>3. [req EXCEPT ![i].stage = "ok", ![i].body = Empty] = [req EXCEPT ![i] = q]
      OBVIOUS
    <3> QED BY <1>5, <3>2, <3>3 DEF Serve
  <2>2. req[i].id \in Users /\ s \in Settings /\ req[i].value \in BOOLEAN
    BY <1>5, ChangeUser
  <2>3. /\ account' \in [Users -> Copy] /\ account'[req[i].id][s] = req[i].value
        /\ \A x \in Settings \ {s} : \A u \in Users : account'[u][x] = account[u][x]
    BY <1>2, <2>1, <2>2 DEF Copy
  <2>4. /\ q \in Request /\ q.stage = "ok" /\ q.kind = "set" /\ q.id = req[i].id
        /\ q.panel = req[i].panel /\ q.setting = s /\ q.value = req[i].value
    BY <1>2, <1>5, DoneIs DEF Request
  <2> HIDE DEF q
  <2>5. Shape(q) /\ FreshInv(q)
    BY <1>2, <1>5, <2>4 DEF Shape, FreshInv, Loads
  <2>6. s \notin astray => ChangeInv(req[i], s)'
    <3> SUFFICES ASSUME s \notin astray PROVE ChangeInv(req[i], s)'
      OBVIOUS
    <3>1. req'[i] = q
      BY <2>1, <1>2
    <3>2. ChangeInv(req[i], s)
      BY <2>2 DEF IInv, CopyInv
    <3> QED BY <1>1, <1>5, <2>3, <2>4, <3>1, <3>2 DEF ChangeInv
  <2> HIDE DEF s
  <2> QED BY <1>1, <1>2, <1>5, <2>1, <2>3, <2>4, <2>5, <2>6, ChangeMoves DEF s
<1> QED BY <1>3, <1>4, <1>5

LEMMA ServeSignInKeeps ==
  ASSUME IInv, NEW i \in DOMAIN req, ServeSignIn(i) PROVE IInv'
<1>1. /\ req[i].stage = "sent" /\ req[i].kind = "signIn"
      /\ UNCHANGED <<account, expired, token, route, loggedUser, scope, history,
                     astray>>
  BY DEF ServeSignIn
<1>2. /\ TypeOK /\ req[i] \in Request /\ Shape(req[i]) /\ Fine(req)
      /\ req \in Seq(Request) /\ account \in [Users -> Copy]
      /\ events' \in 0 .. MaxEvents /\ mishaps' = mishaps
  BY <1>1, InDomain DEF IInv, Fine, TypeOK, history
<1>3. ASSUME NEW st \in {"denied", "error"}, UNCHANGED holder,
             req' = [req EXCEPT ![i].stage = st]
      PROVE  IInv'
  <2> DEFINE q == [req[i] EXCEPT !.stage = st]
  <2>1. q \in Request /\ Shape(q) /\ FreshInv(q) /\ q.kind # "set"
    BY <1>1, <1>3, StageIs
  <2>2. req' = [req EXCEPT ![i] = q]
    BY <1>3
  <2> HIDE DEF q
  <2> QED BY <1>1, <1>2, <1>3, <2>1, <2>2, OtherMoves
<1>4. ASSUME Len(holder) < MaxTokens, holder' = Append(holder, req[i].id),
             req' = [req EXCEPT ![i].stage = "ok", ![i].new = Len(holder')]
      PROVE  IInv'
  <2> DEFINE n == Len(holder')
             q == [req[i] EXCEPT !.stage = "ok", !.new = n]
  <2>1. req[i].id \in Users /\ holder \in Seq(Users)
    BY <1>1, <1>2 DEF Shape, TypeOK
  <2>2. /\ holder' \in Seq(Users) /\ Len(holder') = Len(holder) + 1
        /\ Len(holder) \in Nat
    BY <1>4, <2>1, AppendIs
  <2>3. req' = [req EXCEPT ![i] = q]
    BY <1>4
  <2>a. n \in Nat /\ n = Len(holder')
    BY <2>2
  <2> HIDE DEF n
  <2>4. /\ q \in Request /\ q.stage = "ok" /\ q.kind = "signIn" /\ q.id = req[i].id
        /\ q.panel = req[i].panel /\ q.new = n
    BY <1>1, <1>2, <2>a DEF Request
  <2> HIDE DEF q
  <2>5. q.kind \notin Loads /\ q.kind # "set" /\ FreshInv(q)
    BY <2>4 DEF Loads, FreshInv
  <2>6. DOMAIN req' = DOMAIN req /\ req' \in Seq(Request) /\ Len(req') = Len(req)
        /\ \A k \in DOMAIN req : req'[k] = IF k = i THEN q ELSE req[k]
    BY <1>2, <2>3, <2>4, ExceptIs
  <2>7. (\A k \in DOMAIN req : Shape(req[k]))'
    <3> SUFFICES ASSUME NEW k \in DOMAIN req' PROVE Shape(req[k])'
      OBVIOUS
    <3>1. UNCHANGED <<panel, self, seg>>
      BY <1>1 DEF route, scope
    <3>2. CASE k = i
      <4>1. req'[i] = q /\ q.new \in 1 .. Len(holder')
        BY <2>2, <2>a, <2>4, <2>6
      <4>2. q.panel <= panel' /\ q.id \in Users /\ q.kind # "none" /\ q.stage # "done"
        BY <1>2, <2>1, <2>4, <3>1 DEF Shape
      <4> QED BY <2>4, <2>5, <3>2, <4>1, <4>2 DEF Shape, Loads
    <3>3. CASE k # i
      <4>1. req'[k] = req[k] /\ Shape(req[k]) /\ req[k] \in Request
        BY <1>2, <2>6, <3>3, InDomain DEF Fine
      <4>2. req[k].new \in 1 .. Len(holder) => req[k].new \in 1 .. Len(holder')
        BY <2>2, <4>1 DEF Request
      <4> QED BY <3>1, <4>1, <4>2 DEF Shape, Live, InPanel
    <3> QED BY <3>2, <3>3
  <2>8. SameChanges(req')
    BY <1>1, <2>5, <2>6 DEF SameChanges
  <2>9. /\ (\A k \in DOMAIN req : FreshInv(req[k]))'
        /\ (\A x \in Settings : CopyInv(x))'
    <3>1. UNCHANGED <<account, astray, loggedUser>>
      BY <1>1
    <3>2. \A k \in DOMAIN req' :
             FreshInv(req'[k]) /\ (req'[k].kind = "set" => req'[k].stage # "done")
      BY <1>2, <2>5, <2>6 DEF Fine, Shape
    <3> QED BY <2>6, <2>8, <3>1, <3>2, CopyKept
  <2>10. TypeOK'
    <3>1. Len(holder') <= MaxTokens /\ Len(holder) <= Len(holder')
          /\ Len(req') \in Nat
      BY <1>4, <2>2, <2>6
    <3>2. /\ expired' \subseteq 1 .. Len(holder') /\ token' \in 0 .. Len(holder')
          /\ entry' \in 0 .. Len(req')
      BY <1>1, <1>2, <2>2, <2>6 DEF TypeOK, route
    <3> QED BY <1>1, <1>2, <2>2, <2>6, <3>1, <3>2 DEF TypeOK, route, scope
  <2>11. PanelInv' /\ ShownInv'
    BY <1>1, <1>2, ViewKept DEF IInv, route, scope, InPanel
  <2> QED BY <2>6, <2>7, <2>9, <2>10, <2>11 DEF IInv, Fine
<1> QED
  BY <1>3, <1>4 DEF ServeSignIn

LEMMA LoseKeeps ==
  ASSUME IInv, NEW i \in DOMAIN req, Lose(i) PROVE IInv'
<1>1. /\ req[i].stage \in {"sent", "ok"} /\ req' = [req EXCEPT ![i].stage = "error"]
      /\ UNCHANGED <<account, holder, expired, token, route, loggedUser, scope,
                     mishaps>>
      /\ astray' = IF req[i].stage = "ok" /\ req[i].kind = "set"
                   THEN astray \cup {req[i].setting} ELSE astray
  BY DEF Lose, server
<1>2. /\ req \in Seq(Request) /\ account \in [Users -> Copy]
      /\ events' \in 0 .. MaxEvents
  BY DEF IInv, TypeOK, Lose, Event
<1>3. PICK q : q = [req[i] EXCEPT !.stage = "error"]
  OBVIOUS
<1>4. /\ q \in Request /\ Shape(q) /\ FreshInv(q)
      /\ q.stage = "error" /\ q.kind = req[i].kind /\ q.id = req[i].id
      /\ q.setting = req[i].setting /\ q.value = req[i].value
  BY <1>1, <1>3, StageIs
<1>5. req' = [req EXCEPT ![i] = q] /\ account' = account
  BY <1>1, <1>3
<1>6. CASE req[i].kind = "set"
  <2>1. q.setting \notin astray' => ChangeInv(req[i], q.setting)'
    <3> SUFFICES ASSUME q.setting \notin astray'
                 PROVE  ChangeInv(req[i], q.setting)'
      OBVIOUS
    <3>1. req'[i] = q
      BY <1>5, <1>2
    <3>2. req[i].stage = "sent" /\ astray' = astray
      BY <1>1, <1>4, <1>6
    <3>3. ChangeInv(req[i], q.setting)
      BY <1>4, <1>6, <3>2, ChangeUser DEF IInv, CopyInv
    <3> QED BY <1>1, <1>4, <1>5, <1>6, <3>1, <3>2, <3>3 DEF ChangeInv, Agrees
  <2>2. \A x \in Settings \ {q.setting} : \A u \in Users : account'[u][x] = account[u][x]
    BY <1>5
  <2>3. astray' \in {astray, astray \cup {q.setting}}
    BY <1>1, <1>4
  <2>4. q.kind = "set" /\ q.stage # "done" /\ account' \in [Users -> Copy]
    BY <1>2, <1>4, <1>5, <1>6
  <2> QED BY <1>1, <1>2, <1>4, <1>5, <1>6, <2>1, <2>2, <2>3, <2>4, ChangeMoves
<1>7. CASE req[i].kind # "set"
  BY <1>1, <1>2, <1>4, <1>5, <1>7, OtherMoves
<1> QED BY <1>6, <1>7

-----------------------------------------------------------------------------
(* A switch is moved *)

LEMMA FlipKeeps ==
  ASSUME IInv, NEW s \in Settings, Flip(s) PROVE IInv'
<1>1. /\ seg = "settings" /\ switch' = [switch EXCEPT ![s] = ~@]
      /\ UNCHANGED <<server, token, seg, entry, loggedUser, scope, history>>
  BY DEF Flip
<1>2. /\ TypeOK /\ Fine(req) /\ req \in Seq(Request) /\ switch \in Copy
      /\ loggedUser.id \in Users /\ Len(req) \in Nat /\ InPanel
  BY <1>1 DEF IInv, TypeOK, PanelInv, InPanel, Panel
<1>3. switch' \in Copy /\ switch'[s] = ~switch[s] /\ switch'[s] \in BOOLEAN
      /\ switch[s] \in BOOLEAN
  BY <1>1, <1>2 DEF Copy
<1>4. PICK v \in BOOLEAN : v = switch'[s]
  BY <1>3
<1>5. PICK q :
        q = [Ask("set", loggedUser.id, token) EXCEPT !.setting = s, !.value = v]
  OBVIOUS
<1>6. PICK R : R = [i \in DOMAIN req |-> [req[i] EXCEPT !.fresh = FALSE]]
  OBVIOUS
<1>7. req' = Append(R, q)
  BY <1>4, <1>5, <1>6 DEF Flip
<1>8. /\ q \in Request /\ q.kind = "set" /\ q.id = loggedUser.id /\ q.stage = "sent"
      /\ q.panel = panel /\ q.setting = s /\ q.value = v
  <2>1. token \in Nat
    BY <1>2 DEF TypeOK
  <2> DEFINE a == Ask("set", loggedUser.id, token)
  <2>2. /\ a \in Request /\ a.kind = "set" /\ a.id = loggedUser.id /\ a.stage = "sent"
        /\ a.panel = panel
    BY <1>2, <2>1, AskIs DEF Kinds
  <2> HIDE DEF a
  <2>3. q = [a EXCEPT !.setting = s, !.value = v]
    BY <1>5 DEF a
  <2> QED BY <2>2, <2>3 DEF Request
<1>9. Shape(q) /\ FreshInv(q)
  BY <1>2, <1>8 DEF Shape, FreshInv, Loads, TypeOK
<1>10. ASSUME NEW k \in DOMAIN req
       PROVE  /\ R[k] \in Request /\ R[k].fresh = FALSE /\ Shape(R[k])
              /\ R[k].kind = req[k].kind
              /\ \A f \in {"id", "setting", "value", "stage"} : R[k][f] = req[k][f]
  <2>1. req[k] \in Request /\ Shape(req[k])
    BY <1>2, InDomain DEF Fine
  <2>2. R[k] = [req[k] EXCEPT !.fresh = FALSE]
    BY <1>6
  <2>3. /\ R[k] \in Request /\ R[k].fresh = FALSE
        /\ \A f \in {"kind", "id", "setting", "value", "stage", "panel", "from",
                    "new", "body"} :
             R[k][f] = req[k][f]
    BY <2>1, <2>2 DEF Request
  <2>4. Shape(R[k])
    BY <2>1, <2>3 DEF Shape, Live
  <2> QED BY <2>3, <2>4
<1>11. R \in Seq(Request) /\ Len(R) = Len(req) /\ DOMAIN R = DOMAIN req
  <2>1. DOMAIN req = 1 .. Len(req)
    BY <1>2
  <2>2. R \in [1 .. Len(req) -> Request]
    BY <1>6, <1>10, <2>1
  <2> QED BY <1>2, <2>1, <2>2
<1>12. /\ req' \in Seq(Request) /\ Len(req') = Len(req) + 1
       /\ \A k \in DOMAIN req' : \/ k \in DOMAIN req /\ req'[k] = R[k]
                                 \/ k = Len(req) + 1 /\ req'[k] = q
       /\ \A k \in DOMAIN req : k \in DOMAIN req' /\ req'[k] = R[k]
       /\ req'[Len(req) + 1] = q
  BY <1>7, <1>8, <1>11, AppendIs
<1>13. Fine(req')
  BY <1>8, <1>9, <1>10, <1>12 DEF Fine, FreshInv
<1>14. astray' = IF s \in Unsettled \/ (s = "mail" /\ switch[s] # loggedUser.set[s])
                 THEN astray \cup {s} ELSE astray
  BY DEF Flip
<1>15. TypeOK'
  <2>1. astray' \subseteq Settings /\ entry' \in 0 .. Len(req')
    BY <1>1, <1>2, <1>12, <1>14 DEF TypeOK
  <2> QED BY <1>1, <1>2, <1>3, <1>12, <2>1 DEF TypeOK, server, scope, history
<1>16. UNCHANGED <<panel, self, holder, account, seg>> /\ Len(holder) \in Nat
  BY <1>1, <1>2 DEF scope, server, TypeOK
<1>17. (\A k \in DOMAIN req : Shape(req[k]))'
  <2>1. /\ panel' = panel /\ (InPanel' => InPanel /\ self' = self)
        /\ Len(holder) <= Len(holder')
    BY <1>16 DEF InPanel
  <2> QED BY <2>1, <1>2, <1>13, <1>15, ShapesKept
<1>18. (\A k \in DOMAIN req : FreshInv(req[k]))'
  <2>1. \A k \in DOMAIN req' : ~(req'[k].kind \in Loads /\ req'[k].fresh)
    BY <1>8, <1>10, <1>12 DEF Loads
  <2> QED BY <2>1 DEF FreshInv
<1>19. PanelInv' /\ ShownInv'
  <2>1. InPanel' => InPanel /\ UNCHANGED <<loggedUser, user, timer, self, visit>>
    BY <1>1 DEF InPanel, scope
  <2> QED BY <1>1, <2>1, ViewKept DEF IInv, history
<1>20. Len(req) + 1 \in DOMAIN req'
  BY <1>2, <1>12
<1>21. Len(req) + 1 \notin DOMAIN req
  BY <1>2
<1>22. \A x \in Settings \ {s} : CopyInv(x)'
  <2> DEFINE n == Len(req) + 1
  <2>1. \A k \in DOMAIN req' \ {n} :
          /\ k \in DOMAIN req /\ req[k].kind = req'[k].kind
          /\ \A f \in {"id", "setting", "value", "stage"} : req'[k][f] = req[k][f]
    BY <1>10, <1>12
  <2>2. \A k \in DOMAIN req : k \in DOMAIN req' /\ req'[k].kind = req[k].kind
                              /\ req'[k].setting = req[k].setting
    BY <1>10, <1>12
  <2>3. PICK m : m = n
    OBVIOUS
  <2>4. m \in DOMAIN req' /\ req'[m].kind = "set" /\ req'[m].setting = s
        /\ m \notin DOMAIN req
    BY <1>8, <1>12, <1>20, <1>21, <2>3
  <2>5. astray \subseteq astray' /\ astray' \subseteq astray \cup {s}
    BY <1>14
  <2>6. loggedUser' = loggedUser /\ account' = account
    BY <1>1, <1>16
  <2>7. \A k \in DOMAIN req' \ {m} :
          req'[k].kind = "set" =>
            /\ k \in DOMAIN req /\ req[k].kind = "set"
            /\ \A f \in {"id", "setting", "value", "stage"} : req'[k][f] = req[k][f]
    BY <2>1, <2>3
  <2>8. \A k \in DOMAIN req \ {m} : req[k].kind = "set" =>
           k \in DOMAIN req' /\ req'[k].kind = "set"
           /\ req'[k].setting = req[k].setting
    BY <2>2
  <2> HIDE DEF n
  <2> QED BY <1>13, <1>15, <2>4, <2>5, <2>6, <2>7, <2>8, ChangeStep
<1>23. CopyInv(s)'
  <2> SUFFICES ASSUME s \notin astray' PROVE CopyInv(s)'
    BY DEF CopyInv
  <2>1. s \notin Unsettled /\ s \notin astray
        /\ (s = "mail" => switch[s] = loggedUser.set[s])
    BY <1>14
  <2>2. Agrees(s)
    BY <1>2, <2>1 DEF IInv, CopyInv
  <2>3. \A k \in DOMAIN req : req[k].kind = "set" => req[k].setting # s
    BY <2>1, PendingIs, <1>2 DEF Unsettled
  <2>4. \A k \in DOMAIN req' :
          req'[k].kind = "set" /\ req'[k].setting = s
            => k = Len(req) + 1 /\ req'[k] = q
    BY <1>10, <1>12, <2>3
  <2>5. \A k : k \in Pending({"set"})' <=> k \in DOMAIN req' /\ req'[k].kind = "set"
    BY <1>13 DEF Fine, Shape, Pending
  <2>6. (\A k, j \in Pending({"set"}) :
           req[k].setting = s /\ req[j].setting = s => k = j)'
    BY <2>4, <2>5
  <2>7. s \in Unsettled'
    BY <1>8, <1>12, <1>20, <2>5 DEF Unsettled
  <2>8. loggedUser' = loggedUser /\ account' = account
    BY <1>1, <1>16
  <2>9. \A k \in DOMAIN req' : ChangeInv(req[k], s)'
    <3> SUFFICES ASSUME NEW k \in DOMAIN req', req'[k].kind = "set",
                        req'[k].setting = s
                 PROVE  ChangeInv(req[k], s)'
      BY DEF ChangeInv
    <3>1. req'[k] = q
      BY <2>4
    <3>2. s = "mail" => loggedUser.set[s] = ~v
      BY <1>3, <1>4, <2>1
    <3> QED BY <1>8, <2>2, <2>8, <3>1, <3>2 DEF ChangeInv, Agrees
  <2> QED BY <2>6, <2>7, <2>9 DEF CopyInv
<1> QED
  <2>1. \A x \in Settings : CopyInv(x)'
    BY <1>22, <1>23
  <2> QED BY <1>12, <1>15, <1>17, <1>18, <1>19, <2>1 DEF IInv, Fine

-----------------------------------------------------------------------------
(* Answers *)

LEMMA AnsweredIs ==
  ASSUME IInv, NEW i \in DOMAIN req
  PROVE  /\ Fine(Answered(i)) /\ Len(Answered(i)) = Len(req)
         /\ DOMAIN Answered(i) = DOMAIN req /\ Answered(i) \in Seq(Request)
         /\ \A k \in DOMAIN req : Answered(i)[k] = IF k = i THEN Done ELSE req[k]
         /\ req[i].kind # "set" => SameChanges(Answered(i))
<1>1. TypeOK /\ Fine(req) /\ req \in Seq(Request)
  BY DEF IInv, Fine
<1>2. Done \in Request
  BY DoneIs
<1> QED BY <1>1, <1>2, FineAnswered, ExceptIs DEF Answered

\* The answer to a change of a setting is handled: the copy has got what the
\* account has by now, unless the change met an accident.
LEMMA ChangeEnds ==
  ASSUME IInv, TypeOK', NEW i \in DOMAIN req, req[i].kind = "set", req' = Answered(i),
         UNCHANGED <<account, astray>>, loggedUser'.id = loggedUser.id,
         \A x \in Settings \ {req[i].setting} : loggedUser'.set[x] = loggedUser.set[x],
         NEW s, s = req[i].setting,
         s \notin astray /\ loggedUser.id # NoUser => Agrees(s)'
  PROVE  /\ (\A k \in DOMAIN req : FreshInv(req[k]))'
         /\ \A x \in Settings : CopyInv(x)'
<1>1. /\ Fine(req') /\ DOMAIN req' = DOMAIN req
      /\ \A k \in DOMAIN req : req'[k] = IF k = i THEN Done ELSE req[k]
  BY AnsweredIs
<1>2. Done.kind = "none" /\ s \in Settings /\ TypeOK
  BY DoneIs, ChangeUser DEF IInv
<1>3. (\A k \in DOMAIN req : FreshInv(req[k]))'
  <2>1. \A k \in DOMAIN req' : ~(req'[k].kind \in Loads /\ req'[k].fresh)
    BY <1>1, <1>2, NoFresh DEF Loads
  <2> QED BY <2>1 DEF FreshInv
<1>4. \A x \in Settings \ {s} : CopyInv(x)'
  BY <1>1, <1>2, ChangeStep
<1>5. CopyInv(s)'
  <2> SUFFICES ASSUME s \notin astray' PROVE CopyInv(s)'
    BY DEF CopyInv
  <2>1. CopyInv(s) /\ s \notin astray
    BY <1>2 DEF IInv
  <2>2. \A k : k \in Pending({"set"}) <=> k \in DOMAIN req /\ req[k].kind = "set"
    BY PendingIs DEF IInv
  <2>3. \A k : k \in Pending({"set"})' <=> k \in DOMAIN req' /\ req'[k].kind = "set"
    BY <1>1 DEF Fine, Shape, Pending
  <2>4. \A k \in DOMAIN req' : req'[k].kind = "set" => req'[k].setting # s
    BY <1>1, <1>2, <2>1, <2>2 DEF CopyInv
  <2>5. \A k \in DOMAIN req' : ChangeInv(req[k], s)'
    BY <2>4 DEF ChangeInv
  <2>6. (\A k, j \in Pending({"set"}) :
           req[k].setting = s /\ req[j].setting = s => k = j)'
    BY <2>3, <2>4
  <2> QED BY <2>1, <2>5, <2>6 DEF CopyInv
<1> QED BY <1>3, <1>4, <1>5

\* An answer of 401 or an error, to whatever was asked.
LEMMA RefusedKeeps ==
  ASSUME IInv, NEW i \in DOMAIN req, req[i].stage \in {"denied", "error"},
         req' = Answered(i),
         loggedUser' = IF req[i].kind = "ping" THEN Empty ELSE loggedUser,
         \/ token' = 0 /\ ToSignIn
         \/ req[i].kind # "ping" /\ UNCHANGED <<token, route, scope>>,
         UNCHANGED <<server, history, astray>>
  PROVE  IInv'
<1>1. /\ TypeOK /\ Fine(req') /\ Len(req') = Len(req) /\ req' \in Seq(Request)
      /\ DOMAIN req' = DOMAIN req
      /\ \A k \in DOMAIN req : req'[k] = IF k = i THEN Done ELSE req[k]
      /\ req[i].kind # "set" => SameChanges(req')
  BY AnsweredIs DEF IInv
<1>2. UNCHANGED <<account, holder, expired, mishaps, events, astray>>
  BY DEF server, history
<1>3. /\ loggedUser' \in Object /\ Len(req) \in Nat /\ Len(holder) \in Nat
      /\ loggedUser' = loggedUser \/ loggedUser' = Empty
  BY <1>1, DoneIs DEF TypeOK
<1>4. /\ token' \in 0 .. Len(holder) /\ entry' \in 0 .. Len(req')
      /\ seg' \in {"signIn", "resolving"} \cup Panel /\ switch' \in Copy
      /\ user' \in Object /\ bound' \in BOOLEAN /\ timer' \in BOOLEAN
      /\ self' \in Users \cup {NoUser} /\ panel' = panel /\ visit' \in BOOLEAN
      /\ (InPanel' => InPanel /\ UNCHANGED <<loggedUser, user, timer, self, visit>>)
  <2>1. CASE token' = 0 /\ ToSignIn
    <3>1. Empty \in Object /\ Empty.set \in Copy
      BY DoneIs DEF Object
    <3>2. /\ seg' = "signIn" /\ entry' = 0 /\ switch' = Empty.set /\ user' = Empty
          /\ bound' = FALSE /\ timer' = FALSE /\ self' = NoUser /\ visit' = FALSE
          /\ panel' = panel
      BY <2>1 DEF ToSignIn
    <3>3. token' \in 0 .. Len(holder) /\ entry' \in 0 .. Len(req')
      BY <1>1, <1>3, <2>1, <3>2
    <3>4. ~InPanel'
      BY <3>2 DEF InPanel, Panel
    <3> QED BY <3>1, <3>2, <3>3, <3>4
  <2>2. CASE req[i].kind # "ping" /\ UNCHANGED <<token, route, scope>>
    <3>1. UNCHANGED <<token, seg, entry, switch, loggedUser, user, bound, timer, self,
                      panel, visit>>
      BY <2>2 DEF route, scope
    <3> QED BY <1>1, <3>1 DEF TypeOK, InPanel
  <2> QED BY <2>1, <2>2
<1>5. TypeOK'
  BY <1>1, <1>2, <1>3, <1>4 DEF TypeOK
<1>6. PanelInv' /\ ShownInv'
  BY <1>2, <1>4, ViewKept DEF IInv
<1>7. Len(holder) <= Len(holder')
  BY <1>2, <1>3
<1>8. CASE req[i].kind # "set"
  BY <1>1, <1>2, <1>3, <1>4, <1>5, <1>6, <1>7, <1>8, QuietStep
<1>9. CASE req[i].kind = "set"
  <2>1. loggedUser' = loggedUser
    BY <1>9
  <2>2. PICK s : s = req[i].setting
    OBVIOUS
  <2>3. s \notin astray /\ loggedUser.id # NoUser => Agrees(s)'
    <3> SUFFICES ASSUME s \notin astray, loggedUser.id # NoUser PROVE Agrees(s)'
      OBVIOUS
    <3>1. ChangeInv(req[i], s)
      BY <1>9, <2>2, ChangeUser DEF IInv, CopyInv
    <3> QED BY <1>2, <1>9, <2>1, <2>2, <3>1 DEF ChangeInv, Agrees
  <2>4. /\ (\A k \in DOMAIN req : FreshInv(req[k]))'
        /\ \A x \in Settings : CopyInv(x)'
    BY <1>2, <1>5, <1>9, <2>1, <2>2, <2>3, ChangeEnds
  <2>5. (\A k \in DOMAIN req : Shape(req[k]))'
    BY <1>1, <1>4, <1>5, <1>7, ShapesKept
  <2> QED BY <1>1, <1>5, <1>6, <2>4, <2>5 DEF IInv, Fine
<1> QED BY <1>8, <1>9

LEMMA SettingDoneKeeps ==
  ASSUME IInv, NEW i \in DOMAIN req, req[i].stage = "ok", SettingDone(i) PROVE IInv'
<1>1. /\ req[i].kind = "set" /\ req' = Answered(i) /\ loggedUser' = Noted(req[i])
      /\ user' = IF bound THEN loggedUser' ELSE user
      /\ timer' = (timer \/ Live(req[i]))
      /\ UNCHANGED <<account, holder, expired, token, seg, entry, switch, bound, self,
                     panel, visit, mishaps, events, astray>>
  BY DEF SettingDone, server, route, history
<1>2. /\ TypeOK /\ Fine(req') /\ Len(req') = Len(req) /\ req' \in Seq(Request)
  BY <1>1, AnsweredIs DEF IInv
<1>3. PICK s : s = req[i].setting
  OBVIOUS
<1>4. /\ s \in Settings /\ req[i].value \in BOOLEAN /\ loggedUser \in Object
      /\ req[i].id \in Users
  BY <1>1, <1>2, <1>3, ChangeUser DEF TypeOK
<1>5. /\ loggedUser' \in Object /\ loggedUser'.id = loggedUser.id
      /\ \A x \in Settings \ {s} : loggedUser'.set[x] = loggedUser.set[x]
      /\ loggedUser'.set[s] = IF s = "mail" THEN ~loggedUser.set[s] ELSE req[i].value
  BY <1>1, <1>3, <1>4 DEF Noted, Object, Copy
<1>6. TypeOK'
  <2>1. user' \in Object /\ timer' \in BOOLEAN
    BY <1>1, <1>2, <1>5 DEF TypeOK, Live, InPanel
  <2> QED BY <1>1, <1>2, <1>5, <2>1 DEF TypeOK
<1>7. Len(holder) <= Len(holder') /\ (InPanel' => InPanel /\ self' = self)
      /\ (InPanel' <=> InPanel)
  BY <1>1, <1>2 DEF TypeOK, InPanel
<1>8. (\A k \in DOMAIN req : Shape(req[k]))'
  BY <1>1, <1>2, <1>6, <1>7, ShapesKept
<1>9. s \notin astray /\ loggedUser.id # NoUser => Agrees(s)'
  <2> SUFFICES ASSUME s \notin astray, loggedUser.id # NoUser PROVE Agrees(s)'
    OBVIOUS
  <2>1. ChangeInv(req[i], s)
    BY <1>1, <1>4 DEF IInv, CopyInv
  <2> QED BY <1>1, <1>3, <1>4, <1>5, <2>1 DEF ChangeInv, Agrees
<1>10. /\ (\A k \in DOMAIN req : FreshInv(req[k]))'
       /\ \A x \in Settings : CopyInv(x)'
  BY <1>1, <1>3, <1>5, <1>6, <1>9, ChangeEnds
<1>11. PanelInv' /\ ShownInv'
  <2>1. PanelInv /\ ShownInv
    BY DEF IInv
  <2>2. PanelInv'
    BY <1>1, <1>5, <1>7, <2>1 DEF PanelInv
  <2>3. ~timer' => ~timer
    BY <1>1
  <2>4. user'.id = loggedUser'.id \/ user' = user
    BY <1>1
  <2>5. ShownInv'
    BY <1>1, <1>5, <1>7, <2>1, <2>3, <2>4 DEF ShownInv
  <2> QED BY <2>2, <2>5
<1> QED BY <1>2, <1>6, <1>8, <1>10, <1>11 DEF IInv, Fine

LEMMA SignedInKeeps ==
  ASSUME IInv, NEW i \in DOMAIN req, req[i].stage = "ok", SignedIn(i) PROVE IInv'
<1>1. /\ req[i].kind = "signIn" /\ token' = req[i].new
      /\ ToPanel(token', Answered(i), bound)
      /\ UNCHANGED <<server, loggedUser, history, astray>>
  BY DEF SignedIn
<1>2. token' \in 0 .. Len(holder)
  BY <1>1 DEF IInv, Fine, Shape
<1>3. Fine(Answered(i)) /\ SameChanges(Answered(i)) /\ Len(Answered(i)) = Len(req)
  BY <1>1, AnsweredIs
<1>4. PICK sent : sent = Answered(i)
  OBVIOUS
<1> QED BY <1>1, <1>2, <1>3, <1>4, ToPanelKeeps

LEMMA TokenIsValidKeeps ==
  ASSUME IInv, NEW i \in DOMAIN req, req[i].stage = "ok", TokenIsValid(i) PROVE IInv'
<1>1. /\ req[i].kind = "ping"
      /\ UNCHANGED <<account, holder, expired, token, seg, switch, loggedUser, scope,
                     events, astray>>
  BY DEF TokenIsValid, server
<1>2. PICK sent : sent = Answered(i)
  OBVIOUS
<1>3. Fine(sent) /\ SameChanges(sent) /\ Len(sent) = Len(req)
  BY <1>1, <1>2, AnsweredIs
<1>4. /\ TypeOK /\ Len(req) \in Nat /\ Len(holder) \in Nat /\ entry \in 0 .. Len(req)
      /\ token \in 0 .. Len(holder) /\ holder \in Seq(Users)
      /\ mishaps \subseteq {"stray", "robbed"}
  BY DEF IInv, TypeOK
<1>5. /\ Fine(req') /\ SameChanges(req') /\ entry' \in 0 .. Len(req')
      /\ mishaps \subseteq mishaps' /\ mishaps' \subseteq {"stray", "robbed"}
  <2>1. CASE token = 0
    BY <1>2, <1>3, <1>4, <2>1 DEF TokenIsValid
  <2>2. CASE token # 0
    <3>1. holder[token] \in Users /\ token \in Nat
      BY <1>4, <2>2
    <3>2. PICK q : q = Ask("load", holder[token], token)
      OBVIOUS
    <3>3. q \in Request /\ q.kind = "load" /\ Shape(q) /\ FreshInv(q)
      BY <1>4, <3>1, <3>2, AskIs, AskFine DEF Kinds, Loads
    <3>4. /\ req' = Append(sent, q) /\ mishaps' = mishaps
          /\ entry' = IF entry = i THEN Len(req') ELSE entry
      BY <1>2, <2>2, <3>2 DEF TokenIsValid
    <3>5. Fine(req') /\ SameChanges(req') /\ Len(req') = Len(sent) + 1
      BY <1>3, <3>3, <3>4, FineAppend
    <3> QED BY <1>3, <1>4, <3>4, <3>5
  <2> QED BY <2>1, <2>2
<1>6. TypeOK'
  <2>1. req' \in Seq(Request)
    BY <1>5 DEF Fine
  <2> QED BY <1>1, <1>4, <1>5, <2>1 DEF TypeOK, scope
<1>7. UNCHANGED <<account, astray, loggedUser, scope>> /\ (InPanel' => InPanel)
      /\ Len(holder) <= Len(holder')
  BY <1>1, <1>4 DEF InPanel
<1> QED BY <1>5, <1>6, <1>7, ScopeStep

\* The answer to a load, as far as the copy of the settings is concerned.
LEMMA TakeCopies ==
  ASSUME IInv, NEW i \in DOMAIN req, req[i].kind \in Loads, req[i].stage = "ok",
         NEW stray \in BOOLEAN, Take(i, stray), Fine(req'), SameChanges(req'),
         UNCHANGED account
  PROVE  /\ loggedUser' \in Object /\ loggedUser'.id = req[i].id
         /\ req[i].id \in Users
         /\ mishaps' \subseteq {"stray", "robbed"} /\ mishaps \subseteq mishaps'
         /\ stray => "stray" \in mishaps'
         /\ astray' \subseteq Settings
         /\ (\A k \in DOMAIN req : FreshInv(req[k]))'
         /\ (\A s \in Settings : CopyInv(s))'
<1>1. /\ req[i] \in Request /\ Shape(req[i]) /\ FreshInv(req[i])
      /\ mishaps \subseteq {"stray", "robbed"}
  BY InDomain DEF IInv, Fine, TypeOK
<1>2. /\ loggedUser' = req[i].body /\ loggedUser' \in Object
      /\ loggedUser'.id = req[i].id /\ req[i].id \in Users
      /\ astray' = IF req[i].fresh THEN {} ELSE Settings
      /\ mishaps' = IF stray THEN mishaps \cup {"stray"} ELSE mishaps
  BY <1>1 DEF Take, Shape, Request
<1>3. req' \in Seq(Request) /\ \A k \in DOMAIN req' :
         FreshInv(req'[k]) /\ (req'[k].kind = "set" => req'[k].stage # "done")
  BY DEF Fine, Shape
<1>4. /\ Pending({"set"})' = Pending({"set"})
      /\ (\A k \in DOMAIN req : FreshInv(req[k]))'
  BY <1>3, ChangesKept
<1>5. ASSUME NEW s \in Settings PROVE CopyInv(s)'
  <2> SUFFICES ASSUME s \notin astray' PROVE CopyInv(s)'
    BY DEF CopyInv
  <2>1. req[i].fresh
    BY <1>2
  <2>2. Pending({"set"})' = {} /\ loggedUser'.set = account[req[i].id]
    BY <1>1, <1>2, <1>4, <2>1 DEF FreshInv
  <2>3. \A k \in DOMAIN req' : req'[k].kind # "set"
    BY <1>3, <2>2 DEF Pending
  <2>4. Agrees(s)'
    BY <1>2, <2>2 DEF Agrees
  <2> QED BY <2>2, <2>3, <2>4 DEF CopyInv, ChangeInv
<1> QED BY <1>1, <1>2, <1>4, <1>5

\* The answer with which the panel opens, or a stray one.
LEMMA LoadedKeeps ==
  ASSUME IInv, NEW i \in DOMAIN req, req[i].stage = "ok", Loaded(i) PROVE IInv'
<1>1. /\ req[i].kind = "load" /\ req' = Answered(i)
      /\ UNCHANGED <<account, holder, expired, token, events>>
  BY DEF Loaded, server
<1>2. PICK stray \in BOOLEAN : stray = (entry # i)
  OBVIOUS
<1>3. Take(i, stray)
  BY <1>2 DEF Loaded
<1>4. Fine(req') /\ Len(req') = Len(req) /\ SameChanges(req') /\ req' \in Seq(Request)
  BY <1>1, AnsweredIs
<1>5. /\ loggedUser' \in Object /\ loggedUser'.id = req[i].id /\ req[i].id \in Users
      /\ mishaps' \subseteq {"stray", "robbed"} /\ mishaps \subseteq mishaps'
      /\ stray => "stray" \in mishaps'
      /\ astray' \subseteq Settings
      /\ (\A k \in DOMAIN req : FreshInv(req[k]))'
      /\ (\A s \in Settings : CopyInv(s))'
  BY <1>1, <1>3, <1>4, TakeCopies DEF Loads
<1>6. /\ TypeOK /\ PanelInv /\ ShownInv /\ panel \in Nat /\ Len(holder) \in Nat
      /\ Len(req) \in Nat
  BY DEF IInv, TypeOK
<1>7. CASE entry = i
  <2>1. /\ seg' = "panel" /\ entry' = 0 /\ user' = loggedUser' /\ bound' = TRUE
        /\ self' = loggedUser'.id /\ panel' = panel + 1
        /\ UNCHANGED <<switch, timer, visit>>
    BY <1>7 DEF Loaded
  <2>2. entry' \in 0 .. Len(req') /\ panel' \in Nat
    BY <1>4, <1>6, <2>1
  <2>3. TypeOK'
    BY <1>1, <1>4, <1>5, <1>6, <2>1, <2>2 DEF TypeOK, Panel
  <2>4. PanelInv' /\ ShownInv'
    BY <1>5, <2>1 DEF PanelInv, ShownInv
  <2>5. (\A k \in DOMAIN req : Shape(req[k]))'
    BY <1>1, <1>4, <1>6, <2>1, <2>3, ShapesKept
  <2> QED BY <1>4, <1>5, <2>3, <2>4, <2>5 DEF IInv, Fine
<1>8. CASE entry # i
  <2>1. bound' = FALSE /\ UNCHANGED <<seg, entry, switch, user, timer, self, panel,
                                      visit>>
    BY <1>8 DEF Loaded, route
  <2>2. TypeOK'
    BY <1>1, <1>4, <1>5, <1>6, <2>1 DEF TypeOK
  <2>3. PanelInv' /\ ShownInv'
    BY <1>2, <1>5, <1>6, <1>8, <2>1 DEF PanelInv, ShownInv, InPanel
  <2>4. (InPanel' => InPanel) /\ Len(holder) <= Len(holder')
    BY <1>1, <1>6, <2>1 DEF InPanel
  <2>5. (\A k \in DOMAIN req : Shape(req[k]))'
    BY <1>4, <1>6, <2>1, <2>2, <2>4, ShapesKept
  <2> QED BY <1>4, <1>5, <2>2, <2>3, <2>5 DEF IInv, Fine
<1> QED BY <1>7, <1>8

\* A refresh that is not a stray one is about the user there is.
LEMMA RefreshedKeeps ==
  ASSUME IInv, NEW i \in DOMAIN req, req[i].stage = "ok", Refreshed(i) PROVE IInv'
<1>1. /\ req[i].kind = "refresh" /\ req' = Answered(i) /\ bound' = FALSE
      /\ timer' = (timer \/ Live(req[i]))
      /\ UNCHANGED <<account, holder, expired, token, seg, entry, switch, user, self,
                     panel, visit, events>>
  BY DEF Refreshed, server, route
<1>2. PICK stray \in BOOLEAN : stray = (loggedUser.id # req[i].from)
  OBVIOUS
<1>3. Take(i, stray)
  BY <1>2 DEF Refreshed
<1>4. Fine(req') /\ Len(req') = Len(req) /\ SameChanges(req') /\ req' \in Seq(Request)
  BY <1>1, AnsweredIs
<1>5. /\ loggedUser' \in Object /\ loggedUser'.id = req[i].id /\ req[i].id \in Users
      /\ mishaps' \subseteq {"stray", "robbed"} /\ mishaps \subseteq mishaps'
      /\ stray => "stray" \in mishaps'
      /\ astray' \subseteq Settings
      /\ (\A k \in DOMAIN req : FreshInv(req[k]))'
      /\ (\A s \in Settings : CopyInv(s))'
  BY <1>1, <1>3, <1>4, TakeCopies DEF Loads
<1>6. /\ TypeOK /\ PanelInv /\ ShownInv /\ Len(holder) \in Nat
      /\ req[i].id = req[i].from
  BY <1>1 DEF IInv, TypeOK, Fine, Shape
<1>7. ~stray => loggedUser'.id = loggedUser.id
  BY <1>2, <1>5, <1>6
<1>8. timer' \in BOOLEAN
  BY <1>1, <1>6 DEF TypeOK, Live, InPanel
<1>9. TypeOK'
  BY <1>1, <1>4, <1>5, <1>6, <1>8 DEF TypeOK
<1>10. PanelInv'
  BY <1>1, <1>5, <1>6 DEF PanelInv, InPanel
<1>11. ShownInv'
  <2>1. ~timer' => ~timer
    BY <1>1
  <2> QED BY <1>1, <1>5, <1>6, <1>7, <2>1 DEF ShownInv, InPanel
<1>12. /\ panel' = panel /\ (InPanel' => InPanel /\ self' = self)
       /\ Len(holder) <= Len(holder')
  BY <1>1, <1>6 DEF InPanel
<1>13. (\A k \in DOMAIN req : Shape(req[k]))'
  BY <1>4, <1>6, <1>9, <1>12, ShapesKept
<1> QED BY <1>4, <1>5, <1>9, <1>10, <1>11, <1>13 DEF IInv, Fine

\* An admin sees another account, marked, or the own one again; any other
\* answer to a visit is a stray one.
LEMMA VisitedKeeps ==
  ASSUME IInv, NEW i \in DOMAIN req, req[i].stage = "ok", Visited(i) PROVE IInv'
<1>1. /\ req[i].kind \in {"visit", "quit"}
      /\ UNCHANGED <<account, holder, expired, token, events>>
  BY DEF Visited, server
<1>2. PICK stray \in BOOLEAN : stray = ~Live(req[i])
  BY DEF Live, InPanel
<1>3. Take(i, stray)
  BY <1>2 DEF Visited
<1>4. PICK sent : sent = Answered(i)
  OBVIOUS
<1>5. Fine(sent) /\ Len(sent) = Len(req) /\ SameChanges(sent)
  BY <1>1, <1>4, AnsweredIs
<1>6. /\ TypeOK /\ PanelInv /\ ShownInv /\ Len(holder) \in Nat /\ token \in Nat
      /\ Len(req) \in Nat /\ Shape(req[i])
  BY DEF IInv, TypeOK, Fine
<1>7. CASE Live(req[i]) /\ token # 0
  <2>1. /\ seg' = "panel" /\ switch' = Empty.set /\ bound' = FALSE /\ timer' = TRUE
        /\ visit' = Visiting(req[i].kind) /\ req' = sent
        /\ UNCHANGED <<entry, user, self, panel>>
    BY <1>4, <1>7 DEF Visited
  <2>2. /\ loggedUser' \in Object /\ loggedUser'.id = req[i].id /\ req[i].id \in Users
        /\ mishaps' \subseteq {"stray", "robbed"} /\ astray' \subseteq Settings
        /\ (\A k \in DOMAIN req : FreshInv(req[k]))'
        /\ (\A s \in Settings : CopyInv(s))'
    BY <1>1, <1>3, <1>5, <2>1, TakeCopies DEF Loads
  <2>3. Empty.set \in Copy /\ visit' \in BOOLEAN /\ InPanel /\ req' \in Seq(Request)
    BY <1>5, <1>7, <2>1, DoneIs DEF Object, Visiting, Live, Fine
  <2>4. TypeOK'
    BY <1>1, <1>5, <1>6, <2>1, <2>2, <2>3 DEF TypeOK, Panel
  <2>5. PanelInv'
    BY <1>6, <2>1, <2>2, <2>3 DEF PanelInv
  <2>6. ShownInv'
    BY <1>1, <1>6, <1>7, <2>1, <2>2 DEF ShownInv, Shape, Visiting
  <2>7. /\ panel' = panel /\ (InPanel' => InPanel /\ self' = self)
        /\ Len(holder) <= Len(holder')
    BY <1>1, <1>6, <2>1, <2>3
  <2>8. (\A k \in DOMAIN req : Shape(req[k]))'
    BY <1>5, <1>6, <2>1, <2>4, <2>7, ShapesKept
  <2> QED BY <2>2, <2>3, <2>4, <2>5, <2>6, <2>8 DEF IInv, Fine
<1>8. CASE ~(Live(req[i]) /\ token # 0)
  <2>1. ToPanel(token, sent, FALSE)
    BY <1>4, <1>8 DEF Visited
  <2>2. /\ Fine(req') /\ SameChanges(req') /\ Len(req') >= Len(req)
        /\ entry' \in 0 .. Len(req')
    BY <1>5, <1>6, <2>1, ToPanelAsks
  <2>3. /\ seg' \in {"signIn", "resolving"} \cup Panel
        /\ user' \in Object /\ bound' \in BOOLEAN /\ timer' \in BOOLEAN
        /\ self' \in Users \cup {NoUser} /\ panel' = panel /\ visit' \in BOOLEAN
        /\ switch' \in Copy
        /\ InPanel' => InPanel /\ UNCHANGED <<user, timer, self, visit>>
    BY <1>6, <2>1, ToPanelType
  <2>4. /\ loggedUser' \in Object /\ loggedUser'.id = req[i].id /\ req[i].id \in Users
        /\ mishaps' \subseteq {"stray", "robbed"} /\ astray' \subseteq Settings
        /\ stray => "stray" \in mishaps'
        /\ (\A k \in DOMAIN req : FreshInv(req[k]))'
        /\ (\A s \in Settings : CopyInv(s))'
    BY <1>1, <1>3, <2>2, TakeCopies DEF Loads
  <2>5. req' \in Seq(Request)
    BY <2>2 DEF Fine
  <2>6. TypeOK'
    BY <1>1, <1>6, <2>2, <2>3, <2>4, <2>5 DEF TypeOK
  <2>7. InPanel' => stray
    <3>1. token = 0 => ~InPanel'
      BY <2>1 DEF ToPanel, ToSignIn, InPanel, Panel
    <3> QED BY <1>2, <1>8, <3>1
  <2>8. PanelInv' /\ ShownInv'
    BY <1>6, <2>3, <2>4, <2>7 DEF PanelInv, ShownInv
  <2>9. /\ panel' = panel /\ (InPanel' => InPanel /\ self' = self)
        /\ Len(holder) <= Len(holder')
    BY <1>1, <1>6, <2>3
  <2>10. (\A k \in DOMAIN req : Shape(req[k]))'
    BY <1>6, <2>2, <2>6, <2>9, ShapesKept
  <2> QED BY <2>4, <2>5, <2>6, <2>8, <2>10 DEF IInv, Fine
<1> QED BY <1>7, <1>8

LEMMA AnswerKeeps ==
  ASSUME IInv, NEW i \in DOMAIN req, Answer(i) PROVE IInv'
<1>1. CASE Unauthorized(i)
  BY <1>1, RefusedKeeps DEF Unauthorized, history
<1>2. CASE Failed(i)
  <2>1. /\ req[i].stage = "error" /\ req' = Answered(i)
        /\ loggedUser' = IF req[i].kind = "ping" THEN Empty ELSE loggedUser
        /\ IF EndsSession(req[i].kind)
           THEN token' = 0 /\ ToSignIn
           ELSE UNCHANGED <<token, route, scope>>
        /\ UNCHANGED <<server, history, astray>>
    BY <1>2 DEF Failed
  <2> QED BY <2>1, RefusedKeeps DEF EndsSession
<1>3. CASE req[i].stage = "ok" /\ ~Unauthorized(i) /\ ~Failed(i)
  BY <1>3, SignedInKeeps, TokenIsValidKeeps, LoadedKeeps, RefreshedKeeps,
     VisitedKeeps, SettingDoneKeeps DEF Answer
<1> QED BY <1>1, <1>2, <1>3 DEF Answer

LEMMA TimerKeeps ==
  ASSUME IInv, TimerFires PROVE IInv'
<1>1. /\ timer' = FALSE /\ user' = loggedUser /\ bound' = TRUE
      /\ UNCHANGED <<account, holder, expired, token, seg, entry, switch,
                     loggedUser, self,
                     panel, visit, req, mishaps, events, astray>>
  BY DEF TimerFires, server, route, history
<1>2. TypeOK /\ Fine(req') /\ SameChanges(req') /\ PanelInv /\ ShownInv
      /\ Len(holder) \in Nat
  BY <1>1, FineReq DEF IInv, TypeOK
<1>3. TypeOK'
  BY <1>1, <1>2 DEF TypeOK
<1>4. PanelInv' /\ ShownInv'
  BY <1>1, <1>2 DEF PanelInv, ShownInv, InPanel
<1>5. /\ panel' = panel /\ (InPanel' => InPanel /\ self' = self)
      /\ Len(holder) <= Len(holder')
  BY <1>1, <1>2 DEF InPanel
<1> QED BY <1>1, <1>2, <1>3, <1>4, <1>5, QuietStep

LEMMA OthersKeep ==
  ASSUME IInv,
         \/ \E t \in DOMAIN holder : Expire(t)
         \/ OtherPageSignsOut
         \/ \E u \in Users : OtherPageSignsIn(u)
  PROVE  IInv'
<1>1. TypeOK /\ Fine(req) /\ SameChanges(req) /\ Len(holder) \in Nat
      /\ holder \in Seq(Users)
  BY FineReq DEF IInv, TypeOK
<1>2. /\ UNCHANGED <<account, route, loggedUser, scope, req, mishaps, astray>>
      /\ events' \in 0 .. MaxEvents
  BY <1>1 DEF Expire, OtherPageSignsOut, OtherPageSignsIn, server, Event, TypeOK
<1>3. /\ holder' \in Seq(Users) /\ Len(holder') <= MaxTokens
      /\ Len(holder) <= Len(holder')
      /\ expired' \subseteq 1 .. Len(holder') /\ token' \in 0 .. Len(holder')
  <2>0. expired \subseteq 1 .. Len(holder) /\ token \in 0 .. Len(holder)
        /\ Len(holder) <= MaxTokens /\ DOMAIN holder = 1 .. Len(holder)
    BY <1>1 DEF TypeOK
  <2>1. ASSUME NEW t \in DOMAIN holder, Expire(t)
        PROVE  holder' = holder /\ token' = token
               /\ expired' \subseteq 1 .. Len(holder)
    BY <2>0, <2>1 DEF Expire
  <2>2. CASE \E t \in DOMAIN holder : Expire(t)
    BY <1>1, <2>0, <2>1, <2>2
  <2>3. CASE OtherPageSignsOut
    <3>1. holder' = holder /\ token' = 0 /\ expired' = expired
      BY <2>3 DEF OtherPageSignsOut, server
    <3> QED BY <1>1, <2>0, <3>1
  <2>4. CASE \E u \in Users : OtherPageSignsIn(u)
    <3>1. PICK u \in Users : OtherPageSignsIn(u)
      BY <2>4
    <3>2. /\ Len(holder) < MaxTokens /\ holder' = Append(holder, u)
          /\ token' = Len(holder') /\ expired' = expired
      BY <3>1 DEF OtherPageSignsIn
    <3>3. holder' \in Seq(Users) /\ Len(holder') = Len(holder) + 1
      BY <1>1, <3>2, AppendIs
    <3> QED BY <1>1, <2>0, <3>2, <3>3
  <2> QED BY <2>2, <2>3, <2>4
<1>4. TypeOK'
  <2>1. UNCHANGED <<seg, entry, switch, user, bound, timer, self, panel, visit>>
    BY <1>2 DEF route, scope
  <2> QED BY <1>1, <1>2, <1>3, <2>1 DEF TypeOK
<1>5. InPanel' => InPanel
  BY <1>2 DEF route, InPanel
<1>6. Fine(req') /\ SameChanges(req') /\ mishaps \subseteq mishaps'
  BY <1>1, <1>2
<1> QED BY <1>2, <1>3, <1>4, <1>5, <1>6, ScopeStep

-----------------------------------------------------------------------------
LEMMA InitInv == Init => IInv
<1> SUFFICES ASSUME Init PROVE IInv
  OBVIOUS
<1>1. Empty \in Object /\ Empty.set \in Copy /\ Empty.id = NoUser
  BY DoneIs DEF Object
<1>2. /\ req \in Seq(Request) /\ Len(req) = 0 /\ DOMAIN req = {}
      /\ holder \in Seq(Users) /\ Len(holder) = 0
  BY DEF Init
<1>3. token = 0 /\ entry = 0 /\ expired = {} /\ events = 0 /\ seg = "signIn"
  BY DEF Init
<1>4. token \in 0 .. Len(holder) /\ entry \in 0 .. Len(req)
      /\ Len(holder) <= MaxTokens
      /\ events \in 0 .. MaxEvents
  BY <1>2, <1>3
<1>5. TypeOK
  BY <1>1, <1>2, <1>3, <1>4 DEF Init, TypeOK
<1>6. ~InPanel
  BY <1>3 DEF InPanel, Panel
<1>7. loggedUser.id = NoUser
  BY <1>1 DEF Init
<1>8. \A s \in Settings : CopyInv(s)
  BY <1>2, <1>7 DEF CopyInv, Pending
<1> QED BY <1>2, <1>5, <1>6, <1>8 DEF IInv, Fine, PanelInv, ShownInv

LEMMA NextInv == IInv /\ [Next]_vars => IInv'
<1> SUFFICES ASSUME IInv, [Next]_vars PROVE IInv'
  OBVIOUS
<1>1. CASE Browser
  BY <1>1, SignInKeeps, VisitUserKeeps, OpenPanelKeeps, OpenDashboardKeeps,
     OpenSettingsKeeps, EndKeeps, FlipKeeps, QuitVisitKeeps DEF Browser
<1>2. ASSUME NEW i \in DOMAIN req, Serve(i) \/ ServeSignIn(i) \/ Lose(i) \/ Answer(i)
      PROVE  IInv'
  BY <1>2, ServeKeeps, ServeSignInKeeps, LoseKeeps, AnswerKeeps
<1>3. CASE TimerFires
  BY <1>3, TimerKeeps
<1>4. CASE \/ \E t \in DOMAIN holder : Expire(t)
           \/ OtherPageSignsOut
           \/ \E u \in Users : OtherPageSignsIn(u)
  BY <1>4, OthersKeep
<1>5. CASE UNCHANGED vars
  <2>1. /\ UNCHANGED <<account, astray, loggedUser, scope, mishaps, holder, req, seg>>
        /\ UNCHANGED <<expired, token, entry, switch, user, bound, timer, self, panel,
                       visit, events>>
    BY <1>5 DEF vars, server, route, scope, history
  <2>2. TypeOK' /\ Fine(req') /\ SameChanges(req') /\ Len(holder) <= Len(holder')
    BY <2>1, FineReq DEF IInv, TypeOK
  <2> QED BY <2>1, <2>2, ScopeStep DEF InPanel
<1> QED BY <1>1, <1>2, <1>3, <1>4, <1>5 DEF Next

\* The invariant of the page, its requests and the accounts.
THEOREM Invariance == Spec => []IInv
<1> QED BY InitInv, NextInv, PTL DEF Spec

\* Requests, tokens and the scope keep their types.
THEOREM TypeCorrect == Spec => []TypeOK
<1>1. IInv => TypeOK
  BY DEF IInv
<1> QED BY <1>1, Invariance, PTL

\* The panel shows the user its requests are for, and marks a visit
\* (controlPanel.js, userService.js), until a stray answer comes.
THEOREM PanelShowsItsUser == Spec => []ShownIsLoaded
<1>1. IInv => ShownIsLoaded
  BY DEF IInv, ShownInv, ShownIsLoaded
<1> QED BY <1>1, Invariance, PTL

\* A setting of which no change is under way is in the page's copy what the
\* server has, unless its copy met one of the named accidents.
THEOREM CopiesAgree == Spec => []CopyAgrees
<1>1. IInv => CopyAgrees
  BY DEF IInv, CopyInv, CopyAgrees, Agrees
<1> QED BY <1>1, Invariance, PTL
===============================================================================
