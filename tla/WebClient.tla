----------------------------- MODULE WebClient -----------------------------
(***************************************************************************)
(* One page of the web client (webClient/app/scripts) and the server's     *)
(* side of its requests.  The token of the session is in localStorage,     *)
(* which every page of the browser shares; the user the page works for is  *)
(* a copy in UserService, `loggedUser'.  An answer is handled whenever it  *)
(* comes, whatever the page has gone on to do meanwhile; an answer 401     *)
(* takes away the token that is there when it comes.                       *)
(*                                                                         *)
(* Which view of the panel a path leads to does not matter but for the     *)
(* settings; a reload of the page is a new start with what is in           *)
(* localStorage (OpenPanel).                                               *)
(*                                                                         *)
(* A user's settings are two: isActive stands for those whose copy is set  *)
(* to the value that was sent, mail for enableEmailNotification, whose     *)
(* copy is toggled.  Only this page changes them here.                     *)
(***************************************************************************)
EXTENDS Naturals, Sequences

\* (Operators named Bug... are slips of the code one definition further down
\* could suffer; each is used to show that a property would notice.)

CONSTANTS
  Users,
  Admins,
  NoUser,
  MaxRequests,  \* bound on the requests the user makes
  MaxTokens,    \* bound on sign-ins
  MaxEvents     \* bound on errors, expiries and what other pages do

ASSUME WebAssumption ==
  /\ Admins \subseteq Users
  /\ NoUser \notin Users
  /\ MaxRequests \in Nat
  /\ MaxTokens \in Nat
  /\ MaxEvents \in Nat

Settings == {"isActive", "mail"}

VARIABLES
  account,  \* the server's settings of each user
  holder,   \* the user each token was signed for
  expired,  \* the tokens the server refuses by now
  token,    \* localStorage.token; 0 if there is none
  seg,      \* route segment; "settings" is the panel with that view
  entry,    \* the request the promise of CheckToken waits for; 0 if none
  loggedUser,   \* UserService's copy of a user
  user,     \* $scope.user, the user the panel shows
  bound,    \* the two are the same object
  timer,    \* refreshUserObject's timeout is pending
  self,     \* whom the panel was opened for; adminId if an admin
  panel,    \* how many panels were opened
  visit,    \* visit.active
  switch,   \* the switches of the settings view
  req,      \* the requests, in the order they were sent
  \* history
  astray,   \* settings whose copy met one of the accidents below
  mishaps,
  events

server  == <<account, holder, expired>>
route   == <<seg, entry, switch>>
scope   == <<user, bound, timer, self, panel, visit>>
history == <<mishaps, events>>
vars == <<server, token, route, loggedUser, scope, req, history, astray>>

Copy   == [Settings -> BOOLEAN]
Object == [id : Users \cup {NoUser}, set : Copy]
Empty  == [id |-> NoUser, set |-> [s \in Settings |-> FALSE]]

Loads == {"load", "refresh", "visit", "quit"}

\* A request: what for, for whom, with which token; the setting and its value;
\* sent from which panel, for which loggedUser; no change of a setting was in
\* flight with it; then the answer.
Done == [kind |-> "none", id |-> NoUser, token |-> 0, setting |-> "mail",
         value |-> FALSE, panel |-> 0, from |-> NoUser, fresh |-> FALSE,
         stage |-> "done", new |-> 0, body |-> Empty]
Request ==
  [kind : Loads \cup {"none", "signIn", "ping", "set"},
   id : Users \cup {NoUser}, token : Nat, setting : Settings,
   value : BOOLEAN, panel : Nat, from : Users \cup {NoUser},
   fresh : BOOLEAN, stage : {"sent", "ok", "denied", "error", "done"},
   new : Nat, body : Object]

Panel == {"panel", "settings"}

TypeOK ==
  /\ account \in [Users -> Copy]
  /\ holder \in Seq(Users) /\ Len(holder) <= MaxTokens
  /\ expired \subseteq 1 .. Len(holder)
  /\ token \in 0 .. Len(holder)
  /\ seg \in {"signIn", "resolving"} \cup Panel
  /\ entry \in 0 .. Len(req)
  /\ loggedUser \in Object
  /\ user \in Object
  /\ bound \in BOOLEAN
  /\ timer \in BOOLEAN
  /\ self \in Users \cup {NoUser}
  /\ panel \in Nat
  /\ visit \in BOOLEAN
  /\ switch \in Copy
  /\ req \in Seq(Request)
  /\ astray \subseteq Settings
  /\ mishaps \subseteq {"stray", "robbed"}
  /\ events \in 0 .. MaxEvents

Init ==
  /\ account = [u \in Users |-> Empty.set]
  /\ holder = <<>>
  /\ expired = {}
  /\ token = 0
  /\ seg = "signIn"
  /\ entry = 0
  /\ loggedUser = Empty
  /\ user = Empty
  /\ bound = FALSE
  /\ timer = FALSE
  /\ self = NoUser
  /\ panel = 0
  /\ visit = FALSE
  /\ switch = Empty.set
  /\ req = <<>>
  /\ astray = {}
  /\ mishaps = {}
  /\ events = 0

-----------------------------------------------------------------------------
InPanel == seg \in Panel
Pending(kinds) ==
  {i \in DOMAIN req : req[i].kind \in kinds /\ req[i].stage # "done"}
Unsettled == {req[i].setting : i \in Pending({"set"})}

More  == Len(req) < MaxRequests
Event == events < MaxEvents /\ events' = events + 1

\* $http with the interceptor, which adds the token that is there.
Ask(kind, id, t) ==
  [Done EXCEPT !.kind = kind, !.id = id, !.token = t, !.panel = panel,
               !.from = loggedUser.id, !.fresh = Pending({"set"}) = {},
               !.stage = "sent"]

\* The sign-in view replaces whatever there was.
ToSignIn ==
  /\ seg' = "signIn"
  /\ entry' = 0
  /\ switch' = Empty.set
  /\ user' = Empty
  /\ bound' = FALSE
  /\ timer' = FALSE
  /\ self' = NoUser
  /\ visit' = FALSE
  /\ UNCHANGED panel

\* The panel's path is set while another view may be open and t is the token:
\* without one routeChangeStart redirects to the sign-in; from there, the
\* route waits for CheckToken.  sent are the requests up to here, same says if
\* the panel that may be open shows the very object of UserService.
ToPanel(t, sent, same) ==
  \/ /\ t = 0
     /\ ToSignIn
     /\ req' = sent
  \/ /\ t # 0
     /\ seg = "signIn"
     /\ seg' = "resolving"
     /\ req' = Append(sent, Ask("ping", NoUser, t))
     /\ entry' = Len(req')
     /\ UNCHANGED <<switch, scope>>
  \/ /\ t # 0
     /\ seg # "signIn"
     /\ seg' = IF InPanel THEN "panel" ELSE seg
     /\ switch' = Empty.set
     /\ req' = sent
     /\ bound' = same
     /\ UNCHANGED <<entry, user, timer, self, panel, visit>>

-----------------------------------------------------------------------------
(* The user *)

SignIn(u) ==
  /\ seg = "signIn"
  /\ Pending({"signIn"}) = {}
  /\ More
  /\ req' = Append(req, Ask("signIn", u, token))
  /\ UNCHANGED <<server, token, route, loggedUser, scope, history, astray>>

OpenPanel ==
  /\ seg = "signIn"
  /\ token # 0
  /\ More
  /\ ToPanel(token, req, bound)
  /\ UNCHANGED <<server, token, loggedUser, history, astray>>

\* DashboardCtrl loads the user anew.
OpenDashboard ==
  /\ InPanel
  /\ token # 0
  /\ More
  /\ seg' = "panel"
  /\ switch' = Empty.set
  /\ req' = Append(req, Ask("refresh", loggedUser.id, token))
  /\ UNCHANGED <<server, token, entry, loggedUser, scope, history, astray>>

OpenSettings ==
  /\ seg = "panel"
  /\ token # 0
  /\ seg' = "settings"
  /\ switch' = user.set
  /\ UNCHANGED <<server, token, entry, loggedUser, scope, req, history,
                 astray>>

\* Any link in the panel, when another page has ended the session.
OpenWithoutToken ==
  /\ InPanel
  /\ token = 0
  /\ ToSignIn
  /\ UNCHANGED <<server, token, loggedUser, req, history, astray>>

\* A switch of the settings is moved.  The copy can go astray if a change of
\* the same setting is in flight, or if the mail switch is not where the copy
\* is, as after a failed change.
Flip(s) ==
  /\ seg = "settings"
  /\ More
  /\ switch' = [switch EXCEPT ![s] = ~@]
  /\ req' = Append([i \in DOMAIN req |-> [req[i] EXCEPT !.fresh = FALSE]],
                   [Ask("set", loggedUser.id, token) EXCEPT
                      !.setting = s, !.value = switch'[s]])
  /\ astray' = IF \/ s \in Unsettled
                  \/ s = "mail" /\ switch[s] # loggedUser.set[s]
               THEN astray \cup {s} ELSE astray
  /\ UNCHANGED <<server, token, seg, entry, loggedUser, scope, history>>

\* An admin looks at a user's account, and goes back to the own one.
VisitUser(u) ==
  /\ InPanel
  /\ self \in Admins
  /\ ~visit
  /\ More
  /\ req' = Append(req, Ask("visit", u, token))
  /\ UNCHANGED <<server, token, route, loggedUser, scope, history, astray>>

QuitVisit ==
  /\ InPanel
  /\ visit
  /\ More
  /\ req' = Append(req, Ask("quit", self, token))
  /\ UNCHANGED <<server, token, route, loggedUser, scope, history, astray>>

Logout ==
  /\ InPanel
  /\ ~visit
  /\ loggedUser' = Empty
  /\ token' = 0
  /\ ToSignIn
  /\ UNCHANGED <<server, req, history, astray>>

-----------------------------------------------------------------------------
(* The server *)

\* restifyJwt, and commonHandlers' authorization.
Admitted(q) ==
  /\ q.token \in DOMAIN holder \ expired
  /\ q.kind = "ping" \/ holder[q.token] \in Admins \cup {q.id}

Serve(i) ==
  LET q == req[i]
  IN  /\ q.stage = "sent"
      /\ q.kind # "signIn"
      /\ IF Admitted(q)
         THEN /\ account' = IF q.kind = "set"
                THEN [account EXCEPT ![q.id][q.setting] = q.value]
                ELSE account
              /\ req' = [req EXCEPT ![i].stage = "ok",
                   ![i].body = IF q.kind \in Loads
                               THEN [id |-> q.id, set |-> account[q.id]]
                               ELSE Empty]
         ELSE /\ req' = [req EXCEPT ![i].stage = "denied"]
              /\ UNCHANGED account
      /\ UNCHANGED <<holder, expired, token, route, loggedUser, scope,
                     history, astray>>

\* The password is right or wrong; it is not there if the interceptor has put
\* a token in its place.
ServeSignIn(i) ==
  /\ req[i].stage = "sent"
  /\ req[i].kind = "signIn"
  /\ \/ /\ req[i].token # 0
        /\ req' = [req EXCEPT ![i].stage = "error"]
        /\ UNCHANGED holder
     \/ /\ req[i].token = 0
        /\ req' = [req EXCEPT ![i].stage = "denied"]
        /\ UNCHANGED holder
     \/ /\ req[i].token = 0
        /\ Len(holder) < MaxTokens
        /\ holder' = Append(holder, req[i].id)
        /\ req' = [req EXCEPT ![i].stage = "ok", ![i].new = Len(holder')]
  /\ UNCHANGED <<account, expired, token, route, loggedUser, scope, history,
                 astray>>

\* A request or its answer is lost, or the database fails.
Lose(i) ==
  /\ req[i].stage \in {"sent", "ok"}
  /\ Event
  /\ req' = [req EXCEPT ![i].stage = "error"]
  /\ astray' = IF req[i].stage = "ok" /\ req[i].kind = "set"
               THEN astray \cup {req[i].setting} ELSE astray
  /\ UNCHANGED <<server, token, route, loggedUser, scope, mishaps>>

-----------------------------------------------------------------------------
(* Answers *)

Answered(i) == [req EXCEPT ![i] = Done]
Live(q)     == InPanel /\ q.panel = panel

\* The interceptor: whichever token the request had carried, the one that is
\* there now is taken away.  ClearService follows if it was CheckToken's ping.
Unauthorized(i) ==
  /\ req[i].stage = "denied"
  /\ req' = Answered(i)
  /\ token' = 0
  /\ ToSignIn
  /\ loggedUser' = IF req[i].kind = "ping" THEN Empty ELSE loggedUser
  /\ UNCHANGED <<server, mishaps, events, astray>>

BugPingOnly(kind) == kind = "ping"

\* Another error ends the session only if it is CheckToken that meets it.
EndsSession(kind) == kind \in {"ping", "load"}

Failed(i) ==
  LET kind == req[i].kind
  IN  /\ req[i].stage = "error"
      /\ req' = Answered(i)
      /\ loggedUser' = IF kind = "ping" THEN Empty ELSE loggedUser
      /\ IF EndsSession(kind)
         THEN token' = 0 /\ ToSignIn
         ELSE UNCHANGED <<token, route, scope>>
      /\ UNCHANGED <<server, history, astray>>

SignedIn(i) ==
  /\ req[i].kind = "signIn"
  /\ token' = req[i].new
  /\ ToPanel(req[i].new, Answered(i), bound)
  /\ UNCHANGED <<server, loggedUser, history, astray>>

\* The user is read from the token that is there by now.  If another page has
\* removed it, the callback throws and the promise is never settled.
TokenIsValid(i) ==
  /\ req[i].kind = "ping"
  /\ IF token = 0
     THEN /\ mishaps' = IF entry = i THEN mishaps \cup {"robbed"} ELSE mishaps
          /\ req' = Answered(i)
          /\ UNCHANGED entry
     ELSE /\ req' = Append(Answered(i), Ask("load", holder[token], token))
          /\ entry' = IF entry = i THEN Len(req') ELSE entry
          /\ UNCHANGED mishaps
  /\ UNCHANGED <<server, token, seg, switch, loggedUser, scope, events,
                 astray>>

\* UserService takes over the user of an answer.  It is a stray one if the
\* page has meanwhile gone on to another user or another session; it may hold
\* old or new values of what was changed while it was under way.
Take(i, stray) ==
  /\ loggedUser' = req[i].body
  /\ astray' = IF req[i].fresh THEN {} ELSE Settings
  /\ mishaps' = IF stray THEN mishaps \cup {"stray"} ELSE mishaps

\* CheckToken's promise is kept and ControlPanelCtrl starts.
Loaded(i) ==
  /\ req[i].kind = "load"
  /\ Take(i, entry # i)
  /\ req' = Answered(i)
  /\ IF entry = i
     THEN /\ seg' = "panel"
          /\ entry' = 0
          /\ user' = loggedUser'
          /\ bound' = TRUE
          /\ self' = loggedUser'.id
          /\ panel' = panel + 1
          /\ UNCHANGED <<switch, timer, visit>>
     ELSE /\ bound' = FALSE
          /\ UNCHANGED <<route, user, timer, self, panel, visit>>
  /\ UNCHANGED <<server, token, events>>

Refreshed(i) ==
  /\ req[i].kind = "refresh"
  /\ Take(i, loggedUser.id # req[i].from)
  /\ req' = Answered(i)
  /\ bound' = FALSE
  /\ timer' = (timer \/ Live(req[i]))
  /\ UNCHANGED <<server, token, route, user, self, panel, visit, events>>

BugVisitUnmarked(kind) == FALSE

Visiting(kind) == kind = "visit"

\* visitUser and quitVisit; of a panel that is gone only the path is left.
Visited(i) ==
  /\ req[i].kind \in {"visit", "quit"}
  /\ Take(i, ~Live(req[i]))
  /\ IF Live(req[i]) /\ token # 0
     THEN /\ seg' = "panel"
          /\ switch' = Empty.set
          /\ bound' = FALSE
          /\ timer' = TRUE
          /\ visit' = Visiting(req[i].kind)
          /\ req' = Answered(i)
          /\ UNCHANGED <<entry, user, self, panel>>
     ELSE ToPanel(token, Answered(i), FALSE)
  /\ UNCHANGED <<server, token, events>>

BugNotNoted(q) == loggedUser

BugTakesAnswer(q) == [s \in {q.setting} |-> q.value]

\* A changed setting is noted in the copy there is by now.
Noted(q) ==
  [loggedUser EXCEPT
     !.set[q.setting] = IF q.setting = "mail" THEN ~@ ELSE q.value]

SettingDone(i) ==
  /\ req[i].kind = "set"
  /\ loggedUser' = Noted(req[i])
  /\ user' = IF bound THEN loggedUser' ELSE user
  /\ timer' = (timer \/ Live(req[i]))
  /\ req' = Answered(i)
  /\ UNCHANGED <<server, token, route, bound, self, panel, visit, history,
                 astray>>

Answer(i) ==
  \/ Unauthorized(i)
  \/ Failed(i)
  \/ /\ req[i].stage = "ok"
     /\ \/ SignedIn(i)
        \/ TokenIsValid(i)
        \/ Loaded(i)
        \/ Refreshed(i)
        \/ Visited(i)
        \/ SettingDone(i)

\* refreshUserObject's timeout.
TimerFires ==
  /\ timer
  /\ timer' = FALSE
  /\ user' = loggedUser
  /\ bound' = TRUE
  /\ UNCHANGED <<server, token, route, loggedUser, self, panel, visit, req,
                 history, astray>>

-----------------------------------------------------------------------------
(* Time, and the other pages of the browser *)

Expire(t) ==
  /\ t \notin expired
  /\ Event
  /\ expired' = expired \cup {t}
  /\ UNCHANGED <<account, holder, token, route, loggedUser, scope, req,
                 mishaps, astray>>

OtherPageSignsOut ==
  /\ token # 0
  /\ Event
  /\ token' = 0
  /\ UNCHANGED <<server, route, loggedUser, scope, req, mishaps, astray>>

OtherPageSignsIn(u) ==
  /\ token = 0
  /\ Len(holder) < MaxTokens
  /\ Event
  /\ holder' = Append(holder, u)
  /\ token' = Len(holder')
  /\ UNCHANGED <<account, expired, route, loggedUser, scope, req, mishaps,
                 astray>>

-----------------------------------------------------------------------------
Browser ==
  \/ \E u \in Users : SignIn(u) \/ VisitUser(u)
  \/ OpenPanel
  \/ OpenDashboard
  \/ OpenSettings
  \/ OpenWithoutToken
  \/ \E s \in Settings : Flip(s)
  \/ QuitVisit
  \/ Logout

Next ==
  \/ Browser
  \/ \E i \in DOMAIN req : Serve(i) \/ ServeSignIn(i) \/ Lose(i) \/ Answer(i)
  \/ TimerFires
  \/ \E t \in DOMAIN holder : Expire(t)
  \/ OtherPageSignsOut
  \/ \E u \in Users : OtherPageSignsIn(u)

Spec == Init /\ [][Next]_vars

\* Every request is answered, if by an error, and the page handles every
\* answer; users owe nothing.  No request is beyond the last index: each one
\* of the user's is followed by two at most.
Handle(i) ==
  i \in DOMAIN req /\ (Serve(i) \/ ServeSignIn(i) \/ Answer(i))

FairSpec == Spec /\ \A i \in 1 .. 3 * MaxRequests : WF_vars(Handle(i))

-----------------------------------------------------------------------------
(* Properties *)

\* When no timeout is pending, the panel shows the user whose account its next
\* requests are for: whoever signed in, or the one an admin visits as long as
\* "You are signed in as" is shown.  Unless a stray answer came: nothing in
\* the client turns one away.
ShownIsLoaded ==
  InPanel /\ ~timer /\ "stray" \notin mishaps =>
    /\ user.id = loggedUser.id
    /\ loggedUser.id # self => visit /\ self \in Admins

\* The page's copy of a setting is the server's whenever no change of it is in
\* flight, unless it went astray; the next load that meets no change mends it.
CopyAgrees ==
  \A s \in Settings \ (astray \cup Unsettled) :
    loggedUser.id # NoUser => loggedUser.set[s] = account[loggedUser.id][s]

\* Whoever waits for the panel gets it, or the sign-in, unless another page
\* removed the token while CheckToken's ping was under way.
EntryEnds == seg = "resolving" ~> seg # "resolving" \/ "robbed" \in mishaps

=============================================================================
