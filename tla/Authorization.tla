--------------------------- MODULE Authorization ---------------------------
(***************************************************************************)
(* Who may drink what, and who is charged for it.  The server answers a    *)
(* key with the items its owner can pay (pi/authentication.js); the coffee *)
(* machine pours one of them, or, when no usable answer came (network.c),  *)
(* anything; the booking is charged to the user of the answer or, if there *)
(* was none, to whoever owns the key by then (pi/addBooking.js).  All the  *)
(* while administrators and users change prices, limits, balances, keys    *)
(* and accounts over the web (user.js, key.js, newTransaction.js,          *)
(* transactionPurposes.js).                                                *)
(*                                                                         *)
(* Money is in cents.  The session is VendSession's, the way of a booking  *)
(* BookingBackup's and its entry into the tables TransactionExecutor's;    *)
(* each is a step or two here.                                             *)
(***************************************************************************)
EXTENDS Integers, FiniteSets

\* (Operators named Bug... are slips of the code one definition further down
\* could suffer; each is used to show that a property would notice.)

CONSTANTS
  Users, Keys, Products,
  Terminals,    \* coffee machines (the entries of config.json, "pi")
  Nobody,       \* no user
  Depletion,    \* the coffee machine's own account
  NoKey, NoItem,
  Unpriced,     \* price NULL, or no such row
  Prices,       \* prices, debt limits and web transactions that occur
  MenuSize,     \* how many priced items the client insists on (network.c: 8)
  MaxBookings,  \* bound on cups
  MaxActs       \* bound on what happens over the web and on lost answers

ASSUME AuthorizationAssumption ==
  /\ Nobody \notin Users /\ Depletion \notin Users /\ Nobody # Depletion
  /\ NoKey \notin Keys /\ NoItem \notin Products
  /\ Unpriced \notin Prices
  /\ Prices \subseteq Nat
  /\ MaxBookings \in Nat
  /\ MaxActs \in Nat

Bookings == 1 .. MaxBookings
Owners   == Users \cup {Nobody}
Menu     == [Products -> Prices \cup {Unpriced}]
NoMenu   == [p \in Products |-> Unpriced]

VARIABLES
  limit,      \* debtLimit of each user
  deposit,    \* currentDeposit
  barred,     \* users blocked or inactive
  deleted,    \* users deleted
  owner,      \* table nfcKeys
  menu,       \* table transactionPurposes
  term,       \* what each terminal is at
  cup,        \* what became of each cup
  \* history
  unchecked,  \* cents of debt that no authentication looked at
  acts        \* how often one of these happened so far

vars == <<limit, deposit, barred, deleted, owner, menu, term, cup,
          unchecked, acts>>

\* A terminal: the key it serves, the server's copies of the menu and of the
\* owner's account (as sets: empty until read), the items offered with their
\* prices, whether that was granted offline, the booking it pushes, and
\* (history) who owned the key since it was put on.
NoAccount == [user |-> Nobody, deposit |-> 0, limit |-> 0, refused |-> TRUE]
Account   == [user : Owners, deposit : Int, limit : Nat, refused : BOOLEAN]
Idle      == [pc |-> "idle", key |-> NoKey, items |-> {}, account |-> {},
              user |-> Nobody, offer |-> NoMenu, offline |-> FALSE,
              cup |-> 0, holders |-> {}]
Terminal  == [pc : {"idle", "asking", "granted", "pushing"},
              key : Keys \cup {NoKey}, items : SUBSET Menu,
              account : SUBSET Account, user : Owners, offer : Menu,
              offline : BOOLEAN, cup : 0 .. MaxBookings,
              holders : SUBSET Owners]

\* A cup: its booking (key, user_id unless the key was not authenticated,
\* item_code), the accounts it was charged to, and (history) who owned the key
\* from when it was put on until it was authenticated, or, if it was not,
\* until now.
NoCup == [state |-> "none", key |-> NoKey, user |-> Nobody, item |-> NoItem,
          charged |-> {}, holders |-> {}]
Cup   == [state : {"none", "pushing", "stored", "booked"},
          key : Keys \cup {NoKey}, user : Owners,
          item : Products \cup {NoItem},
          charged : SUBSET (Users \cup {Depletion}),
          holders : SUBSET Owners]

TypeOK ==
  /\ limit \in [Users -> Prices]
  /\ deposit \in [Users -> Int]
  /\ barred \in SUBSET Users /\ deleted \in SUBSET Users
  /\ owner \in [Keys -> Owners]
  /\ menu \in Menu
  /\ term \in [Terminals -> Terminal]
  /\ cup \in [Bookings -> Cup]
  /\ unchecked \in [Users -> Nat]
  /\ acts \in 0 .. MaxActs

Init ==
  /\ limit \in [Users -> Prices]
  /\ deposit = [u \in Users |-> 0]
  /\ barred = {} /\ deleted = {}
  /\ owner \in [Keys -> Owners]
  /\ menu \in Menu
  /\ term = [t \in Terminals |-> Idle]
  /\ cup = [n \in Bookings |-> NoCup]
  /\ unchecked = [u \in Users |-> 0]
  /\ acts = 0

-----------------------------------------------------------------------------
(* Authentication. *)

Ask(t, k) ==
  /\ term[t].pc = "idle"
  /\ term' = [term EXCEPT ![t] = [Idle EXCEPT !.pc = "asking", !.key = k,
                                               !.holders = {owner[k]}]]
  /\ UNCHANGED <<limit, deposit, barred, deleted, owner, menu, cup>>
  /\ UNCHANGED <<unchecked, acts>>

\* The server reads the menu and the account in parallel,
ReadMenu(t) ==
  /\ term[t].pc = "asking" /\ term[t].items = {}
  /\ term' = [term EXCEPT ![t].items = {menu}]
  /\ UNCHANGED <<limit, deposit, barred, deleted, owner, menu, cup>>
  /\ UNCHANGED <<unchecked, acts>>

AccountOf(u) ==
  IF u = Nobody THEN NoAccount
    ELSE [user |-> u, deposit |-> deposit[u], limit |-> limit[u],
          refused |-> u \in barred \cup deleted]

ReadAccount(t) ==
  /\ term[t].pc = "asking" /\ term[t].account = {}
  /\ term' = [term EXCEPT ![t].account = {AccountOf(owner[term[t].key])}]
  /\ UNCHANGED <<limit, deposit, barred, deleted, owner, menu, cup>>
  /\ UNCHANGED <<unchecked, acts>>

BugLimitTwice(price, a) ==
  \/ price = 0
  \/ a.deposit >= price
  \/ a.deposit > -a.limit /\ a.limit + a.deposit >= price - a.limit

\* is_enabled
Affordable(price, a) ==
  \/ price = 0
  \/ a.deposit >= price
  \/ a.deposit > -a.limit /\ a.limit + a.deposit >= price

Priced(m) == {p \in Products : m[p] # Unpriced}

OfferOf(m, a) ==
  [p \in Products |->
     IF p \in Priced(m) /\ Affordable(m[p], a) THEN m[p] ELSE Unpriced]

\* and answers.  An owner that does not exist or is barred gets no offer.
Refuse(t) ==
  /\ term[t].pc = "asking"
  /\ \E m \in term[t].items, a \in term[t].account :
       Priced(m) # {} /\ a.refused
  /\ term' = [term EXCEPT ![t] = Idle]
  /\ UNCHANGED <<limit, deposit, barred, deleted, owner, menu, cup>>
  /\ UNCHANGED <<unchecked, acts>>

\* What the client makes of a list of items: it takes a list of another
\* length than MenuSize for a parse error.
Understood(size) == size = MenuSize

Granted(t, a, m) ==
  IF Understood(Cardinality(Priced(m)))
    THEN [term[t] EXCEPT !.pc = "granted", !.user = a.user,
                         !.offer = OfferOf(m, a)]
    ELSE [term[t] EXCEPT !.pc = "granted", !.offline = TRUE]

Grant(t) ==
  /\ term[t].pc = "asking"
  /\ \E m \in term[t].items, a \in term[t].account :
       /\ Priced(m) # {} /\ ~a.refused
       /\ term' = [term EXCEPT ![t] =
            [Granted(t, a, m) EXCEPT !.items = {}, !.account = {}]]
  /\ UNCHANGED <<limit, deposit, barred, deleted, owner, menu, cup>>
  /\ UNCHANGED <<unchecked, acts>>

\* The request or the answer is lost, or the server fails.
NoAnswer(t) ==
  /\ term[t].pc = "asking"
  /\ term' = [term EXCEPT ![t] =
       [@ EXCEPT !.pc = "granted", !.offline = TRUE,
                 !.items = {}, !.account = {}]]
  /\ UNCHANGED <<limit, deposit, barred, deleted, owner, menu, cup>>
  /\ UNCHANGED <<unchecked, acts>>

\* No button was pressed in time.
TimeOut(t) ==
  /\ term[t].pc = "granted"
  /\ term' = [term EXCEPT ![t] = Idle]
  /\ UNCHANGED <<limit, deposit, barred, deleted, owner, menu, cup>>
  /\ UNCHANGED <<unchecked, acts>>

-----------------------------------------------------------------------------
(* Pouring and booking. *)

\* The machine pours an item offered, or, offline, any item.
Pour(t, p) ==
  /\ term[t].pc = "granted"
  /\ term[t].offline \/ term[t].offer[p] # Unpriced
  /\ \E n \in Bookings :
       /\ cup[n].state = "none"
       /\ \A m \in 1 .. n - 1 : cup[m].state # "none"
       /\ cup' = [cup EXCEPT ![n] =
            [NoCup EXCEPT !.state = "pushing", !.key = term[t].key,
                          !.user = term[t].user, !.item = p,
                          !.holders = term[t].holders]]
       /\ term' = [term EXCEPT ![t].pc = "pushing", ![t].cup = n]
  /\ UNCHANGED <<limit, deposit, barred, deleted, owner, menu>>
  /\ UNCHANGED <<unchecked, acts>>

BugToKeyOwner(c) == owner[c.key]

\* Whom addBooking finds for a booking,
UserOfCup(c) == IF c.user # Nobody THEN c.user ELSE owner[c.key]

BugChargesNobody(c) == UserOfCup(c)

\* and the account it charges.
Charged(c) ==
  IF UserOfCup(c) \in Users \ deleted THEN UserOfCup(c) ELSE Depletion

Excess(price, offered) ==
  IF offered = Unpriced THEN price
    ELSE IF price > offered THEN price - offered ELSE 0

\* The server books cup n.  Of its price, only what was offered has been
\* looked at by the authentication.
Enter(n, state, offered) ==
  /\ menu[cup[n].item] # Unpriced
  /\ LET account == Charged(cup[n])
         price   == menu[cup[n].item]
     IN  /\ cup' = [cup EXCEPT ![n].state = state,
                               ![n].charged = @ \cup {account}]
         /\ deposit' = [u \in Users |->
              IF u = account THEN deposit[u] - price ELSE deposit[u]]
         /\ unchecked' = [u \in Users |->
              IF u = account THEN unchecked[u] + Excess(price, offered)
                ELSE unchecked[u]]

Act == acts < MaxActs /\ acts' = acts + 1

\* The price the authentication looked at, if it did.
Offered(t) == term[t].offer[cup[term[t].cup].item]

\* The terminal's own push; if the answer is lost it stores what was booked.
Push(t) ==
  /\ term[t].pc = "pushing"
  /\ \/ Enter(term[t].cup, "booked", Offered(t)) /\ UNCHANGED acts
     \/ Enter(term[t].cup, "stored", Offered(t)) /\ Act
  /\ term' = [term EXCEPT ![t] = Idle]
  /\ UNCHANGED <<limit, barred, deleted, owner, menu>>

\* The push fails: nobody hears of it, or the item has no price.
Store(t) ==
  /\ term[t].pc = "pushing"
  /\ cup' = [cup EXCEPT ![term[t].cup].state = "stored"]
  /\ term' = [term EXCEPT ![t] = Idle]
  /\ UNCHANGED <<limit, deposit, barred, deleted, owner, menu>>
  /\ UNCHANGED <<unchecked, acts>>

\* The catch-up thread pushes a stored booking.
CatchUp(n) ==
  /\ cup[n].state = "stored"
  /\ \/ Enter(n, "booked", Unpriced) /\ UNCHANGED acts
     \/ Enter(n, "stored", Unpriced) /\ Act
  /\ UNCHANGED <<limit, barred, deleted, owner, menu, term>>

-----------------------------------------------------------------------------
(* Over the web. *)

\* PUT debtLimit
SetLimit(u, l) ==
  /\ Act
  /\ limit' = [limit EXCEPT ![u] = l]
  /\ unchecked' = [unchecked EXCEPT
       ![u] = @ + IF l < limit[u] THEN limit[u] - l ELSE 0]
  /\ UNCHANGED <<deposit, barred, deleted, owner, menu, term, cup>>

\* PUT isBlocked, isActive
SetBarred(u, set) ==
  /\ Act
  /\ barred' = set
  /\ set \in {barred \cup {u}, barred \ {u}}
  /\ UNCHANGED <<limit, deposit, deleted, owner, menu, term, cup, unchecked>>

\* DELETE user
DeleteUser(u) ==
  /\ Act
  /\ deleted' = deleted \cup {u}
  /\ UNCHANGED <<limit, deposit, barred, owner, menu, term, cup, unchecked>>

\* POST transaction: a credit; a debit or purchases, which ask for no limit.
Credit(u, a) ==
  /\ Act
  /\ deposit' = [deposit EXCEPT ![u] = @ + a]
  /\ UNCHANGED <<limit, barred, deleted, owner, menu, term, cup, unchecked>>

Withdraw(u, a) ==
  /\ Act
  /\ deposit' = [deposit EXCEPT ![u] = @ - a]
  /\ unchecked' = [unchecked EXCEPT ![u] = @ + a]
  /\ UNCHANGED <<limit, barred, deleted, owner, menu, term, cup>>

\* PUT or POST transactionPurposes
SetPrice(p, price) ==
  /\ Act
  /\ menu' = [menu EXCEPT ![p] = price]
  /\ UNCHANGED <<limit, deposit, barred, deleted, owner, term, cup, unchecked>>

\* PUT key (nfcKey is unique) and DELETE key.
KeyMoves(k, u) ==
  /\ Act
  /\ owner[k] = Nobody \/ u = Nobody
  /\ owner' = [owner EXCEPT ![k] = u]
  /\ cup' = [n \in Bookings |->
       IF cup[n].key = k /\ cup[n].user = Nobody
         THEN [cup[n] EXCEPT !.holders = @ \cup {u}] ELSE cup[n]]
  /\ term' = [t \in Terminals |->
       IF term[t].key = k /\ term[t].user = Nobody
         THEN [term[t] EXCEPT !.holders = @ \cup {u}] ELSE term[t]]
  /\ UNCHANGED <<limit, deposit, barred, deleted, menu, unchecked>>

Web ==
  \/ \E u \in Users, l \in Prices : SetLimit(u, l)
  \/ \E u \in Users, S \in SUBSET Users : SetBarred(u, S)
  \/ \E u \in Users : DeleteUser(u)
  \/ \E u \in Users, a \in Prices : Credit(u, a) \/ Withdraw(u, a)
  \/ \E p \in Products, price \in Prices \cup {Unpriced} : SetPrice(p, price)
  \/ \E k \in Keys, u \in Owners : KeyMoves(k, u)

Serve(t) ==
  \/ \E k \in Keys : Ask(t, k)
  \/ ReadMenu(t) \/ ReadAccount(t)
  \/ Refuse(t) \/ Grant(t) \/ NoAnswer(t)
  \/ TimeOut(t)
  \/ \E p \in Products : Pour(t, p)
  \/ Push(t) \/ Store(t)

Next ==
  \/ \E t \in Terminals : Serve(t)
  \/ \E n \in Bookings : CatchUp(n)
  \/ Web

Spec == Init /\ [][Next]_vars

-----------------------------------------------------------------------------
(* Properties *)

\* With one coffee machine, nobody's debt exceeds the limit but by what no
\* authentication looked at: stored bookings, prices raised during a session,
\* withdrawals and cut limits.
DebtIsChecked == \A u \in Users : deposit[u] >= -limit[u] - unchecked[u]

\* A cup is charged to somebody who owned the key while it was being
\* authenticated, or, of a key that was not, between then and the charge;
\* whatever happens to the key afterwards.  It is charged to the coffee
\* machine's account only if there was no owner or the owner was deleted.
ChargedToDrinker ==
  \A n \in Bookings : \A u \in cup[n].charged :
    \/ u \in cup[n].holders
    \/ u = Depletion /\ \E h \in cup[n].holders : h \in deleted \cup {Nobody}

=============================================================================
