------------------------- MODULE AuthorizationProofs -------------------------
(***************************************************************************)
(* Proofs about Authorization, for any users, keys, items, prices, cups    *)
(* and changes over the web: a cup is charged to whom it is due, with any  *)
(* number of coffee machines, and, with one, no debt grows beyond its      *)
(* limit unchecked.                                                        *)
(*                                                                         *)
(* The argument: whoever the server or the booking names was an owner of   *)
(* the key (HoldersInv, TracedInv).  And a machine's offers are backed:    *)
(* what was read of an account is a lower bound for what its owner can     *)
(* still spend, since whatever lowers that behind the machine's back is    *)
(* counted as unchecked (OfferInv).                                        *)
(***************************************************************************)
EXTENDS Authorization, TLAPS

\* What a machine at work has in hand.
TermInv(x) ==
  /\ x.pc # "idle" => x.key \in Keys
  /\ x.pc = "asking" => x.user = Nobody /\ x.offer = NoMenu
  /\ \A a \in x.account : a.user = Nobody => a.refused
  /\ x.pc = "pushing" => /\ x.cup \in Bookings
                         /\ cup[x.cup].state # "none"
                         /\ cup[x.cup].user = x.user

\* The user known to a machine, and the account read for it, owned the key
\* since it was put on; so does the owner, as long as no user is known.
HoldersInv(x) ==
  x.pc # "idle" =>
    /\ IF x.user = Nobody THEN owner[x.key] \in x.holders ELSE x.user \in x.holders
    /\ \A a \in x.account : a.user \in x.holders

\* A booking is of a key and an item, and the same is true of its user.
TracedInv(c) ==
  c.state # "none" =>
    /\ c.key \in Keys /\ c.item \in Products
    /\ UserOfCup(c) \in c.holders

\* What a cup was charged to.
DueInv(c) ==
  \A u \in c.charged :
    \/ u \in c.holders
    \/ u = Depletion /\ \E h \in c.holders : h \in deleted \cup {Nobody}

IInv ==
  /\ TypeOK
  /\ \A t \in Terminals : TermInv(term[t]) /\ HoldersInv(term[t])
  /\ \A n \in Bookings : TracedInv(cup[n]) /\ DueInv(cup[n])

\* What a user may still spend, not counting what was not looked at.
Slack(u) == deposit[u] + limit[u] + unchecked[u]

\* What the server has read is still there, and covers what it offers.
OfferInv(x) ==
  /\ \A a \in x.account :
       a.user \in Users => Slack(a.user) >= a.deposit + a.limit
  /\ \A p \in Products :
       x.offer[p] # Unpriced => x.user \in Users /\ Slack(x.user) >= x.offer[p]

DInv ==
  /\ \A u \in Users : Slack(u) >= 0
  /\ \A t \in Terminals : OfferInv(term[t])

OneTerminal == \A s, t \in Terminals : s = t

USE AuthorizationAssumption

-----------------------------------------------------------------------------
LEMMA IdleType ==
  /\ NoMenu \in Menu /\ \A p \in Products : NoMenu[p] = Unpriced
  /\ Idle \in Terminal /\ Idle.pc = "idle" /\ Idle.account = {}
  /\ Idle.user = Nobody /\ Idle.offer = NoMenu
  <1>1. NoMenu \in Menu /\ \A p \in Products : NoMenu[p] = Unpriced
    BY DEF NoMenu, Menu
  <1>2. 0 \in 0 .. MaxBookings
    OBVIOUS
  <1> HIDE DEF NoMenu
  <1>3. Idle \in Terminal
    BY <1>1, <1>2 DEF Idle, Terminal, Owners
  <1> QED BY <1>1, <1>3 DEF Idle

LEMMA IdleInv == TermInv(Idle) /\ HoldersInv(Idle) /\ OfferInv(Idle)
  BY IdleType DEF TermInv, HoldersInv, OfferInv

LEMMA InitInv == Init => IInv /\ DInv
  <1> SUFFICES ASSUME Init PROVE IInv /\ DInv
    OBVIOUS
  <1>1. ASSUME NEW n \in Bookings
        PROVE  cup[n] \in Cup /\ TracedInv(cup[n]) /\ DueInv(cup[n])
    BY <1>1 DEF Init, NoCup, Cup, Owners, TracedInv, DueInv
  <1>2. \A t \in Terminals : term[t] = Idle
    BY DEF Init
  <1>3. term \in [Terminals -> Terminal] /\ cup \in [Bookings -> Cup]
    BY <1>1, IdleType DEF Init
  <1>4. /\ deposit \in [Users -> Int] /\ unchecked \in [Users -> Nat]
        /\ \A u \in Users : deposit[u] = 0 /\ unchecked[u] = 0 /\ limit[u] \in Nat
    <2>1. deposit = [u \in Users |-> 0] /\ unchecked = [u \in Users |-> 0]
      BY DEF Init
    <2>2. \A u \in Users : limit[u] \in Nat
      BY DEF Init
    <2> QED BY <2>1, <2>2
  <1>5. TypeOK
    <2>1. acts \in 0 .. MaxActs BY DEF Init
    <2> QED BY <1>3, <1>4, <2>1 DEF Init, TypeOK
  <1>6. \A u \in Users : Slack(u) >= 0
    BY <1>4 DEF Slack
  <1> QED BY <1>1, <1>2, <1>5, <1>6, IdleInv DEF IInv, DInv

-----------------------------------------------------------------------------
(* Steps of one machine that touch nothing else. *)

others == <<limit, deposit, barred, deleted, owner, menu, unchecked, acts>>

LEMMA TermOnly ==
  ASSUME IInv, NEW t \in Terminals, NEW x \in Terminal, TermInv(x), HoldersInv(x),
         term' = [term EXCEPT ![t] = x], UNCHANGED cup, UNCHANGED others
  PROVE  /\ IInv'
         /\ DInv /\ OfferInv(x) => DInv'
  <1>1. TypeOK'
    BY DEF IInv, TypeOK, others
  <1>2. \A s \in Terminals : term'[s] = IF s = t THEN x ELSE term[s]
    BY DEF IInv, TypeOK
  <1>3. ASSUME NEW y
        PROVE  /\ TermInv(y)' <=> TermInv(y)
               /\ HoldersInv(y)' <=> HoldersInv(y)
               /\ OfferInv(y)' <=> OfferInv(y)
    BY DEF TermInv, HoldersInv, OfferInv, Slack, others
  <1>4. ASSUME NEW s \in Terminals PROVE TermInv(term[s])' /\ HoldersInv(term[s])'
    BY <1>2, <1>3 DEF IInv
  <1>5. ASSUME NEW n \in Bookings PROVE TracedInv(cup[n])' /\ DueInv(cup[n])'
    BY DEF IInv, TracedInv, DueInv, UserOfCup, others
  <1>6. ASSUME DInv, OfferInv(x) PROVE DInv'
    <2>1. \A u \in Users : Slack(u)' >= 0
      BY <1>6 DEF DInv, Slack, others
    <2>2. ASSUME NEW s \in Terminals PROVE OfferInv(term[s])'
      BY <1>2, <1>3, <1>6 DEF DInv
    <2> QED BY <2>1, <2>2 DEF DInv
  <1> QED BY <1>1, <1>4, <1>5, <1>6 DEF IInv

LEMMA AskKeeps ==
  ASSUME IInv, NEW t \in Terminals, NEW k \in Keys, Ask(t, k)
  PROVE  IInv' /\ (DInv => DInv')
  <1> DEFINE x == [Idle EXCEPT !.pc = "asking", !.key = k, !.holders = {owner[k]}]
  <1>1. /\ x.pc = "asking" /\ x.key = k /\ x.holders = {owner[k]}
        /\ x.user = Nobody /\ x.offer = NoMenu /\ x.account = {}
        /\ x.items = {} /\ x.offline = FALSE /\ x.cup = 0
    BY DEF Idle
  <1>2. owner[k] \in Owners
    BY DEF IInv, TypeOK
  <1>3. x \in Terminal
    BY <1>1, <1>2, IdleType DEF Terminal, Idle
  <1>4. term' = [term EXCEPT ![t] = x] /\ UNCHANGED cup /\ UNCHANGED others
    BY DEF Ask, others
  <1> HIDE DEF x
  <1>5. TermInv(x) /\ HoldersInv(x) /\ OfferInv(x)
    BY <1>1, IdleType DEF TermInv, HoldersInv, OfferInv
  <1> QED BY <1>3, <1>4, <1>5, TermOnly

LEMMA ReadMenuKeeps ==
  ASSUME IInv, NEW t \in Terminals, ReadMenu(t)
  PROVE  IInv' /\ (DInv => DInv')
  <1> DEFINE x == [term[t] EXCEPT !.items = {menu}]
  <1>a. term[t] \in Terminal /\ TermInv(term[t]) /\ HoldersInv(term[t])
    BY DEF IInv, TypeOK
  <1>1. x \in Terminal
    BY <1>a DEF Terminal, IInv, TypeOK
  <1>2. /\ x.pc = term[t].pc /\ x.key = term[t].key /\ x.user = term[t].user
        /\ x.offer = term[t].offer /\ x.account = term[t].account
        /\ x.cup = term[t].cup /\ x.holders = term[t].holders
    BY <1>a DEF Terminal
  <1>3. term' = [term EXCEPT ![t] = x] /\ UNCHANGED cup /\ UNCHANGED others
    BY DEF ReadMenu, others
  <1> HIDE DEF x
  <1>4. TermInv(x) /\ HoldersInv(x) /\ (DInv => OfferInv(x))
    BY <1>a, <1>2 DEF TermInv, HoldersInv, OfferInv, DInv
  <1> QED BY <1>1, <1>3, <1>4, TermOnly

LEMMA ReadAccountKeeps ==
  ASSUME IInv, NEW t \in Terminals, ReadAccount(t)
  PROVE  IInv' /\ (DInv => DInv')
  <1> DEFINE u == owner[term[t].key]
             x == [term[t] EXCEPT !.account = {AccountOf(u)}]
  <1>a. term[t] \in Terminal /\ TermInv(term[t]) /\ HoldersInv(term[t])
    BY DEF IInv, TypeOK
  <1>b. term[t].pc = "asking" /\ term[t].key \in Keys
    BY <1>a DEF ReadAccount, TermInv
  <1>1. u \in Owners
    BY <1>b DEF IInv, TypeOK
  <1>2. ASSUME u \in Users
        PROVE  deposit[u] \in Int /\ limit[u] \in Nat /\ unchecked[u] \in Nat
    BY <1>2 DEF IInv, TypeOK
  <1>3. /\ AccountOf(u) \in Account /\ AccountOf(u).user = u
        /\ u = Nobody => AccountOf(u).refused
        /\ u \in Users => /\ AccountOf(u).deposit = deposit[u]
                          /\ AccountOf(u).limit = limit[u]
    BY <1>1, <1>2 DEF AccountOf, NoAccount, Account, Owners
  <1>4. term' = [term EXCEPT ![t] = x] /\ UNCHANGED cup /\ UNCHANGED others
    BY DEF ReadAccount, others
  <1> HIDE DEF u
  <1>5. x \in Terminal
    BY <1>a, <1>3 DEF Terminal
  <1>6. /\ x.pc = "asking" /\ x.key = term[t].key /\ x.user = term[t].user
        /\ x.offer = term[t].offer /\ x.account = {AccountOf(u)}
        /\ x.cup = term[t].cup /\ x.holders = term[t].holders
    BY <1>a, <1>b DEF Terminal
  <1> HIDE DEF x
  <1>7. u \in x.holders
    BY <1>a, <1>b, <1>6 DEF TermInv, HoldersInv, u
  <1>8. TermInv(x) /\ HoldersInv(x)
    BY <1>a, <1>b, <1>3, <1>6, <1>7 DEF TermInv, HoldersInv
  <1>9. u \in Users => Slack(u) >= AccountOf(u).deposit + AccountOf(u).limit
    BY <1>2, <1>3 DEF Slack
  <1>10. DInv => OfferInv(x)
    BY <1>3, <1>6, <1>9 DEF DInv, OfferInv
  <1> QED BY <1>4, <1>5, <1>8, <1>10, TermOnly

LEMMA BackToIdle ==
  ASSUME IInv, NEW t \in Terminals, Refuse(t) \/ TimeOut(t)
  PROVE  IInv' /\ (DInv => DInv')
  <1>1. term' = [term EXCEPT ![t] = Idle] /\ UNCHANGED cup /\ UNCHANGED others
    BY DEF Refuse, TimeOut, others
  <1> QED BY <1>1, IdleType, IdleInv, TermOnly

\* The machine pours anything: no user is known, and nothing was offered.
LEMMA OfflineKeeps ==
  ASSUME IInv, NEW t \in Terminals, term[t].pc = "asking",
         term' = [term EXCEPT ![t] = [@ EXCEPT !.pc = "granted", !.offline = TRUE,
                                               !.items = {}, !.account = {}]],
         UNCHANGED cup, UNCHANGED others
  PROVE  IInv' /\ (DInv => DInv')
  <1> DEFINE x == [term[t] EXCEPT !.pc = "granted", !.offline = TRUE,
                                  !.items = {}, !.account = {}]
  <1>a. term[t] \in Terminal /\ TermInv(term[t]) /\ HoldersInv(term[t])
    BY DEF IInv, TypeOK
  <1>1. x \in Terminal
    BY <1>a DEF Terminal
  <1>2. /\ x.pc = "granted" /\ x.key = term[t].key /\ x.user = term[t].user
        /\ x.offer = term[t].offer /\ x.account = {}
        /\ x.holders = term[t].holders
    BY <1>a DEF Terminal
  <1>3. term' = [term EXCEPT ![t] = x]
    OBVIOUS
  <1> HIDE DEF x
  <1>4. TermInv(x) /\ HoldersInv(x) /\ OfferInv(x)
    BY <1>a, <1>2, IdleType DEF TermInv, HoldersInv, OfferInv
  <1> QED BY <1>1, <1>3, <1>4, TermOnly

\* is_enabled offers only what the account covers.
LEMMA OfferIsCovered ==
  ASSUME NEW m \in Menu, NEW a \in Account, NEW p \in Products,
         OfferOf(m, a)[p] # Unpriced
  PROVE  /\ OfferOf(m, a)[p] \in Nat
         /\ OfferOf(m, a)[p] = 0 \/ a.deposit + a.limit >= OfferOf(m, a)[p]
  <1>1. OfferOf(m, a)[p] = m[p] /\ Affordable(m[p], a) /\ m[p] # Unpriced
    BY DEF OfferOf, Priced
  <1>2. m[p] \in Nat
    BY <1>1 DEF Menu
  <1>3. a.deposit \in Int /\ a.limit \in Nat
    BY DEF Account
  <1>4. m[p] = 0 \/ a.deposit + a.limit >= m[p]
    BY <1>1, <1>2, <1>3 DEF Affordable
  <1> QED BY <1>1, <1>2, <1>4

LEMMA GrantKeeps ==
  ASSUME IInv, NEW t \in Terminals, Grant(t)
  PROVE  IInv' /\ (DInv => DInv')
  <1>a. term[t] \in Terminal /\ TermInv(term[t]) /\ HoldersInv(term[t])
    BY DEF IInv, TypeOK
  <1>b. term[t].pc = "asking" /\ UNCHANGED cup /\ UNCHANGED others
    BY DEF Grant, others
  <1>1. PICK m \in term[t].items, a \in term[t].account :
          /\ ~a.refused
          /\ term' = [term EXCEPT ![t] =
               [Granted(t, a, m) EXCEPT !.items = {}, !.account = {}]]
    BY DEF Grant
  <1>2. m \in Menu /\ a \in Account
    BY <1>a DEF Terminal
  <1>3. CASE Understood(Cardinality(Priced(m)))
    <2> DEFINE x == [term[t] EXCEPT !.pc = "granted", !.user = a.user,
                                    !.offer = OfferOf(m, a), !.items = {},
                                    !.account = {}]
    <2>1. term' = [term EXCEPT ![t] = x]
      BY <1>1, <1>3, <1>a DEF Granted, Terminal
    <2>2. a.user \in Users /\ a.user # Nobody
      BY <1>a, <1>1, <1>2 DEF TermInv, Account, Owners
    <2>3. OfferOf(m, a) \in Menu
      BY <1>2 DEF OfferOf, Priced, Menu
    <2>4. x \in Terminal
      BY <1>a, <2>2, <2>3 DEF Terminal, Owners
    <2>5. /\ x.pc = "granted" /\ x.key = term[t].key /\ x.user = a.user
          /\ x.offer = OfferOf(m, a) /\ x.account = {}
          /\ x.holders = term[t].holders
      BY <1>a DEF Terminal
    <2> HIDE DEF x
    <2>6. TermInv(x) /\ HoldersInv(x)
      BY <1>a, <1>b, <2>2, <2>5 DEF TermInv, HoldersInv
    <2>7. ASSUME DInv PROVE OfferInv(x)
      <3>1. Slack(a.user) >= 0 /\ Slack(a.user) >= a.deposit + a.limit
        BY <2>2, <2>7 DEF DInv, OfferInv
      <3>2. Slack(a.user) \in Int /\ a.deposit + a.limit \in Int
        <4>1. limit[a.user] \in Nat /\ deposit[a.user] \in Int /\ unchecked[a.user] \in Nat
          BY <2>2 DEF IInv, TypeOK
        <4>2. a.deposit \in Int /\ a.limit \in Nat
          BY <1>2 DEF Account
        <4> QED BY <4>1, <4>2 DEF Slack
      <3>3. ASSUME NEW p \in Products, x.offer[p] # Unpriced
            PROVE  Slack(a.user) >= x.offer[p]
        <4>1. /\ x.offer[p] \in Nat
              /\ x.offer[p] = 0 \/ a.deposit + a.limit >= x.offer[p]
          BY <1>2, <2>5, <3>3, OfferIsCovered
        <4> QED BY <3>1, <3>2, <4>1
      <3> QED BY <2>2, <2>5, <3>3 DEF OfferInv
    <2> QED BY <1>b, <2>1, <2>4, <2>6, <2>7, TermOnly
  <1>4. CASE ~Understood(Cardinality(Priced(m)))
    <2>1. term' = [term EXCEPT ![t] = [@ EXCEPT !.pc = "granted", !.offline = TRUE,
                                                !.items = {}, !.account = {}]]
      BY <1>1, <1>4, <1>a DEF Granted, Terminal
    <2> QED BY <1>b, <2>1, OfflineKeeps
  <1> QED BY <1>3, <1>4

LEMMA NoAnswerKeeps ==
  ASSUME IInv, NEW t \in Terminals, NoAnswer(t)
  PROVE  IInv' /\ (DInv => DInv')
  BY OfflineKeeps DEF NoAnswer, others

-----------------------------------------------------------------------------
(* Steps of cups. *)

\* One cup changes: a machine that pushes a booking still finds it.
LEMMA CupStep ==
  ASSUME IInv, NEW n \in Bookings, NEW c \in Cup, cup' = [cup EXCEPT ![n] = c],
         cup[n].state # "none" => c.state # "none" /\ c.user = cup[n].user,
         UNCHANGED <<owner, deleted>>, TracedInv(c), DueInv(c)
  PROVE  /\ cup' \in [Bookings -> Cup]
         /\ cup'[n] = c
         /\ \A m \in Bookings : TracedInv(cup[m])' /\ DueInv(cup[m])'
         /\ \A t \in Terminals : term'[t] = term[t] =>
              TermInv(term[t])' /\ HoldersInv(term[t])'
  <1>1. cup \in [Bookings -> Cup]
    BY DEF IInv, TypeOK
  <1>2. /\ cup' \in [Bookings -> Cup] /\ cup'[n] = c
        /\ \A m \in Bookings : m # n => cup'[m] = cup[m]
    BY <1>1
  <1>3. ASSUME NEW m \in Bookings PROVE TracedInv(cup[m])' /\ DueInv(cup[m])'
    <2>1. CASE m = n
      BY <1>2, <2>1 DEF TracedInv, DueInv, UserOfCup
    <2>2. CASE m # n
      BY <1>2, <2>2 DEF IInv, TracedInv, DueInv, UserOfCup
    <2> QED BY <2>1, <2>2
  <1>4. ASSUME NEW t \in Terminals, term'[t] = term[t]
        PROVE  TermInv(term[t])' /\ HoldersInv(term[t])'
    BY <1>2, <1>4 DEF IInv, TermInv, HoldersInv
  <1> QED BY <1>2, <1>3, <1>4

LEMMA SlackType ==
  /\ TypeOK => \A u \in Users : Slack(u) \in Int
  /\ TypeOK' => \A u \in Users : Slack(u)' \in Int
  <1>1. ASSUME TypeOK, NEW u \in Users PROVE Slack(u) \in Int
    <2>1. deposit[u] \in Int /\ limit[u] \in Nat /\ unchecked[u] \in Nat
      BY <1>1 DEF TypeOK
    <2> QED BY <2>1 DEF Slack
  <1>2. ASSUME TypeOK', NEW u \in Users PROVE Slack(u)' \in Int
    <2>1. deposit'[u] \in Int /\ limit'[u] \in Nat /\ unchecked'[u] \in Nat
      BY <1>2 DEF TypeOK
    <2> QED BY <2>1 DEF Slack
  <1> QED BY <1>1, <1>2

\* Nobody can spend less, and the machines offer what they did.
LEMMA SlackGrows ==
  ASSUME IInv, DInv, \A u \in Users : Slack(u)' \in Int /\ Slack(u)' >= Slack(u),
         \A t \in Terminals : /\ term'[t].account = term[t].account
                              /\ term'[t].user = term[t].user
                              /\ term'[t].offer = term[t].offer
  PROVE  DInv'
  <1>1. \A u \in Users : Slack(u) \in Int
    BY SlackType DEF IInv
  <1>2. \A u \in Users : Slack(u)' >= 0
    BY <1>1 DEF DInv
  <1>3. ASSUME NEW t \in Terminals PROVE OfferInv(term[t])'
    <2>1. OfferInv(term[t]) /\ term[t].account \subseteq Account /\ term[t].offer \in Menu
      BY DEF DInv, IInv, TypeOK, Terminal
    <2>2. ASSUME NEW a \in term[t].account, a.user \in Users
          PROVE  Slack(a.user)' >= a.deposit + a.limit
      <3>1. a.deposit + a.limit \in Int
        BY <2>1 DEF Account
      <3> QED BY <1>1, <2>1, <2>2, <3>1 DEF OfferInv
    <2>3. ASSUME NEW p \in Products, term[t].offer[p] # Unpriced
          PROVE  /\ term[t].user \in Users
                 /\ Slack(term[t].user)' >= term[t].offer[p]
      <3>1. term[t].offer[p] \in Nat
        BY <2>1, <2>3 DEF Menu
      <3> QED BY <1>1, <2>1, <2>3, <3>1 DEF OfferInv
    <2> HIDE DEF Slack
    <2> QED BY <2>2, <2>3 DEF OfferInv, Slack
  <1> QED BY <1>2, <1>3 DEF DInv

LEMMA PourKeeps ==
  ASSUME IInv, NEW t \in Terminals, NEW p \in Products, Pour(t, p)
  PROVE  IInv' /\ (DInv => DInv')
  <1>a. /\ term[t] \in Terminal /\ TermInv(term[t]) /\ HoldersInv(term[t])
        /\ term \in [Terminals -> Terminal]
    BY DEF IInv, TypeOK
  <1>b. term[t].pc = "granted" /\ UNCHANGED others
    BY DEF Pour, others
  <1>1. PICK n \in Bookings :
          /\ cup[n].state = "none"
          /\ cup' = [cup EXCEPT ![n] =
               [NoCup EXCEPT !.state = "pushing", !.key = term[t].key,
                             !.user = term[t].user, !.item = p,
                             !.holders = term[t].holders]]
          /\ term' = [term EXCEPT ![t].pc = "pushing", ![t].cup = n]
    BY DEF Pour
  <1> DEFINE c == [NoCup EXCEPT !.state = "pushing", !.key = term[t].key,
                                !.user = term[t].user, !.item = p,
                                !.holders = term[t].holders]
  <1>2. /\ c.state = "pushing" /\ c.key = term[t].key /\ c.user = term[t].user
        /\ c.item = p /\ c.holders = term[t].holders /\ c.charged = {}
        /\ c \in Cup
    BY <1>a DEF NoCup, Cup, Terminal
  <1>3. cup' = [cup EXCEPT ![n] = c]
    BY <1>1
  <1> HIDE DEF c
  <1>4. TracedInv(c) /\ DueInv(c)
    BY <1>a, <1>b, <1>2 DEF TracedInv, DueInv, UserOfCup, TermInv, HoldersInv
  <1>5. /\ cup' \in [Bookings -> Cup] /\ cup'[n] = c
        /\ \A m \in Bookings : TracedInv(cup[m])' /\ DueInv(cup[m])'
        /\ \A s \in Terminals : term'[s] = term[s] =>
             TermInv(term[s])' /\ HoldersInv(term[s])'
    <2>1. cup[n].state = "none" /\ UNCHANGED <<owner, deleted>>
      BY <1>1, <1>b DEF others
    <2> QED BY <1>2, <1>3, <1>4, <2>1, CupStep
  <1>6. /\ \A s \in Terminals : s # t => term'[s] = term[s]
        /\ term'[t].pc = "pushing" /\ term'[t].cup = n
        /\ term'[t].key = term[t].key /\ term'[t].user = term[t].user
        /\ term'[t].holders = term[t].holders /\ term'[t].offer = term[t].offer
        /\ term'[t].account = term[t].account
        /\ term'[t] \in Terminal /\ term' \in [Terminals -> Terminal]
    <2> DEFINE x == [term[t] EXCEPT !.pc = "pushing", !.cup = n]
    <2>1. term' = [term EXCEPT ![t] = x]
      BY <1>1
    <2>2. /\ x \in Terminal /\ x.pc = "pushing" /\ x.cup = n
          /\ x.key = term[t].key /\ x.user = term[t].user
          /\ x.holders = term[t].holders /\ x.offer = term[t].offer
          /\ x.account = term[t].account
      <3>1. n \in 0 .. MaxBookings BY DEF Bookings
      <3> QED BY <1>a, <3>1 DEF Terminal
    <2> HIDE DEF x
    <2> QED BY <1>a, <2>1, <2>2
  <1>7. ASSUME NEW s \in Terminals PROVE TermInv(term[s])' /\ HoldersInv(term[s])'
    <2>1. CASE s = t
      BY <1>a, <1>b, <1>2, <1>5, <1>6, <2>1 DEF TermInv, HoldersInv, others
    <2>2. CASE s # t
      BY <1>5, <1>6, <2>2
    <2> QED BY <2>1, <2>2
  <1>8. TypeOK'
    BY <1>b, <1>5, <1>6 DEF IInv, TypeOK, others
  <1>9. ASSUME DInv PROVE DInv'
    <2>1. \A u \in Users : Slack(u)' = Slack(u) /\ Slack(u) \in Int
      BY <1>b, SlackType DEF Slack, others, IInv
    <2>2. \A u \in Users : Slack(u)' \in Int /\ Slack(u)' >= Slack(u)
      BY <2>1
    <2>3. \A s \in Terminals : /\ term'[s].account = term[s].account
                               /\ term'[s].user = term[s].user
                               /\ term'[s].offer = term[s].offer
      BY <1>6
    <2> QED BY <1>9, <2>2, <2>3, SlackGrows
  <1> QED BY <1>5, <1>7, <1>8, <1>9 DEF IInv

\* Whom addBooking charges: the user of the booking, or the owner of the key,
\* who is among the holders; or the machine, of whom there is no such user.
LEMMA WhoIsCharged ==
  ASSUME IInv, NEW n \in Bookings, cup[n].state # "none"
  PROVE  /\ Charged(cup[n]) \in Users \cup {Depletion}
         /\ \/ Charged(cup[n]) \in cup[n].holders
            \/ /\ Charged(cup[n]) = Depletion
               /\ \E h \in cup[n].holders : h \in deleted \cup {Nobody}
         /\ cup[n].user # Nobody => Charged(cup[n]) \in {cup[n].user, Depletion}
  <1>1. cup[n] \in Cup /\ TracedInv(cup[n])
    BY DEF IInv, TypeOK
  <1>2. UserOfCup(cup[n]) \in Owners
    <2>1. cup[n].user \in Owners
      BY <1>1 DEF Cup
    <2>2. cup[n].key \in Keys
      BY <1>1 DEF TracedInv
    <2> QED BY <2>1, <2>2 DEF UserOfCup, IInv, TypeOK
  <1>3. UserOfCup(cup[n]) \in cup[n].holders
    BY <1>1 DEF TracedInv
  <1>4. cup[n].user # Nobody => UserOfCup(cup[n]) = cup[n].user
    BY DEF UserOfCup
  <1>5. CASE UserOfCup(cup[n]) \in Users \ deleted
    BY <1>3, <1>4, <1>5 DEF Charged
  <1>6. CASE UserOfCup(cup[n]) \notin Users \ deleted
    <2>1. UserOfCup(cup[n]) \in deleted \cup {Nobody}
      BY <1>2, <1>6 DEF Owners
    <2> QED BY <1>3, <1>6, <2>1 DEF Charged
  <1> QED BY <1>5, <1>6

\* A booking is entered: what it costs beyond the price that was offered was
\* not looked at, so whoever is charged can spend less by that price at most.
LEMMA EnterShape ==
  ASSUME IInv, NEW n \in Bookings, cup[n].state # "none",
         NEW state \in {"stored", "booked"}, NEW offered \in Prices \cup {Unpriced},
         Enter(n, state, offered), UNCHANGED <<limit, owner, deleted>>
  PROVE  /\ cup' \in [Bookings -> Cup]
         /\ deposit' \in [Users -> Int] /\ unchecked' \in [Users -> Nat]
         /\ \A m \in Bookings : TracedInv(cup[m])' /\ DueInv(cup[m])'
         /\ \A t \in Terminals : term'[t] = term[t] =>
              TermInv(term[t])' /\ HoldersInv(term[t])'
         /\ \A u \in Users :
              \/ Slack(u)' >= Slack(u)
              \/ /\ u = Charged(cup[n]) /\ offered # Unpriced
                 /\ Slack(u)' >= Slack(u) - offered
  <1> DEFINE account == Charged(cup[n])
             price   == menu[cup[n].item]
             c       == [cup[n] EXCEPT !.state = state, !.charged = @ \cup {account}]
  <1>a. cup[n] \in Cup /\ TracedInv(cup[n]) /\ DueInv(cup[n])
    BY DEF IInv, TypeOK
  <1>1. price \in Nat
    <2>1. menu \in Menu /\ cup[n].item \in Products /\ price # Unpriced
      BY <1>a DEF TracedInv, IInv, TypeOK, Enter
    <2> QED BY <2>1 DEF Menu
  <1>2. /\ cup' = [cup EXCEPT ![n] = c]
        /\ deposit' = [u \in Users |->
             IF u = account THEN deposit[u] - price ELSE deposit[u]]
        /\ unchecked' = [u \in Users |->
             IF u = account THEN unchecked[u] + Excess(price, offered)
               ELSE unchecked[u]]
    BY DEF Enter
  <1>3. /\ account \in Users \cup {Depletion}
        /\ \/ account \in cup[n].holders
           \/ /\ account = Depletion
              /\ \E h \in cup[n].holders : h \in deleted \cup {Nobody}
    BY WhoIsCharged
  <1> HIDE DEF account
  <1>4. /\ c.state = state /\ c.key = cup[n].key /\ c.user = cup[n].user
        /\ c.item = cup[n].item /\ c.holders = cup[n].holders
        /\ c.charged = cup[n].charged \cup {account} /\ c \in Cup
    BY <1>a, <1>3 DEF Cup
  <1> HIDE DEF c
  <1>5. TracedInv(c) /\ DueInv(c)
    BY <1>a, <1>3, <1>4 DEF TracedInv, DueInv, UserOfCup
  <1>6. Excess(price, offered) \in Nat
        /\ \/ Excess(price, offered) = price
           \/ offered # Unpriced /\ Excess(price, offered) >= price - offered
    <2>1. offered # Unpriced => offered \in Nat
      OBVIOUS
    <2>2. CASE offered = Unpriced
      BY <1>1, <2>2 DEF Excess
    <2>3. CASE offered # Unpriced
      <3>1. Excess(price, offered) = IF price > offered THEN price - offered ELSE 0
        BY <2>3 DEF Excess
      <3> HIDE DEF price
      <3> QED BY <1>1, <2>1, <2>3, <3>1
    <2> QED BY <2>2, <2>3
  <1> HIDE DEF price
  <1>7. /\ \A u \in Users : /\ deposit[u] \in Int /\ limit[u] \in Nat
                            /\ unchecked[u] \in Nat
        /\ UNCHANGED limit
    BY DEF IInv, TypeOK
  <1>8. deposit' \in [Users -> Int] /\ unchecked' \in [Users -> Nat]
    BY <1>1, <1>2, <1>6, <1>7
  <1>9. ASSUME NEW u \in Users
        PROVE  \/ Slack(u)' >= Slack(u)
               \/ u = account /\ offered # Unpriced /\ Slack(u)' >= Slack(u) - offered
    <2>1. CASE u = account
      <3>1. /\ deposit'[u] = deposit[u] - price /\ limit'[u] = limit[u]
            /\ unchecked'[u] = unchecked[u] + Excess(price, offered)
        BY <1>2, <1>7, <2>1
      <3>2. Slack(u)' = Slack(u) + Excess(price, offered) - price
        BY <1>1, <1>6, <1>7, <3>1 DEF Slack
      <3>3. Slack(u) \in Int
        BY SlackType DEF IInv
      <3>4. offered # Unpriced => offered \in Nat
        OBVIOUS
      <3> QED BY <1>1, <1>6, <2>1, <3>2, <3>3, <3>4
    <2>2. CASE u # account
      BY <1>2, <1>7, <2>2 DEF Slack
    <2> QED BY <2>1, <2>2
  <1>10. /\ cup' \in [Bookings -> Cup]
         /\ \A m \in Bookings : TracedInv(cup[m])' /\ DueInv(cup[m])'
         /\ \A t \in Terminals : term'[t] = term[t] =>
              TermInv(term[t])' /\ HoldersInv(term[t])'
    <2>1. c.state # "none" /\ c.user = cup[n].user /\ UNCHANGED <<owner, deleted>>
      BY <1>4
    <2> QED BY <1>2, <1>4, <1>5, <2>1, CupStep
  <1> QED BY <1>8, <1>9, <1>10 DEF account

LEMMA CatchUpKeeps ==
  ASSUME IInv, NEW n \in Bookings, CatchUp(n)
  PROVE  IInv' /\ (DInv => DInv')
  <1>1. /\ cup[n].state = "stored"
        /\ UNCHANGED <<limit, barred, deleted, owner, menu, term>>
        /\ acts' \in 0 .. MaxActs
    BY DEF CatchUp, Act, IInv, TypeOK
  <1>2. PICK state \in {"stored", "booked"} : Enter(n, state, Unpriced)
    BY DEF CatchUp
  <1>3. /\ cup' \in [Bookings -> Cup]
        /\ deposit' \in [Users -> Int] /\ unchecked' \in [Users -> Nat]
        /\ \A m \in Bookings : TracedInv(cup[m])' /\ DueInv(cup[m])'
        /\ \A t \in Terminals : TermInv(term[t])' /\ HoldersInv(term[t])'
        /\ \A u \in Users : Slack(u)' >= Slack(u)
    BY <1>1, <1>2, EnterShape
  <1>4. TypeOK'
    BY <1>1, <1>3 DEF IInv, TypeOK
  <1>5. ASSUME DInv PROVE DInv'
    <2>1. \A u \in Users : Slack(u)' \in Int /\ Slack(u)' >= Slack(u)
      BY <1>3, <1>4, SlackType
    <2> QED BY <1>1, <1>5, <2>1, SlackGrows
  <1> QED BY <1>3, <1>4, <1>5 DEF IInv

LEMMA StoreKeeps ==
  ASSUME IInv, NEW t \in Terminals, Store(t)
  PROVE  IInv' /\ (DInv => DInv')
  <1> DEFINE n == term[t].cup
             c == [cup[n] EXCEPT !.state = "stored"]
  <1>1. n \in Bookings /\ cup[n].state # "none"
    BY DEF Store, IInv, TermInv
  <1>2. /\ cup' = [cup EXCEPT ![n] = c] /\ term' = [term EXCEPT ![t] = Idle]
        /\ UNCHANGED others
    BY DEF Store, others
  <1>3. cup[n] \in Cup /\ TracedInv(cup[n]) /\ DueInv(cup[n])
    BY <1>1 DEF IInv, TypeOK
  <1> HIDE DEF n
  <1>4. /\ c.state = "stored" /\ c.key = cup[n].key /\ c.user = cup[n].user
        /\ c.item = cup[n].item /\ c.holders = cup[n].holders
        /\ c.charged = cup[n].charged /\ c \in Cup
    BY <1>3 DEF Cup
  <1> HIDE DEF c
  <1>5. TracedInv(c) /\ DueInv(c) /\ UNCHANGED <<owner, deleted>>
        /\ c.state # "none" /\ c.user = cup[n].user
    BY <1>1, <1>2, <1>3, <1>4 DEF TracedInv, DueInv, UserOfCup, others
  <1>6. /\ cup' \in [Bookings -> Cup]
        /\ \A m \in Bookings : TracedInv(cup[m])' /\ DueInv(cup[m])'
        /\ \A s \in Terminals : term'[s] = term[s] =>
             TermInv(term[s])' /\ HoldersInv(term[s])'
    BY <1>1, <1>2, <1>4, <1>5, CupStep
  <1>7. \A s \in Terminals : term'[s] = IF s = t THEN Idle ELSE term[s]
    BY <1>2 DEF IInv, TypeOK
  <1>8. \A s \in Terminals : TermInv(term[s])' /\ HoldersInv(term[s])'
    BY <1>6, <1>7, IdleType DEF TermInv, HoldersInv
  <1>9. TypeOK'
    BY <1>2, <1>6, IdleType DEF IInv, TypeOK, others
  <1>10. ASSUME DInv PROVE DInv'
    <2>1. \A x : OfferInv(x)' <=> OfferInv(x)
      BY <1>2 DEF OfferInv, Slack, others
    <2>2. \A s \in Terminals : OfferInv(term[s])'
      BY <1>7, <1>10, <2>1, IdleInv DEF DInv
    <2>3. \A u \in Users : Slack(u)' >= 0
      BY <1>2, <1>10 DEF DInv, Slack, others
    <2> QED BY <2>2, <2>3 DEF DInv
  <1> QED BY <1>6, <1>8, <1>9, <1>10 DEF IInv

\* Only here debt grows by what was looked at; with a second machine, what one
\* of them spends was offered by the other too.
LEMMA PushKeeps ==
  ASSUME IInv, NEW t \in Terminals, Push(t)
  PROVE  IInv' /\ (OneTerminal /\ DInv => DInv')
  <1> DEFINE n == term[t].cup
  <1>1. /\ n \in Bookings /\ cup[n].state # "none" /\ cup[n].user = term[t].user
        /\ term[t] \in Terminal
    BY DEF Push, IInv, TypeOK, TermInv
  <1>2. /\ term' = [term EXCEPT ![t] = Idle]
        /\ UNCHANGED <<limit, barred, deleted, owner, menu>>
        /\ acts' \in 0 .. MaxActs
    BY DEF Push, Act, IInv, TypeOK
  <1>3. PICK state \in {"stored", "booked"} : Enter(n, state, Offered(t))
    BY DEF Push
  <1>4. Offered(t) = term[t].offer[cup[n].item] /\ cup[n].item \in Products
    BY <1>1 DEF Offered, IInv, TracedInv
  <1>5. Offered(t) \in Prices \cup {Unpriced}
    BY <1>1, <1>4 DEF Terminal, Menu
  <1> HIDE DEF n
  <1>6. /\ cup' \in [Bookings -> Cup]
        /\ deposit' \in [Users -> Int] /\ unchecked' \in [Users -> Nat]
        /\ \A m \in Bookings : TracedInv(cup[m])' /\ DueInv(cup[m])'
        /\ \A s \in Terminals : term'[s] = term[s] =>
             TermInv(term[s])' /\ HoldersInv(term[s])'
        /\ \A u \in Users :
             \/ Slack(u)' >= Slack(u)
             \/ /\ u = Charged(cup[n]) /\ Offered(t) # Unpriced
                /\ Slack(u)' >= Slack(u) - Offered(t)
    BY <1>1, <1>2, <1>3, <1>5, EnterShape
  <1>7. \A s \in Terminals : term'[s] = IF s = t THEN Idle ELSE term[s]
    BY <1>2 DEF IInv, TypeOK
  <1>8. \A s \in Terminals : TermInv(term[s])' /\ HoldersInv(term[s])'
    BY <1>6, <1>7, IdleType DEF TermInv, HoldersInv
  <1>9. TypeOK'
    BY <1>2, <1>6, IdleType DEF IInv, TypeOK
  <1>10. ASSUME OneTerminal, DInv PROVE DInv'
    <2>1. \A s \in Terminals : term'[s] = Idle
      BY <1>7, <1>10 DEF OneTerminal
    <2>2. \A s \in Terminals : OfferInv(term[s])'
      BY <2>1, IdleType DEF OfferInv
    <2>3. ASSUME NEW u \in Users PROVE Slack(u)' >= 0
      <3>1. Slack(u) \in Int /\ Slack(u)' \in Int /\ Slack(u) >= 0
        BY <1>9, <1>10, SlackType DEF IInv, DInv
      <3>2. CASE Slack(u)' >= Slack(u)
        BY <3>1, <3>2
      <3>3. CASE /\ u = Charged(cup[n]) /\ Offered(t) # Unpriced
                 /\ Slack(u)' >= Slack(u) - Offered(t)
        <4>1. term[t].user \in Users /\ Slack(term[t].user) >= Offered(t)
          BY <1>4, <1>10, <3>3 DEF DInv, OfferInv
        <4>2. u = term[t].user
          BY <1>1, <3>3, <4>1, WhoIsCharged
        <4>3. Offered(t) \in Nat
          BY <1>5, <3>3
        <4> QED BY <3>1, <3>3, <4>1, <4>2, <4>3
      <3> QED BY <1>6, <3>2, <3>3
    <2> QED BY <2>2, <2>3 DEF DInv
  <1> QED BY <1>6, <1>8, <1>9, <1>10 DEF IInv

-----------------------------------------------------------------------------
(* What happens over the web. *)

\* Nothing of the machines, the keys or the cups changes, and nobody deleted
\* comes back.
LEMMA LedgerOnly ==
  ASSUME IInv, UNCHANGED <<term, cup, owner>>, deleted \subseteq deleted',
         limit' \in [Users -> Prices], deposit' \in [Users -> Int],
         barred' \subseteq Users, deleted' \subseteq Users, menu' \in Menu,
         unchecked' \in [Users -> Nat], acts' \in 0 .. MaxActs
  PROVE  /\ IInv'
         /\ (\A u \in Users : Slack(u)' >= Slack(u)) => (DInv => DInv')
  <1>1. TypeOK'
    BY DEF IInv, TypeOK
  <1>2. ASSUME NEW t \in Terminals PROVE TermInv(term[t])' /\ HoldersInv(term[t])'
    BY DEF IInv, TermInv, HoldersInv
  <1>3. ASSUME NEW n \in Bookings PROVE TracedInv(cup[n])' /\ DueInv(cup[n])'
    BY DEF IInv, TracedInv, DueInv, UserOfCup
  <1>4. ASSUME DInv, \A u \in Users : Slack(u)' >= Slack(u) PROVE DInv'
    <2>1. \A u \in Users : Slack(u)' \in Int /\ Slack(u)' >= Slack(u)
      BY <1>1, <1>4, SlackType
    <2> QED BY <1>4, <2>1, SlackGrows
  <1> QED BY <1>1, <1>2, <1>3, <1>4 DEF IInv

\* The types of what the ledger is made of.
LedgerType == /\ limit \in [Users -> Prices] /\ deposit \in [Users -> Int]
              /\ unchecked \in [Users -> Nat] /\ menu \in Menu
              /\ barred \subseteq Users /\ deleted \subseteq Users
              /\ acts \in 0 .. MaxActs

LEMMA SetLimitKeeps ==
  ASSUME IInv, NEW u \in Users, NEW l \in Prices, SetLimit(u, l)
  PROVE  IInv' /\ (DInv => DInv')
  <1>a. LedgerType BY DEF LedgerType, IInv, TypeOK
  <1>1. acts' \in 0 .. MaxActs BY DEF SetLimit, Act, IInv, TypeOK
  <1>2. limit' = [limit EXCEPT ![u] = l]
        /\ UNCHANGED <<deposit, barred, deleted, owner, menu, term, cup>>
    BY DEF SetLimit
  <1> DEFINE cut == IF l < limit[u] THEN limit[u] - l ELSE 0
  <1>3. unchecked' = [unchecked EXCEPT ![u] = unchecked[u] + cut]
    BY DEF SetLimit
  <1>4. l \in Nat /\ limit[u] \in Nat
    BY <1>a DEF LedgerType
  <1>5. cut \in Nat /\ cut >= limit[u] - l
    BY <1>4
  <1> HIDE DEF cut
  <1>6. limit' \in [Users -> Prices] /\ unchecked' \in [Users -> Nat]
    BY <1>a, <1>2, <1>3, <1>5 DEF LedgerType
  <1>7. ASSUME NEW v \in Users PROVE Slack(v)' >= Slack(v)
    <2>1. deposit[v] \in Int /\ limit[v] \in Nat /\ unchecked[v] \in Nat
      BY <1>a DEF LedgerType
    <2>2. /\ deposit'[v] = deposit[v]
          /\ limit'[v] = IF v = u THEN l ELSE limit[v]
          /\ unchecked'[v] = IF v = u THEN unchecked[v] + cut ELSE unchecked[v]
      BY <1>a, <1>2, <1>3 DEF LedgerType
    <2> QED BY <1>4, <1>5, <2>1, <2>2 DEF Slack
  <1> QED BY <1>a, <1>1, <1>2, <1>6, <1>7, LedgerOnly DEF LedgerType

LEMMA MoneyKeeps ==
  ASSUME IInv, NEW u \in Users, NEW a \in Prices, Credit(u, a) \/ Withdraw(u, a)
  PROVE  IInv' /\ (DInv => DInv')
  <1>a. LedgerType BY DEF LedgerType, IInv, TypeOK
  <1>b. a \in Nat
    OBVIOUS
  <1>1. acts' \in 0 .. MaxActs BY DEF Credit, Withdraw, Act, IInv, TypeOK
  <1>2. UNCHANGED <<limit, barred, deleted, owner, menu, term, cup>>
    BY DEF Credit, Withdraw
  <1>3. \A v \in Users : deposit[v] \in Int /\ limit[v] \in Nat /\ unchecked[v] \in Nat
    BY <1>a DEF LedgerType
  <1>4. CASE Credit(u, a)
    <2>1. deposit' = [deposit EXCEPT ![u] = deposit[u] + a] /\ UNCHANGED unchecked
      BY <1>4 DEF Credit
    <2>2. deposit' \in [Users -> Int] /\ unchecked' \in [Users -> Nat]
      BY <1>a, <2>1 DEF LedgerType
    <2>3. ASSUME NEW v \in Users PROVE Slack(v)' >= Slack(v)
      <3>1. deposit'[v] = IF v = u THEN deposit[v] + a ELSE deposit[v]
        BY <1>a, <2>1 DEF LedgerType
      <3> QED BY <1>b, <1>2, <1>3, <2>1, <3>1 DEF Slack
    <2> QED BY <1>a, <1>1, <1>2, <2>2, <2>3, LedgerOnly DEF LedgerType
  <1>5. CASE Withdraw(u, a)
    <2>1. /\ deposit' = [deposit EXCEPT ![u] = deposit[u] - a]
          /\ unchecked' = [unchecked EXCEPT ![u] = unchecked[u] + a]
      BY <1>5 DEF Withdraw
    <2>2. deposit' \in [Users -> Int] /\ unchecked' \in [Users -> Nat]
      BY <1>a, <2>1 DEF LedgerType
    <2>3. ASSUME NEW v \in Users PROVE Slack(v)' >= Slack(v)
      <3>1. /\ deposit'[v] = IF v = u THEN deposit[v] - a ELSE deposit[v]
            /\ unchecked'[v] = IF v = u THEN unchecked[v] + a ELSE unchecked[v]
        BY <1>a, <2>1 DEF LedgerType
      <3> QED BY <1>b, <1>2, <1>3, <3>1 DEF Slack
    <2> QED BY <1>a, <1>1, <1>2, <2>2, <2>3, LedgerOnly DEF LedgerType
  <1> QED BY <1>4, <1>5

LEMMA SettingsKeep ==
  ASSUME IInv,
         \/ \E u \in Users : (\E S \in SUBSET Users : SetBarred(u, S)) \/ DeleteUser(u)
         \/ \E p \in Products, price \in Prices \cup {Unpriced} : SetPrice(p, price)
  PROVE  IInv' /\ (DInv => DInv')
  <1>a. LedgerType BY DEF LedgerType, IInv, TypeOK
  <1>1. /\ acts' \in 0 .. MaxActs
        /\ UNCHANGED <<limit, deposit, owner, term, cup, unchecked>>
    BY DEF SetBarred, DeleteUser, SetPrice, Act, IInv, TypeOK
  <1>2. barred' \subseteq Users /\ deleted' \subseteq Users /\ deleted \subseteq deleted'
    BY <1>a DEF SetBarred, DeleteUser, SetPrice, LedgerType
  <1>3. menu' \in Menu
    BY <1>a DEF SetBarred, DeleteUser, SetPrice, LedgerType, Menu
  <1>4. ASSUME NEW u \in Users PROVE Slack(u)' >= Slack(u)
    <2>1. Slack(u)' = Slack(u) BY <1>1 DEF Slack
    <2>2. Slack(u) \in Int BY SlackType DEF IInv
    <2> QED BY <2>1, <2>2
  <1> QED BY <1>a, <1>1, <1>2, <1>3, <1>4, LedgerOnly DEF LedgerType

\* Until the user is known, the key's new owner is a holder too.
LEMMA KeyMovesKeeps ==
  ASSUME IInv, NEW k \in Keys, NEW u \in Owners, KeyMoves(k, u)
  PROVE  IInv' /\ (DInv => DInv')
  <1>1. /\ acts' \in 0 .. MaxActs
        /\ UNCHANGED <<limit, deposit, barred, deleted, menu, unchecked>>
    BY DEF KeyMoves, Act, IInv, TypeOK
  <1>2. owner' \in [Keys -> Owners]
        /\ \A j \in Keys : owner'[j] = IF j = k THEN u ELSE owner[j]
    BY DEF KeyMoves, IInv, TypeOK
  <1> DEFINE later(x) == IF x.key = k /\ x.user = Nobody
                           THEN [x EXCEPT !.holders = @ \cup {u}] ELSE x
  <1>3. /\ cup' = [n \in Bookings |-> later(cup[n])]
        /\ term' = [t \in Terminals |-> later(term[t])]
    BY DEF KeyMoves
  <1>4. ASSUME NEW n \in Bookings
        PROVE  /\ cup'[n] \in Cup
               /\ cup'[n].state = cup[n].state /\ cup'[n].key = cup[n].key
               /\ cup'[n].user = cup[n].user /\ cup'[n].item = cup[n].item
               /\ cup'[n].charged = cup[n].charged
               /\ cup'[n].holders =
                    cup[n].holders \cup
                    (IF cup[n].key = k /\ cup[n].user = Nobody THEN {u} ELSE {})
    <2>1. cup[n] \in Cup BY DEF IInv, TypeOK
    <2>2. cup'[n] = later(cup[n]) BY <1>3
    <2> QED BY <2>1, <2>2 DEF Cup
  <1>5. ASSUME NEW t \in Terminals
        PROVE  /\ term'[t] \in Terminal
               /\ term'[t].pc = term[t].pc /\ term'[t].key = term[t].key
               /\ term'[t].account = term[t].account /\ term'[t].user = term[t].user
               /\ term'[t].offer = term[t].offer /\ term'[t].cup = term[t].cup
               /\ term'[t].holders =
                    term[t].holders \cup
                    (IF term[t].key = k /\ term[t].user = Nobody THEN {u} ELSE {})
    <2>1. term[t] \in Terminal BY DEF IInv, TypeOK
    <2>2. term'[t] = later(term[t]) BY <1>3
    <2> QED BY <2>1, <2>2 DEF Terminal
  <1>6. cup' \in [Bookings -> Cup] /\ term' \in [Terminals -> Terminal]
    BY <1>3, <1>4, <1>5
  <1> HIDE DEF later
  <1>7. TypeOK'
    BY <1>1, <1>2, <1>6 DEF IInv, TypeOK
  <1>8. ASSUME NEW n \in Bookings PROVE TracedInv(cup[n])' /\ DueInv(cup[n])'
    <2>1. TracedInv(cup[n]) /\ DueInv(cup[n]) BY DEF IInv
    <2>2. TracedInv(cup[n])'
      BY <1>2, <1>4, <2>1 DEF TracedInv, UserOfCup
    <2>3. DueInv(cup[n])'
      BY <1>1, <1>4, <2>1 DEF DueInv
    <2> QED BY <2>2, <2>3
  <1>9. ASSUME NEW t \in Terminals PROVE TermInv(term[t])' /\ HoldersInv(term[t])'
    <2>1. TermInv(term[t]) /\ HoldersInv(term[t]) BY DEF IInv
    <2>2. TermInv(term[t])'
      BY <1>4, <1>5, <2>1 DEF TermInv
    <2>3. HoldersInv(term[t])'
      BY <1>2, <1>5, <2>1 DEF HoldersInv, TermInv
    <2> QED BY <2>2, <2>3
  <1>10. ASSUME DInv PROVE DInv'
    <2>1. ASSUME NEW v \in Users PROVE Slack(v)' \in Int /\ Slack(v)' >= Slack(v)
      <3>1. Slack(v)' = Slack(v) BY <1>1 DEF Slack
      <3>2. Slack(v) \in Int BY SlackType DEF IInv
      <3> QED BY <3>1, <3>2
    <2> QED BY <1>5, <1>10, <2>1, SlackGrows
  <1> QED BY <1>7, <1>8, <1>9, <1>10 DEF IInv

LEMMA StutterKeeps ==
  ASSUME IInv, UNCHANGED vars
  PROVE  IInv' /\ (DInv => DInv')
  <1>1. IInv'
    <2>1. TypeOK' BY DEF vars, IInv, TypeOK
    <2>2. \A t \in Terminals : TermInv(term[t])' /\ HoldersInv(term[t])'
      BY DEF vars, IInv, TermInv, HoldersInv
    <2>3. \A n \in Bookings : TracedInv(cup[n])' /\ DueInv(cup[n])'
      BY DEF vars, IInv, TracedInv, DueInv, UserOfCup
    <2> QED BY <2>1, <2>2, <2>3 DEF IInv
  <1>2. DInv => DInv'
    BY DEF vars, DInv, OfferInv, Slack
  <1> QED BY <1>1, <1>2

LEMMA NextInv ==
  ASSUME IInv, [Next]_vars
  PROVE  IInv' /\ (OneTerminal /\ DInv => DInv')
  <1>1. ASSUME NEW t \in Terminals, Serve(t)
        PROVE  IInv' /\ (OneTerminal /\ DInv => DInv')
    BY <1>1, AskKeeps, ReadMenuKeeps, ReadAccountKeeps, BackToIdle, GrantKeeps,
       NoAnswerKeeps, PourKeeps, PushKeeps, StoreKeeps DEF Serve
  <1>2. CASE Web
    BY <1>2, SetLimitKeeps, MoneyKeeps, SettingsKeep, KeyMovesKeeps DEF Web
  <1> QED BY <1>1, <1>2, CatchUpKeeps, StutterKeeps DEF Next

-----------------------------------------------------------------------------
\* The inductive invariant, for any number of coffee machines.
THEOREM Invariance == Spec => []IInv
  BY InitInv, NextInv, PTL DEF Spec

\* The types of the tables and of what the machines hold.
THEOREM TypeCorrect == Spec => []TypeOK
  <1>1. IInv => TypeOK BY DEF IInv
  <1> QED BY <1>1, Invariance, PTL

\* Whoever addBooking charges for a cup owned the key while it was being
\* authenticated, or from then to the charge if it was not, with any number of
\* coffee machines; keys change hands and users are deleted all the while.
THEOREM CupsAreDue == Spec => []ChargedToDrinker
  <1>1. IInv => ChargedToDrinker
    BY DEF IInv, DueInv, ChargedToDrinker
  <1> QED BY <1>1, Invariance, PTL

\* With one coffee machine, is_enabled in pi/authentication.js keeps every
\* debt within its limit, up to what no authentication looked at.
THEOREM DebtStaysChecked ==
  ASSUME OneTerminal
  PROVE  Spec => []DebtIsChecked
  <1>1. Init => IInv /\ DInv
    BY InitInv
  <1>2. (IInv /\ DInv) /\ [Next]_vars => (IInv /\ DInv)'
    BY NextInv
  <1>3. IInv /\ DInv => DebtIsChecked
    <2> SUFFICES ASSUME IInv, DInv, NEW u \in Users
                 PROVE  deposit[u] >= -limit[u] - unchecked[u]
      BY DEF DebtIsChecked
    <2>1. deposit[u] \in Int /\ limit[u] \in Nat /\ unchecked[u] \in Nat
      BY DEF IInv, TypeOK
    <2>2. deposit[u] + limit[u] + unchecked[u] >= 0
      BY DEF DInv, Slack
    <2> QED BY <2>1, <2>2
  <1> QED BY <1>1, <1>2, <1>3, PTL DEF Spec

=============================================================================
