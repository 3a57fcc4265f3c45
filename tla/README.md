# Raspberry Coffee, specified in TLA+

Raspberry Coffee sells coffee against an RFID key. A *terminal* (C,
`raspberryClient/controller`) sits between an NFC reader and the coffee
machine's serial interface (MCI); a *web server* (node, `webServer`) keeps users,
keys, prices and money in MySQL; a *web client* (Angular, `webClient`) is the
users' and administrators' view of it. A cup is poured by a machine that trusts
the terminal, the terminal trusts an answer of the server or goes into offline
mode, and the money is booked afterwards, perhaps much later. What can go
wrong, goes wrong between these parts: between threads, between a file and a
process that stops, between a statement and the next one, between an answer
and the moment it is used.

The modules here are translated from the code (`src/`), one per component, and state
what each component owes the others. TLC checks them on small instances; all their
safety properties are also proved for every value of the constants. `PROJECT.json`
holds the table of contents: components, runs, the lines every definition stands for,
the hazards with their lines and the properties that watch them, and the theorems.

## 1. Inventory

### Terminal

| Component | State | Operations | Talks to |
|---|---|---|---|
| Vend session (`controller.c:60-145`, `mci.c:200-440`) | `sdata` (credits, offline flag, list of items, selection), the response of the authentication, `loop_wait_for_button_press`, `last_command_was_inquiry` | authenticate, publish the credit, poll for a selection, look once more after the alarm, book or not, free the response; answer STATUS and INQUIRY of the machine; SIGALRM | MCI thread through `sdata`, server through `network.c`, backup |
| Key handover (`nfc.c`, `controller.c:184-300`) | `key->key`, its mutex and condition, `main_loop`, `th_nfc_loop` | read a card, try the mutex, copy, signal; wait, authenticate, clear; the handler of SIGINT/SIGTERM | NFC thread, controller, signal handler |
| Backup and catch-up (`read_write_backup_file.c`, `controller.c:305-430`) | backup file, temporary file, `start_thread` | push a booking, store it, see whether there are stored ones, start the thread; copy, truncate, send line by line, restore | server, file system, controller |
| Serial link (`mci.c:440-620`) | `tty_fd`, the set of `select`, `unpluggedIsDetected`, `mci_has_error` | select, read, close and reopen, report by SIGUSR1 | controller's flag, descriptors of all threads |
| HTTP client (`network.c`) | none between calls | `key_authentication`, `push_new_booking`; every way an answer can be unusable | server |
| Display, log | a queue of lines | write | nobody depends on it |
| Start-up (`main.c`) | threads, handlers | start in an order, join at the end | all |
| `cJSON.c` | none | parse, print | vendored |
| Scripts (`monitrc`, `check_*.sh`) | none | restart the process, renew the token | process |

### Web server

| Component | State | Operations | Talks to |
|---|---|---|---|
| Ledger (`lib/db/NewTransactionExecutor.js`, `QueryExecutor.js`, `routes/user/newTransaction.js`) | tables `users.currentDeposit`, `transactions`, `transactionStatistic`; connection pool | one database transaction per booking, several bookings per request | MySQL, mails |
| Authorization and attribution (`routes/pi/*`, `routes/user/key.js`, `user.js`, `routes/api/transactionPurposes.js`) | keys, prices, limits, blocked and deleted accounts | answer a key, book a cup, change keys, prices, limits and accounts | terminal, ledger |
| Reminders (`lib/mail.js`, `routes/user/mail.js`) | `userEmailNotifications.sent` and `isEnabled`, the limit | after each booking: clear, send, mark; change the settings | mail server, ledger |
| Accounts (`routes/auth/*`, `lib/ldap.js`, `AddNewUserExecutor.js`, `routes/user/changePassword.js`) | `users`, notification rows, directory | sign up, sign in, first login through LDAP, change a password, delete | LDAP, MySQL |
| Settings and listings (`routes/user/*`, `routes/api/*`) | tables of keys, groups, products, transactions | list, add, edit, delete, a page of a user's transactions | MySQL |
| Statistics (`routes/statistics/*`, `routes/user/dashboard.js`, `SQLQueries.js`, `utils.js`) | `transactions` (per user, date trimmed as the user asks) and `transactionStatistic` (per group, full date, written after the commit) | the charts of a day, week, month, range, the pie, the counters, rankings | MySQL, ledger |
| Frame (`server.js`, `utils.js`, ...) | log | routes, validation | all routes |

### Web client

| Component | State | Operations | Talks to |
|---|---|---|---|
| Session, panel, settings (`app.js`, `services/authServices.js`, `userService.js`, `controllers/controlPanel.js`, `dashboard.js`, `settings/*`) | `localStorage.token`, shared by the pages of a browser; `loggedUser`; `$scope.user`, `visit`, `admin.adminId` of the panel; the promise of `CheckToken` | sign in, open the panel, refresh, change a setting, visit a user as an admin and come back, log out; an answer 401 ends the session | server over HTTP, the other pages through `localStorage` |
| Lists and the page of transactions (`services/userKeyService.js`, `userGroupsService.js`, `transactionPurposesService.js`, `userTransactionService.js`, `controllers/yourTransactions.js`, `settings/*`, `admin/*`) | the lists and the position, which outlive the views; `page`, `loading`, `error`, `form` of a view | load, add, edit, delete; fetch, filter, range, next, back | server, session |
| Charts and directives | what is drawn | ask and draw | server |

### What is hard, and what makes each part correct

* **Vend session.** Controller, MCI thread and alarm meet in one struct, and the
  machine repeats its inquiry as long as it did not understand the answer.
  Correct: every cup is booked exactly once for the session that poured it;
  nothing of one session reaches the next.
* **Key handover.** A condition variable without a predicate, a buffer cleared
  outside the mutex, and a handler that unlocks a mutex it does not hold.
  Correct: a card opens one session at most, its key does not change under the
  session, nobody sleeps for ever.
* **Backup.** A file shared by two threads of one process under a lock that
  excludes only other processes; a flag that says whether a thread runs; stops
  at any moment; a server whose answer may be lost. Correct: a booking is in one
  place, is not multiplied, and arrives.
* **Serial link.** A flag that is toggled and not set; a descriptor set that is
  filled once. Correct: the flag agrees with the line, and the thread ends.
* **Ledger.** Read, add, write back under a row lock; a pool with a limit;
  failures between statements. Correct: a purchase enters whole and once, the
  answer is true, nobody waits for ever.
* **Authorization.** Everything is looked at once and used later: balance,
  price, owner of the key. Correct: a debt was looked at, and the cup is charged
  to who held the key.
* **Reminders.** No transaction at all: read the flag, send, set the flag.
  Correct: one reminder per fall below the limit, and one does come.
* **Accounts.** Look for a name, hash, insert; look at a password, hash, update.
  Correct: a name is one complete account, tokens and passwords go to who knew
  a good one.

* **Web client.** Answers are handled when they come, whatever the page has gone
  on to do; the token is read again after each of them, and other pages change
  it. Correct: the panel shows the user its requests are for, its copy of the
  settings is the server's, and who waits for the panel does not wait for ever.
* **Lists.** Kept by services, loaded by views, changed by answers that nothing
  orders; the number of a page and its position are moved at different moments.
  Correct: what is shown is what the server has, once, and page, position and
  rows belong together; no view stays at "loading".
* **Statistics.** One booking is two rows with two dates, written at two moments,
  and every chart has its own SQL and its own adding up; the week chart makes its
  labels from another "now" than its queries. Correct: a column shows the day it
  is labelled with, and two ways to count the same coffees agree.

The hazards of `PROJECT.json` name the line where each of these bites.

## 2. Modules

| Module | Models | Abstracts |
|---|---|---|
| `VendSession` | one session after the other at the machine | one critical section of `sdata->mutex` is one action; frames, display |
| `BookingBackup` | the way of a booking from the session to the ledger | files are bags; the server is three outcomes |
| `KeyHandover` | reader, controller, handler, mutex, buffer | the buffer has two halves; a session is one step |
| `MciLink` | the loop around `select`, the line, the descriptors | the frames of a request |
| `AccountBook` | what the ledger promises | - |
| `TransactionExecutor` | `proceed` of concurrent requests over pool and rows | columns other than the deposit |
| `Authorization` | answers, cups, charges, and the web around them | session, backup and ledger are steps |
| `MailNotification` | overlapping calls of `sendMailToUser` for one user | wording; amounts in units of the cheapest item |
| `UserDirectory` | sign-up, sign-in, LDAP, password, deletion | hashes stand for passwords; tokens are an answer |
| `WebClient` | one page, the server's side of its requests, the other pages | views but the settings are one; two settings stand for all |
| `PanelViews` | the lists of the services, the forms, the page of transactions, and the server's side of their requests | the session is who signed in and whose views are shown; a row is an id and a name; a transaction is its kind |
| `CoffeeStatistics` | the two rows of a booking, the charts and counters over them, the week chart as two queries and an answer | a day is its place in a calendar; hours; texts |

`MC...` modules extend a module where an instance needs more than a `.cfg` can say;
the others are checked as they are. `...Proofs` modules extend their module and hold
the theorems; `BookingProofs` holds those of `BookingBackup` and of
`CoffeeStatistics`, `TerminalProofs` those of `VendSession`, `KeyHandover` and
`MciLink`, `BrowserProofs` those of `WebClient`. Modules that share a module of proofs
name their parts apart (`HandoverInit`, `LinkNext`, `StatisticsTypeOK`). An operator
named `Bug...` is a slip that the definition below it could suffer (a dropped guard, a
missing reset); it is never part of a specification and serves to show that a property
notices.

### How state and actions correspond to the code

**VendSession.** `sdata` is the struct of the same name: `credits` is
`credits_available`, `enabled` whether `enabled_products` is set, `offline` and
`selected` as named. The list itself belongs to the response (`resp.offer`,
`resp.live`), because the C code stores a pointer into it. `ctl` walks through
`wait_for_button_press` and `start_controller`: `StartWait` (alarm set),
`Publish`, `PollSelected`/`LeaveLoop` (the polling loop), `Recheck` (the second
look, `controller.c:114-130`), `Book`/`NoBooking`, `FreeResponse`. `AlarmFires`
is `catch_alarm`. `InquiryCommand` is the INQUIRY branch with `check_credit`:
one disjunct per way out of it. `machine` is environment; `Answer` lets each
answer be understood or lost.

**BookingBackup.** `cur` is the booking the controller holds, `line` the line the
thread holds, `backup` and `tmp` the files, `startThread` and `mainLoop` the
flags of these names. `Push`, `Store`, `Check`, `Create` are the controller's
steps, `Open`, `Copy`, `Truncate`, `NextLine`, `Send`, `Restore`, `Exit` the
thread's. `Crash` may happen before every step; `Shutdown` is the return of
`main`, which joins nobody. The `fcntl` lock is left out because it excludes
no thread of the same process. The code looks at the result of `fopen` only, so
every other file call may fail unnoticed, also while the lines are moved: `Copy` may
bring a part of them into the temporary file, `Truncate` may leave all of them in the
backup file, `Exit` may come before the end of the temporary file. `exposed` records
who met one of the windows in which the code can lose a booking, `unanswered` how
often the server booked without the client learning it, `doubled` how often a copied
line stayed in the backup file because the truncation failed.

**KeyHandover.** `mutex` is a plain mutex: `ForceUnlock` frees it whoever holds it, as
`sig_usr` does. `CondWait`, `WakeSpuriously` and `Relock` are the parts of
`pthread_cond_wait`. While a thread runs the handler it does nothing else (`NfcRuns`,
`MainRuns`; the controller is the main thread, `main` its place). `Clear` and
`NfcCopy` write one half at a time.

**MciLink.** `Raised` is `raise(SIGUSR1)` with the toggle in the handler.
`Ready`, `TimesOut`, `SelectFails` and `Interrupted` are the outcomes of `select`: a
signal handled by this thread ends it with EINTR, which the code takes for an error
of the line (`mci.c:562`), so both failures do as `Reconnects` says. `LowestFree`
is the rule by which `open` chooses a number.

**TransactionExecutor.** `pc[r]` is the statement request `r` is at. The
statements of one call are queued on one connection; `INSERT` runs even if
`SELECT` failed, and the `UPDATE` is queued by the answer to the `SELECT` only,
which is why `Insert` looks at the lock. `written` is what the open transaction
wrote. A `Commit` has three outcomes: it works, it fails, it works and is
reported to fail. `Statistic` needs a connection of its own after `Release`.

**Authorization.** `ReadMenu` and `ReadAccount` are the two parallel queries of
`authentication.js`; `Affordable` is `is_enabled`; `Understood` is the test for
the number of items in `network.c:112`. `Enter` is the booking (`addBooking.js`)
with `UserOfCup` and `Charged` for whom it finds; its lookups and the commit
(`addBooking.js:74-194`) are taken together as one step. `Web` is what
administrators and users change meanwhile.

**MailNotification.** A call reads the user's row (`Read`), books (`Booked`),
loads the notification rows (`Load`), clears reminders after a credit (`Clear`),
decides (`Decide`), and sends and marks in any order of the callbacks (`Send`,
`Mark`). Each may fail. `BookedUnnoticed` is a booking that is answered by an error
or not at all (`newTransaction.js:155-175`, `NewTransactionExecutor.js:97`, :127): the
balance has moved and no mail is thought of.

**UserDirectory.** `look`, `hash`, `update` and `fetch`, `verify` are the
statements between which a request does something slow; `connect` to `release`
are `AddNewUserExecutor.proceed`. `knew` and `alive` record whether the password
was good, and the account there, at some moment since the request came.

**WebClient.** `token` is `localStorage.token`, `loggedUser` the object of
`UserService`; `user` is `$scope.user` of the panel, `bound` says that it is that
very object (a setting noted in one is then seen in the other), `timer` that the
timeout of `refreshUserObject` is pending, `self` whom the panel was opened for
(`admin.adminId`). `entry` is the request the promise of `CheckToken` waits for.
`req` holds every request with the token it carried and the answer it got: the
actions of the user and `ToPanel` append to it (`Ask` is the interceptor's
`request`), `Serve` and `ServeSignIn` are the server (`Admitted` is `restifyJwt`
with `authorization` of `commonHandlers.js`), `Lose` is the network, and `Answer`
has one disjunct per callback: `Unauthorized` (the interceptor's
`responseError`), `Failed`, `SignedIn`, `TokenIsValid` and `Loaded` (the two
answers `CheckToken` waits for), `Refreshed`, `Visited`, `SettingDone`. `Flip` is the
`$watch` of a switch. `astray` and `mishaps` record the accidents named
below.

**PanelViews.** `list[l]` is the array of a service as a bag of pairs of id and
name, because the views sort what they show; `shown`, `position` and `query` are
`userTransactions`, `position` and the filter of `UserTransactionService`, `page`,
`loading` and `error` the scope of the view, `opened` numbers its scopes and
`timer` those whose timeout is pending. The actions of the user are the
functions a view offers, under the conditions of its template (`TurnPage` by
`ng-disabled` and the tests of `next` and `back`), each with what the function
asks for; opening a view is its controller from top to bottom. `Serve` has a
disjunct per handler (`Taken` is the unique key of a table, `PageOf` is `LIMIT`),
`ListAnswer` and `PageAnswer` are the callbacks; an answer of 401 is a `"denied"`.
A form is one object that an edit on its way shares with the dialog (`live`,
`put`), so what the callback copies is what the form holds then. `muddled` names
the lists that met an accident.

**CoffeeStatistics.** `cups` is both tables: `stored` is `transactions.tDate` after
`adjustTimestampFromUserSetting` (`StoredDate`), `at` and `group` are the row of
`transactionStatistic`, `counted` whether that row is there (`Counted` is the
statement after the commit). `Rows` and `DateOf` say which table a scope is read from.
`CustomRange`, `CoffeeConsumption`, `MonthStatistic`, `DayStatistic`, `Current`,
`Highest` are one query each with what its handler makes of the rows. A sum over rows
is the number of pairs of a row and one of the cups it counts for (`SumCoffees` by the
database, `AddedUp` by a handler), a sum over columns (`Total`) the number of their
cups. The week chart takes several steps: `AskWeek` computes the two ranges,
`RunQuery` is one of the two on its own connection, `AnswerWeek` makes labels and
columns.

## 3. Runs

### Passing runs

| Run | Instance | What it shows |
|---|---|---|
| `vend_session` | two sessions, an item and hot water | In every order of machine, alarm and controller a cup is booked once, for its session and its item; the alarm and the selection of the first session do not reach the second; a session ends. |
| `booking_backup` | two good bookings and one the server refuses, three faults, two stops | A booking is charged once more only for each lost answer and each failed truncation, none disappears outside the recorded windows, and while customers come a stored good booking is booked. |
| `transaction_executor` | three requests of one or two transactions, two accounts, a pool of two, two faults | The executor implements `AccountBook`; the answers are true; no request waits for ever. |
| `mci_link` | four descriptors, two of other threads, every fault of the line, two signals in `select` | The toggled flag agrees with what the thread last saw; keys are accepted again; the thread ends on shutdown even while the line is gone. |
| `key_handover` | two cards, spurious wakeups, two faults, one shutdown | A card is served once, its key stays during the session until a handler frees the mutex, and a shutdown that meets no window gets through. |
| `authorization` | one machine, two users, one key, one item, two cups, two events over the web | Debts beyond the limit are exactly those nobody looked at; a cup is charged to who held the key. |
| `mail_notification` | two calls, three bookings or settings, one fault | Bookings that do not overlap send one reminder per fall; the reminder comes also for debits that overlap, unless something named crosses. |
| `user_directory` | three requests for one name, one fault, one foreign event | A name has one complete account; tokens and new passwords only to who knew one; the answers of a sign-up are true; nobody waits for ever. |
| `web_client` | an admin and a user, five requests, two sign-ins, one error, expiry or event of another page | The panel shows the user its requests are for; a visit is marked; the copy of the settings is the server's; the wait for the panel ends; each but for a named accident. |
| `coffee_statistics` | two users, one of them the machine, a group, three kinds, two bookings, one change of setting, group or name, a midnight from Sunday to Monday | A column of a week chart holds the coffees of its day; the charts of one range agree; users, groups and everybody add up; the counters count the week they name and never exceed the highest. |
| `panel_views` | an admin and a user, two names, pages of two rows, four actions of the user with one request out at most when he acts, one failure, refusal or new transaction | Groups, products and keys are shown as the server has them; page, position, filter and rows belong together; `loading` ends; each but for a named accident. |

The type invariants of `VendSession`, `BookingBackup`,
`TransactionExecutor` and `MciLink`, and `SingleCatchUp`, hold by
their theorems and are not repeated by the runs. `NothingTwice`, `LinkServes`,
`OneWholeAccount` and `AnswersAreTrue` are conjunctions of two properties that one
hazard asks for together.

### Why the bounds are enough

* `vend_session`: what a session may inherit comes from the one before it, so two
  sessions suffice, and the cycle of inquiry and answer is unbounded. Two
  items give "another item than the one picked"; one of them is hot
  water, which has a path of its own.
* `booking_backup`: two good bookings are needed for "one is lost while another is
  sent", a refused one for "a bad line does not stop the rest". Three faults allow a
  booking to be stored, sent without an answer, and meet a failing file, or be
  stored, meet a failing copy or truncation and one fault more; two stops allow a
  stop during the catch-up of what the first left.
* `transaction_executor`: two requests meet at one row, the third competes for
  the pool only; one of them has two transactions. Two faults reach an error and
  a crash after it.
* `mci_link`: two foreign descriptors can take the number the line had and the
  next one, and the fault cycle is unbounded. Two signals meet the thread one after the
  other's error; more come only with more sessions, since no alarm is set while keys
  are rejected.
* `key_handover`: two cards are needed for a stale buffer;
  two faults for a flag that is set and cleared; a second shutdown finds
  everything cleared already.
* `authorization`: two users exchange one key; two cups show a second cup on the
  debt of the first; of prices 0, 1 and 2 and the same limits every comparison of
  `is_enabled` has both outcomes. Users are symmetric: no operator tells them
  apart and the run has no temporal property. With two machines
  `DebtIsChecked` would not hold: both look at the same balance; the property
  says so and the run has one.
* `mail_notification`: a reminder is about two calls and the third that
  follows. Calls are symmetric for the same reason as users.
* `web_client`: an admin and a user are what a visit needs. Entering the panel
  takes three requests (sign-in, ping, user), which leaves two: a visit and
  its end, a visit and a refresh that overlap, two changes of a setting, a
  change and a load. When another page signs in, entering takes two, which leaves
  three: a visit, a refresh in it and its end. The one event is an error as
  well, so a change that fails is followed by one that does not. The second
  token is another page's or the next session's.
* `coffee_statistics`: the counts are sums over bookings, and two bookings are
  enough for one to be counted where the other is not. Bookings fall on the ends of two
  weeks and of December, so that a week, a month and a year end between
  them (days 28, 29, 35 and 36 of a calendar that starts on Monday the 1st); "today" is
  Sunday and then Monday. The kinds are a large coffee, a small one and no coffee.
* `panel_views`: an accident takes two requests that overlap, and what may not be
  an accident one that stays out while views change; with at most one request
  out when the user acts there are at most three at once (opening the
  transactions asks for three). Four actions reach a list that
  is loaded, changed and looked at again, a page turned twice and back, a
  sign-out with an answer still out. The safety properties were also checked
  with five actions. A page of two rows and up to four
  transactions give full pages, a last page and an empty one.
* `user_directory`: the first two requests race to create the account, the last
  two to change its password; the second has a part in both. A pool of
  two makes them compete for connections.

### Violation runs

One run checks a sentence of the repository, and TLC finds the code to disagree
with it. It is the finding in `PROJECT.json`.

* `booking_backup_race` (`read_write_backup_file.c:119-122`, "to avoid rage
  conditions ... the thread locks the file"). The lock does not exclude the
  controller thread: a booking stored between the copy and `freopen` at :173 is
  truncated away. No failure is needed but that the server was away when it was
  pushed.

### Behaviour that properties name as an exception

A reader should know what the models show the code to do and the properties
therefore leave room for:

* `Stuck` (`StoredIsBooked`): the flag `start_thread` stays set if the thread
  cannot open a file (`read_write_backup_file.c:147`, :155) or cannot be created
  (`controller.c:418-423`); no catch-up starts until the process restarts.
* `exposed` (`NothingElseLost`): a crash with a booking in somebody's hands or in
  the drained temporary file, a line that could not be written, copied or read
  (`read_write_backup_file.c:166`, :170: nobody looks), the race above.
* `doubled` (`BookedOnce`, `NothingElseLost`): the result of `freopen` is ignored
  (`read_write_backup_file.c:173`). If it fails, the lines are sent from the
  temporary file and are in the backup file still, so the next catch-up books them
  once more, with every answer understood.
* `SessionKeyStays`: after the handler of a shutdown has freed the mutex, which is
  the controller's, the reader may write a new key while the last session runs.
* `ShutdownReaches`: a termination signal between the test of `main_loop`
  (`controller.c:238`) and the wait (:252) is lost.
* The wait for a key (`controller.c:252`) is not in a loop over a condition: after a
  spurious wakeup, or a handler's signal for an error that ended meanwhile, the
  controller goes on with an empty buffer, although :249-251 says "wait here till
  the nfc thread read a key". It then authenticates the empty key.
* The set that `select` watches is filled once (`mci.c:484`, :546). If the device
  comes back under another descriptor (:105), the error is reported as fixed
  (`controller.c:152`) and the thread goes on watching the old one. `LinkServes`
  is about the line that comes back under its own number.
* `unchecked` (`DebtIsChecked`): stored bookings, prices raised during a session,
  withdrawals and cut limits.
* `mishaps` (`OneReminder`, `ReminderComes`): two bookings that overlap may send two
  reminders, so `OneReminder` is about those that do not; a booking that is carried
  out and answered by an error sends none (`BookedUnnoticed`); a credit that crosses
  a debit may leave a balance below the limit without one.
* `offline` with an answer (`Authorization`): a list of items that is not exactly
  eight long is taken for a parse error (`network.c:112`), so removing one price
  lets every key drink anything; these cups are among the unchecked.
* `"stray"` (`ShownIsLoaded`): nothing turns away an answer for another user or
  another session; it replaces `loggedUser` (`userService.js:41`, :53). `ShownIsLoaded`
  excepts a run from the first one on, because the client has no way to notice.
* `astray` (`CopyAgrees`): a setting that was changed twice at once, whose answer
  was lost, or that was loaded while a change was in flight; the mail setting
  also if it is moved after a failed change, since the copy is toggled
  (`userService.js:191`). The next load that meets no change mends it.
* `"robbed"` (`EntryEnds`): another page removes the token between ping and
  callback; the callback throws (`authServices.js:82`) and the view never opens.
* A 401 takes away the token that is there when it comes, not the one it
  answers (`authServices.js:120`), and the page says that the token expired.
* `muddled` (`ListsAgree`): a list that is loaded while another request for it is
  out, changed while it is loaded or edited twice at once; a form that is
  filled again while its edit is on its way (`userGroupsService.js:95` copies
  the form); a change that was carried out and whose answer was lost; a row
  added to a list that did not load (`usergroups.js:26` then takes it for loaded);
  keys that could not be loaded. Keys are right again with the next load that
  meets no other, groups and products with the next page.
* `muddled` with `"page"` (`PageIsTrue`): two clicks on next or back, or one that
  fails: the position moves with the click and the page with the answer. Two
  clicks on back on the second page ask for position -30, which the server
  refuses, and page and position stay apart until a filter is set.
* A row that is booked while a user turns pages moves the rows behind it, so that
  one is seen twice; every single page is true (`PageIsTrue`).
* Each midnight between question and answer leaves the newest column of a week
  chart without its coffees; after three weeks the number of a day may mean two
  days of the range that was asked for (`WeekIsTrue` is about 20 days).
* A product that was renamed, or that an admin added: the week chart and the
  custom range find no line for its name and answer 500, the pie counts it as
  one cup, the SQL sums not at all (`ChartsAgree` is about ranges without one).
* The current week at the turn of a year (`SQLQueries.js:203` compares the calendar
  year with the ISO week): the days of the other year are not counted (on Sunday,
  4 January 2015 the coffees of 29 to 31 December), and at
  the end of December a week 1 also finds the first days of that same
  January. Where 1 January belongs to the last week of the year before and that
  is number 52 (2012, 2017, 2023), the week 52 of its own year finds it as well, with no
  change of the year in that week (`DashboardIsTrue` excepts both).
* A second row that fails (`NewTransactionExecutor.js:127`) leaves everybody's
  numbers below the sum of the users' for good (`CountersAddUp`).
* `unclear`: the answer to a `COMMIT` or `UPDATE` is lost and an error is
  reported for what is booked.

### Fairness, and where a system may stop

* The C modules assume that the kernel schedules every thread and delivers
  signals and SIGALRM, and that every transfer ends; the last is an assumption
  about the network, since `network.c` limits the time for connecting only.
* `StoredIsBooked` needs customers as well: the catch-up is started after a
  booking that succeeded, so `BusySpec` adds weak fairness of `OtherBooking`.
* The node modules assume that the event loop, the database and the directory
  get around to every request (`WF` for each request, not for all together,
  which would let one starve).
* `web_client` assumes that every request is answered, if by an error (a browser
  gives up at last), and that the page handles every answer (`Handle`). The user
  owes nothing.
* `panel_views` assumes that the page goes on: requests are answered, if by an
  error, answers handled, timeouts fired (`Handle`). Each of these steps
  makes the work that is left smaller, so one `WF` for all of them starves none.
* Nobody else owes anything: customers, administrators, the machine, the cable
  and every fault are without fairness.
* `CHECK_DEADLOCK FALSE` stands where the system really ends: requests are
  finite (`transaction_executor`, `user_directory`), the process is shut down
  (`key_handover`), the bounded bookings are all made (`mail_notification`), a user may
  stop (`web_client`, `panel_views`). In
  the other passing runs deadlock is checked.

## 4. Proofs

The theorems hold for any numbers of items, sessions, bookings, requests, users and
descriptors, under the named `ASSUME`s of the modules (constants that must differ do,
bounds are natural numbers) and nothing else, but for one that says so:
`DebtStaysChecked` is about one terminal (`OneTerminal`), as the property is. TLC
evaluates those assumptions in every run.

* **`TerminalProofs`, the session.** `IInv` = `TypeOK` with `SharedInv` (what `sdata`
  may hold at each place of the controller), `SessionInv` (how selection, grant and
  booking of the running session belong together) and `CupInv` (what the cached answer
  may pour). `EveryCupIsBooked` is not inductive: it says nothing of a session that is
  not over, and a repeated inquiry can pour on a session that ended long ago. `CupInv`
  bounds what such an answer can pour by what was granted, `SessionInv` ties the grant
  to the selection that is still to be booked. All safety properties of the run
  follow, and three more that the run does not repeat: `CupsWithinGrant` (a step to
  `EveryCupIsBooked`), `NoDanglingList` (the list of a response that was freed is not
  looked at) and `NoStaleAlarm`, which needs no other invariant. `NothingTwice` is
  `OneBookingPerGrant` with `ChargedOnce`, each a theorem of its own.
* **`TerminalProofs`, what feeds a session.** Of `KeyHandover`: `HandlerInv` (what the
  interrupted thread and the handler do), `MutexInv` (who holds the mutex until the
  handler freed it), `FreshInv` (a key that was copied and not yet taken was not
  served) and `SpentInv` (who is served is the last reading). The second half must do
  without the mutex: after a shutdown the handler unlocks what others hold, and
  `ServedOnce` is about that time as well. `SessionKeyStays` is an action property
  from the same invariant. Of `MciLink`: `LinkTypeOK /\ ErrorFlagAgrees` is inductive
  as it stands, since the property speaks of all places of the loop.
* **`BookingProofs`.** Of `BookingBackup`: `BInv` is `TypeOK` with `HoldInv` (who
  holds a booking when), `ThreadInv` (a thread implies the flag, so no second one)
  and `MoveInv` (between copy and truncation the temporary file is part of the
  backup file). On it rests `Balanced`: what is in ledger, files and hands, against
  what was taken, what was not answered and what a failed truncation left twice.
  `BookedOnce`, `NothingElseLost` and `SingleCatchUp` (which no run repeats) follow.
  Of `CoffeeStatistics`: `RowsInv` (whatever trimming did to a date, it is in the
  month of the booking and not after it) and `ChartInv` (what the two queries of a
  chart saw was there, and a shown column is made of it as `Column` says). The sums
  need no induction over data, because they are sizes of sets of pairs: a sum over
  parts is the size of a disjoint union (`PartsAdd`, `TotalOfParts`), and that a
  chart loses no row is that its columns, slices or scopes part the rows. `InColumn`
  is the arithmetic of the week chart: of the days that a query returned, the one
  whose number a column carries is the day of its label. What the proofs need of the
  calendar is the named `CalendarAssumption`: months begin at their first day and
  have 28 days or more, the same date comes again after 365 days, a week has one
  number and, its turn of the year and the weeks from 52 on aside, a number is one
  week of a year. Both premises that `WeekIsTrue` and `DashboardIsTrue` state, 20
  days and weeks before the 52nd, were found by proofs that failed without.
* **`TransactionExecutorProofs`.** `RowInv` (who is past its `SELECT` holds the row,
  and what it read is what the row holds), `WriteInv` (what the open transaction
  wrote at each step) and `CountInv` (rows against the calls counted). The
  second half of `RowInv` is the reason no update is lost, and with it every
  step of the executor is a step or a stutter of `AccountBook`:
  `Spec => Book!Spec`. `ReplyIsTrue` follows from `CountInv`.
* **`AuthorizationProofs`.** `HoldersInv` (who held a key when), `TracedInv` (a
  cup that is on its way can be traced to the answer that allowed it) and
  `DueInv` (for whom the ledger enters it) give `ChargedToDrinker` for any number
  of machines. `DebtIsChecked` is a sum: `OfferInv` says that what a terminal
  offers was affordable with what it may still spend, and the slack of an
  account, its deposit with what was spent unchecked and the limit, never falls
  below what the offer can still cost. Two terminals would count the same slack
  twice, hence `OneTerminal`.
* **`UserDirectoryProofs`.** `TxInv` (an open transaction holds a connection
  and has inserted what its place says) and `NamesInv` (the unique key decides who
  gets the name, the look before it does not) give `OneWholeAccount`. `DueInv` says
  what a request that is still out may answer; it needs that names and the
  kind of an account never change and that who `knew` a password knew it for that
  account. `AnswersAreTrue` and the action property `PasswordIsKnown` follow.
* **`MailNotificationProofs`.** `FlowInv` (what a call may know at each place),
  `Alone`, `Apart` and `Known` (what a call that met no other may conclude from
  `sent`), `Once` and `Comes` per kind of reminder. `OneReminder` rests on calls
  for debits that do not overlap; `ReminderComes` does not, it only
  needs that no credit or change of the settings crosses.
* **`BrowserProofs`.** Of `WebClient`: neither `ShownIsLoaded` nor `CopyAgrees` is
  inductive, because both are changed by answers that come long after they were asked
  for. `Shape` is what a request says of itself wherever its answer finds the page (a
  load is about its user; a visit that the panel still waits for was asked for by an
  admin); `PanelInv` says whom panel and page are for, and `ShownInv` is
  `ShownIsLoaded` without the timeout for its second half, since who is logged in does
  not wait for it. `FreshInv` is about time: a load that met no change of a setting
  holds what the server has, so taking it makes copy and account agree. `ChangeInv`
  follows a change through its stages: as long as it met no accident it is the only
  one of its setting and for the user of the copy, copy and account agree until the
  server carries it out, and afterwards the account has what the page will note.
  `CopyInv` joins it to the time when none is out.
* **`PanelViewsProofs`.** `LoadingHeld`: a page that shows "loading" has the fetch it
  waits for on its way, or the timeout that will end it is pending. That is the part
  of `LoadingEnds` that needs no fairness; it is inductive with the shape of a
  request, because an answer of any kind starts the timeout and a request is never
  dropped without an answer. `PageIsTrue` needs three parts: `WholeInv` (which
  requests are for the page), `ReaderInv` (whose transactions the view shows) and
  `TurnInv`, which says that without an accident at most one request for a page is out
  and that it asks for what the view already stands at. `TypeOK` needs `TInv`, which
  speaks of the requests as well: an answer brings rows into a list long after they
  were read, so ids must be among those the table has given (`lastId` only grows), and
  the length of a page follows from how `PageOf` cuts it. `ListsAgree` speaks of a
  list with no request on its way and is far from inductive. `AInv` says what a list
  without an accident is meanwhile: it is empty and its only request is the load that
  will fill it (`Loading`), it is empty and the next view will load it (`NotLoaded`),
  or it `Follows` the table: each row once, and `InStep` with it. `InStep` is about
  three sets, the requests, the rows that are shown and the rows of the table, and
  says whose row every difference is: a row that is shown and not in the table was
  changed by a request that was carried out and not answered (`Backed`), one that is
  in the table and not shown was added or renamed by one (`Covered`), and no two such
  requests are about the same row (`AddsApart`, `DeletesApart`, `EditAlone`), nor is
  anything that the form may still send (`Older`). With no request left, both sets are
  the same. One lemma per operation says that `InStep` is kept when it is asked,
  carried out, answered or refused, before any bag or request of the model is
  mentioned. TLC checked the candidate on the run's instance, and once with five
  actions of the user, before it was proved.

Only model-checked: every liveness property (fairness and `ENABLED` are out of
the prover's reach). No module of the project declares a recursive operator. `Matching`
(`PanelViews`) ranks the hits of a query by their number and not by a
library fold, which no prover here could reason about.

## 5. Not modelled

* Display and log, validation and routing: no decision rests on them.
* Of the statistics: rankings (single queries whose order is that of MySQL; for a
  group, `controllers/charts/rankings.js:76` of the client passes no year) and the
  hours of a day.
* Of the listings: the admins' list of transactions, default notes, and the change
  of a user's group with the fetch of that group. The directives are layout.
* Start-up of the terminal (threads run before the handlers are installed,
  `main.c:88`), with the mutex of the log that a signal handler may want while
  its own thread holds it; the renewal of the terminal's token.
* A server that accepts and does not answer: `network.c:282` limits the time for
  connecting and none for the transfer, so the controller would wait. Every model
  lets a request end.
* A directory that answers without an entry (`ldap.js:124`): the callback reads a
  field of `undefined` (`signIn.js:72`). `UserDirectory` takes the exception
  for an error answer, which rests on the framework.
* Of the web client: the sign-up form and the path to return to after a sign-in.
* Formats: MCI frames, JSON, floating-point money (a comparison at the
  exact limit may differ by a rounding error), the type of a JSON number
  (`mail.js:73` compares the kind of a transaction strictly,
  `newTransaction.js:104` does not).
* The write into a stack frame that was left (`read_write_backup_file.c:109`),
  the leak of descriptors when `tcsetattr` fails (`mci.c:131`), and a button that
  the terminal does not know: offline its item is -1, which is `NO_ITEM_CHOOSEN`
  (`mci.c:256`, `mci.h:88`), so the cup is poured and not booked.
* A product named 'Total', which is a key of the chart's answer as well
  (`customRange.js:105-106`, `weekStatistic.js:118-119`): its cups are counted twice.
  Names that are swapped between products while a chart is made.
* cJSON (vendored), scripts.

## 6. Plan

Order so far: the money path first (`VendSession`, `BookingBackup`,
`TransactionExecutor` with `AccountBook`), then who is charged
(`Authorization`), then what feeds a session (`KeyHandover`, `MciLink`), then
`MailNotification` and `UserDirectory`, then the page of the web client
(`WebClient`), its lists (`PanelViews`) and the charts (`CoffeeStatistics`). Next:

1. **`BookingSystem`**: a composition of session, backup and ledger over the
   identity of a booking, with an abstract specification "every cup is entered
   once, or is exposed, or waits", to which the three modules are related by
   refinement mappings. Runs: one terminal, two cups, a lost answer.
2. **Start-up and shutdown of the terminal** (`main.c`): order of threads and
   handlers, joins, and the stack frame of `start_thread`.
3. Proofs: the refinement of item 1. Every safety property of the modules there
   are has its theorem.
