# A TLA+ model of StoryDevs

StoryDevs is a directory and community site for people who make games and
stories: a Go server in front of PostgreSQL, with a JavaScript client. These
modules model how the server finds and guards its handlers, and what it does with
its database, its disk and its e-mails when requests interleave, transactions
abort, messages get lost and the process restarts. Each definition
is a translation of code of this repository; `PROJECT.json` maps it to its
lines, lists the runs, the mutants, the theorems, the findings and the hazards.

    tlc -workers 2 -config MCIdentity.cfg MCIdentity.tla
    tlapm IdentityProofs.tla

## The system

A request passes the router (`internal/router`), the `account.Add` middleware,
which looks up the login cookie and attaches a *snapshot* of the account, and
a handler. Handlers call *services* (`postgres/service`), which run their queries
in one SERIALIZABLE transaction, inside a Tryer that runs the function again when
PostgreSQL reports a serialization failure. What is outside the transaction -
e-mails, files on disk, the snapshot, the second transaction of a multi-step
operation - is where the behaviour gets hard.

| component | state | operations | interacts through | what is hard | what makes it correct |
|---|---|---|---|---|---|
| accounts, personas, reservations (`account.go`, identity part of `settings.go`, `firstAccount`) | tables `accounts`, `personas`, `reserved`, `change_email`; e-mails being sent | register, reserve, confirm either, new persona, rename, delete persona, change address, delete account, start-up | e-mail, logins | competing claims for a handle; registration undone by a second transaction; restart | nobody signed in takes a reserved handle: it comes into use by the confirmation of a registration; at most MaxPersonas personas, and no request takes the last one of its own account; at most one default, a live one |
| logins (`account.go`, `handler/account`) | table `logins`; requests in progress | log in and out, switch persona, authenticate | snapshots handed to every handler | the account or the persona disappears between two steps | a login goes on having a persona to act as, whatever its own account's requests delete; deleted accounts fall silent |
| e-mailed confirmations (`account.go`, `handler/modal/submit.go`) | `change_email`, `change_password`, `mailing`; messages | ask for a change, follow a link, type a code | e-mail | several requests pending, late or lost messages, links followed twice | changes apply in order, once, and only those the message was sent for |
| threads (`threads.go`) | `post`; table trees; open transactions | create, reply, edit, lock, delete, read | serializable snapshots, retries, pool of connections | two replies at once; a tree kept across attempts; early returns that leave the transaction open | replies numbered without gaps or duplicates; a thread known to be locked does not change |
| user files (`handler/form`, `handler/mode`, `common.go`) | files in the user directory, table `file` | upload, retain, update, delete | disk before and after a transaction | crash between disk and table, feedback path, partial removal | a row never lacks its file |
| events (`event.go`, `populate.go`) | `event`; a listing that is being made | create, update, delete, retrieve with next occurrence, search, list | client's and event's zones; one transaction per event listed | week wrap-around, offsets in AND/OR clauses, what changes between search and retrieval | the occurrence shown is the nearest one, where zones have no offset; a search finds what was asked for |
| talent (`talent.go`) | `profile` and its tables | create, update, delete, filter | table trees, files | files against rows | as user files and access |
| access (`mode.go`, `static.go`, `api.go`, filters) | privacy of personas and resources, logins | show, list, edit, serve a file | the account attached to the request; one SQL query for all files | pages decide in Go on a snapshot, files in SQL on the tables | files follow pages; private files stay private |
| transactions and retries (`postgres/database.go`, Tryers) | connections | begin, commit, roll back, retry | all services | functions re-run on changed variables | a retry has the effect of one run |
| cache (`internal/cache`) | mapping, size | add, load, refresh, delete, empty | - | only loading is used | - |
| router (`internal/router`, `setup/routes.go`) | the route table; one request | match, guard, enter a group, serve | `account.Add` between entries | order of entries; guards around groups | the first route that describes a request answers it; no general route hides a special one |
| set-up (`setup`) | configuration, view data, database types | start | database | restart in the middle | starting twice is starting once |
| rendering, logging, client | - | - | - | - | - |

## What is modelled

### Identity

`accounts`, `personas` and `reserved` are sequences of rows: a row's id is its
position, rows are flagged and never removed. `changing` is the table `change_email`,
whose rows are confirmed at any time or never (the messages are in Confirmations). `sending` holds the handlers that
have committed their rows and are still trying to send the e-mail, `inbox` the
messages that arrived (whether or not the handler was told so), `server`
whether the process runs.

| action | code |
|---|---|
| `Boot`, `Crash` | `firstAccount` (setup/database.go); the process ends |
| `Create`, `EmailSent`, `EmailFails`, `UndoCreate` | `Account.Create`: transaction, attempts to send, the `Delete` that undoes it |
| `Reserve`, `ConfirmReservation` | `Account.Reserve`, `Account.ConfirmReservation` |
| `ConfirmAccount`, `DeleteAccount` | `Account.ConfirmAccount`, `Account.Delete` |
| `NewPersona`, `DeletePersona`, `UpdateIdentity` | `Account.NewPersona`, `Account.DeletePersona`, `Settings.Update` |
| `ChangeEmail`, `ConfirmEmail` | `Account.ChangeEmail`, which looks whether the address is free; `Account.ConfirmEmail`, which does not look again |

`DeletePersona(a, p)` deletes any persona `p`: the code counts the personas of the
requesting account `a` and then deletes by slug, whichever account has it.

A transaction is one action because all of them are SERIALIZABLE
(postgres/database.go:109-121) and an aborted one changes nothing. SQL's
three-valued logic is kept where it matters: `personas.deleted` is NULL, true
or false, and `deleted != true` does not hold of NULL (`NotTrue`). ILIKE is a
constant relation, so that handles that differ only in case are one handle in
the runs and any relation in the proofs.

### Sessions

Extends Identity with `logins` and with the steps between transactions:
`loggingIn` (the account was read, the login row not yet inserted) and
`requests` (authenticated, not handled yet). A request carries the account and
the persona that were active when it was authenticated. `Handle` is what it then
does: log out, switch, delete a persona (with the effect on its own
login), delete the account, add or rename a persona, ask for another address, or fail.
`ActivePersona` translates the method of that name. Requests name any persona there is,
deleted ones and those of other accounts included: `Switch` and `DeletePersona` take
a slug from the path and do not ask whose it is. A login that was switched to a persona
that is not a live one of its account acts as another one of its account.

### Membership

The abstract promise: an account is applied for, admitted and left; only a
member starts to act. `Sessions!ImplementsMembership` shows that the tables,
logins, e-mails, undone registrations and restarts implement it.

### Confirmations

The change_email, change_password and mailing tables, the messages, and the
dispatch on the kind in the path of a link or dialog (`ConfirmPartial`). Codes
count up, so "asked for earlier" is "smaller code"; `applied` is a history
variable that remembers in which order changes took effect.

### UserFiles

Images of a resource are files in one directory and rows of table `file`. A
request writes new images while its form is validated, runs one transaction, and
removes files after it; `disk` changes in the steps around the transaction, `file`
and `shown` (what the resource's own tables mention) in it. `request` holds what
each handler in progress has checked, written and still has to remove, `pages` what a
client may ask to retain because some page of the resource has shown it, `abandoned`
remembers the files that steps known to leave files behind have left. Such a file may come
to be shown again: when `Remove` failed and the file stayed on disk, an older page of
the resource may retain its image, since validation looks on disk only, and an update
then mentions it without registering it.

| action | code |
|---|---|
| `Submit`, `CheckRetained`, `WriteImage`, `WriteThumb`, `WriteFails`, `Rejected` | handlers `mode.Create`, `Update`, `Delete` up to the service; `form.Validate` with `validateMediaFileName`, `validateMediaFile`, `validateFile`, `writeJPEG`, `writePNG`, `writeIfNotExists` |
| `CommitCreate`, `CommitUpdate`, `AbortDelete`, `CommitDelete`, `AnswerFeedback` | `Talent.Create`, `Update`, `Delete` with `addFiles` and `updateFiles`; `AbortDelete` is an attempt that selected names and was aborted, which stay in the list across the retry |
| `Remove`, `RemoveFails` | `removeFiles`, `RemoveNewFiles`, one name per step |
| `Crash` | the process ends; disk and tables stay |

Assumed: a random file name is never drawn twice (`O_EXCL` and a retry catch
it in the code), and the answer to a COMMIT is not lost (if it were, the
handler would remove the files of committed rows). Talent stands for all kinds of
resources; events, posts and settings use the same two helpers. Only they
answer with feedback, which is why `AnswerFeedback` is allowed for every resource.

### Threads, Serializable, Forum

`Threads` opens up the transactions the other modules take as one step. A request
is `trying` (between attempts) or `open` (its transaction has begun and reads the
state of that moment); several are open at once. `Serializable` is what PostgreSQL
promises at the level `DB.begin` asks for: a log of what committed, with what each
transaction read and wrote, and a transaction may commit only if the log stays
serializable (every set of transactions has one that precedes no other). Besides
that an attempt may be aborted at any time: the database may report conflicts that
are none. Predicates ("the posts of this thread") are items like rows are.

| action | code |
|---|---|
| `Arrive` | handlers `mode.Create`, `Update`, `Delete`, `Detail` with the tree validation builds |
| `Begin`, `BeginFails` | `DB.begin`; the database accepts no more connections |
| `CommitThread`, `CommitReply`, `ReplyToReply` | `createThread`, `createReply` and its early return without a rollback |
| `CommitEdit`, `CommitDelete`, `ChangeFails`, `Refuse` | `Thread.Update`, `Thread.Delete`: locked threads, `personaOwnsResource`, "could not serialize access due to concurrent update" |
| `CommitRead` | `Thread.retrieve` |
| `Abort`, `AbortUnrolled` | `postgres.Retry`: another attempt on the tree this one has left, or the answer; the first query of a reply and of a read returns without rolling back |

The table tree (`SafeAdd`, `Kept`, `ForInsert`, `ForUpdate`) is translated with its
columns and values side by side, because `insertTables` changes it in every attempt
and the next one starts from what it finds. A slug is whatever the attempt drew.

`Forum` is the promise: numbered lists of posts that grow at their end, a lock that
their author or an administrator sets and only administrators lift, and, once
a committed transaction has read that a thread is locked, only administrators change it.
(The form marks `locked` and `pinned` as the administrators', but `validateBool` has no check
of that, so any author's edit may set them. Since an author's edit of a thread that is locked is
refused, lifting the lock is left to administrators.)
`ImplementsForum` holds because whoever read the lock has been ordered after
the one who set it. It says nothing about a lock nobody has read yet: a reply that
began before the lock may still commit after it. A refused request proves
nothing either, since its transaction is rolled back and serializability promises
nothing to those.

### Events

Times are units of a clock in UTC, zones have constant offsets, and a week is seven
days that begin on Thursday, as in `buildDayRangeOr`. `NextOccurrence`, `Overlaps`,
`Contained`, `Weekdays`, `OnDay` and `AtHours` translate Go and SQL term by term,
precedence of AND and OR and SQL's remainder included; a search by days and hours has
several alternatives, each a range of weekdays with a range of hours, of which one must hold. `Asked`, `DaysFrom` and
`Occurrences` are the references they are compared with. `ShowsOccurrence` speaks of zones
without an offset: in the others `nextOccurrence` returns a reading of the zone's clock that
`populate.go:133` and `event.go:298` take for an instant in UTC, and there is nothing both would agree on. The state is there for what takes
several steps: time passes, owners create, change, hide, delete and re-save events
(`Resave` is the editor opened and saved without a change: `Populate` after
`Retrieve`), while one listing is made (`Search`, `Select`, `ShowNext`, `ShowEnd`),
whose query may be tried again (`SelectAborted`) and whose events are retrieved one
by one.

### Router

One request at a time (requests share no state of the router) walks through
`MustRoutes`, the table of `setup/routes.go` with its two groups, one action per kind
of entry: `BeforeHandler`, `AddAccount`, `Pass`, `Serve`, `Enter` a group, `Leave`
it, `NotFound`. `FirstFit` compares the walk with the table read as one flat list;
`SpecificFirst` says that the order of the list is right. A path is its segments and whether
it ends in a slash, because `/about` is redirected and `/about/` is not.

### Access

What may be shown is decided in three places: in Go, on the account attached to the
request, for pages (`MayAccess`, `Filter`, `ShowsPost`); in SQL, on the tables, for
the files those pages name (`FileServed`, the query of `static.User` with its joins
of all logins, personas and resources); and again in `renderPartial` (`Showable`).

| action | code |
|---|---|
| `Login`, `Logout`, `Switch` | as in Sessions, reduced to what the queries here read |
| `Create`, `Update` (`Save`), `Delete` | the services of profiles, posts and events, with `personaOwnsResource` |
| `SetPrivacy`, `DeletePersona` | `Settings.Update`, `Account.DeletePersona` |
| `Ask`, `Find`, `Answer` | `account.Add` and the guards of the routes; the search of a listing; retrieving and `renderPartial` |

A profile or an event that is deleted is gone. A post is only marked (`Marked`): its row,
its files and the page of its thread stay, and the template shows it as unavailable to all
but administrators. `Change` may hide, delete, save or rewrite anything between the steps of a
page. `page.may` is a history variable: the rows the client could have been shown at some
moment since it asked, *with what they say now*; a row that is rewritten leaves it until it
could be shown again. Listings are the exception: they retrieve with `GetPrivate`, so a row
that was public when it was selected, then hidden and rewritten, is listed with its new
contents. Of listings the model says only which rows they show.

## Runs

| run | bounds | what it shows |
|---|---|---|
| `identity` | 2 accounts, 2 persona rows, 1 reservation, 1 pending change of address, handles `root`, `ann`, `Ann`, 2 addresses, MaxPersonas 2, 1 attempt per e-mail; 595,000 states | default marks; who redeems a reservation; a reserved handle is not taken; two public personas clash only when a registration is confirmed, two addresses also when a change is; senders finish |
| `sessions` | 2 accounts, 2 persona rows, 2 logins, 2 requests or login calls at once, 1 pending change of address, 1 attempt per e-mail; 515,000 states | logins implement Membership; only confirmed accounts act, as personas of their own; deleted accounts fall silent; a login always names a persona |
| `two_accounts` | 2 accounts, 3 persona rows, 2 logins, 1 request at a time; 2.2 million states | no request takes the last persona of its own account; a login has a persona to act as, under every order of deletions and switches to personas of both |
| `confirmations` | 2 codes, 2 accounts, 3 addresses, 2 passwords | changes apply in order and at most once, to proven addresses, by codes sent for them; followed links take effect |
| `user_files` | 1 resource, 2 requests at once, 2 images ever, 1 upload per form, 2 attempts at a transaction | every row has its file, images and thumbnails stay together, nothing registered is removed, every stray file has a known cause and all others are removed in the end |
| `threads` | 2 personas, one an administrator, 2 requests at once and 3 in all, 3 posts, 2 attempts per transaction, 2 connections, 2 committed transactions beside an open one; 354,438 states | numbers of replies, trees across attempts, refinement of Forum, every request is answered |
| `events` | 2 events, 5 forms in 4 zones, half days as units, time to 15 in steps of 3 (a week is 14), 22 searches, 2 pages, 2 attempts; 187,659 states | next occurrence and searches against their references on every weekday; what listings show while owners change it |
| `router` | every pattern of the table, with a resource and with the word `partial` for each wildcard, 4 methods, 3 cookies; odd paths, other hosts, stale cookies; 119,671 states | the route that answers every request, and its variables |
| `access` | 3 personas of 2 accounts, one an administrator, an event, a post and other people's profiles, personas public or private, 1 login, 1 page at a time; 1,244,096 states | files follow pages, private files stay, pages show what was permitted |

The other three runs each check one statement of the repository that the code
does not keep (below).

Why these bounds: the properties relate at most two rows of a table and one
third party. Two competing accounts and a reservation are what it takes to
compete for a handle; an address that is changed while it is registered takes two accounts and one
pending change; three personas are the default one, its successor and one
of another account; two logins or requests are what it takes for one to be
stale. Privacy of personas is public or private in `access`: no code there tells unlisted personas from
private ones except the file query, which treats them as public. Two images and two requests are what it takes for one request to retain or remove
what another one changes (three images with two uploads per form, 3.8 million
states, show the same). Three requests on three posts are two that conflict and one that makes their
conflict a cycle; more attempts than two only repeat the second one, whose tree is already
the one a first attempt has left. An event's time matters up to its day of the week, its
part of the day and whether it is over, which more than a week in half days covers. The
route table is the program's own, not a smaller instance. Two pending requests are what it takes to confirm out of order. Case
matters, so one pair of handles is equal under ILIKE and unequal under `=`.
Deadlock checking is off in the runs of Identity and Sessions (the server may
panic at start-up and stay down, and the tables are bounded) and of Threads (the
requests that arrive are bounded).

Fairness. `Identity` assumes weak fairness of the handlers that send e-mails and
`Sessions` that of handlers and logins in progress: they are goroutines that run
until they return while the process lives (a crash ends them). `UserFiles` assumes
the same of a request in progress. `Threads` assumes that a request that is to try
again does so (`Retry` waits a bounded time) and that the database answers every
statement, so that no transaction of a handler stays open for ever; it does not assume that
any attempt commits. Nothing else is
fair: nobody has to register, log in or follow a link, and a server that is down
need not be started. `ReadersSpec` of Confirmations assumes that receivers of
messages follow their links; its property is what the code then owes them.

Every property of a passing run has a mutant in `PROJECT.json`: a definition
with a plausible bug (kept in the modules next to the definition it replaces,
and used by no action) under which the run fails.

## Where the code and its documents disagree

| run | statement | what happens |
|---|---|---|
| `first_account` | setup/database.go:262 | after the first persona is renamed, the next start panics |
| `image_gone` | media.go:126: the existence of a retained file is verified | it is verified before the transaction; a concurrent update drops the image in between and the later one shows a missing image |
| `events_local` | event.go:506: events in local time have the user's offset subtracted | only for clients ahead of UTC, and AND binds tighter than OR, so they are also found by their unshifted times |

Seen while translating, in the modules as the code does it, without a run of their own:

* Accounts: deleting the persona a login acts as compares `deleted != true`, which is
  NULL for live personas, so the login stays on the deleted one although
  account.go:1459 counts on it having moved (`SomeoneToActAs` shows that requests
  still find a live persona). A persona's handle logs in as another persona once it is
  deleted (account.go:1874). After an error for a message that did arrive the registration
  is undone, and the page it links to says one may log in. Two accounts
  that ask for one free address may both confirm it (account.go:606), and a change of address
  is confirmed whoever has registered the address since (account.go:733): two registered accounts
  then share it. `DeletePersona` and `Switch` take the persona the request names without asking
  whose it is (account.go:1387, 1541); the personas counted are those of the requesting account, so that
  another account may lose its last one. The link of a
  forgotten password has no case in the dispatch; typing its code works. The privacy
  category of the settings writes outside its transaction (settings.go:176).
* Threads: a reply to a reply ends in an early return that keeps its connection for
  ever, as do errors of the first query of `createReply` and `retrieve`. "could not
  serialize access due to concurrent update" is not tried again. There is no
  UNIQUE(thread, idx): the numbering rests on SERIALIZABLE alone. `locked` and `pinned`
  are marked AdminOnly in forums_editor.toml, which `validateString` looks at (validate.go:357) and
  `validateBool` (validate.go:496) does not: an author's edit may set them, and an edit that does not mention
  `pinned` clears it.
* Events: zones `utc` and `local` are unknown to `time.LoadLocation`, so a weekly
  event in one of them fails to be retrieved once it is over, and so does every listing that
  finds it. `nextOccurrence` returns the wall clock's time as if it were UTC, so that
  the offset is counted twice and saving the editor moves the event. A recurring event that is to
  lie inside a range has its offset added, not subtracted; a range of weekdays that must
  contain it compares remainders and is wrong where the week wraps; listings are ordered by
  the stored start; nothing settles the order of events that start together, and a retried search lists an event twice. Nothing
  checks that an event ends after it starts, and a search by dates may miss one that does not. `afterStart` of
  event_editor.toml:93 is implemented by nothing.
* Access: the query of `static.User` joins all tables, so nothing is served while one of
  profile, post or event is empty or nobody is logged in. It lets an account see the files of its
  deleted personas, and whoever has an administrator among its personas every file, while
  pages look at live personas and the active one. A listing retrieves the rows it has selected with
  GetPrivate (event.go:804), so that one which was hidden and rewritten in between is listed with its new contents.
* Router: when the look-up of an account fails, the request ends without an answer
  (an empty 200), although the comment on Use (router.go:168-170) leaves answering to the handler.

## Proofs

Every invariant, every action property and both refinements that the passing runs check
are theorems: the runs show them on small instances, the proofs for every value of the
constants. What a theorem assumes of
the constants is in the ASSUMEs of the module it is about, which type them (any handles,
addresses, numbers of rows, requests, attempts and connections, any length of a day,
any set of events and searches) and otherwise say only: ILIKE is reflexive, and at
least one persona is allowed (Identity); no two accounts start with equal addresses
(Confirmations); a persona belongs to one account, no file is both an avatar and a
resource's, and privacy is set to visibilities there are (Access); persona ids are positive and not everybody is an administrator
(Threads); the zones that `convertTimezone` skips have no offset (Events).

An invariant is seldom inductive as it stands. What had to be added to it, and
why, is most of what the proofs say about the code:

| module | theorems | inductive invariant |
|---|---|---|
| IdentityProofs | `TypeCorrect`, `PersonasBounded`, `DefaultsSound`; of steps `LastOneStays`, `RedeemedByOwner`, `ReservationsKept`, `ClashesAreConfirmations`, `AttemptsAreBounded` | `TypeOK` with `ReferencesOK` (an action that follows a reference needs its row to exist); `DeletedNeverFalse`: a persona's flag is NULL or true, so that `Successors` is empty (`NoSuccessor`) and a deletion never moves the default mark; `OneHandler`: a message that is being sent has one handler |
| SessionsProofs | `SessionsTyped`, `LoginsKeepPersona`, `ConfirmedAct`, `AlwaysSomeone`; the refinements `IdentityImplemented` and `MembershipImplemented`, and from them `PromisesKept` and, of steps, `DeletedStayOut` | `SessionsOK`: logins, login calls and requests belong to confirmed accounts; calls and requests act as personas of theirs or as nobody, logins name any persona (`LoginsFit`, `RequestsFit`), on top of Identity's |
| ConfirmationsProofs | `TypesKept`, `InOrder`, `AddressesProven`, `SubscribersMailed`, `PurposesKept` | codes in use have been generated (`CodesGenerated`); messages agree with the rows they were sent for (`MessagesFit`); what is pending is newer than whatever was applied (`PendingAfterApplied`) |
| UserFilesProofs | `FilesTyped`, `FilesKept`, `RemovedUnregistered`, `PairsKept`, `LeaksKnown` | `FilesOK` and `LeaksOK`, below |
| ThreadsProofs | `TypesKept`, `PostsNumbered`, `AttemptsKeepForm`; of steps `RowsKept`, `RequestsAdvance`; the refinement `ForumImplemented` | `Good` and `Counts`, below |
| EventsProofs | `TypesKept`, `ListedOncePublic`, `OccurrencesShown`, `SearchFinds`; of steps `SavesAsShown` | `RowsOK` and `ListingOK`; the rest is arithmetic, below |
| RouterProofs | `FirstFitAlways`, `SpecificFirstAlways`; of steps `SearchesEnd` | `Walk`, below |
| AccessProofs | `ShownPermitted`, `FilesLoad`, `FilesKept` | `RowsFit`: what is permitted now has been noticed (is in `may`); a listing keeps the rows it could show when it selected them; the rows of an account's or an administrator's page stay permitted while they are there, because a row keeps its owner (`OwnersStay`) |

**Sessions.** `IdentityImplemented` shows each step of logins and requests to be a step
of Identity or a stutter of it, so that the theorems about Identity hold of the whole
(`PromisesKept`): handlers that act on a stale snapshot take no handle and add no persona
that they should not. `MembershipImplemented` gives the safety half of `DeletedFallsSilent`
(`DeletedStayOut`): a deleted account stays so, and the requests that act for it are among
those that did before.
`LastOneStays` and `AlwaysSomeone` are what the code guarantees although `DeletePersona` compares
loosely and asks nobody whose a persona is: a login may be left on a persona that is deleted or another
account's, but its account goes on having a live one to act as (`ActivePersona` takes no other)
until a request made for another account deletes the last.

**User files.** An image is *fresh* while a request has written it and not registered it. Fresh
images are on disk, belong to one request and are neither registered nor listed for
removal by anyone (`FreshUnregistered`, `FreshApart`, `ListedNotFresh`); what a
deletion has listed before it commits are rows of its own resource (`ListedOfOne`),
what is listed after a commit is registered nowhere (`ListedAfterCommit`). That no
other file is on disk (`LeaksKnown`) takes the converse as well: each is accounted
for (`DiskAccounted`), and a deleted resource has no rows (`GoneHaveNoFiles`). `Quiet` is
the lemma for the actions that neither register nor remove anything, `Committed` the one
for the three transactions.

**Threads.** `Good` relates the view of a transaction that is still open to the rows of
now by way of the log (`Between`): what the log says nobody has written since is as it was
seen. A reply that commits has read the list of posts, so that any other reply that
committed meanwhile would have to come both before and after it; hence the numbers. For
the lock, `Guarded` keeps why a transaction that began before a thread was locked can no
longer commit once the lock was read: it comes before the one that locked the thread
(it has not seen the lock), that one before the reader of the lock, and the reader before
it (whose changes the reader has not seen). No theory of serializable logs is needed for
this, only that cycles of two or three transactions are excluded. `RowsKept` says in terms
of the rows what Forum says in terms of lists, and that a deletion is never undone.
The proof found what the run's three requests are too few to show: a read of a single
reply does not look at the other posts of the thread, so the last of the three need
not hold and Forum can promise nothing after it; `CommitRead` counts a lock as seen only
when the whole thread was read.

**Events.** The length of a day is any positive number, so that weeks are products of
unknowns, and the facts about quotients and remainders are lemmas of their own. From
them: where the zone has no offset, each of the start and the end shown lies whole weeks from the time entered
and on one of the seven days that begin today. `SearchFinds` says that a search by dates finds exactly the events asked for that do not recur, and of those that do
only ones that overlap, and a search by weekdays those that begin or end on one. It holds for events that end after they start (`EndsAfterStart`)
and clients not ahead of UTC: without the first a search may miss such an event, without the
second it finds others by the shifted times meant for events in local time, because AND binds
tighter than OR.

**Router.** The first part reads the table of `setup/routes.go`: the only entries that use a
handler are the first and the eighth, no pattern has two variables of one name, the two
groups come last. The second part is the walk: no route that describes the request has
been passed, the account is known once `account.Add` has been reached, and a guard has
failed only inside the group it guards (`Walk`). The third part is about the order of the
list, for any path. What each entry asks of a path is read off entry by entry, and with it
the form of the requests it describes: the method, the number of segments, the first one,
and the one that tells the entry from its neighbours (`BeforeKey` to `AdminKey`). Few pairs
of entries can then describe one request, and of these the later one is the broader
(`LaterBroader`). Hence the first entry that describes a request is as specific as any
other (`FirstMostSpecific`), and `SpecificFirst` follows from the walk. `SearchesEnd` is a
rank of the entries that every step of a search raises.

Only model-checked: what must eventually happen, which is out of the prover's reach
(`SendingEnds`, `DeletedFallsSilent`, `LinkTakesEffect`, `DroppedFilesGo`, `RequestsEnd`).
What three of them rest on beside fairness is proved: the attempts to send an e-mail are
counted and a message is never taken up again (`AttemptsAreBounded`), a step of a request
brings it nearer to its answer, by a measure that begins at 4 * TxTries at most
(`RequestsAdvance`), and who has left stays out (`DeletedStayOut`). No module declares a
RECURSIVE operator, so that all can be proved about.

## Not modelled, and why

* Passwords are right or wrong as a choice.
* The times a listing shows of events in local time, which event.go:812 shifts for
  display after everything is decided.
* `ConfirmManual = false` is modelled only for the first account, the one place
  that uses it.
* Logout's two statements are one step: the first one only feeds the log.
* The avatar part of `settings.go`, whose file goes the way of UserFiles, and the search
  by skills, duration, advertised position and medium of `talent.go`: WHERE clauses over columns
  nothing else reads.
* `Thread.Filter` and `Thread.Meta`: queries that change nothing; which threads a listing
  offers is therefore not among Access's listings. Search columns and the text of posts.
* Threads of the library and private threads: no route leads there, and `mode.Create`
  makes every post of the forums public.
* Cache: handlers only load from it. Refresh, Delete, Empty and MaxSize are called by
  nothing, entries are replaced whole under the lock. TimedSet is used with a delay of zero
  only, as a set that is filled once.
* The answer to a COMMIT that is lost, and daylight saving in zones.
* What images of a resource another resource may name: the client retains only
  images that a page of the resource has shown. Directories per resource, which
  `mode.Delete` removes, are never created.
* Adding values to the enumerations of the database at start-up: statement by statement,
  each one conditional, before any request.
* Rendering, logging, styles, templates, data, and the client's widgets.

## What is left

Modelled, in the order of what hangs on what: Identity, Sessions (composed of Identity),
Membership (implemented by Sessions), Confirmations, UserFiles; Threads with
Serializable, Forum (implemented by Threads), Events, Router, Access. Proved: all the
safety properties the runs check. Worth adding, should the code grow in that direction: an
abstract specification that Confirmations implements, and the client's navigation between
views.
