# Aurora platform: TLA+ models and proofs

Formal models of the Aurora platform (`src/`), an event-management backend of
four NestJS services behind an nginx gateway, each with its own PostgreSQL
schema accessed through TypeORM. Paths below are relative to
`src/packages/` unless they start with another directory of the repository.

## How to run

    tlc -workers 2 -config MCRefreshTokens.cfg MCRefreshTokens.tla
    tlapm RefreshTokensProofs.tla

Every `MC*.cfg` belongs to the `MC*` module named in the table of runs.
`PROJECT.json` lists components, runs, mutants, the map from definitions to
source lines, findings, hazards and theorems.

## The system

| Component | State | Operations | Talks to |
|---|---|---|---|
| auth-service: refresh tokens (`auth-service/src/auth.service.ts`) | table `auth_refresh_tokens` | `login`, `refresh`, `logout`, `me` | users-service over HTTP (`validateUser`, `getById`, `setLastLogoutAt`) |
| access-token revocation (`auth-service/src/users-http.client.ts`, `strategies/jwt.strategy.ts`, `users-service` last-logout) | column `users.last_logout_at`, calls in flight | `setLastLogoutAt` with retries, `JwtStrategy.validate` | spans both services |
| users-service (`users-service/src/users.service.ts`) | table `users` | `create`, `update`, `remove`, `list`, `findOne`, `validateCredentials`, seeding at start | called by auth-service with a service token |
| events-service (`events-service/src/events.service.ts`) | table `events` | `create`, `update`, `publish`, `findAll`, `findOneByIdOrSlug` | the caller's JWT |
| registrations-service | table `registrations` | `create`, `findByUser`, `findByEvent`; bootstrap with retries | database only |
| common library (`common/src`) | none | guards, JWT strategy, `OwnerId`, `toSlug`, validators, exception filter | every service |
| rate limiter (the same function in the four `main.ts`) | a map from client address to window | one call per request | in front of every route |
| gateway (`nginx/*.conf` at the root of the repository) | none | routing | every service |

What is hard in this system:

* **Interleaving at every `await`.** Node runs one handler until it awaits, so
  the handlers of one service interleave at each statement and call. No handler
  opens a transaction.
* **`Repository.save` is not atomic.** For a loaded entity TypeORM sends a
  SELECT and then an UPDATE of every column in which the entity differs from
  what that SELECT returned: a column that another request changed since the
  entity was loaded differs, and is written back (`TypeOrm.tla`).
* **Retries without idempotence keys.** The users client gives up on an attempt
  after five seconds and sends it again, while the first may still be handled.
* **Partial failure.** A refresh inserts the successor, revokes the presented
  token and asks users-service, in that order; each can be the last thing that
  happens.
* **Time.** Expiry, revocation by comparison of whole seconds with milliseconds,
  and fixed windows of the limiter.

What makes each component correct:

* refresh tokens: a consumed token stays consumed and is refused; links between
  tokens follow rotations; every handler is answered;
* revocation: an acknowledged logout refuses the access tokens issued before it
  and not the ones issued after it;
* events: only the owner or an admin changes an event; slugs are unique; dates
  stay ordered; a published event was published by somebody permitted and stays so;
* users: an update does not undo a logout or another update, a deleted user does
  not come back;
* registrations: at most one per user and event, through races, outages and
  restarts; nobody is refused for a registration of their own request, and a 500 has
  a cause; the service comes back by itself and never serves without its table;
* reading events: a client that pages through a listing, or follows a slug, while
  others write, misses and repeats nothing without one of a few reasons;
* limiter: bounded bursts, no unjustified refusal;
* guards: who reaches which handler, with which identity.

## Modules

| Module | Models | Status |
|---|---|---|
| `TypeOrm` | one column of `Repository.save` | used by the modules that save loaded entities |
| `HttpErrors` | `HttpExceptionFilter`: from exceptions to answers | used by `Registrations` |
| `TokenLedger` | abstract: what auth-service promises of refresh tokens | implemented by `RefreshTokens` |
| `RefreshTokens` | `AuthService.login`, `refresh`, `logout` over the token table | model-checked, proved |
| `AccessRevocation` | `setLastLogoutAt` from logout to the row, and the check of `/auth/me` | model-checked, proved |
| `EventTable` | abstract: what the writing endpoints of events-service promise of the table | implemented by `EventsStore`, assumed by `EventReads` |
| `EventsStore` | `EventsService.create`, `update`, `publish`, `ensureUniqueSlug` | model-checked, proved |
| `Slugs` | `toSlug`, the candidates of the slug search, and the lookup's `parseInt` | model-checked |
| `EventReads` | `GET /events` and `GET /events/:idOrSlug` over a changing `EventTable` | model-checked, proved |
| `UsersStore` | `UsersService.create`, `update`, `remove`, `setLastLogoutAt`, `onModuleInit` | model-checked, proved |
| `RegistrationLedger` | abstract: what registrations-service promises | implemented by `Registrations` |
| `Registrations` | boot, migrations, endpoints, outages and deaths of registrations-service | model-checked, proved |
| `Guards` | the guards of every route, the strategies and `@OwnerId` | model-checked, proved |
| `RateLimiter` | `createRateLimitMiddleware` | model-checked, proved |
| `MC*` | small instances for TLC | |
| `*Proofs` | theorems and their proofs for TLAPS | |

### RefreshTokens

A request is one HTTP request. `pc[r]` is the await at which its handler is
suspended (`insert`, `reply`, `select`, `update`, `getById`, `notify`) or its
answer; `tok`, `entity`, `loaded`, `newTok` and `user` are the handler's locals.
`RefreshFind` and `LogoutFind` are the candidates query together with the bcrypt
scan, which keeps the row object as the query returned it; `IssueRefresh` the
INSERT of the successor; `SaveSelect` and `SaveUpdate` the two statements of
`refreshRepo.save(current)`; `GetById` and `Notify` the calls that end a handler.
`Abort` is every other end of a handler in flight: a failing statement, a lost
connection, a crash (a crash of the process is `Abort` for each handler). A raw
token is represented by its row's id, since `bcrypt.compare` accepts exactly the
token that was hashed, and only tokens that an answer carried can be presented.
`validateUser`'s retries change nothing in the table and are folded into
`LoginValid` and `LoginRefused`.

`TokenLedger` states the promise with atomic revocations; the refinement maps the
rows to `owner` and `revoked` and the `pc` to the ledger's phases. That the
implementation with its split save and stale entities refines it is the point: no
interleaving of saves ever un-revokes, and no successor is minted for another
user.

### AccessRevocation

One user (users share nothing here). `call[l]` is the call of logout `l` inside
`withRetry`, `mark[<<l, i>>]` the handler of its `i`-th attempt in users-service.
A `Retry` does not look at what users-service is doing with the attempt: it may
have failed, timed out, or be still on its way, so marks may arrive at any later
time or never. `Receive` takes the handler's own clock, as
`users.controller.ts:116` does. `Iat` truncates to seconds, `Revoked` is the
comparison of `jwt.strategy.ts:53`. `raced` is a history variable: the pairs of
marks of two logouts of which one wrote while the other was in flight.

### EventsStore

The table is a sequence, since events are never deleted. `Create`, `Update` and
`Publish` are the first steps of the handlers, with every check and early return
up to the first await after it; `Probe` is one turn of `ensureUniqueSlug`;
`Insert`, `Select` and `Save` the statements of `save`, which end in `Commit`; `Reply`
is the 2xx. `Abort` takes a handler before its COMMIT or after it, when the row is
written and the client is told 500 or nothing (`lost`). The unique index on `slug`
and NOT NULL on the owner refuse writes as PostgreSQL does. A slug is the
sequence of its parts, so `fair-2` and the second suffix of `fair` coincide as they do
in the code. `overtook[r]` is a history variable: the requests that wrote while
`r` was in flight. It is what lets the invariants say "only in a race".

`EventTable` states what the table looks like from outside: a draft is added under
a slug of its own, one row at a time is altered and keeps its owner and a unique
slug, none is removed. `ImplementsTable` says that the racing handlers, with their
stale saves and unique violations, do no more than that. It is also the
environment of `EventReads`, which is how the two halves of events-service are
composed without multiplying their states.

### EventReads and Slugs

One client and any number of writers: `Write` is any step of `EventTable`, a superset
of what the racing handlers can do, and falls between any two queries. In the run
that shows a counterexample the writers are narrower: `SpecAlone` has requests that
come one at a time, with the slug that `ensureUniqueSlug` gives them (`Create`), an
`Update` that ignores an empty slug and a `Publish` that keeps it. A listing is `Ask` (the filters, `page` and
`limit`), then `GetMany` and `Count` in turn, the two queries of
`getManyAndCount`, until the pages asked for reach the total. A `tie` orders the
rows that start together, anew in each query, because `ORDER BY` names `startsAt`
alone. `kept`, `tied`, `came` and `left` are histories: what stayed in the listing
and in its place, what shared its start with another, and whether anything entered
or left since the first page. They carry the conditions under which
offset paging loses or repeats a row. The client who follows a slug (`Learn`,
`Follow`) goes through `findOne`'s `parseInt`, which takes a slug with a leading
number for an id, and `findOneByIdOrSlug`, to which the controller passes no
requester: a draft is a 403 for everybody.

`Slugs` works on sequences of classes of characters (a letter, a digit, a
space, a dash, an accent, a letter with an accent), one operator per `replace`.

### Registrations

`phase` is where the process is: Docker starts the container with the migrations
first or with `main.js` alone (`Boot`), `Migrate` is `run-migrations.js`, `Connect`
one turn of bootstrap's loop with the exit after the last, `Create` the
module's own data source, which runs the migrations before the server listens.
`Post`, `My` and `ByEvent` are the first steps of the handlers; `Find`, `Insert` and
`Reply` the awaits of `create`. `dbUp` is the database; `Fail` ends a handler that
lost it, after its `COMMIT` or before, and nobody can tell which. `Crash` ends the
process and leaves its requests `lost`. `Unfit` stands for the numbers that the
validation lets through and an INT column refuses: NaN, which `Number` makes of a
path that is no number, fractions and ids beyond 32 bits; `origin` says whether a
body's text fits VARCHAR(50). Without `DEV_AUTO_AUTH` the caller is
`undefined`, which TypeORM drops from a `WHERE` and inserts as NULL. `HttpErrors`
turns the exception a handler threw into the answer.

`RegistrationLedger` knows registrations and receipts, that is answers 201: the
refinement maps rows to the registered pairs and answers to receipts, and shows
that no race, lost answer or retry registers a pair twice or answers 201
twice for it.

### UsersStore

The table is a sequence with `NoRow` for a deleted row: PostgreSQL does not give
an id out twice. `Create`, `Update`, `Logout` and `Remove` are the first steps of
the handlers, `LogoutFind` the query of `setLastLogoutAt`, whose date the
controller has taken before; `Insert`, `Select`, `Save` and `Delete` the
statements. `Revive` is what `save` does with an entity whose row its SELECT did
not find: it inserts the entity under its old id. Of the columns that `update`
writes under an `if` of their own, `role` stands for name, password and isActive;
`email` is kept because of its unique index. `Seed` is one user of `onModuleInit`,
`SeedFails` its catch, `Restart` a crash and the next start, before which nothing
is served. `overtook` is as in `EventsStore`.

### Guards

Requests share only the tokens and the users' roles, so there is one request at a
time; what happens beside it is `ChangeRole`, `Sign` and `Tick`. Each guard is an
action that takes itself off `todo`, the list of `@UseGuards`, and routes guarded
alike are one. The id of a user is a number in its row and a string in `UserDto`
and `sub`; `Number` and `String` tag the two, because `OwnerId` looks at the type
and `me` converts. `ServiceTokenGuard` puts a user with every role into `req.user`;
inside `ServiceAndJwtGuard` passport replaces it. `TokenRevocationGuard` asks
nothing, since `JwtStrategy.validate` returns no `iat`. `CombinedAuthGuard` guards
no route and appears as a mutant. `lastHeld` and `verified` are histories.

### RateLimiter

The middleware has no await: one request is one step. `passed` and `refused` are
histories of times; the code keeps only `hits`.

## Runs

| Run | Module / cfg | What it shows |
|---|---|---|
| `refresh_tokens` | `MCRefreshTokens` | four requests of two users: revocation is final, spent tokens are refused, links follow rotations, the ledger is implemented |
| `access_revocation` | `MCAccessRevocation` | an acknowledged logout revokes older tokens, unless an older logout's mark raced with it; nobody is refused by a mark that auth-service neither awaited nor abandoned |
| `access_order` | `MCAccessRevocation` / `MCAccessOrder` | violation: the older of two racing marks may be saved last, against `auth.service.ts:141` |
| `events_store` | `MCEventsStore` | three racing requests on events, whose answers may be lost after their COMMIT: permissions, slugs, publication, dates, the table implemented, the slug search bounded by the rows of other requests, and every request past its checks answered |
| `events_dates` | `MCEventsStore` / `MCEventsDates` | violation: two valid updates leave an event that ends before it starts |
| `event_reads` | `MCEventReads` | a client pages through a listing, or follows a slug, while events are created, published, moved and renamed between any two queries |
| `events_slug` | `MCEventReads` / `MCEventsSlug` | violation: an event created and published by requests that come one at a time is not found under the slug made of its title |
| `registrations` | `MCRegistrations` | three requests, some with values that no column holds, outages, deaths and restarts: the ledger is implemented, every 500 has a cause and every refusal another request behind it, listings are complete, the service comes back |
| `users_store` | `MCUsersStore` | three racing requests and a restart: when a logout's date, a removal or a column nobody asked to change is lost |
| `guards` | `MCGuards` | every route with every pair of credentials: for whom handlers run, and how long a lost role is of use |
| `guards_owner` | `MCGuards` / `MCGuardsOwner` | violation: the handlers of events-service take `undefined` for the caller |
| `rate_limiter` | `MCRateLimiter` | bursts are bounded, refusals justified |

Bounds. *RefreshTokens*: a race needs two handlers of one token, a token needs a
login that minted it, and a fourth request observes the outcome or races as a
third; one tick of the clock with `TTL = 1` lets tokens expire under a handler.
*AccessRevocation*: two logouts with two attempts each is the least in which an
abandoned attempt of one races with the marks of both; two ticks a second and
two ticks of time put a token, a call and a mark into one second and into two.
*EventsStore*: three requests are the one that creates an event and two that race
on it, or three creates that compete; the slug word is one, so that all creates
compete, and bodies are those that collide with one another's suffixes, are
ordered only apart, or are refused; `Suffix` bounds the search's
counter above what the requests can take, so `Probe` is never cut short (the theorem
`SearchesAreNotCutShort`: a `Suffix` of the number of requests is enough).
*UsersStore*: three requests are the writer whose write is lost, the one that
takes it back and one that overtakes either; two seeded users and one address
more let a change of address collide with a create; two starts seed over a table
in use; `Write` commits and answers in one step, because an answer lost in between
only adds logouts and removals nobody was told of. *Guards*: a property of a request concerns the token it bears, so one user
and one token that outlives a change of role; `TTL = 2` separates issue, loss and
expiry, and every header meets every configured secret, the insecure one too.
*EventReads*: three events are one that is to be read, one to hide or repeat it and
one that starts with either; two times of start, limits of 0 (no limit) and 1 (a
page boundary after every row) and pages that start at 0 or 1 contain every way in
which a row crosses a boundary. *Registrations*: three requests are two that race
and a listing or a retry; two events tell a duplicate from another registration, and
one body each has an id and an origin that do not fit; two attempts instead of ten tell "again" from "the last"; two faults let the
database go and the process die once each, or either twice.
*RateLimiter*: a quota of two and three window lengths of time contain the worst
interval, which spans two windows.

Deadlock is not checked where the model's requests are used up (every run but
`rate_limiter` may stop with all requests answered and the clock at its bound).
Symmetry is used only for safety runs and only over values compared for equality.

Fairness. `EventsStore` and `Registrations` assume weak fairness of the statement a
suspended handler waits for: the PostgreSQL driver resolves or rejects every
promise, and Node's event loop resumes a settled one. In `EventsStore` that gives
`RequestsEnd`. `Registrations` assumes it of the boot as well, since Docker
restarts the container (`restart: unless-stopped`) and the retry loop runs on
timers; `EventuallyServes` then says that a database that stays up is served in the
end. Nothing is assumed of requests arriving, of the clock, of failures, or of a
database that is down: it need not return.

Each property has a mutant in `PROJECT.json`: a plausible bug, defined in the
module beside the definition it replaces, that makes the run fail.

## What is proved

For every value of the constants (any number of users, requests, logouts,
attempts, rows, any TTL, window or second), from the named assumptions of the
modules:

| Module | Theorems | Argument |
|---|---|---|
| `RefreshTokensProofs` | `TypeCorrect`, `SpentTokensStaySpent`, `LinksAreRotations`, `LoneRotationsAreLinked`, `RevocationsAreFinal`, `SpentTokensAreRefused`, `RefinesLedger`, `SessionsAreLines`, `OrphansAreUnused` | `Inv` is inductive (`InvariantHolds`). Its core is `SaveInv`: an entity about to be saved always has `revokedAt` set, and an UPDATE that would not write it, because its SELECT found the same value, found it in a row that is revoked for good. `LoneInv` says the same of links when nobody else matched the token. The refinement maps each action to a step of the ledger or to a stutter (every `SaveSelect`, and the `Tick`s). The last two add that every row was minted for exactly one request (`MintedOnce`), whose answer alone carries its raw token (`PresentedOK`) |
| `AccessRevocationProofs` | `RevocationTypeCorrect`, `AckedLogoutsRevoke`, `RefusalsAreAwaited`, `DatesMoveBackInRaces`, `SerialLogoutsRevoke` | `Inv` relates calls, marks and column: what is in flight since before a logout whose mark is made has raced with it (`PairOK`), so if a later UPDATE takes the column back below a logout's call, it is a recorded race (`Reached`). `Followed` keeps what auth-service knows of each attempt. The properties follow with two lemmas on division by `Second`. Why a date goes back follows from the column's last writer: its mark is of another logout, later than the new one, and was in flight with it, or is of the same logout |
| `EventsStoreProofs` | `EventsTypeCorrect`, `ConflictsAreRaces`, `EventsArePublishedByPublish`, `DatesBreakOnlyInRaces`, `WritesArePermitted`, `UnpublishingIsARace`, `StoreImplementsTable`, `SearchesAreBounded`, `SearchesTurnPerRequest`, `SearchesAreNotCutShort` | `Inv` is a conjunction of one predicate per request (`HandlerOK`, `SlugOK`, `StateOK`, `DatesOK`) and the unique index. A step of one request keeps the others' because each loss (a slug taken, a state or a date overtaken) enters their `overtook` in the same step. The refinement needs of `Inv` only that a row is saved under a slug of its own and for its owner. The search: every candidate that was taken is the slug of another row or was freed by a rename (`SearchInv`), candidates differ, so the counter is at most the number of these, and each is another request's (finite cardinalities, by the library's theorems) |
| `EventReadsProofs` | `ReadsTypeCorrect`, `PagesSkipNothing`, `PagesRepeatNothing`, `LinksLead`, `ListingsAtRestAreExact`, `SlugsFindTheirEvents` | For tables of any length. A row that starts alone stands, in every order of ties, at the number of rows that start earlier (`PositionIsRank`). `Inv` says that unless something left, what has not been answered has a rank beyond the page (`AheadOK`), and unless something came, what has been answered has one before it (`BehindOK`): a write that lets every row stay can only raise ranks, one that adds none can only lower them. The end of the pages, at a total counted later, then lies behind nothing missed. While nothing comes or leaves, what the client has seen is of the listing and the histories are the listing itself (`QuietOK`), so the two page properties meet |
| `RegistrationsProofs` | `RegistrationsTypes`, `ServesOnlyMigrated`, `ServerErrorsAreCaused`, `RefusalsAreForAnother`, `ListingsAreComplete`, `ServiceImplementsLedger`, `RegistrationsHaveMakers` | `Inv` relates each handler to the table (`HandlerOK`: past its COMMIT its pair is registered, and before its INSERT only if it was raced), each exception to its cause (`RaisedOK`), and says that no two requests made one registration (`OneMaker`). Makers keep what they asked for (`MakersStay`), so every row has one (`RowsWereAsked`); a refused request is none, so the row it met is another's. Without a user that row may be anybody's, which `RefusedForAnother` says, since TypeORM drops the undefined `userId` from the duplicate check |
| `UsersStoreProofs` | `UsersTypeCorrect`, `LogoutsAreLostInRaces`, `RemovedReturnInRaces`, `UnaskedWritesAreRaces`, `LogoutDatesAreInOrder` | `Inv` says per handler that its entity agrees with the row outside its body until somebody overtakes it (`FreshOK`), and per pair that who may take a removal or a logout back was overtaken by it (`RemovalOK`, `LogoutOK`). A step is quiet (answers, failures, the clock), appends a row, moves one handler that leaves the rows alone, or writes one row; each shape has its lemma. Only an UPDATE changes a row that stays (`ChangedBySave`); a second invariant, `DateInv`, says that a logout nobody has overtaken finds no date later than its own |
| `GuardsProofs` | `GuardsTypeCorrect`, `HandledForTheBearer`, `LostRolesExpire`, `OwnersAreUnknown`, `OwnersAreNeverTheBearer` | `Inv` says what the guards already taken off `todo` have established (`PassedOK`), and that a signed token carries a role its user had when it was signed (`SignedOK`); the lifetime of tokens does the rest. The last two say of every token what `guards_owner` shows of one: its `sub` is a string, so `OwnerId` yields `undefined` |
| `RateLimiterProofs` | `LimiterTypeCorrect`, `BurstsAreBounded`, `RefusalsAreJustified`, `LongRunRateIsKept` | `Windowed` locates the passes of the current window, and of the one before, in the history; opening a window shifts it by one window, counting extends it. In the long run, what passed before the open window has had a window's time for each quota (`RateInv`) |

None of the properties is inductive by itself: a revoked token is un-revoked in
one step from a state with a null `revokedAt` in some handler's entity, which is
unreachable; the strengthenings are what exclude such states. TLC checked each
`Inv` on the instances above before its proof was written.

Some theorems state properties that no run lists, defined beside their proofs:
the conditional promises that hold where a run shows the unconditional one to fail
(`SerialLogoutsRevoke`, `SlugsFindTheirEvents`, `LogoutDatesAreInOrder`), the general
form of a counterexample (`OwnersAreNeverTheBearer`), and consequences that need a
second invariant. These properties and invariants, too, were checked by TLC on the
instances of the runs first. `LongRunRateIsKept` is as tight as it can be: with
`<` for `<=` TLC finds a client that uses the whole of it.

Only model-checked, because the prover does not do liveness: `RequestsEnd` of
`EventsStore` and `EventuallyServes` of `Registrations`. Of the first, the part
that is safety is proved: the one loop a request can be in, the slug search, makes
at most one turn per request (`SearchesTurnPerRequest`). What `toSlug` and `parseInt`
compute is evaluated by TLC on the instance's strings; `LinksLead` holds whatever
`IsNumber` and `Number` are. The violations are TLC's counterexamples.

## Disagreements between the code and its documentation

Four runs refute what the code says of itself; `PROJECT.json` quotes the lines.
`events_dates`: the check of `EventsService.update` is made on a row loaded earlier,
without a transaction or a version column. (For the same reason a stale update can
take a published event back to draft; `UnpublishedOnlyInRace` says that nothing else
can.) `access_order`: the date of a logout is replaced by the time its PATCH is
handled and saved without comparison. `events_slug`: the class of `toSlug`'s first
`replace` starts at a literal NUL character where the unused copy of
`events-service/src/utils/slug.util.ts` has U+0300, so every letter and digit is
removed and every title has the empty slug: the first event is at `GET /events/`,
which is the listing, and the next one's `-1` is looked up as an id.
`guards_owner`: `OwnerId` accepts a `sub` only if it is a number, and every token
that auth-service signs has a string; so `POST /events` runs into the NOT NULL of
the owner, and an owner's update or publish is refused.

## Not modelled

* The composition of `RefreshTokens` and `AccessRevocation` into a session. Both
  are proved for any number of requests, and meet in one call (`Notify` of one is
  `Call` of the other) whose result `logout` ignores; `AckedLogoutRevokes` speaks of
  every token that could have been issued, so it covers those of any refresh.
* `JwtStrategy`'s fail-open branches: when users-service does not answer, or does not
  know the user, the check of `last_logout_at` is skipped, as its comment intends.
* Reads that only return rows: `UsersService.list`, `findOne` and
  `validateCredentials`, and `AuthService.me`.
* In `EventReads`, the filters `q`, `to` and `visibility` select rows by a column, as
  `state` and `from` do; ids beyond PostgreSQL's int4 and dates that do not parse,
  which end in a 500, are not among its inputs.
* `ThrottlerGuard`, which every service registers globally beside the limiter of its
  `main.ts`: its 429s come before any handler and leave no state behind that the other
  modules read.
* A database without the schema `registrations`: `Migrate` takes it to have been
  created by `postgres-init/` when the volume was, and fails only with the database.
* DTO validators, DDL, module wiring and the gateway's configuration hold no state
  and decide nothing that these properties depend on, beyond the constraints and
  guards the models state.
* Passwords, hashes, e-mail addresses and texts are values compared for equality.
  Expired tokens are never purged by the code, so neither are rows in the model.
  The services' clocks are taken to agree and to be monotonic; the limiter's
  unbounded map and a clock set back are listed as hazards.

## Plan

In order:

1. Sessions: after a logout is answered, which credentials of the session still
   work, over `TokenLedger` and the marks of `AccessRevocation`.
2. The refinement of an abstract table of users, in which a row changes only on
   behalf of a request that names the column or was overtaken, and e-mail
   addresses stay unique.
3. `Slugs` without TLC: what `toSlug` yields for titles of a given length.
4. Two clients at once in `EventReads`.
