# Formal models of the LMS/QUIZ backend

TLA+ models of the Go monolith `lms-arvand-backend`, the TLC runs that check
them on small instances, and theorems about them that TLAPS proves for every
value of the constants. `PROJECT.json` names, for each definition, the lines of
code it stands for, and for each property a plausible bug (a *mutant*, kept next
to the definition it changes) that makes the property fail.

## 1. The system

One API process: chi router → handlers (`internal/handler/http`) → use cases
(`internal/usecase`) → repositories (`internal/repository/postgres`, a pgx pool)
→ PostgreSQL. In the process, besides the goroutine of each request, there are
the session cache (`internal/cache`, a map under an `RWMutex`, with a ticker
goroutine that evicts) and the webhook outbox worker. Three facts shape every
model here:

* Only courses' `Create`/`Update` and the migrations use a transaction.
  Everything else is a sequence of autocommitted statements, so **a request is a
  process whose steps are its SQL statements** (and the critical sections of
  the cache), and what it has read may be stale when it is used.
* Handlers pass `r.Context()`: a client that hangs up, a pool timeout or a
  shutdown fails the next statement while the earlier ones stay committed
  (`Abort` in the models).
* Some rules are kept by the database (unique keys, foreign keys with CASCADE
  or SET NULL, in `migrations/`); others only by a read that precedes a write.

| Component | State | Operations | What is hard | What makes it correct |
|---|---|---|---|---|
| attempts (`usecase/attempts.go`) | table `attempts` | Submit: load course, check certificate, count window, grade, insert, auto-issue | check-then-insert; client's own `started_at`; settings loaded before they change | limit and announced unlock day are kept; a certified learner's quiz is closed |
| enrollments | table `enrollments` | Create, Complete (+ auto-issue) | check-then-insert without a unique key | one enrollment per user and course |
| certificates | table `certificates` | AutoIssueForEnrollment, administrator's Issue, InsertCertificate | several issuers at once; rows read before they are deleted | a certificate is backed by a pass and an enrollment; one that is due is issued |
| courses, quizzes, packages | `courses`, `questions` | Create, Update (transactions) through three forms, Archive (a DELETE), reads and lists in two statements | reads between saves; question ids replaced on every save; a grader that reads the config anew | a read finds one version of a quiz; the score is what the key says |
| sessions, authentication | `users`, `sessions`, the cache | Login, Google login, Register, Authenticate, Logout, UpdateProfile, ChangePassword | two stores never changed together; expiry, eviction, restart | a token stands for its user; sign-out and deletion take effect; a valid session should be served (it is not: `SessLost`) |
| users | `users` | Create, Update, Deactivate (a DELETE) | whole-row writes of stale rows; cascades; two unique keys and one super admin | passwords, their mark and Google links are never undone by another writer's copy |
| lockout, password reset | `login_attempts`, `password_reset_tokens` | count, compare, record; create, find and use a token | count-then-record by a deferred call; three statements per reset | guesses are bounded; refusals have a cause; one reset per token succeeds |
| audit log, webhook outbox | `audit_logs`, `webhooks` | Log, claim, dispatch, mark | leases of two minutes, retries, crashes between delivery and mark | every stored event is dispatched, and tried at every webhook unless time runs out |
| modules and content blocks | `course_modules`, `content_blocks` | Create, Update (may move to another course), Delete | moves that race deletions and their cascades | everything has its home, and goes with it only |
| reviews | `reviews` | Create, Moderate, each with an audit row written later | the event is a statement of its own and may be lost or late | the log is true, and its last word is the status |
| uploads, notifications | files, `notifications` | Save, Delete; Create, MarkRead | an old avatar's file is deleted after the row is saved, by a URL any client may have named | an avatar whose file is deleted was named twice, or put back by an older copy |
| migrator, seed | `goose_db_version`, `users` | migrations and the super admin before serving | no lock between processes; failures and restarts | a migration is applied and recorded once, and processes get to serve |
| dashboard, recaptcha, configuration, rate limiter | none of their own, token buckets | reads | nothing that changes between requests | |

The components interact through tables (foreign keys delete or clear each
other's rows), through one injected call (attempts and enrollments call
`CertificateUseCase.AutoIssueForEnrollment`, wired in `cmd/api/main.go`), through
the audit logger (every write use case) and through the session cache (only
`AuthUseCase`). `PROJECT.json` lists the hazards with their lines.

## 2. Modules

| Module | Role |
|---|---|
| `Certification` | from a submitted quiz to a certificate: attempts, enrollments, certificates, and course and user changes that reach them |
| `CertificateRegistry` | what certification promises, without requests, statements or clocks |
| `CertificationProofs` | theorems about `Certification`, the refinement included |
| `SerialClientProofs` | EXTENDS it: theorems about learners who wait for each answer |
| `SessionAuth` | signing in, being recognised, signing out; profile and password changes; deletion of users |
| `SessionAuthProofs` | theorems about `SessionAuth` |
| `WebhookOutbox` | from an audit row to the webhooks: workers that claim, dispatch and mark |
| `DeliveryQueue` | what the outbox promises, without workers, claims or crashes |
| `WebhookOutboxProofs` | theorems about `WebhookOutbox`, the refinement included |
| `Grading` | what the validator accepts as a quiz, and how the grader scores answers: operators only |
| `CourseCatalog` | EXTENDS `Grading`: saving a course through its forms, opening its quiz and submitting answers |
| `CourseContent` | EXTENDS `CourseCatalog`: modules, blocks and reviews of courses that come and go |
| `CourseCatalogProofs`, `CourseContentProofs` | theorems about them, among them that the composed module implements the catalog; sums over sets |
| `Accounts` | rows of users and everything that writes them; lockout, reset tokens, uploads, notifications |
| `Startup` | EXTENDS `Accounts`: processes that migrate, seed the super admin and serve |
| `StartupProofs`, `AccountsProofs` | theorems about them |
| `MCCertification`, `MCSessionAuth`, `MCWebhookOutbox`, `MCCatalog`, `MCAccounts` | instances and symmetry for TLC |

### Certification

`pc[r]` is the statement request `r` executes next, `loc[r]` its Go locals,
`enrollments`, `attempts` and `certificates` are sets of rows. Rows are keyed by the
request that inserted them, because a request inserts at most one row into a
table. `liveCourses`, `liveUsers` and `saved` are the rows of `courses` and `users`.

| Code | Actions |
|---|---|
| `AttemptUseCase.Submit` | `SubmitLoadCourse`, `SubmitCheckCertificate`, `SubmitReadWindow`, `SubmitInsertAttempt`, `SubmitFetchAttempt`, `SubmitFindEnrollment`, then the automatic issue |
| `AutoIssueForEnrollment` | `AutoIssueCheckExisting`, `AutoIssueFindCandidate`, `IssueCheckPair`, `IssueLoadContext`, `IssueInsertCertificate` |
| `CertificateUseCase.Issue` (administrator) | `IssueCertificate`, then the last three of the above |
| `EnrollmentUseCase.Create` / `Complete` | `EnrollCheck`, `EnrollInsert` / `CompleteEnrollment`, then the automatic issue |
| courses `Update`, `Archive`; users `Deactivate` | `UpdateCourse`, `ArchiveCourse`, `DeactivateUser`, with what the foreign keys delete or clear |
| request context, pool | `Abort` |
| the clock | `NextDay` |

`Abort` ends a request as `aborted`, so that properties can tell it from one that was
answered.

Abstractions: days instead of timestamps (the cooldown is a number of days); the start of an
attempt is whatever the client says, so `StartDelays` may be negative (a start still to come)
as well as late; a graded sheet is any score of `Scores`; serial numbers only as the error of an
insert; audit rows are left out (no statement here reads them). `arrivedCertified`
and `promised` are ghosts that no action reads.

### SessionAuth

A token is named by the login request that drew it. `sessions` is the table,
`cache[t]` the entry of `SessionCache.items`; each critical section of the mutex is a
step, so `Get` (which gives the read lock back before it deletes a stale entry)
is two steps, and Authenticate's miss path is query, then `Set`.

| Code | Actions |
|---|---|
| `Login`, `LoginWithGoogle`, `Register`, `createSession` | `Login`, `LoginWithGoogle`, `Register`, `CreateUser`, `InsertSession`, `CacheLogin` |
| `RequireAuth`, `Authenticate` | `Authenticate`, `DropStale`, `Query`, `FillCache` |
| `Logout` | `LogoutDeleteSession`, `LogoutDropCache` |
| `UpdateProfile` | `LoadUser`, `SaveProfile`, `ProfileReadCache`, `ProfileWriteCache` (or `DropOwnEntry`) |
| `ChangePassword` | `LoadUser`, `SavePassword`, `DropOwnEntry` |
| users `Update`, `Deactivate` | `UpdateUser`, `DeleteUser` |
| eviction ticker, clock, process | `RunEviction`, `Tick`, `Restart` |

Abstractions: of a row of `users` only `is_admin` is kept. `is_active` is never
false (the users handler, `users.go:179`, forces it true, and deactivating a user is
a DELETE). Super admins, whose flags no UPDATE can clear, are left out. Both
lifetimes are positive. There is one API process, as deployed. `signedOut`, `late`
and `lastEarly` are ghosts.

`SelectedColumns` and `ScannedColumns` are the columns `GetByTokenWithUser` selects
(6 of `sessions` and the 19 of `userSelectColumns`) and the variables
`scanAuthIdentityRow` scans them into (24). pgx refuses a row whose columns and
variables differ in number, so in the code as it is a session is recognised
only while its cache entry lives: run `SessLost`. The other runs set both to 25,
so that the path behind the query is exercised. For safety this loses nothing:
with 25 and 24 a query that finds a session fails, which in the model with 25 and 25 is an
`Abort` at the query. `RequireAuth` answers 401 to every error of `Authenticate`, so such a
request ends as `refused`, like one whose token has no session. `FaultFreeSpec` leaves
`Abort` out, and is the specification of `SessLost` alone.

### WebhookOutbox

`at`, `claim`, `due` and `dispatched` are the columns of `audit_logs` that the outbox
uses, `active` the webhooks that `ListActiveByEvent` returns. `pc[w]` is the next
statement or request of worker `w`, `loc[w]` the rest of its batch, the event in hand and
the webhooks it still has to go to.

| Code | Actions |
|---|---|
| `AuditLogger.Log` | `LogEvent` |
| `ClaimWebhookDispatchBatch` | `Claim`, `ClaimFails`; `Claimable` is its WHERE |
| `Run`, `drainOnce` | `Wake`, `NextEvent` |
| `Dispatch`, `deliverWithRetry`, `deliverOnce` | `ListHooks`, `Send` |
| `dispatchOne` and its twenty seconds | `Expire`, `MarkSuccess`, `MarkFailure` |
| webhooks `Create`, `Update`, `Delete` | `EnableHook`, `DisableHook` |
| the process, time | `Crash`, `Lapse`, `ComeDue` |

Abstractions: durations are left out, so a claim may lapse and a backoff may end
at any moment (every real timing is among them). The up to three requests to one webhook
are one step, because a repeated request changes nothing that is modelled; `offered`
means tried, not answered. All events have one type. Rows are committed in the order
of `at`, which only decides who is claimed first. The counters of a webhook and the number of
attempts of an event are left out: no step here reads the former, and the latter only sets
the length of a backoff. There may be several workers: the claim is written for them
(`FOR UPDATE SKIP LOCKED`), and a process that restarts meets the claims of the one before
it. `offered`, `timedOut`, `overdue` and `since` are ghosts.

### Grading, CourseCatalog and CourseContent

`courses[c]` is the row of a course (with a history number of the save that wrote it),
`questions` the table, `saved` the history of what each save made of the questions. A save is
one step, as it is one transaction; a read is two, the row and then the questions.
`sheet[l]` is the quiz a learner has on screen, `loc[l]` what the submission has read.

| Code | Actions |
|---|---|
| `normalizeQuestionPayloads`, `validateQuestionConfig` | `QuizAccepted`, `ConfigValid`, `NormalizedQuiz` |
| `evaluateAttempt`, `evaluateQuestion`, `extract...` | `TotalEarned`, `TotalMax`, `AnsweredRight`, `CorrectOptionIDs`, `AcceptedAnswers` |
| `CourseUseCase.Create`, `Update`, `Archive` from `/courses`, `/quizzes`, `/course-packages` | `CreateCourse`, `CreateQuiz`, `CreatePackage`, `UpdateCourse`, `UpdateQuiz`, `Archive` |
| `GetByID`, `List` | `OpenReadRow`, `OpenFromList`, then `OpenReadQuestions` |
| `AttemptUseCase.Submit` | `SubmitReadRow`, `SubmitReadQuestions`, `SubmitInsert` (checks and limits are in `Certification`) |
| course modules | `CreateModule`, `UpdateModule`, `DeleteModule` |
| content blocks | `CreateBlock`, `UpdateBlock`, `DeleteBlock`; `PayloadValid` is `ValidateContentBlockPayload` |
| reviews and `AuditLogger.Log` | `CreateReview`, `ModerateReview`, then `LogReview` or `LogReviewFails` |
| ON DELETE CASCADE | `DeleteCourse` (`Archive` with all that hangs on the course) |

Abstractions: texts, titles, prompts, ratings, platforms, search and paging are left
out. Trimming and lower-casing is the function `Fold`, a blank text the value `Blank`; an option
id and a text are values, never characters. A text in languages (a photo's caption) is the set of
languages it is filled in. Points are whole numbers (the column keeps two decimals: read them as
hundredths and `PassedByPercentage` reaches to 2 points only). Of a page that a list returns, only the course whose quiz is
then answered is kept. Blocks have a position, which no constraint or step depends on, and
it is left out. `saved`, `happened` and `unsteady` are kept for the properties.

### Accounts and Startup

`users` is the table, one record per row, in which no two rows clash in a unique key.
`tries` are the rows of `login_attempts` in the window, `tokens` those of
`password_reset_tokens`, `files` the states of uploaded files. `pc[r]` and `loc[r]` are a
request's next statement and what it holds, in particular the row it will write back.

| Code | Actions |
|---|---|
| `Login` with `ensureLoginAllowed` and the deferred `recordLoginAttempt` | `LoginCount`, `LoginLookup`, `LoginSession`, `LoginRecord` |
| the lockout's window, a token's lifetime | `WindowMoves`, `TokenLapses` |
| `Register`, `LoginWithGoogle`, `resolveGoogleUser` | `Register`, `GoogleByID`, `GoogleByEmail`, `GoogleLink`, `GoogleCreate` |
| `ForgotPassword`, `ResetPassword`, `ChangePassword` | `ForgotLookup`, `ForgotCreate`; `ResetFind`, `ResetLoad`, `SavePassword`, `MarkUsed`; `ChangeLoad`, `SavePassword` |
| `UpdateProfile` | `ProfileLoad`, `SaveProfile`, `DeleteFile` |
| `UserUseCase.Create`, `Update`, `Deactivate` | `AdminCreate`, `EditLoad`, `SaveEdit`, `Deactivate` |
| uploads, notifications | `UploadCreate`, `UploadCopy`; `CreateNote`, `MarkRead` |
| `Migrator.Up` | `ReadVersions`, `ApplyMigration` |
| `AdminSeeder.Seed` | `SeedLookup`, `SeedCreate`, `SeedUpdate` |
| `main`, the service manager | `Start`, `Serve`, `Stop` |

Abstractions: names, phones, dates and cities are left out, as is `is_active`, which is never
false. A password stands for its hash. `Lower` is the lower-casing of e-mails: they are stored
and made unique as spelled, but looked up in any case, so two rows may answer one lookup and
either may be returned. What Google says of a token is given. An avatar is any URL the client
names when it registers, in `PUT /auth/me` or in a form (`AvatarURLs`): of a file that is there, was
there or will be. A file has one URL. A picture that Google supplies is no uploaded file, `Delete`
passes over it, and it is left out. In `Startup`, a migration that is not
`Repeatable` fails when its SQL was committed before; `Repeatable` ones (`IF NOT EXISTS`, plain
updates) succeed again and are recorded again. `stale`, `mixed`, `lastSet`, `wins`, `blamed`
and `chosen` are kept for the properties only.

## 3. Runs

| Run | Question | Result |
|---|---|---|
| `CertConcurrent` | Do certificates stay backed, does the quiz stay closed and do the tables implement the register when three requests of two learners and of administrators interleave with updates, deletions and aborts? | holds |
| `CertSerial` | With a learner who waits for each answer, over three days, with a cooldown and without, and a course saved in between: do the limit, the announced unlock day and single enrollment hold? | holds |
| `CertLive` | Is a certificate issued by the request to which it is due, when other requests overlap or are cut short? | holds |
| `CertLimitRace` | Does the limit hold for a learner who sends two at once? | violated |
| `CertTwice` | Is a certificate issued once per enrollment when two requests issue at once? | violated |
| `SessSafety` | Tokens, sign-out, deletion and expiry, under restarts | holds |
| `SessLost` | Is a client with a valid session served, with the column counts of the code and no failing statement? | violated |
| `RoleLost` | Does a user's own save leave the role alone? | violated |
| `OutboxClaims` | Do claims exclude each other, and do the rows implement the queue, when two workers overlap, crash and run late? | holds |
| `OutboxFair` | Is every stored event dispatched, and no webhook left out? | holds |
| `Catalog` | Do reads in two statements find one version of a quiz, is the score what the key says, do modules and blocks keep their homes, and is the review log true? | holds |
| `Accounts` | Do lockout, passwords, tokens, Google links and avatars survive every overlap of requests, and do two processes migrate once and get to serve? | holds |

The violated runs are findings: each quotes the document that says otherwise.

**What the properties say.** `CertificateBacked`: a certificate names a passed
attempt and an enrollment of its own user and course, although both are read in
statements before the insert and may be deleted between; the foreign keys are
what saves it. `ClosedOnceCertified`: a submission that arrives when a certificate exists never
becomes an attempt, even when rows vanish while it runs. `ImplementsRegistry`: the
refinement of `CertificateRegistry`. `LimitHoldsAtInsert`: what Submit counted is
still true when its attempt is inserted. It measures the code's own window, which counts by
the start the client reported: a client that dates its starts back stays within it, although
`docs/FRONTEND_API.md:538` reads as if the limit bound it too. `LimitForGood`: in a course without a
cooldown the window has no lower bound, and then no start a client reports gets it past
the limit, on any day. `QuizReopens`: after the announced day there is
room. `OneEnrollment`: nobody is enrolled twice. `DueCertificateIsIssued`: submissions
and completions never each leave the issue to the other, and what an aborted submission left
undone the completion of the enrollment makes good. `OwnIdentity`: session,
cache entry and requests of a token agree on its user, and an entry ends with
its session. `QuietLogoutIsFinal`: after a logout during which no other request of
the token ran, no request gets past the query. (With another request running
the code promises nothing: it may put its entry back.) `DeletedUserFadesOut`: a deleted
user is served for `CacheTTL` at most after the last request that came before
the deletion. `ValidSessionIsServed`: when no statement fails, only a missing or ended session
is refused; the code's scan makes it fail (`SessLost`).
`ClaimIsExclusive`: neither mark asks who holds the claim, and yet an event is in two
hands, or in one after it was dispatched, only if a claim of it had lapsed.
`ImplementsQueue`: the refinement of `DeliveryQueue`. `DispatchedWasOffered`: a dispatched
event was tried at every webhook that was active all along. The exception it makes is real:
one webhook that never answers uses up the twenty seconds, the webhooks after it get no
request, and the event is marked dispatched. `StoredIsDispatched`: a stored event is
dispatched, whatever crashes.

`ReadsWholeVersion`: a read between two saves finds the questions of one save, not older than
the row it found (it may find newer ones: an attempt can be judged by the old pass mark with
the new questions, and that is all). `StoredQuizIsLastSaved`: the table holds what the last
save put there. `StaleSheetEarnsNothing`: answers to a sheet opened before a save earn nothing.
This is what the code does, not what a learner hopes for: ids are new on every save, and the
attempt counts. `StoredQuestionIsAnswerable`: validator and grader read the JSON of a question each with
rules of its own, and agree: the key of whatever was accepted earns all points.
`ScoreMatchesKey` and `PassedByPercentage` compare the grader with a reference definition.
`ContentHangsTogether` and
`ContentGoesWithItsHome`: moves and cascades lose nothing that still has a home.
`AuditTellsWhatHappened` and `LastEventTellsStatus`: the audit row is a statement of its own
that may fail or come late; the exceptions of the latter (overlapping requests, a lost event)
are real.

`TriesBounded`: logins at once all pass the count, so the bound on guesses in a window is
`MaxAttempts`, plus one for each further login at the same time and each attempt whose record was lost,
and it is per spelling of the name: identifiers are compared as sent. It is about a lockout that is
switched on, as it is by default. `LockoutHasCause`: refusals are recorded as
failures and prolong the lockout, but never start it. `OneSuccessPerToken`: two resets may both
save, one is told so. `PasswordIsLastSet`, `TemporaryPasswordMarked` and `GoogleLinkStays`: what
whole-row writes of older copies must not undo (and, for the link, who may: a writer that loaded
the row before). `AvatarNotDeleted`: clients may name any URL as an avatar, so nothing says that
a file is there; but `UpdateProfile` deletes the file of the avatar it replaced, and that hits a
row only if two requests named the file or a profile saved from an older copy put it back. `RecordedIsApplied`: what is recorded was applied, once, in order, before
anybody serves. `StartCompletes`: processes get to serve again and again once the seed fits the
table. The condition is real: with another e-mail given to the super admin,
the seed finds no row, its INSERT meets the index of the single super admin, and no start
succeeds any more.

**Bounds.** Every hazard modelled is a race of two requests with a third that
sets the scene (the enrollment, the login); three requests are therefore enough to reach
each of them, and the serial run has four because it needs an enrollment or two
attempts, a refusal and a retry. `CertSerial` has one learner and one course, whose rules are two attempts
a day or one for good without a cooldown, and starts reported for the day before, the day itself
and the day after; over three days and four requests the learner meets the limit, is told a day,
waits for it and tries again. The course may be saved once more, and after that at most three of
the four requests are followed (the constraint `ThreeAfterSave`: what follows is one refusal
and its retry under the new rules). `CertConcurrent` has two rules of a course (one with a
limit of one and certificates; one saved without limits, which means three
attempts and 80 percent, and no certificates), one further save, and scores below,
between and above the pass marks. `LastDay` 2 and a start delay of one day reach the
boundary of the window, the refusal and the day after. `SessSafety` has lifetimes of 3
and 2 ticks, so an entry is limited once by its own lifetime and once by its
session's, and a clock of 4 ticks passes both. `Roles` is `{FALSE}` there because only
`RoleLost` distinguishes roles. Requests and users are symmetric in every safety
run, none of them being named in a property; the liveness runs have no symmetry.
`OutboxClaims` has two events and a batch of two, so that one event waits in the batch while
the other is dispatched and a worker may come late to either; one fault is enough, because
what another worker does while a claim lapses needs none. `OutboxFair` has two webhooks, so
that one can be left out, and two faults: a dispatch that fails and a crash after it. Its one
event loses little: events meet only in a batch, and with two events, one webhook and one
fault the properties hold as well.

`Catalog` and `Accounts` put several situations into one run. `bound`, a variable that never
changes, holds the bounds of a behaviour, and `Init` chooses one record of `Bounds`: which
requests exist, what they may enter, how many edits there are. Nothing else reads it, and the
theorems hold for every set of bounds. `Catalog` has three: one course, one learner
and two saves over five quizzes of up to two questions (a missing position, missing points, a
single choice with two keys, which is refused, a key that trims to nothing), all statuses and
switches; two courses with four edits of modules and blocks (create two homes, move, delete,
look at what is left); one course with two moderators and four edits, so that both write one
review before either logs. `Accounts` has eight: the lockout in its three scopes with three
logins, two of them at once, two spellings and addresses (the third login meets the count); four
requests with a forgotten password, two resets and a deletion or change; Google, profile and password
over one row; the super admin's forms against the owner's own writes; four uploads,
registrations, profiles and forms of the super admin over two files, with any of the two URLs; and the start of two processes over three migrations, one of them
repeatable, with two setbacks, which reach both races: one process runs what the other has
read as missing, and a failed start that follows.

**Preconditions.** `LimitHoldsAtInsert`, `QuizReopens` and `OneEnrollment` hold for
learners who wait for each answer (`SerialClients`): the statements that count and
insert are not tied together, as the races show. The limit of `LimitHoldsAtInsert` is the one Submit
loaded, whatever is saved before it inserts. `QuizReopens` and `LimitForGood` speak of courses that have not been saved
again (`updates = 0`): after an administrator has lowered the limit, the window may hold several
attempts more than the new limit, the day of the oldest of them is too early to announce, and
the code does not claim otherwise.

**Fairness.** `CertLive` assumes weak fairness of each request's next statement: a request is
a goroutine blocked only on a statement that returns. Any request may be aborted instead;
the property excuses only the aborted one, whose attempt may be stored and the rest
lost, and not the requests that meet what it left.
No fairness is assumed of arrivals, clock, administrators or aborts.
`OutboxFair` assumes weak fairness of each worker's next step (its statements and requests
have timeouts, its ticker ticks, a process that stops is started again) and of `Lapse` and
`ComeDue` (time passes). Faults end (`MaxFaults`): nothing is dispatched while every
statement fails. Nobody has to log an event or keep a webhook.
`Accounts` assumes weak fairness of each process's start, and nothing of requests: its
statements return, an error ends the process, and the service manager starts it again
(`Restart=always` in `deploy/http-test/arvand-api.service`). Stops are bounded by `setbacks`;
nothing serves if every start is stopped.

**Deadlock** is not checked for certification, sessions, courses and accounts: requests are served
once, saves and edits are bounded, and an API that has answered them all may idle. It is checked for the outbox, whose workers always
wake again.

## 4. Theorems

All theorems are for arbitrary constants under the `ASSUME`s of the modules:
settings are integers and booleans, scores are in 0..100, delays are integers, bounds
naturals, lifetimes are positive, `None` is not a value of anything else.

`CertificationProofs`:

* `TypeCorrect`: `TypeOK`. Inductive form `TypeInv`: also, each statement's
  local variables have been assigned by an earlier statement.
* `CertificatesAreBacked`: `CertificateBacked`. It is not inductive: an insert is
  right only if the context read before it was, and if keys are fresh.
  `SafetyInv` adds `FreshKeys` (a request that has not inserted its row has no row
  under its key) and `ContextHolds` (a request about to insert a certificate holds
  the attempt, enrollment, course and user that were read together; if they are still
  there they still belong together).
* `QuizClosedOnceCertified`: `ClosedOnceCertified`. The strengthening `LateSubmits`
  follows a submission that arrived late from the certificate check to its
  refusal: either it never gets past the check, or the course or user whose deletion removed
  the certificate is gone, and the foreign key refuses the attempt.
* `TablesImplementRegistry`: `Spec => ImplementsRegistry`. One lemma for each kind of
  step: a stored attempt is `Pass` (or nothing), a certificate is `Issue`, deletions
  are `DropCourse` and `DropUser`, everything else stutters.

`SessionAuthProofs`:

* `TypeCorrect`: `TypeOK`, with the assigned locals as above.
* `TokensNameTheirUser`: `OwnIdentity`. `OwnInv` adds that whoever was given a token has been
  answered (so no login writes under a token that is in use), that a session was stored by
  the login that drew its token and by no other, and that requests and entries agree with
  the session's user and end.
* `SignOutIsFinal`: `QuietLogoutIsFinal`. `QuietInv` adds that a token signed out is in
  neither store, that its requests have only the query before them, and that there is
  no session between the two steps of a logout.
* `DeletedUsersFade`: `DeletedUserFadesOut`. `FadeInv` adds that a user who is live, or for
  whom an early request runs, has been seen up to now; that a late request never
  gets to a step that writes an entry; and that sessions belong to live users.

`WebhookOutboxProofs`:

* `TypeCorrect`: `TypeOK`, with the event that each step of a worker finds in hand.
* `ClaimsAreExclusive`: `ClaimIsExclusive`. `HoldInv` adds what makes it inductive: an event
  in hand that was never claimed over a lapsed claim is itself claimed, so that no other
  claim takes it; the event being dispatched is apart from the rest of its batch, so that a
  mark takes it out of the worker's hands.
* `NobodyIsLeftOut`: `DispatchedWasOffered`. `OfferInv` adds that each webhook active all
  along is still to be tried, has been, or the event ran out of time.
* `OutboxImplementsQueue`: `Spec => ImplementsQueue`, from `HoldInv`: a claim is `RunOut`, a
  request `Send`, a mark `Settle`, or a stutter when it repeats one.

`SerialClientProofs`, for learners who wait for each answer (`SerialClients`; the runs
`CertLimitRace` and the like show that it is needed). All four rest on `OneRequestEach`: at most one
request on its way holds the name of a learner, so what a statement of that learner's request has
read can be changed behind its back only by others, and others only delete.

* `LearnerEnrolledOnce`: `OneEnrollment`. It is not inductive, because the check and the INSERT
  are two statements; `EnrollInv` adds `EnrollClear`: a request about to insert finds no row of
  its learner and course, as when it looked.
* `LimitKeptAtInsert`: `LimitHoldsAtInsert`, an action property. `LimitInv` adds `RoomHolds`: a request
  about to insert an attempt has room in the window it counted. Windows are sets of rows, their
  counts cardinalities; a deletion makes them smaller, and only the learner's own INSERT larger.
* `QuizReopensAsAnnounced`: `QuizReopens`. `RulesInv` is `LimitInv`, and `ReopenInv` as long as no course
  has been saved again (see the preconditions above). `ReopenInv` adds to `LimitInv` that settings in hand are those of the course, that attempts are
  finished by now (so the window only moves away from them), that no window holds more than the limit,
  and `PromiseHolds`: the window of the announced day has room, counted now. At a
  refusal this holds because the day is that of the oldest attempt counted plus the cooldown.
* `LimitKeptForGood`: `LimitForGood`, also from `RulesInv`: without a cooldown the window that never
  holds more than the limit is the set of all attempts.

`CourseCatalogProofs` and `CourseContentProofs`:

* `ReadsFindOneVersion`, `QuizIsLastSaved`: from `VersionInv`, which says
  that the row of a course names a save of this course, that the table holds the questions of the
  course's last save, and that a reader between its two statements holds a row whose save is not
  after the one the course has now. Only the last part concerns readers, and it is what a save in
  between must keep.
* `CatalogTyped`: `TypeOK`, with the unique positions of questions, from `VersionInv` and the types of
  what readers hold.
* `QuestionsAnswerable`: `StoredQuestionIsAnswerable`. The table holds only questions of accepted
  quizzes; for each type a lemma shows that what the validator asks for makes the grader's
  extraction yield the key itself (for a single choice: exactly one option id is left).
* `ScoresMatchTheKey`, `StaleSheetsEarnNothing`, `PercentageDecides`: `ScoreMatchesKey`,
  `StaleSheetEarnsNothing` and `PassedByPercentage`, from `AnswersInv`. It adds to `VersionInv` that the
  questions of a save carry its number in their ids (`IDsTellSave`), that a submission's answers
  are normalised, at most one to a question, and to questions of the sheet on screen, whatever quiz
  they are graded against, and that percentages are set. `GradedByKey` shows, type by type, that the
  grader's `AnsweredRight` is agreement with the key for a stored question and a normalised answer.
  The totals are sums over sets of any size. The induction theorems of the library cannot be used for
  them, so the lemmas on sums look at a smallest counterexample instead: `LeastOf` (from the
  well-foundedness of `<` on the naturals) and `SmallestOf` for families of finite sets. With them
  `SumsExist` shows that the recursion inside `MapThenSumSet` has a solution, `SumsSplit` that any element
  may be taken first, and `SumsAgree` that elements which count nothing may be left out.
* `RoundingNeverDecides`: the score in hundredths, rounded half up, is at least
  `100 * P` exactly when `100 * earned >= P * max`, for all `max < 200`. Points
  are whole numbers there: with 200 of them and more, or with 2 points and more given in hundredths,
  rounding may lift an attempt over the mark.
* `ContentImplementsCatalog`: `ContentSpec => CatalogSpec`: every step of the composed module is a
  step of the catalog or leaves it alone, so the theorems above hold in it.
* `ContentHoldsTogether`, `BlocksGoWithTheirHome`: from `ContentInv`, the constraints of the tables together
  with the freshness of row ids. `AuditIsTrue`, `LastEventIsStatus`: from `EventInv`, which adds
  that an event still to be logged is the status of its review, or the review is unsteady.

`StartupProofs` and `AccountsProofs`:

* `MigrationsRecorded`: `RecordedIsApplied`, from `RecordInv`: what a process knows to be
  applied is recorded, so that the first version it takes as pending has all before it
  applied, and a process past migration knows all.
* `AccountsTyped`, `PasswordNeverPutBack`, `MarkOutlivesOtherWrites`: from `SystemInv`. Its parts: the
  rows and their keys (`RowsOK`), the last password and its mark (`PasswordsOK`), and, for each request
  and process, that what it is about to write fits (`LocsInv`, `PreparedInv`): parameters without a
  password leave the mark alone, those with one carry the mark that belongs to who gave it. That is why
  an old copy of a row does no harm to either column, whenever it is written.
* `TokenSucceedsOnce`: `OneSuccessPerToken`, from `TablesInv`: a token that has a winner is used.
* `LockoutStartsWithFailure`: `LockoutHasCause`, from `TriesInv`: every row of
  the window either succeeded or goes back to a failure that caused it.
* `LinksStay`: `GoogleLinkStays`, from `FreshInv`: a request that is not stale holds the link of the row as
  it is.
* `WrongPasswordsLimited`: `TriesBounded`. The bound counts what was answered, and the code what was
  stored; between the two are the logins that have passed the count. `GuessInv` puts them together:
  for every set of name and address pairs each of which is counted against each, the wrong passwords
  stored and the logins still comparing (`Comparing`) make at most `MaxAttempts + together - 1`. A login
  is admitted only below `MaxAttempts` stored failures, and then at most `together - 1` others are at
  the same place. Quantified over sets of pairs, it covers the three scopes of the lockout at once.
* `AvatarsNotDeleted`: `AvatarNotDeleted`, for any URLs clients name. `AvatarInv` follows each file from
  the request that chose it: whoever holds a file (a row, a form, a seed that has read the row) has it
  from a choice by or for that account (`HolderOwns`), and so has a deleted file (`DeletedOwned`); a
  request chooses once (`ChosenOnce`); a file chosen once and not yet saved is held by its chooser alone
  (`FirstChoice`), so nobody can be deleting it; and a request that is not stale holds the avatar the
  row has (`LoadsHold`). `RowsHave` strengthens the property itself: it already holds when the deletion
  is only about to run.

Only model-checked: the liveness properties `DueCertificateIsIssued`, `StoredIsDispatched` and
`StartCompletes`, as liveness under fairness and `ENABLED` are out of the prover's reach. Every
invariant and every other action property of the passing runs is a theorem above. The modules have no
`RECURSIVE` operators, which the prover cannot use.

## 5. Not modelled

* The counters of a webhook (`RecordDeliveryResult`): they are written and listed, and no decision reads
  them. Those of a webhook that uses up the twenty seconds are not written
  (hazard at `webhook_dispatcher.go:121`).
* The dashboard, recaptcha, configuration, logging and CORS: reads, calls of other services whose
  answers are choices here, and values that never change while the program runs.
* The rate limiter: a token bucket of a library per address, in memory, under one mutex.
* Reads of attempts, certificates, enrollments, users, notifications and audit rows, and their
  filters and pages: they change nothing, and read in one statement.
* Parsing and formatting throughout: JSON, multi-language texts, phone numbers, goose files.

Where documents and code differ beyond the findings: `docs/FRONTEND_API.md:359-361` says
the body of `PUT /courses` is that of the POST, but an update without a status is refused
(`usecase/courses.go:193`), while a create defaults to a draft; and every `PUT` gives all questions new
ids, so answers to an open sheet score nothing.

## 6. Plan

1. Modules and proofs above: done.
2. Proofs of `OneEnrollment`, `QuizReopens`, `LimitForGood` and `LimitHoldsAtInsert` for serial
   clients, of `AvatarNotDeleted` and `TriesBounded`, and of the three properties of scores: done.
3. Bounds for clients that do not wait (how far the limit, and the one enrollment, can be passed
   by so many requests at once), as `TriesBounded` is one for logins, and their proofs.
4. An abstract register of accounts (who may set a password, a mark, a link), and
   `Accounts` shown to implement it.
