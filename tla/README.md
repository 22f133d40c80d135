# A model of GitVote

GitVote is a GitHub application. People ask for a vote with `/vote` on an issue or a pull request (or a
rule of the repository's configuration asks for one), vote by reacting to the comment GitVote posts, and
GitVote counts the reactions when the time is up. This directory holds TLA+ modules translated from its
source (`src/src/*.rs` and the SQL inside `db.rs`), TLC configurations that check them on small instances,
and theorems about them that TLAPS checks for every value of the constants. `PROJECT.json` says, for each
definition, which lines it stands for, and lists the runs, the mutants, the hazards and the theorems.

Paths below are relative to the repository, as `src/` holds it.

## 1. Inventory

### Parts, their state and their operations

| Part | State | Operations |
|---|---|---|
| Webhook endpoint (`handlers.rs`, `cmd.rs`) | none | verify the signature, turn an event into a command (`Command::from_event`), queue it; set the check status of a pull request |
| Command queue (`main.rs`, an unbounded channel) | the commands not yet received | send (webhook, status checker), receive (5 handlers) |
| Commands handlers (`processor.rs`) | what each is executing, and what it has read | `create_vote`, `cancel_vote`, `check_vote` |
| Votes closer (`processor.rs`, `db.rs`) | its transaction and row lock | `close_finished_vote`: pick a finished vote, calculate, store, commit, report |
| Status checker (`processor.rs`) | when it ran last | queue a check of every vote whose periodic check is pending |
| Votes auto closer (`processor.rs`) | the vote it examines | bring the end of a vote forward once it passes over all the allowed voters |
| Results (`results.rs`) | none | `calculate`, `passes_with_all_allowed_voters` |
| Database (`db.rs`, `database/migrations`) | table `vote`: `ends_at`, `closed`, `results`, `checked_at`, ... | the statements, run by one worker each |
| GitHub (`github.rs`) | comments, reactions, labels, check runs, teams, collaborators | the calls of the workers; nothing is transactional with the database |
| Audit page (`handlers.rs`, `tmpl.rs`) | a 15 minutes cache of `audit_is_enabled` | list the votes of a repository, participation statistics |
| Repository configuration (`cfg_repo.rs`) | none | find the file (repository, then `.github` of the organization), choose and validate a profile |
| Service configuration, templates, migrations, chart | none | no behaviour once the service runs |

### How they interact

The webhook only adds to the queue; handlers, closer, status checker and auto closer share nothing but the
database and the GitHub objects. Every statement and every GitHub call is an `await`, at which any other
worker may run. The only lock held across awaits is the closer's row lock (`for update skip locked`); the
handlers use no transaction. The service may run as several replicas, each with all the workers.

### What is hard

* `create_vote` asks `has_vote_open`, posts a comment, stores the row, and only then writes the check run
  and the labels: five awaits in which other handlers, the closer or a crash may come in between.
* The closer holds a row lock while it calls GitHub, commits, and only then reports.
* The auto closer and `check_vote` read, call GitHub, and write according to what they read.
* A GitHub call may fail without effect, or take effect without its answer arriving; errors of some calls
  end the command, errors of others are ignored.
* A crash loses the queue and what was being executed; nothing is retried but the picking of open votes.

### What makes each part correct

* Processor: a vote is opened once and ends once, closed or cancelled; its results never change and are
  posted at most once; one open vote per issue; labels and check run agree with the database; every command
  finishes; every vote is settled.
* Results: they do not depend on the order of the reactions, the counters add up, a vote does not pass
  without votes in favor, and comparing with the threshold is exact.
* Auto closer: closing early never turns a vote into one that fails, and a vote that keeps passing is closed.
* Status checks: one a day, as far as one handler is concerned (section 3, limits).
* Queue: a command answered "command queued" is executed once, unless the service crashes, and an orderly
  shutdown loses none and ends.
* Pull requests: no commit pushed later shows success while a vote is open or lost, a verdict is not undone,
  and a pull request without a vote can be merged.
* Allowed voters: every account once, exactly those configured, whichever teams do not answer.
* Audit page: an answer about a repository is at most as old as the cache allows, everybody is answered, and
  participation is counted as the results are.

## 2. Modules

| Module | Models |
|---|---|
| `VoteLifecycle` | what the system promises about a vote, without workers: the abstract specification |
| `VotesProcessor` | `create_vote`, `cancel_vote` and the votes closer, one action per await; implements `VoteLifecycle` |
| `VoteResults` | the results of a vote as functions of a *set* of reactions: the reference definition |
| `Tally` | the loops of `results::calculate` over the *list* of reactions, one iteration per step |
| `EarlyClose` | one vote with `close_on_passing`: users, auto closers of the replicas, the closer; extends `VoteResults` |
| `StatusChecks` | `check_vote` and the status checker, for one vote: queue, daily limit, restarts |
| `CommandLifecycle` | what the system promises about the command of a request, without the channel: the abstract specification |
| `CommandQueue` | the channel: webhook requests and status checker that fill it, handlers that drain it, shutdown, crashes; implements `CommandLifecycle` |
| `RepoConfig` | operators: where the configuration file is found, which profile is valid, which rule starts a vote |
| `PullRequestChecks` | the GitVote check of one pull request: pushes, handlers and closer writing it; extends `RepoConfig` |
| `Electorate` | `get_allowed_voters`, its loops one name per step |
| `Audit` | the audit page: cache and lookup of its configuration, rows, statistics; extends `RepoConfig` |
| `MC...` | instances for TLC |
| `...Proofs` | theorems and proofs about the module of that name, those of `VoteResults` being in `TallyProofs` and `EarlyCloseProofs` |

### VotesProcessor

A member of `Votes` is a vote's identity: the comment "vote created" and the row stored for it.
`status[v]` goes `none` -> `posted` (comment without row) -> `open` -> `closed` or `cancelled` (the row is
deleted). `due[v]` says that `ends_at` is past, `result[v]` is the column `results` (`missing` is a vote whose
comment was gone: it is closed without results), `lock[v]` is the closer whose transaction holds the row.
`labels`, `check`, `published`, `announced` and `notified` are what is on GitHub. `task[h]` and `job[c]` are the
local variables of a handler or a closer and the call it makes next; each action is one call together with
everything up to the next one.

`Answered` and `Reported` are a call whose error ends the command: it succeeds, or takes effect but its
answer is lost; `HandlerCallFails` and `CloserCallFails` are the call that fails without effect. `RemoveLabel`
is the call whose error is ignored. `CancelVote` waits for the row locks and fails after having deleted two
rows, as `query_opt` does. `Poisoned` votes are those whose calculation may return an error each time it is
tried: the closer rolls back, rests and goes on. `Malformed` votes are those with a reaction whose timestamp
cannot be parsed: `results::calculate` panics, which ends the task of the closer (`Dead`), and nothing in the
process starts it again. `Crash` drops all tasks and jobs, rolls transactions back and, since the service
starts again, brings dead closers back. Commands reach handlers in any order, so neither the
channel nor the webhook is in this module; commands that only end in a reply are left out.

The verdict itself (`Calculate` chooses any of the outcomes) is the subject of `VoteResults`, `Tally` and
`EarlyClose`.

### VoteResults and Tally

Users are GitHub accounts, so names that differ only by case are the same user. GitHub keeps one reaction of
a kind for each user, hence lists without duplicates. Thresholds are hundredths of a percent and the
comparison `in_favor * 100 >= threshold * base` is exact; the rounding of the code's `f64` product is not
modelled. `Tally` keeps the two loops: the map of votes and `multiple_options_voters` of the first, the
counters of the second. The second loop goes over a `BTreeMap`, in the order of the names; the model takes the
names in any order, which contains that one.

### EarlyClose

Every reading of the reactions and of the allowed voters is a step of its own, so what the auto closer
decided on may be old when it writes `ends_at` and when the closer counts. A team that cannot be listed
loses its members (`get_allowed_voters` ignores the error), and an empty list means the collaborators.
`grounds` is a history variable: the readings on which the end was brought forward. Users go on
reacting after the closing, and an auto closer that decided before it still writes `ends_at` afterwards
(`update_vote_ends_at` does not ask whether the vote is closed): what keeps such a vote from being counted again is
only that the query for finished votes asks for open ones, which is `VerdictStays`. An auto closer goes over every
vote with `close_on_passing`; `AutoPanics` is the timestamp of another vote that cannot be parsed, which ends
its task for good.

### StatusChecks

Time is counted in runs of the status checker, `Day`, `Hour` and `Interval` in that unit. The queue is the channel restricted
to the checks of one vote. Strict and non-strict comparisons are those of the code (`Elapsed`) and of the
SQL (`Pending`). `lastPost` and `forgotten` are history variables: when each handler posted last, and the handlers
whose last comment was not recorded in `checked_at`, because the update failed or a crash came before it.

### CommandQueue

`queue` is the channel, `request[r]` what the webhook answered, `worker[h]` and `command[h]` a handler and what it
executes, `fate[r]` what became of the command of `r`. `Send` is `cmds_tx.send(cmd).await.unwrap()`: with every
receiver gone it panics. The `select!` of a handler is biased, so `Stop` needs an empty channel; that of the
status checker has the token as an alternative to its pause only, so `CheckerSends` goes on after the server
has stopped. `main` cancels the token when the server has finished its requests (`ServerStops`, `Cancelled`) and
waits for the workers (`Exited`). It also waits for the closer and the auto closer, which have no variable here: they do
not touch the channel and end by themselves, at the token or by a panic. `Fatal` commands make the task of their handler panic: `unwrap` on a timestamp,
`Vote::from` on an unreadable row; the task is not restarted. `GiveUp` is a client that goes away before its
command is sent: the request is dropped. `Crash` is a kill and a new start: the channel is
gone, and GitHub, which had its answer, does not send the event again.

`CommandLifecycle` knows neither the channel nor the server nor the status checker, only `phase[r]`, the tasks
that are `alive` and whether the service is `up`. `Phase` maps to it the answer of a request until the fate of its
command is known. A refusal needs that no task is alive, and so does leaving acknowledged commands behind at
the exit: that is what the biased `select!`, the graceful shutdown and the order of the two in `main` are for.

### PullRequestChecks and RepoConfig

The commits of a pull request are numbered by the pushes; `check[n]` is the latest GitVote check run of commit
`n`. `request[n]` is the webhook request of the push `n`, `task[w]` the local variables of a handler or of the closer,
about to store a vote or to create a check run. `create_check_run` is two calls, `ReadHead` and
`CreateCheckRun` (for a request `RequestReadsHead` and `SetSuccess`), so a push may come in between. The
opening goes through `Command::from_event` first: a command in its text, or a rule of the configuration that
matches its files, is queued and the check is not set; its branch of `set_check_status` does not ask
`has_vote`. `StartVote` is `create_vote` up to posting the comment and `StoreVote` stores the row, so two
handlers may both store one (`open` counts the open votes), and one handler may cancel a vote while the one that
created it is still to write its check run. `ended` is what became of the vote that ended last; cancelled votes leave no row, closed ones do (`kept`).

History variables: `since` and `base` are the commits a vote was stored and last reported on. `raced` says that a vote
was stored while a request was already bound to say "no vote found", `crossed` that a vote was stored or ended
while a worker had still to write the check of an earlier one or of the same one, or was stored beside an open
vote. The code prevents neither; the properties are stated without the one that breaks them, and section 3
lists what happens then.

`RepoConfig` has no state. A file is `Absent`, `Undecodable`, `Malformed` or parsed; `GetConfigFile` passes over a location
that does not answer, as `if let Ok(resp)` does, whereas one that answers with something `decoded_content`
makes nothing of ends the search without a file; `StartsVote` ends with an error at the first invalid rule tried.

### Electorate

A name is an account and a spelling; GitHub gives logins, the profile any spelling, and
`eq_ignore_ascii_case` compares accounts. `batch` is what the inner loop has still to consider, in any order,
`refused` the teams that did not answer. `AfterUsers` falls back on the collaborators. What the results do with
the list is in `Tally`, which takes it as a set: `OneEach` is why it may.

### Audit

`installed` and `files` are the repository on GitHub, changed by anybody at any time; `page[r]` is a request for the
page or for the details of a vote. `holder` is the request that holds the lock of the repository's entry
(`sync_writes = "by_key"`) while it asks for the installation and then for the file, one location at a time;
the others wait. `cache` remembers answers, not errors, for `Ttl`. `GiveUp` is a client that goes away: the
request is dropped, and its lock with it. `began` collects the answers a lookup in one moment would have given
since the lookup began, and is empty when it is unclear: the file moved twice, or a location did not answer.
`Ahead` is what the lookup under way would answer if nothing changed any more; `LookupJustified` says that it is
among `began`, and is what makes `AuditInv` inductive.
`Stats` is the count of the page per year and name, for the votes stored so far.

## 3. What is checked

Runs that pass:

| Run | Instance | Shows |
|---|---|---|
| `processor_safety` | 3 votes on a pull request, one of them malformed, 2 handlers, 2 closers, 2 `/vote`, 1 `/cancel-vote`, 1 fault, 1 crash | `TypeOK`, `ProcessorInv`, `VerdictsPublished`, refinement of `VoteLifecycle` |
| `processor_paced` | 3 votes, a pull request and an issue, 2 handlers, 2 closers, 1 fault, no crash, `PacedSpec` | `OneOpenVote`, `OutwardState` |
| `processor_live` | 2 votes, one of them poisoned and malformed, 1 handler, 1 closer, 1 fault, 1 crash, `FairSpec` | `CommandsFinish`, `VotesSettle`, `ResultsPublishedUnlessLost` |
| `tally` | every list of at most 4 of the 8 reactions of 2 users, every electorate and base, 3 thresholds | `TallyInv`, `ResultsCorrect`, `ResultsAddUp` |
| `early_close` | 3 voters, one of them from a team, 1 auto closer, which another vote may end, 1 fault, 1 change, base `votes_cast_excluding_abstentions`, threshold 50.01, `FairSpec` | `TypeOK`, `EarlyInv`, `EarlyCloseStands`, `VerdictStays`, `ClosesEarly` |
| `status_checks` | 2 handlers, a day of 2 instants, 6 instants, 2 `/check-vote`, 2 faults or crashes | `ChecksInv`, `EachHandlerOncePerDay` |
| `command_queue` | 3 requests, 2 of them fatal, 2 handlers, 2 checks, 1 crash, `FairSpec` | `TypeOK`, `AcknowledgedOnce`, `StopsDrained`, `NothingLostAtExit`, refinement of `CommandLifecycle`, `CommandsTaken`, `ShutdownEnds` |
| `pull_requests` | 2 handlers and the closer, 2 pushes, 3 votes, 1 fault or crash, rules in two files | `TypeOK`, `VerdictStands`, `NoWayRound`, `NotHeldUp` |
| `electorate` | 3 accounts in 2 spellings, 2 teams, every section | `ElectorateInv`, `AsConfigured`, `LoginKept` |
| `audit` | 2 requests, 2 votes, files absent, undecodable, malformed or enabling the page, `Ttl` of one unit of time, 2 changes, 1 fault, `FairSpec` | `AuditInv`, `ParticipationAddsUp`, `FreshAnswers`, `PagesAnswered` |

Runs that end in a violation, each a disagreement between the code and what the repository says of it:

| Run | Property | What happens |
|---|---|---|
| `two_open_votes` | `OneOpenVote` | two handlers ask `has_vote_open` before either stores its vote; the schema has no unique index on open votes |
| `audit_unreadable` | `PageListsAllVotes` | a vote closed without results is stored with the JSON value null, which `Vote::from` cannot read: the page panics from then on |

Limits of the code that the models contain, and that the properties above except by name:

* A vote with a reaction whose timestamp cannot be parsed ends the task of the closer that counts it. There is
  one closer per replica and nothing restarts it: from then on that replica closes no vote, whatever its
  results, until the service is started again, when the same vote ends it anew as soon as it is drawn
  (`[]ClosersDead` in `VotesSettle`). Likewise an auto closer that meets such a vote closes no vote early any more
  (`AutoClosersEnded` in `ClosesEarly`).
* A call that fails, or a crash, after a vote was closed leaves its results unpublished for ever: nothing
  posts them again (`ResultsPublishedUnlessLost`).
* A cancellation handled while the creation is still labelling the issue leaves `gitvote/open` on an issue
  without a vote (`OutwardState` holds at the pace of the users).
* A team that does not answer as a vote is closed changes its electorate, and a vote closed early may then
  be recorded as failed (`EarlyCloseStands` compares equal electorates).
* Two handlers that both read `checked_at` before either writes it post the status of one vote twice in a day,
  although `README.md:72` says "This command can only be called once a day per vote (additional calls will be
  ignored)" and `docs/config/.gitvote.yml:179` speaks of the "hard limit of one status check per day". It takes
  no failure: two checks queued together, received by two handlers, both past the comparison before either
  writes. `EachHandlerOncePerDay` is what remains. And a status comment whose `checked_at` was not
  written does not count for the limit at all (`forgotten`).
* A handler has stored a vote and not yet created its check run, another one cancels the vote and reports
  success, and the first one's "in progress" lands last: no vote is open, nobody is at work, and a pull request
  that requires the check is held up until the next push. No call has to fail for it. The same overlap of a
  cancellation's or a closing's late report with a new vote lets the new vote's commit show a success
  (`crossed`).
* With two open votes on one issue a cancellation deletes both and reports neither, and what the check run
  shows depends on who wrote last (`crossed`).
* A request that already decided to say "no vote found" overwrites the check of a vote stored meanwhile
  (`raced`), and an opening whose command is refused leaves a required check missing until the next push
  (the exception in `NotHeldUp`).
* A location of the configuration file that does not answer is taken for an empty one, and the audit page
  remembers what followed from it.

### The bounds, and why they are enough

All races here are between two workers: two handlers (creation against creation or cancellation), two
closers (the row lock), a handler and a closer. Two votes on one issue are the least with which an earlier
vote's report meets a later vote, and three in `processor_paced` let an issue see a second and a third vote
after votes that ended differently, while another issue interleaves. One fault and one crash reach every
place where a command may be abandoned; a second one would only abandon another command, from a state that
the first one can also leave behind. The third vote of `processor_safety` may end a closer by a panic in every
state the other two are in. The cap on events (`Limit`, `MaxFaults`, `MaxChanges`, `MaxManual`,
`MaxTime`, `MaxChecks`, `MaxCrashes`, `MaxPushes`, `MaxVotes`) is a guard on the environment only: no step of the service is limited by it. `ListsUpTo(4)` covers
three supported options and an unsupported reaction of one user in every order, and two users mixed. Three voters in
`early_close` are the least with which a vote closed early still waits for a voter, and one that merely
passes can be made to fail; a vote is changed there by adding a second option, which drops it, or by
withdrawing a reaction. In `status_checks` six instants are three days: a check, the next one allowed, and one asked too early, with the
periodic check pending from the third instant on and suppressed before the end; two faults can leave both
handlers with a comment that was not recorded. In `command_queue` both
handlers can panic while a third command is queued, and two checks let the status checker send after the last
request. In `pull_requests` the commit of the opening is there when a vote is stored or is still being answered for,
and the second push comes before, under or after any step of a vote; two votes may be stored side by side, and
the third one follows a cancelled or a closed one; the two handlers and the closer are all the workers that
can be at one check run in different roles (creating, cancelling, closing). In `electorate` the two teams share a member, who may also
be listed as a user in either spelling. In `audit` an answer is remembered for one unit of time, so with one
tick it is used while valid and looked up again when it is not; two changes move the file from one location
to the next under the lookup. What
the bounds leave open is closed by the theorems, which have none of them.

### Action properties and invariants

`ProcessorInv` is a conjunction of named parts: `LocksHeld` (a closer holds exactly the lock of the vote in
its transaction, and only on an open and finished vote), `ReportsCommitted` (what a closer reports is what
the database says, no two report the same vote), `PostedOnce`, `StoredAsPosted`, `ClosedWithResult`,
`CancelledTold` and `WorkersWellFormed`. `VerdictsPublished` holds at any pace and through faults and crashes: labels and
check run show no verdict but one of a vote closed on that issue whose results were posted, since a report that
fails at one call makes none of those after it. `OutwardState` and `OneOpenVote` are false when two workers work on the
same issue at once (`two_open_votes`, and a cancellation during the creation); `PacedSpec` is the specification in which they
do not, and work on different issues still interleaves. It restricts the environment, not the code.

`EachHandlerOncePerDay` is what the daily limit amounts to: at most as many status comments a day as there
are handlers, whatever fails. Excepted is a handler whose last comment was not recorded, until it has recorded
one again.

### Fairness

* `WF(HandlerStep(h))`, `WF(CloserStep(c))`, `WF(AutoStep(a))`, `WF(CloserStep)`: a worker goes on once its call
  returns. The code sets no timeouts on GitHub calls, so this assumes that they return, with an answer or an
  error. Tasks end by a shutdown or by a panic, and the panics are in the models: a closer that is `Dead`, an
  auto closer that is `Ended`, a handler that has panicked take no step. `AutoPanics` is not fair: no vote need be
  malformed.
* `SF(CancelVote(h))`: a delete that waits for a row lock is queued for it in the database, whereas the
  closers skip locked rows, so a vote picked again and again cannot keep it waiting forever.
* `SF(Pick)` for each vote: the closer comes back every 15 or 30 seconds, and `order by random()` gives every
  finished vote a turn, as long as a closer lives. With a fixed order a poisoned vote would starve the others (the mutant of `VotesSettle`).
* `WF(TimeUp(v))`, `WF(WaitOver)`: time passes. In `EarlyClose` `TimeUp` is *not* fair: the vote may be closed only
  because an auto closer says so.
* `CommandQueue`: `WF(Send(r))`, `WF(ServerStops)`: requests end, and the server stops when the last one has;
  `WF(HandlerStep(h))`, `WF(CheckerStep)`. `SF(CheckerStops)`: a cancelled token is one of the two things the
  status checker waits for in each pause, and half an hour is longer than noticing it takes. That a service
  is asked to stop is not assumed.
* `Audit`: `WF(Step(r))`: each request is a task of its own, and its calls return. A request waiting for the lock
  needs no more than that, because each holder ends or gives up and there are finitely many requests.
* Commands, clients that go away, pushes, changes of a repository, crashes, faults, reactions: none.

Deadlock is checked in every run; the steps `Rest` say explicitly where the system may stay as it is.

## 4. What is proved

All theorems hold for any sets of votes, issues, handlers, closers, users, requests, any profile, and any
number of faults. Their only assumptions are the named `ASSUME`s of the modules: constants are disjoint where
the model needs it, bounds are natural numbers, the sets of users allowed to vote are finite. For the
statistics, `ResultsAssumption` says of the results stored what `results::calculate` makes of them: nobody who voted is
pending, and no account is in the results of one vote in two spellings. That the list of allowed voters has
every account once is `NobodyTwice`; that the pending ones are those who did not vote, in whatever spelling,
is the comparison in `calculate`, which `Tally` has.

* `TypeCorrect`, `ProcessorCorrect` (`VotesProcessorProofs`). `ProcessorInv` with `TypeOK` is inductive; its
  parts need one another. That a report agrees with the database needs that the row cannot change while the
  closer calculates, which is `LocksHeld`; that results are posted once needs that no two closers have one
  vote, and that a vote being closed was open, hence without results, hence not posted. The proof first takes
  the types with the workers' own shape (`TypeInv`), then the agreement with the database (`AgreeInv`), one
  lemma per action that disturbs it; `CancelledTold` follows from both.
* `VerdictsArePublished`: `VerdictsPublished`, from the same invariant and `ReportsInOrder`, that a closer past the comment with
  the results has posted it.
* `LifecycleImplemented`: the refinement of `VoteLifecycle`, from that invariant: the store is `Open`, the commit
  is `Close`, the delete is `Cancel` of a set of votes, the results comment is `Publish`; all else stutters.
  `VerdictsAreFinal` reads it back for the processor's own state: no late or repeated step of a worker reopens a
  vote or changes its verdict.
* `OneOpenVotePaced`: at the pace of the users there is one open vote per issue. The strengthening is that
  what `has_vote_open` answered still holds when the row is stored, as no other worker has the issue.
* `OutwardStatePaced`: at that pace, while no call has failed, an issue nobody works on shows its open vote, or
  that it has none and one verdict. `ViewInv` says what the labels and the check run are at every step of a
  command (`HandlerShows`) and of a closing (`CloserShows`), and is inductive together with the above: that a
  cancelled or closed vote was the only open one is `OneOpenVote`. `HandlerActs` and `CloserActs` say once that
  nobody else sees what a worker does to its issue; the actions have a lemma each.
* `TallyInvCorrect`, `ResultsAreCorrect`, `CountersAddUp` (`TallyProofs`). The invariant says that after k
  reactions the map and the set of users with several options are those of the first k reactions as a set,
  and that the counters are the cardinalities over the users counted so far.
* `BindingVotesAddUp`, `MoreInFavorThanAgainst` (`TallyProofs`), `FirstVotesKeepPassing` (`EarlyCloseProofs`): the
  arithmetic. The second is the example of the configuration file: 50.01 means more in favor than against, as
  long as fewer than 2,500 vote against. The last is why closing early is safe: more first votes can only help
  a vote that passes over all the allowed voters, whatever the base.
* `EarlyTypeCorrect`, `EarlyInvCorrect`, `EarlyClosingsStand` (`EarlyCloseProofs`): from `FirstVotesKeepPassing`, and the
  invariant that every reading on which an end was brought forward passes over all the allowed voters.
  `EarlyVerdictStays`: from the part of that invariant that says no closer is at work on a closed vote.
* `ChecksTypeCorrect`, `ChecksInvCorrect`, `OnceADayPerHandler` (`StatusChecksProofs`): `ChecksInv` is inductive because a
  handler's own earlier comment is in `checked_at` when it reads it again, unless it is `forgotten`, and `checked_at` only
  grows.
* `QueueTypeCorrect`, `CommandsAreKept`, `HandlersStopDrained`, `ShutdownLosesNothing` (`CommandQueueProofs`).
  `AcknowledgedOnce` and `StopsDrained` are each inductive with the types. The lemmas `Appended` and `Received` say
  what sending and receiving do to "once in the channel". The last follows from both: when the service exits,
  some handler stopped, so nothing is queued, and no handler executes anything.
* `CommandsImplemented`: the refinement of `CommandLifecycle`, from the same invariants. That a command executed was
  still waiting to be needs `AcknowledgedOnce`; that a closed channel means that every handler has panicked needs
  `StopsDrained`, since a handler that stopped would close it as well. The service may exit with the panic of its
  last handler, hence the choice in `Panic`. `FatesAreFinal`: what became of a command is not revised.
* `ChecksTypeCorrect`, `PushingIsNoWayRound`, `VerdictIsNotUndone`, `NobodyIsHeldUp` (`PullRequestChecksProofs`), for any
  number of handlers: one strengthening, `IInv`, for all of them. `Shas` is where requests and workers may be and
  which commits they have read. `Solo` is that as long as nothing crossed at most one vote is open and at most
  one worker has still to report. `Calm` is that without races no request is bound to say success while a vote is
  open or stored. `Settled` and `Unheld` say, for each place a worker or a request may be at, what it is still to
  write and that the rest already is as it will have to be.
* `NobodyTwice`, `ListIsAsConfigured`, `MembersKeepLogin` (`ElectorateProofs`): the list with what is still to be
  considered has exactly the accounts of the teams asked so far.
* `AuditInvCorrect`, `AnswersAreFresh` (`AuditProofs`). That one request at a time looks up the answer is inductive
  with the types; that the answer was in force is not, because the locations are read one after the other
  while they change. `LookupJustified` adds what makes it so: the answer still ahead is one of those in force
  since the lookup began, and while nothing changed the locations passed are empty. A first change either is
  behind the lookup, which does not see it, or ahead, and then what is ahead is what is now in force; after a
  second one nothing is claimed. `AnswersAreFresh` follows by looking at who may be told something.
* `StatisticsCorrect`: over all the names of an account, the statistics count each vote with the account once. The
  sum is a fold, whose recursion is shown to have the number of votes as a fixed point and, by descent along
  the finite sets of names, no other. One name adds the votes that have it, which have no other name of the
  account.

Only model-checked: liveness (`CommandsFinish`, `VotesSettle`, `ResultsPublishedUnlessLost`, `ClosesEarly`,
`CommandsTaken`, `ShutdownEnds`, `PagesAnswered`), since fairness and `ENABLED` are out of the prover's reach. Every
invariant, action property and refinement of the passing runs has a theorem.

## 5. What is not modelled

* The verification of signatures, the parsing of events and of the text of commands, YAML and gitignore
  patterns: only their outcomes are.
* HTTP, GraphQL, pagination, authentication and connection pools: a call is one step. Reading the reactions
  in pages while they change is one reading.
* Wording and layout (`tmpl.rs`), logging, the service configuration, the chart, the migrations.
* The audit page in browsers and proxies, which may keep it for 15 minutes more (`max-age=900`), and the
  separate caches of several replicas: `Audit` is one replica. The percentages of its statistics.
* Which votes have a malformed reaction timestamp: the commands in `Fatal`, the votes in `Malformed` and the step
  `AutoPanics` stand for what it does to a handler, the closer and the auto closer.
* The rounding of floating-point products; thresholds of profiles are whole percentages in `RepoConfig` and
  hundredths in `VoteResults`.
* Names outside ASCII, which GitHub logins are not.

## 6. Plan

Every part of section 1 with behaviour of its own has a module. What would come next is a
composition of `CommandQueue` with `VotesProcessor`, in which commands reach handlers in the order of the
channel. It would show nothing that the free order of `VotesProcessor` does not, but would allow liveness
from the webhook to the vote.
