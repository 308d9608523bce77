# A verification of the Vantage backend

TLA+ models of the stateful parts of the Vantage API (`src/app`), TLC runs that
check them on small instances, and TLAPS proofs of the properties that matter most.

Vantage analyses a GitHub repository or an uploaded ZIP, saves a report, lets its
owner accept findings, and offers AI actions on a finding. It is one asyncio process,
usually with a PostgreSQL database behind it. What is hard in it is not computation.
It is what happens between two `await`s: another request, a restart, a database error
that is swallowed on purpose, a circuit that opens while a call is under way.

## 1. Inventory

For each part: its state, its operations, what it talks to, what is hard, and what
makes it correct.

| Part | State | Operations | Hard behaviour | Correct when |
|---|---|---|---|---|
| Job registry, event log (`analysis/runner.py`: `JobManager`, `Job`) | `_jobs`, per job `events`, `finished`, `report_id` | `create` (with a sweep), `emit`, `close`, `wait_for_event_after` | any number of subscribers read one log by index and wait on a condition with a timeout; the sweep drops jobs by age, running or not | a log ends with one terminal event; nobody misses or repeats an event |
| Analysis runner (`AnalysisRunner`, `analysis/engine.py`) | the running task | `run_repository`, `run_upload`, `_analyse`, `_fail`, `_store_source` | every stage can fail, and so can making the workspace before them; the save, the source, the outcome and the event are four steps a restart can cut | every job ends; "done" means saved |
| Durable outcomes (`jobs.py`) | `analysis_jobs` rows | `record_started/_succeeded/_failed`, `get`, `_sweep` | every error is swallowed; rows outlive the process and are swept on write | one outcome per job, recorded before it is announced |
| Analysis endpoints (`routers/analyze.py`) | open streams | POST repository, POST upload, live stream, recovery stream, polling | a stream begins on the log or, after a restart or a sweep, on the row | all answers about a job agree |
| Suppressions, effective scores (`suppressions.py`, `routers/reports.py`) | `suppressions`, the cached columns of `reports` | accept, restore, `_refresh_effective_scores`, page, listing | a refresh is three sessions and writes what it read earlier | the listing shows what the page shows; judgements stay with their owner and repository |
| Report store (`store.py`) | `reports` rows, or a bounded in-memory LRU | `save`, `get*`, `list`, `reports_for`, `set_effective_scores`, `delete` | two backends; updates meet deletes | deleted stays deleted; reports are seen by their owner only where the code says so |
| Stored source (`source/blobs.py`) | `source_blobs` rows | `put`, `prune`, `delete`, `tree`, `read` | prune decides on what two statements read, while others insert, prune and delete | the budget holds; oldest first; no source without a report |
| LLM provider (`ai/gemini.py`, `ai/provider.py`) | breaker, unreachable models | `status`, `complete`, `stream` | many calls share one breaker; late answers arrive after it opened | it opens when earned, and never for good; one answer comes from one model |
| AI actions (`routers/ai.py`, `ai/prompts.py`) | answer cache | one POST | concurrent misses; a file that changed or cannot be read any more; a window of lines cut by a second limit | what is sent is the code that was analysed; what is kept is valid and was used latest |
| Accounts, sessions, tickets (`auth/`) | `users`, `sessions` | sign in, resolve, revoke, sweep, issue and redeem a ticket | first sign-ins at the same time; sign-out against resolution | a revoked or expired session resolves to nobody |
| Diffing (`analysis/diffing.py`, `_delta`) | none of its own | `compare`, `is_comparable` | concurrent runs of one repository; rules that fail, no longer apply or are no longer deployed; cut reports, reports without fingerprints | what a delta says is true of the code, as far as both analyses looked |
| Rules and engine (`analysis/engine.py`, `analysis/rules/`) | none | applicability, one rule after the other, the cut | a rule that raises or runs out of time; two orders of findings | the worst is kept |
| Scoring, priority (`analysis/scoring.py`, `priority.py`) | none | pure functions | rounding, ceilings, two lists of categories | an accepted finding never lowers a score; a ceiling is explained |
| Archive extraction (`ingest/archive.py`) | the workspace on disk, counts | one archive | entries that lie, replace each other, break off, or need a file where a directory is | the disk holds no more than the limits at any chunk; every entry is accounted for |
| Snapshot, filter (`ingest/snapshot.py`, `filter.py`) | none | which files are read and analysed | manifests under skipped directories | |
| GitHub ingest (`ingest/github.py`) | none | repository, commit, archive: three requests | a push, a force-push or a change of visibility between them | a report names the code it is of |
| Commit history (`ingest/history.py`) | none | a weekly series, and changes of the worst files | 202, refusals, lost answers | the worst files are asked about; a partial answer says so |
| Pull request comments (`ingest/pull_request.py`, `export/pr_comment.py`) | comments on GitHub | find one's comment, edit it or post | list-then-post; who is the viewer; a listing of one page | one comment per account, with its latest words |
| Source viewer (`routers/source.py`, `source/providers.py`) | none | tree, file | a repository that became private, a commit that is gone | what is shown is the code of the report |
| Health (`routers/health.py`), SARIF (`export/sarif.py`) | two probe caches; none | reads | stale caches | |
| Shell: `main`, `config`, `db`, `migrate`, `errors`, `limiter`, `schemas` | settings | start-up | | |

How they interact. A POST creates a job, awaits the insert of its row and starts the
runner task. The task emits into the job's log, saves to the report store, hands an
upload's files to the blob store, records the outcome, then emits `done`. A stream
reads the log when the job is registered and the row when it is not. Accepting a
finding writes the suppression table, then refreshes the cached columns of reports
that analyses add and their owners delete. Deleting a report deletes its row, then its
blobs. A report is compared with what the store has of the same owner and repository
at that moment. AI actions, the source viewer and pull request comments go back to
GitHub, where the branch has gone on since. AI actions and the health check share the
provider's breaker.

`PROJECT.json` lists each component with its status, and under `hazards` what in this
code is hard to test, at its line, with the properties that watch it.

## 2. Modules

| Module | What it is |
|---|---|
| `AnalysisJobs` | one web process: POST handlers, registry, runner, streams, the outcome table, restarts |
| `JobOutcome` | the abstract promise about a job: one outcome, told to everyone who asks |
| `AcceptedFindings` | suppressions and the cached score, request handlers interleaved session by session |
| `GeminiProvider` | routing over models and the circuit breaker, with concurrent calls |
| `Sessions` | accounts, sessions and upload tickets, requests interleaved statement by statement |
| `SourceRetention` | the blob store as the runner and `delete_report` use it, statement by statement |
| `ArchiveExtraction` | one archive, entry by entry and chunk by chunk |
| `Scoring` | penalties, averages, ceilings, grades, the sentence, priorities: operators |
| `CommitHistory` | which files are asked about and what is said of the answers: operators |
| `AnalysisPipeline` | composes the three above: from the archive to the report |
| `Diffing` | `compare` and `is_comparable`: operators |
| `RepositoryHistory` | composes `Diffing` with the report store and concurrent analyses |
| `GitHubRepository` | one branch that is pushed to, and the requests analyses make about it |
| `SourceViewer` | extends it: reading a report's files again |
| `AIActions` | extends that: AI actions over the same branch, with the answer cache |
| `PullRequestComments` | extends `GitHubRepository`: comments on a pull request that is pushed to |
| `AnalysisJobs_proofs` | theorems about `AnalysisJobs` and about what the promise of `JobOutcome` implies |
| `AnalysisPipeline_proofs` | theorems about `AnalysisPipeline` and the modules it composes |
| `RepositoryHistory_proofs` | theorems about `RepositoryHistory` and the comparison of `Diffing` |
| `GitHubClients_proofs` | theorems about `AIActions` and `PullRequestComments`, over one invariant of `GitHubRepository` |
| `AcceptedFindings_proofs`, `GeminiProvider_proofs`, `Sessions_proofs`, `SourceRetention_proofs` | theorems about the module of that name |
| `MC...` | instances for TLC; the constants are in the `.cfg` files |

Operators called "Faulty variant" are plausible mistakes in the definition below them.
No specification uses one. They are there to show, one for each checked property, that
the property notices the mistake (`mutants` in `PROJECT.json`).

### AnalysisJobs

An action is the code between two awaits. `pc` names the next thing a job's code does:
`recordStart` and `sweepRows` belong to the POST handler, the stages and
`saveReport … close` to the task.

| Code | Model |
|---|---|
| `jobs.create` and its `_sweep` | `Submit`, `JobManagerCreate` |
| `record_started`, its `_sweep` | `RecordStarted`, `SweepRows`, then `StartTask` |
| `Job.emit` from the runner and the engine's rule loop | `EmitStage`, `NextStage`, `FirstStage` |
| `except VantageError / Exception` of `run_*` | `WorkFails`, the second half of `SaveReport` |
| `mkdtemp` of `run_repository`, before its `try` | `NoWorkspace`: the task dies (`pc` "died") and says nothing |
| `ReportStore.save`, `_store_source` and `job.report_id` | `SaveReport`, `StoreSource` |
| `record_succeeded`, DONE, `close` | `RecordSucceeded`, `EmitDone`, `Close` |
| `_fail` | `RecordFailed`, `EmitFailed`, `Close` |
| `generate()` | `Subscribe`, `SendEvent`, `AwaitEvent`, `Wake`, `KeepAlive`, `EndStream` |
| `recovered()` | `Recover`, `RecoveryVerdict`, `Frame` |
| `job_status` | `JobStatus`, an operator, because it changes nothing |

Environment: `Age` (900 seconds), `Expire` (two days), `Restart`, `Disconnect`. The
constant `Faults` says which faults an instance has. A bookkeeping write that fails may
have been committed, and so may a save. What an analysis computes is left out; a report
is "saved or not". A client that leaves while it waits for a keep-alive is the same as
one that leaves at any other await. `told` and `verdict` are history.

A job is over (`Over`) when its log is closed, when its process stopped, or when its
task died. The workspace of an upload is made by the request before there is a job, so
only a repository's task can die that way. `_fail` itself has nothing to raise: what it
awaits is bookkeeping that swallows its errors, and the log.

`analysis_timeout_seconds` bounds the analysis and not the whole run, so "slow" lets a
job be `aged` while it runs. `Expire` waits until everything that began before is over:
two days against minutes.

### JobOutcome

A job is absent, pending, then done, failed, lost (undecided at a restart, or `Abandon`:
the run came to nothing and nobody noted it) or forgotten. An answer must be the
outcome, or "unknown" once the record is dropped. `AnalysisJobs!Promise` maps the row to
the outcome, and once the row was swept the log in memory. `KeepsPromise ==
Promise!Spec` is the refinement. It holds with a database, with bookkeeping that works
and with runs that end within their retention, also when a workspace cannot be made. The
instances `JobsInterruptedSaved` and `JobsInterruptedRunning` show what is left of the
promise otherwise.

### AcceptedFindings

A request handler walks through `add` or `remove`, `listEntries`, `listReports`,
`writeScores`: one step per database session. A score is the set of accepted
fingerprints it leaves out, since `compute_score` depends on nothing else that
changes. `disturbed` marks refreshes whose suppression table was changed after they
read it or before they wrote: those are the refreshes the code does not promise
anything about. `cached` of a report without a row is empty.

### GeminiProvider

A call is the suffix of the chain it has still to try. `Attempts` is fixed when the
call begins, as in the code, where the tuple is built once. `opened` and `elapsed`
stand for `_opened_at`. `is_open` has a side effect, `AfterLook`, which happens only
when somebody looks. `earned` is history: what was counted since the last success or
cooldown. Classification of an error is a choice of the environment among fatal, 404
and transient. `_fatal_reason` is never assigned in the code and is left out.

### SourceRetention

The three statements of `prune` are three steps, since READ COMMITTED lets each see
what others committed. The rows of an upload are inserted, evicted and deleted
together, so an upload is one element with a size. The size of several is the number
of their bytes, `Cardinality(Bytes(S))`, which a proof can split and compare.
`stampedAt` is `created_at`, taken
before the insert. The in-memory store puts and prunes without an await in between
and is a special case of the same steps.

### Sessions

A session token, the account a sign-in would add and the GitHub token it brings are
all named by the sign-in, so "whose is it" is a question about names. `upsert_user` is
a select followed by an insert, which the unique `github_id` may refuse, or by an
update of the row that was read. `resolve_session` is a read of the session, a read of
the account, and an update of `last_seen_at`, which raises when the row is gone by
then; `current_user` turns everything that raises into an anonymous caller. `Redeem`
comes after the body, as in `analyse_upload`; `Expire` and `AgeTicket` are the 30 days
and the 600 seconds. `signedOut`, `before` and `late` are history.

### ArchiveExtraction

`extract_zip` and `extract_tar_gz` are one loop here; they differ in the kinds an entry
can have and in `StripComponents`. `TooManyFiles`, `SkipDirectory`, `Refuse`,
`RefuseDeclaredSize` and `Open` are the decisions in the order of the code, `ReadChunk`
is an iteration of `_stream_to_disk`, `StreamBreaks` is what its error paths leave,
`FinishEntry` and `FinishArchive` look at the ratio. Sizes are in chunks. What an entry
says of its size (`declared`) and what its stream has (`actual`) differ freely. Totals
are cardinalities, as in `SourceRetention`.
`"unexpected"` is an error the module does not name itself: `mkdir` outside the `try`,
a bad checksum, bad deflate data. The runner ends all of them in the same way.

### Scoring, CommitHistory and AnalysisPipeline

`Scoring` is the arithmetic in integers, each with its unit; Python's `round` (halves to
even) is `RoundedQuotient`. The penalty of a category counts its findings by severity
and confidence, of which the penalty of one depends; `InOrder` is `sorted` by a key that
tells all elements apart, the i-th being the one with i - 1 before it. `CommitHistory`
is `collect_activity` as a function of the answers. `AnalysisPipeline` walks through the
stages: `Extract`, `BuildSnapshot` (the filter), `StartRules` (applicability), `RunRule`
(any subset of what a rule can report, none if it fails), `MakeReport` (order, cut,
score, history). A rule is a name with entries of a catalogue: its text matching is a
choice. The catalogue is finite, because an archive is, and a finding's `place` stands
for file, line and rule, so no two have the same.

### Diffing and RepositoryHistory

`Compare` and `IsComparable` are the two functions. `RepositoryHistory` runs analyses
through `Start`, `Analyse`, `LoadHistory` and `SaveReport`, over either report store:
in memory ordered by saving, with `Capacity`; in PostgreSQL ordered by `created_at`,
which is older than the save. The problems that are really in the code (`tree`) are the
ground truth a delta is held against.

A report has less than its tree for four reasons, each a choice of `Analyse`: a deployed
rule does not apply, so it does not run and `rule_ids` does not name it; a rule that
runs fails, and is named all the same; a rule that ends overlooks something, above its
own cap or in a file that was not read (`overlooked`); what is left is cut. `LookedFor`
is a problem none of the first three hid. `Deploy` is any other of the `Versions`, which
are sets of rules: an upgrade or a rollback. A report of long ago has no fingerprints. A
fingerprint stands for its problem: code that moved has another one, and then is
resolved and new, as `Finding.fingerprint` says it is (`analysis/rules/base.py:90-92`).

### GitHubRepository, SourceViewer, AIActions, PullRequestComments

`FetchMeta`, `FetchCommit` and `FetchTarball` are the three requests of
`fetch_repository`. The commit is asked for first and the archive by branch name, so
`commit` and `tree` of an analysis may differ: `moved` remembers those. `Push`, forced or
not, and `MakePrivate` are the environment. `ReadAt` is a file at the recorded commit.
`View` is `/file` and `/files`. In `AIActions`, `Ask` is everything up to the first await
(with the cache lookup), `ReadWider` is `_wider_source` with `Window` and `Clamp`,
`Complete` is the answer, its check and its insertion. `GeminiProvider` is between the
two and is not composed in: it adds failure, which is `CompleteFails`. In
`PullRequestComments` (`CommentsSpec`) each request to GitHub is a step: `BeginRequest`
reads the report, then `FetchPullRequest`, `AskViewer`, `ListComments`, `WriteComment`. Each
of them may be refused or get no answer (`RequestFails`), and what was written may stand
although the answer to it was lost. A write that takes effect after its request gave up
is not modelled.

`Trouble` counts what goes wrong in these modules and in `RepositoryHistory`; its bound
`MaxTroubles` keeps the instances small.

## 3. Runs

All finish within five minutes with two workers.

| Run | Instance | Question |
|---|---|---|
| `jobs_one` | 1 job of either kind, 2 clients, 2 rules, all faults, fair | do streams, polls, the log and the store agree; does everything end, but for a job that died unheard |
| `jobs_promise` | 2 jobs of either kind, 1 client, restarts, failing saves, no workspace | is `JobOutcome` implemented; is an outcome recorded first, and is a job unknown only when its row expired |
| `jobs_spinner` | 1 repository, 1 client, no workspace, fair | is everyone told in the end (not when the task dies) |
| `accepted` | 2 handlers, 2 accounts, 4 reports, 2 fingerprints, failures | scope of acceptances, refresh races, deletion |
| `provider` | 3 calls, 2 models, threshold 2, cooldown 2, fair | the breaker under concurrent calls, routing |
| `retention` | 3 uploads of sizes 1, 1, 2, budget 2, failures | budget, exactness, deletion |
| `sessions` | 3 sign-ins of 2 people, 1 request at a time, 1 upload | identity across sign-in, resolution, sign-out, sweep, ticket |
| `pipeline` | 338 archives of up to 4 entries, limits of 2 to 4, 5 rules, 9 findings, a cut at 2 | limits and accounting of extraction; cut, ceiling, score and history of the report |
| `history` | 3 analyses, 2 at a time, 2 problems of 2 rules, a cut at 1, window 2, capacity 2, 2 versions, 1 trouble, both stores | are deltas true as far as both analyses looked, is what comes back recognised, what is compared with what |
| `comments` | 3 requests of 2 accounts, a push, pages of 3, 2 troubles | one comment each, with the right words |
| `comment_commit` | 1 request, a push, nothing fails | does a comment name the commit it describes (not always) |
| `ai` | 3 requests, 1 viewer, 3 findings, a push, 1 trouble, cache of 2, fair | is the analysed code sent, what is kept, is everyone answered |

Why the bounds are enough. Jobs meet only in `create` (a sweep of memory) and in
`_sweep` (a sweep of rows), so two jobs show every meeting of a pair, and one job with
two clients shows two readers at different places of one log. Two rules run the rule
loop's first and last turn; `jobs_promise` has none, because rules only lengthen the
log. The accepted-findings instance has a repository analysed by two accounts, twice
by one of them, an upload, one report more than `RefreshLimit`, and overlapping
findings; two handlers are enough for one to overtake the other. Three calls against a
threshold of two give a late failure after the circuit opened, and one after that.
Three uploads give two concurrent prunes and something else to evict; sizes 1, 1, 2
with a budget of 2 make a prune evict one, two or all but itself. Two sign-ins of one
person and one of another give every race for an account; one request at a time meets
every sign-out, sweep and sign-in, and requests touch each other only through those.

`pipeline` (73 thousand states) takes every pair of 16 kinds of entry in either order,
each kind as the last one at and beyond each limit, and tarballs with and without their
wrapper. Its catalogue has a finding on each side of every threshold a property speaks
of, and a cut at 2 is beyond and within what rules report. `history` (3.9 million) has
the shortest history in which a finding disappears and returns, within and beyond the
window and the capacity; a second owner or an upload takes one of the three places. Its
one trouble is a rule that does not apply or fails, a problem that is overlooked, a
version deployed, a deletion or a store that fails. `comments` (1.3 million) has an
overlapping pair of one account, another account, and a listing that overflows its page.
`ai` (140 thousand) has a finding in the middle of the file, one longer than the window
and one in no file, more keys than the cache holds, and a push that shortens the file
and lengthens its lines. In these four the bound on troubles is what keeps them finite
in practice: one or two failures anywhere, which is what one excuse or one fallback
needs.

Symmetry is used over request handlers and over the two uploads of equal size, in runs
without liveness. `CHECK_DEADLOCK FALSE` stands where the system really stops: when
every report was made and deleted, every upload was stored and deleted, every
sign-in is over and signed out, or every request was answered, nothing is left to do,
because ids are not reused.

### Where the code and its words differ

Two runs expect a violation, and `PROJECT.json` quotes the words under `findings`:

1. `jobs_spinner`: `run_repository` makes its workspace before its `try`. When that
   raises, nothing is recorded, emitted or closed, and a stream is kept alive for ever.
2. `comment_commit`: a push between the analysis and the comment. The comment names the
   new commit, under which nobody analysed the findings it lists.

Nine more configurations are kept for running by hand (`tlc -config X.cfg M`). Each
checks one statement of the repository that the code does not keep, and ends with a
counterexample.

| Configuration | Module | Property | What happens |
|---|---|---|---|
| `JobsInterruptedSaved` | `MCAnalysisJobs` | `InterruptedMeansNothingSaved` | a restart after the save and before the record of it: the client reads "Nothing was saved, so running it again is safe" (`routers/analyze.py:217-220`), and the report exists |
| `JobsInterruptedRunning` | `MCAnalysisJobs` | `InterruptedMeansNotRunning` | a run older than 900 seconds is swept from memory by the next POST; whoever then reconnects is told that the server restarted, while it goes on |
| `AcceptedListing` | `MCAcceptedFindings` | `ListingMatchesPage` | a new analysis of a repository with accepted findings is listed with its raw score until the next change of a suppression |
| `RetentionOrphan` | `MCSourceRetention` | `NothingOrphaned` | a report deleted between its save and the insert of its source leaves its source until a prune takes it |
| `RetentionNewest` | `MCSourceRetention` | `NewestIsKept` | two prunes at the same time evict the newest upload although it fits |
| `SessionsTicket` | `MCSessions` | `TicketHonoured` | an upload ticket that runs out while the archive is being sent is refused, although it was good when the request arrived |
| `HistoryUnrun` | `MCRepositoryHistory` | `UnrunResolvesNothing` | a rule that ran last time does not apply this time, or is not deployed any more; `is_comparable` is "deliberately strict" (`diffing.py:95`), and the delta still calls the findings of that rule resolved |
| `HistoryResolved` | `MCRepositoryHistory` | `ResolvedIsGone` | a rule that failed stays in `rule_ids`, and the next delta calls its findings resolved; so do a rule that did not run (`HistoryUnrun`) and a problem that was overlooked |
| `AIContext` | `MCAIActions` | `FindingIsSent` | lines so long that `clamp_context` cuts the centred window before it reaches the finding |
| `HistoryPartial` | `MCAnalysisPipeline` | `PartialIsSaid` | a file whose request got no answer is left out of the churn without `partial` |

Met on the way and not worth a run: a comment says "First analysis of this repository"
whenever there is no delta, for which there are other reasons
(`export/pr_comment.py:79-89`); names with capitals in `ALWAYS_READ` never match, since
they are compared with a name in lower case (`ingest/filter.py:33-42`, 117); the key of
the answer cache leaves out the report; an answer names the primary model, whichever
model wrote it (`routers/ai.py:271`); a bad checksum in an archive is reported as an
unexpected error (`ingest/archive.py`); a call that began before the circuit opened and
succeeds after it closes it before the cooldown is over (`ai/provider.py:94`).

### Fairness

`AnalysisJobs`: weak fairness of each POST handler, each runner task and each stream.
asyncio runs every ready task, and every await in them returns or raises: database calls
and HTTP calls have timeouts, and the condition of a stream has one of 20 seconds.
Keep-alives, clients, time and restarts are not fair, so `StreamsEnd` does not lean on a
client that leaves or a process that stops. A missing workspace is not fair either: it
may happen or not. `JobsEnd` and `StreamsEnd` except the one job that died of it without
a word (`DiedUnheard`), and `jobs_spinner` shows that exception. `GeminiProvider`: weak
fairness of the clock, and of the answer to an attempt of `complete`, which
`asyncio.wait_for` bounds. `stream` has no timeout and gets no fairness. `AIActions`:
weak fairness of `ReadWider`, which `github_timeout_seconds` bounds and whose failure is
caught, and of `Complete`, for the reason of `CompletesEnd`. Nobody is obliged to ask.
The other modules claim no liveness.

## 4. Proofs

`tlapm` checks them for every value of the constants that satisfies the named
assumptions. All of these are type assumptions: an idle client follows no job, there is
at least one model, finitely many calls, limits are natural numbers, an archive is a
finite sequence, a catalogue is finite and its places tell findings apart, runs are
finitely many numbers.

| Theorem | Says | Argument |
|---|---|---|
| `AnalysisJobs_proofs!TypeCorrect` | `TypeOK` | `TypeInv` adds that the rule counter is below `Rules` while the rule loop runs and zero before it, without which its bound is not inductive, and that whoever follows a log follows that of some job |
| `…!TerminalEnds` | `TerminalEndsLog` | `LogInv`: a log has a terminal event only when `pc` is `close` or beyond, and has one exactly there; so nothing is emitted after it and `Close` finds it |
| `…!DoneIsSaved` | `DoneMeansSaved` | `SavedInv`: from `storeSource` to `emitDone` the report is saved, a row that succeeded has its report saved, and so has a log or an answer that says done. A restart clears the log and, with a database, neither the row nor the report |
| `…!OutcomeIsFinal` | `RecordedOutcomeIsFinal` | `RecordedInv`: while a run can still write its row, the row is not final, so an update never meets an outcome |
| `…!PollsMatchLog` | `PollMatchesLog` | `PolledInv`: a report id is set only on the way that ends in done, so it agrees with the last event when the job is closed |
| `…!RowSaysItFirst`, `UnknownIsExpired` | `OutcomeRecordedFirst`, `UnknownMeansExpired` | `BookedInv`: with bookkeeping that works, an accepted job without a row has an expired one, a run that is over or about to say how it ended has a row that says the same, and only accepted jobs are recovered |
| `…!StreamsAreFaithful` | `StreamIsFaithful` | `FollowInv`: what an open stream has sent is its log up to the cursor. Logs only grow by appending, a restart closes every stream that is open, and with `LogInv` the last thing a stream sends before it ends is the terminal event |
| `…!PromiseIsKept` | `KeepsPromise`, the refinement of `JobOutcome`, when `Promising`: a database, bookkeeping that works, no run that outlives its retention | `PromiseInv` is the parts above and `ManagedInv`: whoever has a request or a runner is in memory, so a stream is answered from the table only for a job nobody runs. It gives the row for every `pc` (`PendingOf`), hence the abstract outcome before and after each step (`CaseInv`); one `Simulate…` lemma per group of actions maps it to `Accept`, `Save`, `Settle`, `Forget`, `Interrupt`, `Answer` or a stutter |
| `…!PromiseMeansOneOutcome`, `PromiseMeansSaved` | the abstract promise implies `VerdictsAgree` and that done is saved, for any behaviour that keeps it | `ToldInv`: what was told is what the outcome still is |
| `…!NobodyContradicted`, `DoneIsHad` | the same of the process, when `Promising` | the refinement and the two theorems above |
| `GeminiProvider_proofs!CircuitAgrees`, `OpensWhenEarned` | `CountMatchesCircuit`, `CircuitIsEarned` | `CircuitInv`: open means at the threshold, and the count is covered by what was earned; the operators of the breaker keep it one by one |
| `…!LateFailuresStayBounded` | `LateFailuresAreBounded` | `LateInv`: while the circuit is open the count and the calls under way together stay below the threshold plus the number of calls; only a call that was let through before can add to the one, and it leaves the other |
| `…!SpeaksWithOneVoice` | `OneVoice` | `VoiceInv`: once a call has produced text, what was heard is its current model, and a call that has not has been heard by nobody |
| `Sessions_proofs!Themselves`, `TokenStaysCurrent`, `AccountsAreForLife`, `SignOutHolds` | the four properties of `sessions` | one invariant of what a statement leaves to the next: an account is named after the sign-in that made it and holds a token of the same person; whatever a request read earlier still belongs to that person (`AccountsKept`); a session's row is there at most once and only after its sign-in; a sign-in that is over stays over (`OverIsOver`), so a token never goes back |
| `AcceptedFindings_proofs!CachesAreScoped`, `DeletionIsFinal`, `UndisturbedRefreshSettles`, `AcceptancesAreTheirs` | `CacheIsScoped`, `DeletedStaysDeleted`, `RefreshSettles`, `AcceptedWasTheirs` | what a handler holds between two sessions: what it was started for is a finding of a report its owner had (`HandlersAimed`), the reasons it read were accepted once, and are still those of the table unless it was disturbed (`ReasonsHeld`), and its batch is of reports under its key (`BatchesHeld`) |
| `SourceRetention_proofs!DeletionTakesSource` | `DeleteTakesSource` | a deletion that was not early came after the runner's last step, only `Insert` adds rows, and nothing starts a runner again |
| `…!StoredFits`, `PrunesAreExact` | `FitsWhenQuiet`, `PruneIsExact` | `PruneInv`: when too much is stored, some prune under way will make it fit (`WillFit`): it has not read the total yet, or read one that is no less than what is stored, or decided on rows without which the rest fits. Whoever inserts starts such a prune, and what others take away leaves it one. A view that nobody overtook is what the table holds (`Current`), and then the oldest first and no more than needed is the definition of `Evicted` |
| `AnalysisPipeline_proofs!LimitIsReached`, `FilesStayWithinLimits`, `DiskStaysWithinLimits`, `EntriesAreAccounted` | `FilesAtTheLimitAreTaken`, `FilesWithinLimits`, `DiskWithinLimits`, `EveryEntryAccounted`, of `ExtractionSpec` | `Counting`: no more files are counted than entries were dealt with; `Stored`: what is on disk is what was counted and the file being written; `Sized`: no file is over its limit at any chunk; `Measured`: what is on disk without the file being written is at most what was counted, which is within the ratio when an entry begins; `Accounted`: each step over an entry puts it on one of three heaps |
| `…!AnalysisExtracts` | `Spec => ExtractionSpec` | `Extract` is an extraction step and the other stages leave the archive alone, so the four theorems above hold of every analysis |
| `…!TheWorstSurvives` | `WorstSurvivesTheCut` | `PipelineInv`: the report has `Kept` of what was collected and its score. `InOrder` of a finite set by a total order takes every rank once and is sorted (`Sorting`, `EveryRankIsTaken`), so what was kept comes before what was cut (`KeptAreFirst`); the priorities of the two kinds of findings do not overlap, and a critical finding that imposes a ceiling has the highest there is |
| `…!CapsAreExplained` | `CapIsExplained` | the categories that impose a ceiling are among those the sentence speaks of |
| `…!AcceptingRaisesTheScore` | `AcceptingNeverLowersScore` | fewer findings, no more of any severity and confidence (`PenaltyGrows`), no lower category score, rounding included (`CategoryScoreFalls`, by `RoundingGrows`), no lower average (`AverageRises`), and no lower ceiling (`ScoreRises`). The divisor of size exists (`RootExists`, by the order of the natural numbers) |
| `…!HistoriesAreOfTheWorst` | `HistoryIsOfTheWorst` | `HistoryInv`: the history of a report is `CollectActivity` of answers about its files. The candidates are sorted (`CandidatesAreSorted`), those asked about are the first (`AskedAreTheWorst`), and without a refusal or a loss the churn is of all of them (`ChurnIsOfAll`) |
| `RepositoryHistory_proofs!DeltaPartitions`, `DeltaCounts` | `compare` is "disjoint by construction" and loses nothing; its numbers add up | set algebra, and the cardinality of three disjoint parts |
| `…!DeltasAreTrue`, `ReturnsAreRecognised`, `ComparisonIsWithLatestOwn` | `DeltaIsTrue`, `ReturnIsRecognised`, `ComparedWithLatestOwn` | `HistoryInv`: a report has only what is in the code and, unless it was cut, all of it that was looked for (`ReportIsSound`), so what is missing is gone, or its rule did not run or failed, or it was overlooked; only finished reports are kept or were seen; runs that were alone are made, dated and kept in the order they started (`AloneInOrder`), which makes the orders of both stores agree; and every delta is `Compare` with the latest of a window of the owner's own that was seen, a window that has all of them if they fit (`DeltasAreKnown`) |
| `GitHubClients_proofs!SentIsWhatWasAnalysed`, `CacheIsLatest`, `AnswersGivenAreValid` | `SentIsAnalysed`, `CacheKeepsLatest`, `OnlyValidAnswers` | `ActionsInv`: until its archive is asked for, a report that is not `moved` has the commit the branch is at, and then that of its tree (`ReportInv`); reports that are made do not change (`Frozen`), so what a request read before an await is still of its report (`RequestInv`); the cache is the end of the sequence of uses, each key once (`CacheInv`) |
| `…!OneCommentOfEach` | `OneCommentEach` | `CommentsInv`: what a request learned from its list is still so when it writes, because its account has no other request (`Alone`): an account that is not excused has no comment if the request found none (`RequestKnows`), at most one in any case (`OnlyOne`), and whoever wrote a comment is through, answered or not (`WrittenBy`) |

Each theorem about a specification is three facts, `Init => IInv`,
`IInv /\ [Next]_vars => IInv'` and `IInv => Inv`, and a last temporal step. Where an
invariant is not obvious, TLC checked it on the run's instance before it was proved.
Every safety property and action property of a run is stated by one of the theorems.
`RecordedOutcomeIsFinal`, `VerdictsAgree`, `AcceptedWasTheirs`, `FilesWithinLimits` and
`TypeOK` of `AnalysisJobs` are proved for every instance and are in no run by themselves.

Sums are written so that they can be proved about: `Size`, `Total` and the penalty of a
category are cardinalities of sets of units, or counts by severity and confidence, where
a recursive sum would need induction over data.

Only model-checked is everything under fairness (`JobsEnd`, `StreamsEnd`, `NeverLatches`,
`CompletesEnd`, `AsksEnd`), because liveness and ENABLED are beyond the prover. Neither
shows that the integers of `Scoring` are Python's decimals: the module is read from the
code, with its tables and its units.

## 5. Not modelled

- What a rule finds is a matter of regular expressions and syntax trees over text. The
  rules keep no state, and the pipeline lets each report any part of what it may.
- Health: two cached probes. Concurrent probes may overwrite a later result with an
  earlier one for some seconds, and nothing else reads them.
- SARIF, the rendering of comments, the wording of prompts and of the report's
  sentences: conversions. Of a comment there is what the code later searches for.
- Parsing of URLs and of requests, paging and filters of the listing.
- The engine, migrations, settings and error types: no logic at run time. Timeouts and
  limits they hold are constants of the models.
- The clock: retention and cooldown are steps anybody may take, within the order the
  code compares them in.

## 6. Plan

1. The report store's contract as an abstract specification that both backends
   implement (order of eviction, what deletion leaves); `RepositoryHistory` has the two
   as choices of one variable.
2. `GeminiProvider` composed with `AIActions`, so that an answer's model is known.
3. The health caches.
4. The type invariants of the other modules as theorems, from the typing parts of the
   inductive invariants; with 1, that both backends keep the contract.
