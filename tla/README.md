# QAMS: specifications of the quality-assurance management system

QAMS is a Next.js monolith over PostgreSQL (Prisma, READ COMMITTED) that keeps test cases,
executions of them, the defects they find, and a projection of both into Jira Cloud. Its logic
is in `src/src/domain/*.ts`: services that read rows, check rules, and write in a transaction.
The screens in `src/src/app` and `src/src/ui` hold state of their own that a reader acts on: a
draft, a selection, filters, searches under way. This directory models the part of all that
where the order of things matters, checks it with TLC and proves what matters most with TLAPS.

Four mechanisms recur and explain most of the modelling:

* **Versioned mutation.** A service reads a row outside any transaction, checks its rules on
  what it read, compares the caller's version, and then runs `update({where: {id, version}})`
  inside a transaction (`src/src/lib/optimistic-lock.ts`). If the row has moved on, Prisma
  throws P2025, the transaction rolls back and the caller gets 409. Every such service is *two*
  actions here: one that reads and checks, and the transaction, with a rejection for the 409.
  Anything may happen between them. Services without a version (the time stamp that ends
  sessions, the resolution of a report row) have the same two actions and no guard on the second.
* **Commit first, tell Jira after.** No call to Jira runs inside a transaction of QAMS, but for
  the exchange of a refresh token. After the commit a request reads again, decides, calls Jira
  and records the attempt, each in a step of its own; failures are recorded and picked up by
  `POST /api/v1/jira/retry`.
* **Several queries, several snapshots.** A page, a report or a panel is drawn from queries that
  see different states of the database. Each query is an action; what is promised of the whole
  is promised up to what was written between them.
* **A screen outlives what it shows.** A form submits the version, the parameters or the rows of
  the render it belongs to. The screen's memory is a variable, and a redraw, Back, a reload or
  somebody else's write are steps.

## Inventory

| Component | State | Operations | Talks to | Hard part | Correct when |
|---|---|---|---|---|---|
| Executions (`executions.ts`) | `TestExecution`, `ExecutionTestCase`, history, defect links | create, update, start, finalize | test cases, users, defects, Jira sync | reads outside the transaction; two requests on one run; finalize writes five tables | no lost update; a Finalized run, its results, history and defects agree; frozen afterwards |
| Jira sync (`executions.ts:636–1013`, `jira-sync.ts`) | `JiraSyncAttempt`, `JiraCommentAttempt` | settleJiraComment, settleJiraSync, recordSyncSkip | runs carrying the key, Jira | sibling runs read without a lock; concurrent finalizes; lost answers | an issue is done only if it was earned, and no passed issue is left behind silently |
| Retry pass (`jira-retry.ts`, `api/v1/jira/retry`) | none of its own: it reads the attempts | loadQueue, loadDefectQueue, plan, abandon, retry | Jira, defects | passes overlap each other, finalizes and disconnects | a bounded number of retries; every failure settled |
| Defects (`defects.ts`) | `Defect` | create, edit details, transition | Jira (below), executions | check then commit | triaged means ranked; Closed is final |
| Defect bugs (`jira-defect-sync.ts`, `jira-defect.ts`) | `jiraIssueKey`, `JiraDefectAttempt` | raise, comment, close, abandon | Jira, catalogue (project key) | lost create answers; two raisers | one issue per defect, its key for good; done means closed |
| Jira connection (`jira-credentials.ts`, `jira-transport.ts`, the connect and callback routes) | `JiraCredential`, the state cookie, the sealing key | connect, callback, disconnect, exchange of the refresh token | Atlassian, retry queue | a single-use token spent inside a transaction; reconnection during an exchange | the stored token is the next one; the last word stands |
| Accounts (`admin.ts`, `auth.ts`) | `User` | create, role, profile, activate, reset and change password, revoke | sessions | last-lead count under READ COMMITTED; the stamp is taken early | an active lead remains; what was revoked stays revoked |
| Sessions (`lib/session.ts`, `lib/auth.ts`) | cookie, `sessionsValidFrom` | issue, verify, revoke | accounts | a sign-in racing a revocation | an accepted session showed the password the account has |
| Login throttle (`lib/rate-limit.ts`, `lib/login-throttle.ts`) | in-memory buckets | peek, consume, sweep | both doors of the sign-in | windows end and the table fills under sign-ins in flight | attempts and memory are bounded |
| Test cases (`test-cases.ts`, `CaseForms.tsx`) | `TestCase`, steps, controlled values | create, revise, edit, rate, replace steps, submit, approve, return, retire | executions, imports | two-query screens; an editor that keeps its rows | approved means complete and as shown |
| Catalogue (`catalogue.ts`, `catalogue-tree.ts`, `catalogue-search.ts`) | products … requirements | create, update, explore, search | defect bugs (`jiraProjectKey`) | a dozen queries for one page; caps | what is drawn, counted and left out adds up |
| Catalogue screen (`app/(app)/catalogue`) | the URL: selection and open branches; dialogs | select, open, shut, edit, add, Back, Forward | catalogue | a dialog outlives its page | edits are informed; open stays open |
| Imports (`imports.ts`, `import-decisions.ts`) | `ImportRun`, report rows, resolutions | run batch by batch, resolve a row | every table it fills | crash between batches; two imports at once; unversioned decisions | the report is the record; nothing is overwritten |
| Identifiers (`lib/id-allocator.ts`) | `IdSequence` | seed, allocate, probe | every create | lazy seed, rollbacks, numbers by hand, the last number | never two of one number |
| Automation checks (`checks.ts`, `junit-xml.ts`) | batches, checks | read a results file, panel, report | test cases | the look-up is outside the transaction; capped list | a run is whole; what is left out is stated |
| Traceability, dashboard, readiness (`traceability.ts`, `pagination.ts`) | trace links | link, count, list page by page | all tables | numerator and denominator are two queries; offsets move | figures add up; pages miss nothing |
| Grading (`FinalizeForm.tsx`, `finalize-draft.ts`) | a draft in memory and in `sessionStorage` | grade, reload, submit | executions | refused writes; unanswered submits; other tabs and people | finalized is what was last graded |
| Case picker (`case-picker.tsx`, `plan-grouping.ts`) | selection, filters, closed groups | filter, select, start from, submit | executions, naming contract | filters, groups and a cap narrow the list | nothing narrows the selection |
| Feature picker (`picker.tsx`) | box, answers in flight, active row | type, search, choose, post | catalogue search | answers in any order | filed is what was confirmed |
| List filters (`toolbar.tsx`, `list-params.ts`, `pager.tsx`) | the URL, the box, a timer, a navigation | type, choose, page, Back | list pages | a debounce and a transition that the next one discards | the list shows what the controls say |
| Other routes, pages, UI | – | parse, authorise, render | services | – | – |

The hazards this code is exposed to are listed line by line in `PROJECT.json` under `hazards`,
each with the properties that would notice, or a note why none does.

## Modules

| Module | What it models | Source |
|---|---|---|
| `ExecutionRecord` | the *abstract* run: planned, edited, started, finalized once, frozen. Every operation is one step | `executions.ts` (the transactions), `schema.prisma` |
| `ExecutionLifecycle` | the execution service: reads, guards, waiting, version check, the five-table finalize; retirements, (de)activations and new defects as steps of other services. Refines `ExecutionRecord` | `executions.ts:134–634` |
| `JiraSync` | settling a finalized run, the retry pass, the disconnect; **extends** `ExecutionRecord`, so its runs are those the lifecycle implements | `executions.ts:659–1013`, `jira-sync.ts`, `jira-retry.ts`, `jira-credentials.ts` |
| `DefectSync` | a defect's mutations, raising its bug, comment, close; the defect half of the retry pass | `defects.ts`, `jira-defect-sync.ts`, `jira-transport.ts` (createIssue), `jira-retry.ts` |
| `Accounts` | accounts and their sessions: read, take the time, write, with other requests in between | `admin.ts`, `auth.ts`, `lib/session.ts`, `lib/auth.ts` |
| `LoginThrottle` | the fixed-window counters in front of a sign-in | `lib/rate-limit.ts`, `lib/login-throttle.ts`, `lib/client-key.ts` |
| `Identifiers` | one number space and the transactions that draw from it | `lib/id-allocator.ts` |
| `JiraConnection` | the consent flow, the stored token and its exchange by concurrent syncs; Atlassian as an external party | `jira-credentials.ts`, `jira-transport.ts`, `jira-oauth.ts`, `oauth-state.ts`, the routes |
| `TestCases` | the review of a case, its screen of two queries and the step editor on it | `test-cases.ts`, `admin.ts` (controlled values), the case screens |
| `Imports` | the import of a workbook, batch by batch, more than once and at once; decisions on its report | `imports.ts`, `import-decisions.ts`, `import-parsing.ts` |
| `Reports` | figures of two queries, lists of many pages, trace links | `traceability.ts`, `lib/pagination.ts`, `ui/pager.tsx` |
| `FinalizeDraft` | the draft of a run's grades in each tab | `FinalizeForm.tsx`, `finalize-draft.ts`, `actions.ts` |
| `Catalogue` | the explorer's page load: tree, panel, ranked search | `catalogue.ts`, `catalogue-tree.ts`, `catalogue-search.ts` |
| `CatalogueScreen` | **extends** `Catalogue`: one viewer, the URL, the dialogs | `selection.ts`, `CatalogueForms.tsx`, `CatalogueEditForms.tsx`, `DetailPanel.tsx` |
| `CasePicker` | choosing cases for a run or a naming contract | `case-picker.tsx`, `plan-grouping.ts`, the two screens |
| `FeaturePicker` | the search box, its list and its answer | `picker.tsx`, `CatalogueForms.tsx` |
| `Checks` | results files, their batches, the panel of a case, the report of a batch | `checks.ts`, `junit-xml.ts`, `ChecksPanel.tsx`, `BatchReport` |
| `ListFilters` | the controls above a list and the history of the tab | `toolbar.tsx`, `page-size-select.tsx`, `list-params.ts`, `pager.tsx` |
| `MCExecutionLifecycle`, `MCJiraSync`, `MCDefectSync` | symmetry sets for TLC | |
| `MCServices` | fourteen components side by side on small instances (below) | |
| `ExecutionLifecycleProofs`, `JiraSyncProofs`, `DefectSyncProofs`, `AccountsProofs`, `TestCasesProofs` | theorems about the module each extends | |
| `ServiceProofs` | theorems about `LoginThrottle`, `Identifiers`, `Reports`, `Imports`, `JiraConnection` | |
| `ScreenProofs` | theorems about `FinalizeDraft`, `FeaturePicker`, `CatalogueScreen`, `CasePicker`, `ListFilters`, `Checks`, `Catalogue` | |
| `MCServicesProofs` | the components side by side: what `MCServices` states of them together | |

The composition of the core is by the abstract run: `ExecutionLifecycle` is shown to implement
`ExecutionRecord` (checked by `ImplementsRecord`, proved by `ServiceImplementsRecord`), and
`JiraSync` takes its steps on runs from `ExecutionRecord`. What the sync may rely on, above all
that a Finalized run never changes, is therefore what the service was shown to provide.
`CatalogueScreen` runs the viewer over the very page loads of `Catalogue`, and the other
components meet only through rows that each models as the steps of somebody else: a case that is
retired while a run is planned, a record that is written while a report counts, an import that
finds what a person wrote.

### State and code

* `row`, `defect`, `user`, `testCase`, `entry`, `stored`: the columns a guard or a property reads;
  `version` as it is. Names, texts and most timestamps are left out. A row that does not exist has
  a value of its own (`AbsentRow`, version 0, `"none"`).
* `req[r]`, `settle[e]`, `job[p]`, `worker[w]`, `pass[w]`, `call[c]`, `txn[t]`, `sync[s]`,
  `import[i]`, `linking[p]`, `door[r]`: the local variables of one request, pass or transaction between
  two awaits. `pc` or `phase` names the next step.
* `attempts`: append-only tables in the order of `attemptedAt`. The time of a row is its index.
  `stamp[e]` is `finalizedAt` as the number of attempt rows older than it: the code takes the
  time when the transaction runs and the attempt's when it is recorded, and only their order
  is compared (`transitionAlreadyCovers`).
* `issue`, `issues`: Jira's side. An answer that is lost or late is recorded FAILED whether or
  not Jira acted, so every call with a failed answer has both outcomes; `late` lets Jira create
  an issue even after the caller has given up and searched again. An issue of a defect carries the
  project it was created in, and `createIssue` searches only the one that the product names then
  (`project`, `Labelled`), which `RouteProduct` sets, clears or changes. `family` in `JiraConnection` is
  Atlassian's side of a refresh token: which turn it expects, and whether the family is revoked.
* `tab`, `window`, `screen`, `pick`, `box`, `list`, `view`, `panel`: what one browser tab, or the
  server drawing a page for it, remembers. A URL is the record of the parameters in it.
* History variables, which no action reads: `owed` in `DefectSync`, `ended`, `raced`, `leadRaced`
  and `demoted` in `Accounts`, `checks` in `LoginThrottle`, `abandoned` and `lastWord` in
  `JiraConnection`, `signedOff`, `unseen` and `outlived` in `TestCases`, `creator`, `overlapped` and
  `contested` in `Imports`, `lastSaved`, `lastSaver`, `refused`, `overtaken` and `handedOver` in
  `FinalizeDraft`, `squeezed` and `misfiled` in `CatalogueScreen`, `byHand`, `emptied` and `putAway` in `CasePicker`,
  `typed`, `chosen`, `crossed` and `revisited` in `ListFilters`, `touched` where figures are counted.

An operator introduced with "Mutant of …" is a plausible bug in the definition that follows it.
No specification uses one; each shows that a run would notice the bug (`mutants` in
`PROJECT.json`).

### What is abstracted

* The search by label in `createIssue` sees every issue of its project that Jira has committed
  (Jira's index lag is not modelled; `JiraIsLate` models the request that is committed late). Issues
  are not moved from one project to another in Jira itself.
* `updateUserProfile` may change the email of an account besides the display name
  (`admin.ts:271–286`). Nothing modelled reads either: `CommitUpdateProfile` takes a version and no more.
* Transition ids, workflows that have no done status, HTTP codes, expired credentials: each is a
  call that fails. Deployments without Jira do none of this and are not modelled.
* COMMENT attempts of a defect are read by nothing but a screen and are not kept.
* In `JiraSync` a disconnect lists at least the failures of the leaver's own runs, and may list
  any others, in any order: which of them were attempted with the leaver's credential is not
  kept. `Leavers = {}` stands for a deployment with a service account, where the queue stays.
* The seed import can insert runs, history and defects directly. `ExecutionLifecycle` leaves these
  out (an imported Finalized run has no history of its own and no defects, by intent); the defects
  are in `DefectSync` (`ImportDefect`), the runs and history in `Imports`.
* In `LoginThrottle` `checks[m]` is every look at the table on behalf of account `m`, with its tick and
  the bucket it was counted in; the limits are stated as counts over that sequence.
* In `Imports` a batch is the number of its sheet, `Later` the sheets that have a row and come after
  it; a workbook of settings alone completes after the values are loaded. A workbook has at most one row of each kind, and a row is flawed or it is not: which
  cells make it so is left out, what follows from it (rows that depend on it, the batch it is in,
  the report) is not. A person's writes to the same records are the steps `hands` counts.
* Passwords, tokens, signatures and ciphertexts are values that are equal or not. A cookie's
  signature is taken to hold; a secret that changes between restarts makes the stored token
  unreadable.
* Time is a counter: milliseconds where two stamps are compared, ticks of a window, the instants of
  a file. Two events of one instant are possible wherever the code's clock allows them.
* Texts that are searched are told apart by what they match: `Haystack`, `Named`, `Score` give, for
  each term, who matches and how well, which is what `plan-grouping.ts` and `catalogue-search.ts`
  compute from the characters.

## Runs

Bounds are chosen so that each race has its smallest witness: two requests on one run, two runs
of one issue, two overlapping passes, a retry budget of two (so that a key is retried and then
exhausted), one crash or throwing query. `CHECK_DEADLOCK FALSE` appears where the system may
really stop: everything finalized, nothing queued, every bounded counter used.
The executions runs check deadlock: a run can always be read, a case retired or a user
reactivated.

| Run | Instance | Checks |
|---|---|---|
| `execution_races` | one run, two requests, two users, versions to `MaxVersion` | `NoLostUpdate`, `TestersActOnTheirOwnRuns`, refinement `ImplementsRecord` |
| `execution_finalize` | one run of up to two cases, two defects, two requests | `HistoryIsTheRecord`, `FailuresExplained` |
| `execution_planning` | one case, one tester | **violation** of `CreatedOverApprovedCases` |
| `jira_sync` | two runs, one issue, two passes, one fault, one move by hand (1.4 M states) | `DecisionStands`, `OneVerdictPerRun`, `RetryBudget`, `NoSilentDrift`, `DoneIsEarned` |
| `jira_sync_liveness` | two runs, one issue, one pass, one leaver, one fault | `FailureIsSettled`, `FinalizeEnds` under fairness |
| `jira_sync_retry` | two runs, one pass | **violation** of `RetryRespectsTheRule` |
| `jira_sync_queue` | two runs, one pass | **violation** of `LatestFailureIsQueued` |
| `defect_sync` | one defect, two requests, two passes, late creates (1.8 M states) | `TriagedIsRanked`, `DoneMeansClosed`, `ClosureIsFollowedUp`, `DefectRetryBudget`, `KeyIsForGood` |
| `defect_sync_liveness` | one defect of any origin, one request, one pass, one of two project keys or none, twice changed, one fault | `OneIssuePerProject`, `FailedWorkIsSettled` under fairness |
| `defect_sync_inline` | one defect, inline allowed | **violation** of `EveryDefectIsReported` |
| `defect_sync_duplicates` | one defect, two passes | **violation** of `OneIssuePerDefect` |
| `services` | fourteen components, one at a time (0.5 M states) | `ServicesTypeOK` and twenty properties, below |

Why these are enough: the operations touch one run, one issue or one defect, and rows interact
only through the key they share; two of each actor give every pairwise interleaving. Symmetry
is over requests, passes, cases and defects, which nothing tells apart, and never in a run with a
liveness property. `MaxVersion` bounds the mutations of a row: in `execution_races` it leaves room for
an edit besides start and finalize; in the defects it is the length of the straight lifecycle (create,
triage, start, resolve, close), so that a run with a details edit or a reopening ends before the close.
The type invariants of the first four modules are proved for every instance and no run repeats them.

### The run `services`

These components share no variable, so a state of all of them is a tuple of states of each, and an
interleaving of two shows nothing that each alone does not. `MCServices` therefore begins with a
choice of one `part`, lets that one move and keeps the others where they began; the `VIEW` `Moving`
forgets them. `Alike` permutes the names of the two requests, transactions, syncs, tabs, imports or
uploads that a component has; where a component has one thing only, there is nothing to permute.

| Part | Instance | Property | Exceptions it states, and why |
|---|---|---|---|
| accounts | two people, two passwords, two requests at once, four in all, two instants | `RevocationStands`, `SessionsMatchPasswords` | accounts on which two requests overlapped (`raced`): the later commit can write the earlier stamp (finding) |
| | | `ActiveLeadRemains` | a role taken away (`demoted`), overlapping deactivations (`leadRaced`) (finding) |
| throttle | one client, two accounts, limit 2, a table of one key, three ticks | `AttemptsAreBounded` | twice as many for an account that was counted in the shared bucket (`Crowded`, read off the history `checks`); `rate-limit.ts:96–103` names what the shared bucket costs |
| identifiers | two transactions, numbers to 3 | `AllocatorsAreSound` | – |
| connection | two syncs, two sealing keys, two consents, two rotations | `StoredTokenIsLive` | an exchange that was given up after its deadline, or whose answer was rolled back (`abandoned`): the token is stranded (finding) |
| | | `LastWordStands` | – |
| cases | one case, a senior and a lead, two tabs, four writes | `ReviewedIsComplete`, `ApprovedAsShown` | imported cases |
| imports | two imports of one workbook, two decisions, one write by a person | `ReportIsTheRecord` | history rows of imports that overlapped |
| | | `NothingOverwritten` | decisions that were taken at once (`contested`) (finding) |
| reports | one case, run and defect, three requirements, two people who link, pages of one row, two writes | `FiguresAddUp` | the records written meanwhile (`touched`) |
| | | `PagesMissNothing` | something left the list, a page was torn, two links of one instant |
| draft | two cases, two people, one tab, three saves | `FinalizedAsGraded` | a refused write (finding), a submit still under way, a tab handed over |
| explorer | three products, two modules, two features, a requirement; caps of one | `ExplorerAddsUp` | the records written while the page loads; a match behind more of its own level than a list can hold, which is cut by business ID before anything is ranked (`BehindItsLevel`): what is shown are not the closest matches then (finding) |
| screen | the same catalogue, one viewer, three turns | `OpenBranchesStayOpen` | more than `MAX_OPEN_NODES` (`squeezed`), which the code states |
| | | `EditsAreInformed` | Back or Forward behind an open dialog (`misfiled` tells these apart): what was typed over one record is written over another (finding) |
| picker | three candidates, one term, a cap of one row, two picks | `FilteringIsHonest` (`NarrowingIsHonest`) | a selection changed by hand (`byHand`), and one emptied by "Choose cases by hand" (`emptied`) while the notice about the link says everything else is selected (finding) |
| box | three features, two needles, two searches in flight, six strokes | `PickerTellsTheTruth` | an answer taken while a search was under way (`quiet`) (finding) |
| checks | three files, two uploads, a panel of two, pages of two | `ChecksAddUp` | a file ingested between the panel's two reads (finding); batches of one instant come in any order |
| filters | two selects, three texts, four acts | `FilteringIsHonest` (`FiltersAreHonest`) | controls that overlapped (`crossed`) (finding); Back or Forward to the needle that the box itself committed last (`revisited`), which the box does not follow (finding); rows that went away (`shrunk`) |

An exception is a state the code itself can bring about, and each one that breaks what the
repository says of the program is among the findings (marked above, listed below). The others
contradict nothing it says: records written while a figure is counted, rows that left a list, an
account in a bucket shared by design. The bounds are the smallest in which the
mutant of each property is noticed and every action fires: numbers to 3 are a seed, a probe and an
exhausted space; four calls are a sign-in, a revocation, a change that overlaps it and a sign-in
after; a cap of one is exceeded by two. The workbook of the instance has a row of four kinds;
the kinds left out (a module, a defect link) go through the same operators. `MaxAdrift` is one
submit that nobody waits for, `MaxPicks` two cases taken by hand beyond what a page starts from, `Openings`
the pages of the explorer that reach each mode. In `CasePicker` the toolbar is taken to be drawn
(it is from six cases on), in `ListFilters` the box never leaves the page (it does below six rows).

### What the violations show

* `execution_planning`: the cases and tester of a new run are checked before its transaction,
  and a retirement or deactivation committed in between is not seen.
* `jira_sync_retry`: a retry repeats the call without asking again whether every run of the
  issue has passed, so a run planned since then does not hold the issue open.
* `jira_sync_queue`: one past success or abandonment takes a key out of the queue for good, so
  a later run's failure is never retried.
* `defect_sync_inline`: a defect raised while finalizing a run is never raised in Jira.
* `defect_sync_duplicates`: two overlapping calls of the endpoint raise two issues. With passes
  that do not overlap and no late creates a defect has one issue in each project
  (`OneIssuePerProject` in `defect_sync_liveness`), and one in all while its product names one project only.

Twenty-two more disagreements between the code and what a comment or document says of it were met while
modelling. They are in `PROJECT.json` without a run of their own: each is modelled as the code
has it, and is the reason for an exception that a property names. In short:

* *Accounts.* Two leads can deactivate each other; a password change can move the session stamp
  back past a revocation.
* *Defect bugs.* A create whose answer was lost is looked for in the project that the product names at
  the retry: with another key by then, a second issue is raised.
* *Jira connection.* After a successful callback the state cookie stays, because it is deleted under
  another path than it was set with. An exchange that is given up, or rolled back, after Atlassian
  rotated the token leaves a spent one stored.
* *Identifiers.* One number chosen by hand at the top of a space exhausts it.
* *Test cases.* The step editor keeps the rows of before under the version of after; two concurrent
  replacements of the steps are answered as a duplicate identifier.
* *Imports.* An unchanged row can be rejected on the second import; a case with malformed steps
  is created without them; of two decisions taken at once the second replaces the first.
* *Drafts.* A grade whose write the storage refused gives way, after a reload, to the one before.
* *Checks.* "The latest outcome" of a case is an arbitrary one of a file's; a panel's list and its
  count are two queries; a naming contract drops a retired case without a word.
* *Pickers and filters.* An answer that comes after a row was taken moves the keyboard; "Only selected"
  does not show a case whose group is closed; a filter chosen within 300 ms of a keystroke is lost;
  Forward to the needle that the box committed last leaves the box with the text of before; "Choose
  cases by hand" empties a selection that the notice above it calls selected.
* *Explorer.* The closest matches of a search are those among the first of each level by business ID. A
  dialog that stays open over Back or Forward writes over a record it did not show.

Seen besides, in `DefectSync`: a retried transition of a *reopened* defect
(`docs/testing-and-acceptance.md:104`) cannot happen, because Closed is terminal
(`defects.ts:294–300`) and the queue holds only Closed defects; a queued create whose product
lost its project key returns without a row and so stays queued, its budget unspent (the
exception in `FailedWorkIsSettled`); `transitionDefect` looks the investigation owner's name up
after its commit and outside any catch (`defects.ts:420`), so a failing query there answers with
an error for a change that was made and tells Jira nothing.

### Fairness

`FairSyncSpec` and `FairSpec` assume weak fairness of two things. A request that is settling goes
on: every call has a deadline (`JIRA_TRANSITION_TIMEOUT_MS`), a rejected call is recorded as
failed, and the handler awaits each step. And a retry pass is begun when something is queued and
works off its plan: the endpoint is meant to be driven by a scheduler, which
`docs/architecture.md:89` says is not part of the program; the liveness results hold for
deployments that call it. Nobody has to plan, start, finalize or transition anything, Jira need
never succeed, and crashes are bounded by `MaxFaults` (a server that crashes in every pass settles
nothing). `FinalizeEnds` and `FailureIsSettled` hold with Jira refusing forever. The other
components promise nothing that must eventually happen: a person may always stop.

## Proofs

Everything here holds for every value of the constants that satisfies the named assumptions, with any
number of requests, runs, passes and people. Each assumption is in the module that declares the
constants and TLC evaluates it on every run: `LifecycleAssumption`, `SyncAssumption`, `DefectAssumption`,
`AccountsAssumption`, `TestCasesAssumption`, `ThrottleAssumption`, `IdentifiersAssumption`,
`ReportsAssumption`, `ImportsAssumption`, `ConnectionAssumption`, `FinalizeDraftAssumption`,
`FeaturePickerAssumption`, `CatalogueAssumption`, `CatalogueScreenAssumption`, `PickerAssumption`,
`FiltersAssumption`, `ChecksAssumption`. They say what kind of thing a constant is, and little more: bounds are positive where
a bound of zero would be no component at all, there is a pass, a client, an account and a label, the
passes and the requirements of a report are finite, the names of imports are not those of people, a
run to start from has a number, the catalogue's rows are numbered level by level. One conjunct of
`ChecksAssumption` is a fact rather than a choice: the suites of a file, put one after the other, are
one sequence of tests. It holds of every file, and takes an induction over the suites that the
prover cannot do.

Every theorem rests on an invariant that is inductive where the property is not.

**`ExecutionLifecycleProofs`.** `TypeOK` is not enough to prove anything about a commit: what a
request does at its commit depends on the row it read before. `Foundation` strengthens it with
`Sound`: while a request waits, its version is no newer than the row's, equal versions mean equal
rows, and the guards it passed still describe the row it saw; a row that does not exist is blank.
Every committing write raises the version, which is what makes this inductive. From it follow
`VersionsIdentifyRows`, `NoUpdateIsLost` and `OwnRunsOnly` directly; `HistoryRecorded` and
`FailuresAreExplained` are inductive relative to it (the one delicate step is `CommitFinalize`);
and `ServiceImplementsRecord` maps each commit to one step of `ExecutionRecord` under `RunAsRead`
and every other step to a stutter.

**`JiraSyncProofs`.** `Base` is the type invariant together with what makes it inductive: what a
pass plans and a skip or disconnect remembers are keys and runs that exist, and a request past its
commit concerns a Finalized run that carries a key. `FinalizedIsFinal` (no step changes a Finalized run) gives
`DecisionsStand`: the unlocked reading of the sibling runs stays true until the answer is recorded.
The other properties speak of the attempts, so `AttemptsGrow` says once what any step adds to them: the
rows of before stay, and a new one is a skip, an answer, a retry or a giving up, by the request or pass
that wrote it. On it rest
* `VerdictsAreSingle`, by `VerdictInv`: a request whose verdict is recorded is over, for good;
* `DonesAreEarned`, by `EarnedInv`: whatever was tried, is queued, planned or in hand had been earned
  by a run that passed, and a success that is about to be recorded is still to be seen on the issue;
* `DriftIsNeverSilent`, by `DriftInv`: every request that has looked at its issue is `Followed`, by
  a younger attempt, by a request that is about to make one on its behalf, by a skip that names a run which
  still holds the issue open, or by a request that died. A run named by a skip is passed on: it holds the
  issue open until it is Finalized, and then it looks itself;
* `RetriesAreBounded`, by `BudgetInv`: nothing stops two passes from planning the same issue, so the retries
  that were recorded are not below the budget by themselves. What stays below it is their number
  *plus* that of the passes which have one still before them (`Held`): to plan an issue a pass must have
  counted fewer failures than `MAX_SYNC_ATTEMPTS`, and to record a retry it gives up its place among the holders.

**`DefectSyncProofs`.** `Core` relates what a process holds to its defect's row and to the number
of issues Jira has: a waiting mutation's version is no newer than the row's, and equal versions mean
equal status and ranking (not equal rows: `settleDefectIssueCreate` writes the key without touching the
version, which is why `Sound` compares columns); a successful raise names an issue that exists; a
process about to call Jira holds a Closed defect. Every step only `Advances` a row (versions grow,
Closed stays, issues are added), which keeps `Sound` for every process that does not move itself.
`TriagedAreRanked` and `DoneStandsForClosed` are parts of `Core`; `KeysAreForGood` follows from it
step by step; `ClosuresAreFollowedUp` needs `FollowUp`, which names the request still on its way.
`DefectRetriesAreBounded` counts as `RetriesAreBounded` does, for each of the two things a pass retries of a
defect, and needs besides that the first attempt and a retry exclude each other (`ItemSound`). From the same
invariant, `NoSecondIssue` (`OneIssuePerProject`): with passes that do not overlap and no request that Jira acts
on after its caller gave up, `OneIssueInv` holds: whoever is about to create has found no issue in the project it
will create in, whatever the product names by then, and is alone. Of a product that only ever names one project
`NoSecondIssueInOneProject` draws the conclusion the documentation draws of all: one issue for each defect.
The hypotheses are those under which the code keeps the promise: `defect_sync_liveness` is an instance of the first
two with two projects, and `defect_sync_duplicates` shows what happens with overlapping passes.

**`AccountsProofs`.** `AccountsInv` adds that stamps and cookies are of the past (`Past`), that a request
which did not overlap another on its account holds the row as it is (`RequestSound`), that ended sessions
lie before the stamp of an account without overlap (`InOrder`), and that a deactivation which counted
another lead, and was not raced, still has one (`EndsCounted`).

**`TestCasesProofs`.** `TestCasesInv` adds that a screen of the current version shows the current
content or steps that were replaced since its first query, which its version check will refuse (`TabIsCurrent`,
`TabSound`): from that, what is submitted is complete (`ReviewedAreComplete`), what is approved is what was
shown (`ApprovedAreAsShown`), and a step list is replaced unseen only through an editor that outlived a
redraw (`StepsAreNotLostUnseen`).

**`ServiceProofs`.**
* *Throttle.* `TableInv`: the keys with a bucket of their own are at most `MAX_TRACKED_KEYS`
  (`TableStaysBounded`). `SpreadInv` for `AttemptsStayBounded`: what was counted in a bucket since its window
  opened is at most its count, so in one window at most the limit; before the window opened an interval that
  reaches up to it holds one less; hence any interval as long as a window, which meets two windows at
  most, holds twice the limit less one. An account that was counted in the shared bucket too has that
  twice.
* *Identifiers.* `IdInv` for `AllocatorsStaySound`: who holds the row of the sequence is alone
  (`LockInv`), the sequence is not below any number that was seeded or drawn (`SequenceInv`), and what
  an open transaction drew is free or its own (`TransactionInv`).
* *Reports.* `FigureInv` for `FiguresDoAddUp`: what a query counted differs from what it would count now by records
  written since, because a write changes what is counted of one record only (`TallyMoves`). `LinksInv` types
  the links about to be inserted; the unique index does the rest (`LinksAreSingle`). `ListInv` for
  `PagesDoMissNothing`: what was on the list all the time and is not shown yet has at least a page for each page
  turned ahead of it. What precedes a row only grows while nothing leaves, and that is why offsets that move show a row
  twice but skip none.
* *Imports.* `ImportInv` for `ReportStaysTheRecord`: the batches left to write have no report, those behind have
  one for every row (`LeftInv`); who created a record is who reports to have (`RecordInv`); a batch looked at
  no more than there is (`LookInv`); a history row that a batch did not see is of an import under way with it
  (`HistoryInv`). `NothingIsOverwritten` is an action property: what a batch creates was not there
  (`CreatedIsNew`; the steps of a case have no index of their own, the case's stands in for it), and
  `ResolverInv` says that two decisions under way on one row contest it.
* *The stored token.* `ConnectionInv` adds to the types: flows that have not been consented to
  have no family yet (`FreshFlow`), the stored token is the one its family expects while nobody holds the row
  (`Live`), and a sync that holds the row sent the token that is stored there, so that its answer is that
  token's successor (`SyncSound`). The row lock is what makes it inductive. `TokensAreLive` and
  `TheLastWordStands` are parts of it.

**`ScreenProofs`.**
* *Draft.* `DraftInv` for `FinalizedIsAsGraded`: while the run is not finalized its version is the one every tab
  was drawn with, and what a tab stores, or has on its way, is what was saved in it last, unless a write was refused,
  the draft was overtaken or the tab handed over.
* *Feature box.* `BoxInv` for `PickerStaysTrue`: the list that is drawn is the newest search's, or that search is still
  unanswered; the active row is a row of the list; nothing is filed but what was confirmed.
* *Catalogue screen.* `CatScreenInv` for `BranchesStay` and `EditsStayInformed`: the row of a page is no newer than the record
  and of the same version only if of the same label; both the page and the one behind it keep the wanted branches
  open; a dialog is about the page below it unless Back or Forward was used.
* *Cuts.* `FirstOf` and the list of hits take the first so many of a finite set in some order. `CutIsFull` and its
  neighbours say, of any strict total order, that a cut which leaves something out is full and that what it leaves out
  comes after all that it has. The three proofs that follow need that and nothing else about sorting.
* *Case picker.* `CasesInv` for `NarrowingStaysHonest`: what is sent is what was counted, the selection begins with what was
  asked for until it is changed by hand or emptied, a closed group was put away by hand since the needle, and a
  requirement that is filtered by is offered. No step of a filter touches the selection.
* *Filters.* `FilterInv` for `FiltersStayHonest`: every URL of the history reaches its page, the box holds what was typed,
  and wherever the timer or a navigation is heading is what the controls say (`Heading`), unless two overlapped; the box
  says what the list is filtered by unless it was led back to the needle it committed last.
* *Checks.* `ChecksInv` for `ChecksDoAddUp`: what became of a row is settled by the case it names, because one
  look-up answers for the whole file; the counts of a batch are the tally of its rows; what the panel listed
  and what it counted are of batches `before` and `after`.
* *Explorer.* `ExplorerInv` for `ExplorerDoesAddUp`: every answer of a page load is a snapshot, the rows of its query among some set
  of records between those there when the page began to load and those there now; the answers came in turn; a
  parent is there if its child is. That a dozen such answers differ by the records written meanwhile only is then a
  matter of each mode: the tree level by level, the panel by its cut, the search by the order of its hits and, level by level, by what the cut
  before the ranking kept out.

**`MCServicesProofs`.** `OneMoves`: a step of one component is a step, or a stutter, of every other. With it, the
theorems of the components hold of the specification that the run `services` checks: `FilteringStaysHonest` and
`ServicesAreTyped`, whose only new part is that the explorer and the catalogue's screen share the catalogue and are
not open at once (`CatalogueSide`).

**What the proofs changed.** Four flaws of the models came to light in proofs that could not be finished, and none was visible to
TLC on the instance of the runs. `Compared`, `Reads` and `Counted` chose between overlapping arms of a `CASE`, of
which TLC takes the first and TLA+ takes any. An import of settings alone looked for a batch after
the last one. The order of the levels of the catalogue was assumed of a chain, and said nothing if one level is
empty. A feature box that could have no search in flight, a set of passes that might be empty or infinite, and a
run to start from with the number of "none" were instances nobody meant.

**Only model-checked.** Liveness under fairness, which is out of the prover's reach: `FailureIsSettled`,
`FinalizeEnds`, `FailedWorkIsSettled`. Every invariant and every action property that a passing run checks is a theorem.
The violations are TLC's: a theorem cannot show a counterexample. No proof uses a RECURSIVE operator, and nothing is
assumed beyond the ASSUMEs.

## Plan

Done: the core (`ExecutionRecord`, `ExecutionLifecycle` with its refinement, `JiraSync`, `DefectSync`); the
services around it (`Accounts`, `LoginThrottle`, `Identifiers`, `JiraConnection`, `TestCases`, `Imports`,
`Reports`, `Catalogue`, `Checks`); the screens that keep state of their own (`FinalizeDraft`,
`CatalogueScreen`, `CasePicker`, `FeaturePicker`, `ListFilters`); and a theorem for each invariant and
action property of a passing run.

Next, in this order:

1. An abstract defect as the outside sees it (status order, ranked from triage on, a key for good),
   refined by `DefectSync`; an abstract retry queue that both halves of the pass refine.
2. Composition of `Imports` with `Identifiers`: numbers supplied by a workbook against allocators under way.

## Not modelled

* Wording: comments for Jira, issue descriptions, notices, display names, time zones, display
  preferences. Pure functions whose results people read.
* The cells of a workbook: which values make a row incomplete or invalid (`import-parsing.ts` beyond what a
  row of each kind needs). Functions of one row, with tests of their own.
* Encryption and signatures: taken to be correct; a key that changed is modelled.
* Navigation, sidebar, themes, tables and detail pages that render what they are given.
* The route limiter of the API and the change of a password: the counter of `LoginThrottle` with a limit of
  its own each and no order between two of them.
* The static path of the picker, which filters a list in memory; the weekly chart, which is one query.
* Scripts, seeds, demo data and environment parsing, which run once, alone.
