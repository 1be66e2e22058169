# Alibi: a TLA+ model of the recovery agent

Alibi reads a marketplace seller's fee report next to the warehouse's own records
(receiving, prep, pack, returns), decides for every report line whether the money can be
claimed back, and lets a person overrule the decision. The code is `backend/app`; Postgres
holds all state. This directory holds TLA+ modules translated from that code, the TLC
configurations that check them, and modules of proofs.

1. [The system](#1-the-system): components, state, operations, what is hard, what must hold
2. [The modules](#2-the-modules) and how they correspond to the code
3. [The runs](#3-the-runs), their bounds, and the fairness assumed
4. [Disagreements found](#4-disagreements-found)
5. [The proofs](#5-the-proofs)
6. [What is only model-checked, and what is not modelled](#6-limits)
7. [Plan](#7-plan)

Run `tlc -config Review.cfg MCReview` (and likewise for the other pairs in section 3) and
`tlapm ReviewProofs.tla` (and likewise for the modules of section 5). `PROJECT.json` maps every definition that models code to its lines.

## 1. The system

Paths are relative to `backend/app`. Every database access runs inside `org_session`: one
READ COMMITTED transaction with `app.current_org` set, so that row-level security shows one
organisation's rows only. The application's role may SELECT and INSERT, nothing else.

| Component | State it keeps | Operations | Talks to |
|---|---|---|---|
| Upload (`ingest/`, `adapters/`) | `charges`, `evidence_records`, `attachments`, `quarantined_rows`, `ingest_files` | `ingest_org`: one transaction, `ON CONFLICT DO NOTHING` except for quarantined rows | store |
| Pre-checks (`precheck/`) | none: pure over all stored lines | `find_duplicates`, `match_reimbursements`, `filing_window`, `run_prechecks` | called by pipeline and review |
| Resolution, retrieval (`resolution/`, `retrieval/`) | none | `resolve_unit`, `retrieve` (scope, then custody window) | called by engine |
| Assessments (`engine/assess.py`) | none | one assessor per charge type | called by engine |
| Engine (`engine/`, `claims/__init__.py`) | none | `decide`: checks, ordered rules, claim amount, citations | called by pipeline |
| Citation validator (`claims/validator.py`) | none | `validate` re-reads every cited row; `enforce` downgrades | store; called by pipeline and review |
| Pipeline (`pipeline.py`) | `decisions`, `audit_events` | `run_org`: read, pre-check, decide each line in a savepoint, fail open | engine, validator, explainer, store |
| Explainer (`llm/`) | `llm_explanations` (first write wins), the run's call count and deadline | `explain`: cache, model, validation, template | pipeline, model provider |
| Review (`review/`) | `decision_overrides`, an advisory lock per decision | `apply_override`, `check_chain`, `claim_refusal_now` | store, pre-checks, validator |
| API (`api/`) | none | `POST /agent`: upload transaction then run transaction; overrides; lists, totals, one decision | all of the above |
| Command line, report (`cli.py`, `report.py`) | none | ingest, run, report | upload, pipeline |
| Rules and settings (`core/`, `config/`) | loaded once, cached | consistency checks on loading | everything |
| Front end, evaluation, deployment | a browser session; offline metrics; scripts | none on the store except through the API | API |

Four places share the store without sharing a lock: uploads, runs, override requests, and
the table owner (who can edit rows; `tests/test_pipeline_db.py` does). Only override requests
of one decision exclude each other.

### What is hard

* **Two reviewers, one decision.** `pg_advisory_xact_lock` (review/\_\_init\_\_.py:316-319) is all
  that stands between two requests that start from the same history.
* **A run beside an override.** A run takes no lock. `apply_override` looks for a newer
  decision twice: before it reads the history and after it has inserted its row.
* **A refund beside an override.** The refunds are re-matched once, before the insert.
* **A run's three looks at the store.** Charges, then evidence, then the validator's own
  reads: under READ COMMITTED each sees what was committed by then.
* **Refunds over groups of duplicates.** One refund may pay several fees, several refunds one
  fee, and what a line is owed depends on every other line stored, also on lines that arrive
  later and are posted earlier.
* **Two readings of a decision.** The engine writes checks; the review reads them by key and
  states its own rules over them. Likewise the engine cites and the validator re-checks.
* **Failing open.** Whatever raises (one charge, the pre-checks, the database in a savepoint),
  every charge must get a decision, or the run must leave nothing behind.
* **Uploads that overlap.** An `INSERT ... ON CONFLICT DO NOTHING` waits for another
  transaction's uncommitted row, so two files with the same keys in another order block each
  other until Postgres fails one of them.
* **One request, two transactions.** `POST /agent` commits the upload before the run begins;
  other requests' runs come in between, and processes die there.
* **A model inside a transaction.** Explanations are asked for while the run's transaction is
  open, share a table with other runs, and must neither change a decision nor hold a run up.
* **Pages in several statements.** A list is read by four SELECTs, one decision by five or more,
  each of which sees another store.
* **Labels and rows in two files.** The outcome labels of the assessments are in code, the
  rows they select in `config/engine.yaml`; a label without a row raises.

`PROJECT.json` lists these and the others (hazards), each at its line, with the property that
covers it or the reason why none does.

### What makes each component correct

* Pre-checks: refunded money is conserved and never guessed; each repeated fee is disputed
  against exactly one line that stays valid; the filing window has no gap, no overlap and
  never re-opens.
* Engine and validator: a CLAIM can be defended from what it cites; a fee is dismissed only
  with a cause; without an edit of the store the two agree.
* Pipeline: exactly one decision per charge read, all or nothing; what becomes final rests on
  rows that are intact when it does.
* Review: one verifiable history per decision, which nobody overwrites or forks; a human
  CLAIM asks for exactly what is owed; every request is answered.
* Store: append-only.
* Upload: the tables are what they would be had the uploads come one after the other; no row is
  lost without a trace; no upload waits forever.
* API: a refused request stores nothing; an answered one has a decision for each line it sent,
  and so does the run the review shows; a page hides no human judgement and agrees with itself.
* Explainer: decisions go through unchanged; a model's text says what its decision says; of a line
  that was billed for, the record has the tokens or the failure that lost them; a run is bounded
  by its budget, one call and its waits.

## 2. The modules

```
Precheck ── ClaimRules ── Review ── MCReview          Review implements DecisionHistory
   │            └── Evidence ── Engine ── Pipeline ── MCPipeline
   └── ChargeStore ── MCChargeStore
CsvAdapter ── Ingest ── MCIngest                      Ingest implements FirstWriteWins
Agent ── MCAgent
ExplanationText ── Explain ── MCExplain               Explain implements DecisionLog
Views ── MCViews                                      Views implements DecisionHistory

proofs: PrecheckProofs ── ChargeStoreProofs, PipelineProofs
        ReviewProofs, IngestProofs, AgentProofs, ExplainProofs, ViewsProofs
```

A line of the diagram is EXTENDS, left to right; a module of proofs extends the module it is named
after. `Precheck` and `ClaimRules` are the part that the pipeline and the review share, so both
are checked against the same definitions.

Some pairs meet through what one promises and the other takes. `Agent` takes the two transactions
of a request as single steps; `Ingest` shows that an upload may be taken so (`OneAfterTheOther`),
`Pipeline` what a run does inside. `Review` takes any record of `EngineRecords` for a decision;
`Pipeline` shows that the engine stores no other (`ReviewCanReadIt`). `Pipeline` leaves out
explanations; `Explain` shows that they do not change what a run stores
(`ExplanationsChangeNoDecision`). `Views` takes runs and reviewers as `DecisionHistory` describes
them; `Review` shows that they are (`ImplementsHistory`), and `ViewsProofs` that `Views` itself
keeps to it.

Each state module also holds a few operators whose comment begins with "Slip". They are the
code with one plausible mistake in it, used to see that each property notices it, and no
other definition refers to them.

**Precheck** translates `precheck/__init__.py` as operators over a set of lines. A line is a
record; its `line` is the rank of its line id, amounts are integers (cents), dates are day
numbers. Python's sorts are `InOrder` by (posted, line), its loops are folds.
`MatchReimbursements` returns what each refund paid of each fee (`paid`) and the refunds that
could belong to several duplicate groups (`ambiguous`). The sourced windows of
`config/rules/` and the duplicate window of `config/engine.yaml` are constants, with the
loader's checks on them as assumptions.

**ChargeStore** is the table `charges` as uploads add to it (`insert_charges`: a line id that
is stored keeps its row) and days pass. The pre-checks are judged in every such store.

**ClaimRules** holds what engine and review agree on about one decision record: the verdicts
of the amount and reimbursement checks, the records the engine may write for a line given the
stored lines (`EngineRecords`), and the review's `claim_refusal` and `claim_refusal_now`.
`EngineRecords` leaves the evidence open: it allows every decision that some evidence could
lead to.

**Evidence** translates resolution, retrieval and the five assessors. A record carries its pod,
id, status, unit, sku, shipment, order, captured day and verdicts by check key. Coverage is kept
as none, part or whole, which is all the rules compare it for. Findings keep the record, the check
keys used and the polarity.

**Engine** translates `decide` (the checks, the ordered rules as a sequence from which `Fire`
takes the first that applies, the loss-event table, the claim, the citations), the validator,
and `fail_open_decision`. A content hash is modelled by the content it covers, so an edited body
without its hash recomputed, an edited body with it, and an edited indexed column are three
different stores. Confidence figures, texts and next actions are left out.

**Pipeline** is `run_org`, one action per statement that another transaction may come
between: `ReadCharges`, `ReadRecords` (with the pre-checks, which may raise), `DecideOne`,
`FailOpenOnError`, `FailOpenOnDatabase`, `Commit`, `Abort`, `Restart`; beside it uploads
(`IngestCharge`, `IngestRow`) and the owner's edits (`EditRow`, `EditCharge`). `decided` is what
the run's transaction has inserted; an abort empties it.

**Review** is `apply_override` with runs and uploads beside it. A request goes through
`Submit` (the time `at` is stamped in the endpoint), `Acquire` (the advisory lock),
`ReadHistory`, `CheckClaim` (a CLAIM only), `Insert`, `Recheck`, `CommitOverride`, or ends in
`Refuse` (an `OverrideError` or a broken constraint) or `AbortRequest` (the process dies). The
row is visible to others only after `CommitOverride`. A run is `StartRun` (which stamps
`decided_at`), `ReadCharges`, `CommitRun`, or `AbortRun`. A record id is the pair of run and line;
a request writes at most one row, so its name stands for that row's content hash, and
`previous` links the rows into the chain that `check_chain` verifies.

**DecisionHistory** is what runs and reviewers together promise: per record one history, empty
until a run decides, then extended one changed decision at a time. `Review` maps its tables to
it by putting the engine's decision before the decisions of the override rows.

**CsvAdapter** translates `adapters/csv_v0.py` as operators over the rows of a file: which rows
are built, which are rejected and quarantined, which repeat an id, and which fail the whole load;
the verdicts of `enum_checks` and of the derived checks; the source row that is kept with a
record. A cell is kept as far as a branch depends on it.

**Ingest** is `ingest_org`: `Load` reads all files, then the transaction executes the sequence
`Inserts` of statements, in the order of `loader.py` and `db/repo.py` (charges, then each pod's
records, then each pod's attachments). `Insert` skips a key that is stored or of its own, and
waits while another upload holds it (`WaitsFor`). `BreakDeadlock` is Postgres's detector: any
upload of a circle may be the one that fails. `Commit` publishes rows and quarantined rows.
`Plan` is a constant function of the files, so that TLC works each set of files out once.

**FirstWriteWins** is what uploads promise together: each is applied as a whole or not at all, one
at a time; the first row of a key stays; bad rows are all kept, also when they are sent again.

**Agent** is `POST /agent` and the commands `alibi run` and `alibi ingest`: `Admit` (key,
configuration, file names, sizes, in the code's order), `Upload`/`UploadRefused`/`UploadFails`,
`Start` (the configuration is checked again and the run dated), `Read`, `Commit`/`RunFails`,
`Answer`. A failing database may have committed or not; nobody is told. `ServerDies` ends every
post under way, `CommandDies` one command. A line is stored with its storer and the clock.

**ExplanationText** translates `llm/trace.py` and `llm/validate.py`. A text is what the
validator's regular expressions find in an answer; which strings they match is not modelled.

**Explain** is `explanation_for` called by the loop of `run_org`, for several runs: template
(`WithoutModel`, `OutOfTime`), `FromCache` (a cached text is validated like a new one), `Ask`,
`NoAnswer`, `Answered`, `StoreText` (which waits for another run's uncommitted row of the same
trace hash), `StoreFails`, `DecidingFails`, `Commit`, `RollBack`. The catch-all of `explain`
(llm/explain.py:188-211) is three actions, by what is lost with it: `ExplainingFails` before the
call, `AnswerFails` in the call or while its answer is read, and `KeepingFails` with an accepted
answer in hand, before or after its INSERT. `EndLine` lets the insert of the record fail too, in
which case the line fails open and its savepoint takes the cache row back. `billed` is the
provider's book, which no guard reads: the lines it has charged the run for, an empty or unread
answer included. `why` on a record stands for its `fallback_reason`. `Tick` is time, which passes
only while a model is asked or an INSERT waits; `called` and the explainer's clock (`Forget`) are
put back to zero once nobody reads them.

**DecisionLog** is a run without explanations: one entry per line in order, each as decided or
failed open, all stored or none.

**Views** is `GET /decisions` (`OpenList`, `ReadOverrides`, `ReadNewest`) and
`GET /decisions/{id}` (`OpenDecision`, `ReadCharge`, `ReadEvidence`, `ReadLine`, `ReadEntry`,
`ReadClaim`), a step per SELECT, beside runs (`StartRun`, `CommitRun`), overrides (`Check`, `CommitOverride`,
`AbortOverride`) and whatever changes what a CLAIM rests on (`ClaimsChange`). A page remembers in
auxiliary fields what was stored when it was opened (`past`, `after`, `latest`, `fresh`); no guard
reads them. The rows a CLAIM rests on are of three kinds (`RowKinds`), by what the page says of an
edited one: the decided charge, which the deadline line names (api/review.py:188); the evidence of
the decision, which carries its hash status (api/review.py:319-339); and the rows the page says
nothing of, which are the canonical and refund lines the decision cites and evidence that was
rewritten together with its own hash. `Accepts` asks for all three, as `validate` does.

## 3. The runs

| Run | Module, configuration | Question | Distinct states |
|---|---|---|---|
| `charge_store` | MCChargeStore, ChargeStore.cfg | Is money conserved and are duplicates and windows judged right, whatever lines arrive in whatever order? | 47 011 |
| `pipeline` | MCPipeline, Pipeline.cfg | Does a run store one defensible decision per charge, with uploads, edits and failures between its statements? | 1 861 441 |
| `pipeline_evidence_present` | MCPipeline, PipelinePresent.cfg | Does `evidence_present` mean what ARCHITECTURE.md says? No. | |
| `pipeline_reason_code` | MCPipeline, PipelineReasonCode.cfg | Does a downgraded decision lose its reason code? No. | |
| `review_histories` | MCReview, Review.cfg | Do two reviewers and two runs keep one verifiable history per decision? | 2 197 164 |
| `review_claims` | MCReview, ReviewMoney.cfg | Does a human CLAIM ask for what is owed, with refunds arriving at any time? | 596 880 |
| `review_requests_end` | MCReview, ReviewLive.cfg | Is every request answered? | 4 899 |
| `review_claim_store_changed` | MCReview, ReviewClaim.cfg | Can a CLAIM commit against a store that has changed? Yes. | |
| `uploads` | MCIngest, Ingest.cfg | Do overlapping uploads leave the tables as if they had come one by one, lose no row, and end? | 401 066 |
| `requests` | MCAgent, Agent.cfg | What does a request leave behind that is refused, answered, or dies half way? | 690 254 |
| `views` | MCViews, Views.cfg | What does a page show that is read while others commit? | 1 355 209 |
| `explanations` | MCExplain, Explain.cfg | Do explanations stay out of the decisions' way, and within their budget? | 4 027 160 |

**`charge_store`.** Three fee line ids, each arriving with or without an order and posted on
day 0, 1 or 3, one also with another amount, two refunds of several amounts (one of them
negative), one loss event, five lines stored at most, a duplicate window of two days. Three
repeated fees on days 0, 1 and 3 give a duplicate, a line on the window's edge and a line
past it; two refunds over them give partial, exact, excess and ambiguous payments. A line
arrives at any time on or after its posting day, so lines posted earlier also arrive later:
before, between and after the stored ones, which is what `LateLineMovesOnlyItsChain` is about.
Five lines are the smallest store in which two refunds meet a duplicate group of three.

**`pipeline`.** Every start store holds one target line of each kind (five charge types, the
known, unknown and absent defect categories, one or two units, zero, negative and positive
amounts) with every set of evidence that tells two branches of its assessor apart, on a day
before, inside and after its window; or the defect fee with a duplicate, refunds in part and in
full, and an ambiguous refund, on top of none or one record. During the run at most one failure,
one owner's edit, one late refund and one late record occur, at any point. Runs, uploads and
edits interact only through the rows a decision reads, so a second failure or edit repeats
what one does to another line. The outcome table is the one of `config/engine.yaml`; its day
counts are scaled down with their order kept. A committed run stutters (`Done`), so deadlock
checking is on and would report a run that is stuck.

**`review_histories`.** Two requests, two runs, one fee, two clock values, all three decisions
asked for. Two requests are what it takes for one to overwrite the other's judgement; two runs
with equal and different times cover both clauses of "newer" (time, then id). Requests are
interchangeable and the properties are safety properties, so they are a symmetry set.

**`review_claims`.** One run, two requests, two fees of the unit, and three lines that an upload
may add at any time: a refund for the fee, a refund that may belong to either fee, and line 1
again with another amount. Three days: before the deadline, on it, and after.

**`review_requests_end`.** One run and two requests over one decision, one of which may die at
any point while it holds the lock.

**`uploads`.** Three uploads, each of any of six sets of files: three that hold each other's
keys in a circle and change each other's values, one with every kind of bad, repeated, nameless
and foreign row, and two that fail as a whole in the two ways there are. Three uploads are the
smallest number in which a deadlock has a circle of three and one upload waits for another that
is itself waiting. No bound on time or retries is needed: an upload is tried once.

**`requests`.** Three requests of any kind over two lines, with one thing wrong or all of them,
and both answers of the configuration check. Two overlapping runs and an upload between them, the
case `FinishedRequestsAreDecided` is about, need three. Requests and lines are symmetry sets.

**`views`.** Two pages, two runs, two lines, and two events (overrides and changes of what a
CLAIM rests on, of any kind of row) around their reads. Two pages are what "reload" needs; two
runs, because the line's newest human judgement may be on the one that is not listed; two events, because one override
between two reads is the race and a second one hides it or not. The runs decide REVIEW and a
reviewer chooses CLAIM or REVIEW: what is offered depends on a decision only by being the same or
being CLAIM. Lines and pages are symmetry sets.

**`explanations`.** Two runs over three lines: a CLAIM, a pending REVIEW (which is not sent), a
second CLAIM with a text left in the cache that this version of the validator refuses. The model
answers with a text that is right for both CLAIMs, with one that is right for the first alone, so
that each line can get two texts or a rejected one, or with nothing; and any step may fail. Budget
1 and timeout 2: a call that starts in time may end late, and the next line finds no time left.

`CHECK_DEADLOCK FALSE` stands in every configuration but `pipeline`'s: clocks, lines, runs,
uploads, requests and pages are finite there, so those systems come to rest when all are used up.

### Fairness

Two runs assume fairness, weak in both.

* `review_requests_end`: of `Acquire(q)` and of `Serve(q)` for each request. `Serve` is the
  request's own thread going on, which the operating system's scheduler and the database provide.
  `Acquire` is enabled while the lock is free; that the lock goes to a waiter is Postgres's lock
  queue, which serves waiters in order, and with finitely many requests, each of which takes the
  lock once, weak fairness already says no more than that.
* `uploads`: of `Serve(u)` for each upload, which is its own thread going on and, if it waits in a
  circle, Postgres's deadlock detector, which runs after `deadlock_timeout` in every waiting
  session. An insert that waits is not enabled, so fairness alone does not end it: `UploadsEnd`
  holds because whoever holds the row ends, or is part of a circle that is broken.

Nothing is assumed of runs, uploads (in `Review`), the clock, or of a death (`AbortRequest`,
`Abort`), which never has to happen.

### The properties

Each is stated in words above its definition. Those most worth a look:

* `RefundsAreSpentInOrder`, `OneCanonicalPerWindow`, `LaterLinesRewriteNothing` (ChargeStore): the
  allocation of refunds over duplicates is exhaustive and reaches the line that stays valid last;
  what later lines can and cannot do to a figure or a duplicate found earlier. A line that arrives
  late may move the canonical line, and with it what the next run decides of stored lines; the
  property bounds which: those of its group that follow it in a chain without a gap longer than
  the window.
* `ClaimIsBacked`, `DismissedWithCause` (Pipeline): what a stored decision lets its reader
  conclude, across resolution, assessment, rules, citations and validator.
* `UndisturbedRunValidates` (Pipeline): engine and validator agree under every interleaving of
  uploads. It leaves out one case and says so: a negative refund line that is ambiguous is
  cited, lowers the sum of the cited refunds, and costs a sound decision its status.
* `FinalRestsOnIntactRows` (Pipeline): an edit between the run's reading and the validator's
  reading never ends in a final decision.
* `HistoryStillCurrent`, `HistoriesVerify`, `SupersededStaysFrozen`, `ImplementsHistory`
  (Review): concurrent reviewers and runs.
* `HumanClaimsAreOwed` (Review): the amount of a human CLAIM, and what had to be settled first.
* `OneAfterTheOther`, `UploadsEnd` (Ingest): waits, skipped keys and deadlocks never show in the
  tables and never last.
* `RunsCoverTheirPast`, `FinishedRequestsAreDecided` (Agent): why the review may show the newest
  run by a date that was stamped before the run read anything.
* `JudgementStaysVisible` (Views): what four statements that see four stores may hide.
* `OfferMatchesAnswer` (Views): whether two pieces of code that ask the same questions give the
  same answer. Of a page of any age only that a decision it shows as replaced is not overridden;
  of one that is still current, all answers, but for a CLAIM after an edit of a row it rests on. The
  property keeps apart the edits the page shows (`asDecided`, `holds`) and those it does not.
* `FirstTextStays`, `WaitsForOneAhead`, `BudgetHolds` (Explain): runs that share a cache inside
  long transactions.
* `CallsAreAccountedFor` (Explain): tokens are on records of billed lines only; a billed line's
  record has them, or says which failure lost them; and no text is committed to the cache that the
  run which brought it was not billed for.

## 4. Disagreements found

Each of these is a run that ends in a violation, under a property that states the sentence quoted.

1. `PresentMeansARecordSpeaks`: ARCHITECTURE.md:60 says `evidence_present` passes when "a usable
   record speaks to the charge". An inbound defect fee whose category is not in
   `config/engine.yaml` is assessed without looking at any record, and the check passes
   (engine/\_\_init\_\_.py:110). The decision is REVIEW all the same.
2. `DowngradeHasNoReasonCode`: docs/DECISIONS.md:76 says a citation failure leaves
   `reason_code` null. `enforce` (claims/validator.py:135) keeps the code of the rule that had
   fired, for instance DUPLICATE_CHARGE on a pending REVIEW.
3. `ClaimMatchesStoreAtCommit`: review/\_\_init\_\_.py:24 says a human CLAIM is also refused when the
   store changed since the run. The refunds are re-matched once; an upload that commits
   between that and the request's commit leaves a CLAIM for more than is left. The newest
   decision is looked at again after the insert, the refunds are not.

These show in the modules' definitions, each as an exception or a branch that is named where it
stands. They have no run of their own.

* ingest/loader.py:1 calls the load idempotent. Charges and records are; the quarantined rows and
  the audit event of a file that is sent again are stored again (db/repo.py:128). `FirstWriteWins`
  therefore keeps `<<upload, bad row>>`.
* ingest/loader.py:2-3 says "Rows belonging to other organisations are skipped, not loaded under
  this one". The raw row kept as a record's source is looked up by (pod, record id) without the organisation
  (adapters/csv_v0.py:264), so it may be another organisation's row of the same file with the same
  id: the last clause of `SourcesRebuild`.
* adapters/csv_v0.py:3 says rows are never dropped silently. A fee row whose `org_id` is blank is
  built as a line of the organisation "", which loader.py:38 filters out: neither stored nor
  quarantined. `NoRowIsDropped` asks only for the rows of the report that name the organisation.
* api/agent.py:100 says bad rows are quarantined instead of failing the upload. A row with more
  cells than the header (422) or without its last required ones (an AttributeError, so 500) fails
  the whole upload before anything is written: `UpstreamFails`, `ReportFails`.
* api/agent.py:74-75 says that no charge is ever stored without a decision. A process that dies, or
  a database that fails, between the two transactions leaves such charges; the next run decides
  them (`RunsCoverTheirPast`), but nothing starts one.
* llm/explain.py:58-62, docs/DECISIONS.md:172 and ARCHITECTURE.md:228-232 bound a run by the
  explanation budget and one call. The insert of a text (db/repo.py:426) waits for another run's
  uncommitted row of the same hash, which the deadline does not count: `waited` in `BudgetHolds`.
* api/review.py:125-126 says the newest human judgement stays visible. A list reads the overrides
  of its run and the newest overrides in two statements; when the listed decision is overridden
  between them, the second finds that override, which is not on an earlier run, and hides the
  earlier one, while the first did not see it: the last clause of `JudgementStaysVisible`.

Recorded as hazards, because no document promises otherwise: `at` is stamped before the wait for
the lock; a CLAIM is offered although a row it cites was edited, of which the page says nothing
(`broken["other"]`); the tokens of a call are lost when the step fails after the answer
(llm/explain.py:190-197), when the answer is empty but billed (llm/vertex.py raises), or when its
line fails open (docs/DECISIONS.md:166 promises them only for a text that was rejected, which
holds); a record with one failed and one uncertain check supports a fee while its finding is
filed as uncertain, so the dismissal cites no record.

## 5. The proofs

Eight modules, proved for every value of the constants that the assumptions allow: any number of
lines, rows, runs, requests, uploads and pages, any windows, days, texts, budgets.

| Module | Theorem | Says |
|---|---|---|
| PrecheckProofs | `InOrderLists` | the posting order lists every line of any set once |
| | `MatchingSettles` | the matching of any refunds over any fees keeps the money and settles every refund |
| | `LastRefundOnlyAdds` | a refund after all others takes nothing back |
| ChargeStoreProofs | `TypeCorrect` | the store is finite and typed, a line id is stored once |
| | `DaysAreClaimable` | `Spec => []ClaimableDays` |
| | `RefundsAreAlwaysConserved`, `AmbiguousRefundsPayNothing`, `RefundsAreAlwaysSpentInOrder` | `Spec => []RefundsAreConserved` and so on: the three properties of the matching |
| | `OneCanonicalAlways` | `Spec => []OneCanonicalPerWindow` |
| | `LateLinesMoveOnlyTheirChain`, `LaterLinesNeverRewrite` | `Spec => LateLineMovesOnlyItsChain`, `Spec => LaterLinesRewriteNothing` |
| PipelineProofs | `LateRecordsAreHeard` | while a line is claimable, no record of a pod that looks past the posted date is too late for its custody window |
| | `RunInvariant` | what was read splits into what is decided and what is left |
| | `EveryChargeIsDecided` | `Spec => []CommitCoversSnapshot` |
| | `FinalRestsOnIntact` | `Spec => FinalRestsOnIntactRows` |
| | `DismissalsHaveACause` | `Spec => []DismissedWithCause` |
| | `ClaimsAreBacked` | `Spec => []ClaimIsBacked` |
| | `DecisionsAreReadable` | `Spec => []ReviewCanReadIt` |
| | `TheOutcomeTableIsComplete` | `Spec => []OutcomeTableIsComplete` |
| | `UndisturbedRunsValidate` | `Spec => []UndisturbedRunValidates` |
| ReviewProofs | `TypeCorrect` | `Spec => []TypeOK` |
| | `LockInvariant` | whoever is past the lock holds it until its transaction ends, however it ends |
| | `HistoriesAlwaysVerify` | `Spec => []HistoriesVerify` |
| | `HistoryAlwaysCurrent` | `Spec => []HistoryStillCurrent` |
| | `HumanClaimsAreAlwaysOwed` | `Spec => []HumanClaimsAreOwed` |
| | `StoreAlwaysGrows` | `Spec => StoreOnlyGrows` |
| | `SupersededIsFrozen` | `Spec => SupersededStaysFrozen` |
| | `ReviewImplementsHistory` | the refinement of `DecisionHistory` |
| IngestProofs | `TypeCorrect`, `WriteInvariant` | `Spec => []TypeOK`; a transaction holds the first rows of its keys that were new |
| | `DoneUploadsAreComplete` | after a commit every key sent is stored and every bad row quarantined |
| | `NothingIsDropped` | `Spec => []NoRowIsDropped` |
| | `RecordsAreStoredWhole` | `Spec => []StoredRecordsAreWhole` |
| | `IngestIsOneAfterTheOther` | the refinement of `FirstWriteWins` |
| AgentProofs | `TypeCorrect`, `RefusalsStoreNothing`, `RunsAlwaysCover`, `FinishedAreDecided` | the four properties of the run `requests` |
| ExplainProofs | `TypeCorrect`, `ModelTextAlwaysBacked`, `FirstTextAlwaysStays`, `NoCircleOfRuns`, `BudgetAlwaysHolds` | five of the properties of `explanations` |
| | `EveryCallIsAccountedFor`, `CallsAlwaysAccountedFor` | at every step, uncommitted rows included, what was billed is on record, due, or lost with a failure the record names; `Spec => []CallsAreAccountedFor` |
| | `ExplainImplementsDecisions` | the refinement of `DecisionLog` |
| ViewsProofs | `JudgementAlwaysVisible`, `ReloadsGoForward`, `PagesAgreeWithThemselves`, `OffersAreAnswered` | the four properties of `views` |
| | `ViewsImplementsHistory` | `Views` keeps `DecisionHistory` |

### Assumptions

All stand in the module that declares the constants, and TLC evaluates them in the runs.

* `FilingAssumption`, `WindowDaysAssumption`, `PodsAssumption`: what the loaders of
  `config/` check (`core/rules.py`, `core/config.py`), in particular `check_windows_consistent`.
* `LossOutcomesAssumption`, `FeeTypesAssumption`: each loss event has a table and no fee has one,
  no row of it claims or carries one of the two rule ids that the code sets itself, the fees are the
  two of `models/vocab.py` (`config/engine.yaml`).
* `OutcomeRowsAssumption`: the six rows of `loss_event_outcomes` that the engine cannot do without
  are in `config/engine.yaml`, with their status. `TheOutcomeTableIsComplete` then says that the
  code needs no others: no records, in any store, lead an assessor to a label outside of the six
  that is settled, or to one of the six under another status.
* `ChargeStoreAssumption`, `StoresAssumption`, `EditedChecksAssumption`: lines are typed, ids
  unique, a row is a record with verdicts (`models/contract.py`; pydantic refuses any other, stored
  by an upload or edited by the owner), and an uploaded row hashes to its column. `StoresAssumption`
  is what `Ingest` shows of uploads.
* `ReviewAssumption` types the constants (amounts are integers, in cents) and makes the first
  stored lines unique by id. That what a set of lines pays back of a fee is a natural number is
  proved (`PaidToFeeIsNat`).
* `FilesAssumption`: a file is read row by row and a photos cell is split into a list, so both are
  sequences; no pod has the name of another table.
* `SendableAssumption`, `OrderAssumption`, `TimesAssumption`, `TextsAssumption`,
  `NoneAssumption`, `DecidedAssumption`, `PipelineAssumption`: types; a line is listed once; run ids
  are numbers.

### Folds, sums and sorted lists

What refunds pay is a fold of a fold, its sums run over sets, Python's sorts are rank lists, and the
statements of an upload are put together by `FlattenSeq`. All four need induction, and the
induction theorems of the library take a predicate for a parameter. `CountUp` and `RemoveOne` do
without: they speak of the set of the numbers, or of the parts of a finite set, that have the
property, and follow from the well-foundedness of `<` on the naturals (`LeastNumber`). From them:

1. A fold has the value it is defined to have: the library defines it by CHOOSE of a recursive
   function, and `FoldIsDefined`, `SumIsDefined`, `FlattenIsDefined` show that there is one. For the
   three folds of `Precheck` that gives chains g[0], g[1], ... (`CanonicalChain`, `PayChain`,
   `MatchChain`) about which an invariant can be stated step by step.
2. A sum does not depend on the order or the superset it is taken in (`SumIsUnique`,
   `PaidWithout`, `PaidWith`, `PaidGrows`).
3. A rank list lists every element once and in order (`InOrderLists`, `SmallestListsAll`), and
   lines posted later leave its beginning alone (`InOrderPrefix`).

### Arguments

None of the invariants is inductive alone. In each module the strengthening is `Inv` (in Review
and Ingest, the chain below), and every theorem follows from it.

**Review.**

1. `TypeInv` adds to `TypeOK` that a request under way names a record and a decision (`Asked`)
   and that the lines a run has read are unique by id (`SnapshotsAreStores`). Without the second
   nothing is known of what `CommitRun` stores. `EngineRecordsTyped` is the lemma about
   `ClaimRules` it needs.
2. `RunsCommitOnce`: a decision is stored only under a run that is done. So no step writes a
   stored decision again (`CommitOnceStep`), which is half of `StoreOnlyGrows`.
3. `LockHeld`: every request that is locked or later holds the lock of its record. The lock is
   given only when free, so two such requests of one record are the same request.
4. `HistInv` = `RowsFit` and `HistoriesVerify` and `ClaimsAllowed`. `RowsFit` says what the row a
   request carries looks like beside the history as it is now: sequence one past its length,
   original its effective decision, and if it is a CLAIM past its check, the amount left. That it
   stays true while others commit is where `LockHeld` is used; that appending such a row keeps
   the chain is `AppendVerifies`.
5. `HumanClaimsAreOwed` adds `ChargedIsTheAmount`: a stored record's amount charged is its
   line's amount.
6. `SupersededIsFrozen` uses that a decision that is superseded stays so (`SupersededStays`):
   run times do not change once a run has stored something.
7. The refinement uses `OverridesDecide` and the lemmas `TrailOfRows` and `TrailAppend` about the
   mapped sequence; only `CommitRun` and `CommitOverride` change it, and they map to the abstract
   `Decide` and `Override`; every other step maps to a stutter.

**Precheck and ChargeStore.** One refund's walk over its candidates keeps `Paying`: the accounts
balance (`Balanced`: of each fee, paid back and remaining make the fee), others' payments are
untouched, and whatever the refund paid a fee, all fees before it in `PayOrder` are settled. At
the end of the walk that is `RefundSettled`, which later refunds keep (`SettledStays`), because
`remaining` only falls. Balance alone would not do: that a canonical line is paid last is a fact
about the order of one walk which no later state of the accounts shows. For duplicates, the walk over
a group gives each line the latest canonical line before it or the line itself (`CanonicalStep`,
`CanonicalIsLatestBefore`), so two canonical lines are more than the window apart
(`CanonicalsApart`). When a line arrives late, take a line x after it with no line of the group
within the window before it: x stays, with the new line and without it (`FarLineStays`,
`BreakInTheChain`), and the first line after x that changed would follow one that did not
(`CanonicalAfter`, `ChainIsCut`); so what changes lies before every such x
(`OnlyTheChainMoves`). A refund that comes after all others lengthens one chain by one step at its end
(`LastRefundOnlyAdds`).

**Pipeline.** `ByLine` is defined by ranks; `ByLineListsAll` shows that on lines with distinct ids
it lists each once (an injection between finite sets of one size). `Inv` then says that the decided
lines and `todo` split what was read (`TodoInv`), that every body that was read is intact or is the
edited one and still stored (`SnapInv`), and that the tables keep one row of a key (`TablesInv`).
For `FinalRestsOnIntact`, an evidence citation is of a record the run read (`CitesWhatItRead`, one
lemma per assessor), the validator found its row with the cited hash, and an intact row with that
hash is the one that was read (`CitedRowWasRead`). For `DismissalsHaveACause`, the rule that fires
is the first that applies (`WhatFires`), and each of the rules that dismiss is traced to its cause;
a SUPPORTED assessment is traced to the failed check (`SupportIsAFailedCheck`).

The four theorems about amounts and the validator rest on `ReadInv` (the run's pre-checks are
`PrecheckOf` of the lines it read, and what it read is still stored unless the owner edited it)
and `OriginInv` (a decision is `DecideLine` of its line, enforced against the store of that moment,
or a failing open). `Judgement` says in one formula what `DecideLine` may give: a claim of a repeat, a
claim of a contradicted defect, a dismissal or a postponement. `DecisionsAreReadable` compares it
with `EngineRecords`, case by case. `ClaimsAreBacked` takes what the validator has looked at
(`ValidClaimIsBacked`): a cited line or cited records, found with the cited hash, and
`IntactCitation` turns those into what the run read. `UndisturbedRunsValidate` goes the other
way: every citation the engine makes is found again (`FoundIsCitable`), and the refunds cited for a
fee add up to at least what they paid of it (`RefundsCover`, from `PartsWithinRefunds`), which is
where negative refund lines have to be left out (`NoneNegative`).

**Ingest.** `WriteInv`: the keys of the statements executed so far are stored or held
(`Executed`), what is held is not stored (`HeldIsNew`), and no key is held twice (`HeldOnce`), which
is where waiting is needed. So at the commit the rows held are those of `FirstOf` whose key is
not stored: the abstract `Apply`. `Complete` follows at the commit from `Executed` and stays,
because tables only grow. For the other two theorems it is joined with what the statements are
(`InsertsAre`: the rows of the charges, records and attachments of the organisation, through two
`FlattenSeq`s and the rank list of `OfOrg`): a row that is no statement is bad, or repeats one that
is; the photos of a record are statements of the same transaction; the row kept as a source was
loaded under the record's id, so of the organisation's own rows it is the same one
(`SourceIsOfItsId`).

**Agent.** `Inv` says how far a request's place tells what is stored: of a request past its upload
all lines (`UploadedIsStored`), of a committed one its run (`CommittedHasRun`), and that what a run
has read covers what was stored at its stamp (`ReadCovers`). `NewestIsComplete` then compares
dates: a finished request's lines were stored before its stamp, which is no later than the newest
run's.

**Explain.** `Inv`: a run holds texts of lines it has passed only (`RowsBehind`), no two rows of
one line are held or stored (`RowsApart`), a text about to be stored was accepted
(`AnswerAccepted`), records fit their lines (`RecordsFitLines`), a cached text stays
(`CachedStays`), calls begin in time (`CallsInTime`). Waiting for a row then means waiting for a run
that has passed the line, and along one order that is no circle. The bills are followed by
`AllAccounted`: a billed line is behind the run, or at it with an accepted answer in hand
(`BillsBehind`); each record is `Traced` to its bill or to what lost it; and every row that is held
or committed was paid for (`RowsPaid`). The middle part alone is not inductive: that no line is
billed before the run has come to it is what makes a record without a call stay right, and the rows
that are held become those of the cache.

**Views.** `StoreInv` says that dates tell runs apart and histories only grow; `PagesInv` what each
page has read so far, compared with the store as it is now: prefixes of histories, sets that have
only grown, an order that stays. `FreshInv` says that what a fresh page has read of its decision is
still so (`UpToDate`); what a page of any age read of the line's decisions can only have been
added to. Each property follows at the end of a page.

## 6. Limits

Only model-checked:

* `RequestsEnd`, `UploadsEnd`: liveness under fairness and ENABLED are out of the prover's reach.

Every other property of a run that passes is also a theorem. The theorems say nothing of the values in
`config/`: that those satisfy the assumptions is evaluated in the runs.

Left out of the modules that exist:

* Ingest: the audit event and the summary that is returned; the checks on numbers and dates in a
  cell are one bit (`readable`, `zoned`).
* Agent: multipart parsing; the bodies of answers.
* Review: the evidence part of validating a human CLAIM. `Refuse` therefore allows a CLAIM to be
  refused whatever the store says, and what the validator does with evidence is Pipeline's.
  A broken chain in the store (an owner's edit of an override) is not an input: under the
  application's role the tables only grow. One organisation is modelled, as a session sees it.
* Views: amounts, totals, filters, and the deadline line but for what it says of an edited charge:
  they are computed from what the modelled statements return.
* Explain: prompts and the wording of the template; which strings a regular expression matches;
  the provider's protocol (an answer is a text, or nothing that may still be billed, or a failure);
  amounts of tokens and cost (a record has a call's tokens or none).
* Engine: confidence, texts, warnings and next actions; no rule reads them.
* Pipeline: audit events; explanations, which Explain shows to change no decision.
* Hash functions are taken to be collision free.

Not modelled, because they keep no state and change none: authentication (the lookup of a hashed
key), the evaluation harness (offline arithmetic over the decisions of a run), the front end
(renders answers), the report and the smoke commands, deployment scripts. Row-level security is
taken as given: a session sees one organisation.

## 7. Plan

Done: all modules of section 2, and a theorem for each safety and action property of the runs.
What would add most, in this order:

1. The evidence part of a human CLAIM in `Review`, with the validator of `Engine`, so that
   `Refuse` is as narrow as the code.
2. An abstract specification of a run with evidence (one decision per line, each as some evidence
   allows), which `Pipeline` implements and `Review` starts from, so that the two meet in a theorem
   instead of in `EngineRecords`.
3. That a circle of uploads is always broken: `UploadsEnd` follows from a measure that falls with
   every step, whose descent could be proved although the liveness itself cannot.
