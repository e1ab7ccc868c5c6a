# RevMind: TLA+ models, checks and proofs

RevMind (`src/app`) is a research and paper-trading assistant. Part of it keeps
state: SQLite files shared by processes that may die, an alert transport and a
broker that may or may not have acted, commands that are replayed, HTTP requests
served at the same time. The other part is computation over market observations,
where the danger is looking ahead, changing the past, or combining results that
do not belong together. This directory models both.

## 1. Inventory

| Component (source) | State | Operations | Talks to |
|---|---|---|---|
| Alert outbox (`alerts/outbox.py`) | `outbox.db`: one row per alert key, an append-only event history | `dispatch` = claim transaction, transport call, finish transaction | transport; called by the shadow runtime |
| Shadow runtime (`runtime/shadow.py`) | `runtime.db`: runs (state, next request, clock) and audit events | `register`, `set_running`, `tick`, `status` | composes decisions, writes `journal.db`, dispatches alerts |
| Evaluation journal (`evaluation/journal.py`) | `journal.db`: decisions by digest with the first receipt, outcomes | `record`, `record_outcome`, reads by cutoff | shadow runtime, paper evaluation |
| Local control plane (`control/local.py`) | ledger of commands and responses, denials; grants in memory | `execute` | shadow runtime |
| Capture coordinator (`capture/coordinator.py`, `store.py`) | cycles and their audit, durable clock, the shared observation store, writer guard | `execute`, `inspect` | providers, ingestion, materialization, research |
| Paper evaluation (`capture/paper.py`) | evaluations and attempts | `evaluate` | sealed captures, journal |
| Observation store, ingestion, replay, CSV import (`data/`) | append-only observations | open, `ingest`, `append`, `replay` | capture, research |
| Technical, evidence, setups, regime, research, backtest (`technical/`, `evidence/`, `setups/`, `regime/`, `research/`, `evaluation/backtest.py`) | none | pure functions of a series | dashboard scans, universe |
| Structure (`structure/`) | none | swings, breaks, sweeps, gaps, zones of a series | only its tests, so far |
| Materialization, universe, scanner | none | bars as known at a moment, selection, active setups | capture, research |
| Portfolio, risk gate, head of desk (`portfolio/`, `risk/`, `orchestration/`) | none | valuation, review, composition | paper plan, shadow runtime |
| Dashboard scans (`dashboard/live.py`) | settings, provider status, saved report, artifacts in memory, scan history | `research`, connection test, settings save, import | HTTP threads, engines |
| Paper order desk (`dashboard/live.py`) | approvals in memory, `paper-orders.db` | `paper_plan`, `place_paper_order`, `sync_paper_orders`, `cancel_paper_order` | broker adapter; HTTP threads |
| Broker adapter (`broker/alpaca.py`) | none | `place`, `order_status`, `cancel_order`, `account` | Alpaca Paper Trading (external) |
| Accounts and sessions (`dashboard/auth.py`) | users, sessions, promo codes | set-up, register, login, redeem, authenticate | HTTP threads |
| Market and news providers (`data/providers/alpaca/`) | none | `get_bars`, `get_news`, page by page | Alpaca data API (external) |
| Catalysts, insiders, events (`catalysts/`, `insiders/`, `intelligence/events/`) | `global_events`, append-only | `get_events`, `append_many`, `available_at`, three `materialize` engines | earthquake feed (external) |
| Hosted integration, Myfxbook, schemas, static page | none, or a key cache | section 7 | |

What is hard, and what makes each part correct:

* **Outbox.** Dispatchers race for a claim; one may die with the row STARTED,
  before or after the transport delivered; an exception proves nothing; a retry
  is legal only after a proven non-delivery. Correct: an alert arrives at most
  once, a row never says what did not happen, resolved rows are final.
* **Shadow runtime.** A tick holds the write lock of `runtime.db` over its whole
  loop, while the journal and the outbox commit at once in files of their own. A
  crash rolls back one of three databases. Correct: a committed step has its
  decision journalled and its alert delivered, other processes only ever see
  whole ticks, a failure can be explained from the tables.
* **Control plane.** Claim, effect, status read and response are separate
  transactions on two databases, with several planes on them. Correct: a
  command takes effect at most once, its saved answer is true and final.
* **Capture.** The guard is a lock of another database than what it protects;
  receipts, clock and seal become durable at different times; the shared store
  only grows. Correct: a cycle acquires at most once, what is sealed is all that
  was known at its cutoff, a cycle interrupted before its seal stays unresolved.
* **Paper evaluation.** The decision is in `journal.db` before its result is
  committed, and two attempts may overlap. Correct: a result is explained by a
  claim and a journal row, is final, and every call comes to an end.
* **Observation store.** Several processes create one schema; a receipt time is
  read before its row commits. Correct: batches are whole, pages are exact, a
  replay of a moment that has settled is repeatable.
* **Providers and facts.** A provider publishes and corrects while its pages are
  read; sources revise what they said, under filters. Correct: a call returns its
  whole interval or fails; a history shows what was known, and stays as it was.
* **Research and structure.** Rolling state, warm-up, breakouts, trades that are
  still open, swings that are known late. Correct: nothing said of the past
  changes with another bar, no trade sees the future or the better side of a bar.
* **Universe.** A scan as of a past moment, over corrections and late bars.
  Correct: it uses what was known, of one source, and is the same when repeated.
* **Risk and desk.** Results of different moments meet in one decision. Correct:
  a limit is not evaded by splitting an order; an alert rests on a verdict that
  would be given again.
* **Paper plan and orders.** A plan uses the account as it was last synced; one
  thread per request and no lock; the answer to a POST may be lost. Correct: an
  approval is one order at most, the journal is never ahead of the broker, plans
  made one at a time keep the cash floor.
* **Dashboard scans.** Scans, tests and saves overlap on files that are replaced
  one at a time, and may fail or die in between. Correct: what the status and the
  report say is of the present settings, unless a save has yet to invalidate it,
  replaced a file under it, or ended halfway; reports and measurements are on record,
  one measurement per row; a ready row is borne out by its bars.
* **Accounts.** Checks are made outside of the transactions that act on them.
  Correct: promo counts are exact and exceed a limit by the requests underway only.

`PROJECT.json` lists every component with its status and every hazard at its line.

## 2. The modules

```
 components                                    checked by    proved about in
 ----------                                    ----------    ---------------
 AtMostOnceAlert <==implements== AlertOutbox   MCControl     AlertOutboxProofs
                                     |  INSTANCE
 RunLedger <==implements==  ShadowRuntime      MCRuntime     RunLedgerProofs, RuntimeProofs
     |  INSTANCE
 LocalControl                                  MCControl     ServerProofs

 CaptureOnce <==implements== CaptureCycle      MCCapture     CaptureProofs
 EvaluationJournal --INSTANCE--> PaperEvaluation
                                               MCCapture     CaptureProofs
 FactHistory                                   MCCapture     CaptureProofs
 MarketFeed                                    MCCapture     CaptureProofs

 ObservationStore <--EXTENDS-- ObservationReplay
                                               MCResearch    ResearchProofs
 TechnicalFeatures <--EXTENDS-- ResearchEngine
     <--EXTENDS-- SeriesResearch, UniverseScan MCResearch    ResearchProofs
     <--EXTENDS-- ScanDesk                     MCDesks       ResearchProofs
 MarketStructure                               MCResearch    ResearchProofs
 Orders <--EXTENDS-- ObservationReplay, UniverseScan, MarketFeed, FactHistory,
                     ScanDesk
                                                             OrderProofs
 RiskDesk <--EXTENDS-- RiskReview              MCDesks       DeskProofs
          <--EXTENDS-- PaperPlan               MCPaperDesk   DeskProofs
 PaperOrders                                   MCPaperDesk   DeskProofs
 MarketScan, Accounts                          MCDashboard   ServerProofs
```

An MC module EXTENDS the components it checks, so that their invariants are checked
as they are stated and proved. Further settings of a component come in
through INSTANCE. OrderProofs holds the lemmas on sorting, selecting and induction that
the other proof modules cite. Names of one component that another one in the same run
has too carry the component's (`ControlNext`, `PaperSpec`, `PlanTypeOK`, `ScanInit`, ...).

**AlertOutbox** (`alerts/outbox.py`). `outbox` and `events` are the two tables,
`call[w]` is what dispatcher `w` stands before, `received` counts what the
outside world got (history). `ClaimToSend`, `ClaimExpired` and `ReturnPrior` are
the outcomes of the claim transaction, `Send` the transport call with every
answer a transport can give (delivered, refused, unreadable, raised before or
after delivering), `Finish` the second transaction, `Abandon` the loss of a
dispatcher at any point. **AtMostOnceAlert** is the promise; `ImplementsPromise`
is the refinement mapping from rows and calls.

**RunLedger** is the runtime as other processes see it, one transaction per step:
`Register`, `SetRunning`, `Tick`. **ShadowRuntime** takes a tick apart:
`TickBegin` (lock), `RecordDecision`/`RefuseReceipt` (journal), `ClaimAlert`,
`SendAlert`, `FinishAlert` (outbox actions, through INSTANCE), `StorageError`,
`TickCommit`, `Crash`. It implements RunLedger (`ImplementsLedger`).

**LocalControl** composes planes with RunLedger: `Claim`, `DispatchCommand` (with the
ledger action of the command), `ReadStatus`, `Respond`, plus `RuntimeError` and
`Restart`. `effects` is history. Using RunLedger here is justified by
`ImplementsLedger`.

**CaptureCycle** (`capture/coordinator.py`): a process takes the guard, meets a
leftover ACQUIRING cycle (which becomes UNRESOLVED), claims, appends the batch,
replays up to its cutoff within the page and observation caps (or BLOCKED),
seals, validates the seal and researches it. Each commit is a step, the durable
clock commits whenever it is read, and a process may die after any step. Two
receipts of a bar at one instant are ordered by their ids, which are arbitrary.
**CaptureOnce** is the promise per cycle.

**EvaluationJournal** and **PaperEvaluation** (`evaluation/journal.py`,
`capture/paper.py`): `ClaimAttempt` is one transaction; `Process` (with the commit
of the journal) and `Store` are the two commits of the second, which holds its lock
across both.

**MarketFeed** (`data/providers/alpaca/`): `Begin`, then per request an `Answer`
with the next page and a token (the right one or one that was seen), a failure
that is retried (`Unanswered`) or not (`Refuse`), and `Publish` by the provider in
between. **FactHistory**: `Collect` a batch from a feed, `AppendMany` it as a whole
or not at all, `Discard` it; the engines are operators on what `AvailableAt` gives.

**ObservationStore** and **ObservationReplay** (`data/`): opening with its race
to create the schema, fetching (an await), dating, appending; a reader's
snapshot, its cutoff and its pages.

**TechnicalFeatures**, **ResearchEngine**, **SeriesResearch**: the recurrences of
the feature engine, the evidence rules, setups and regime, and the walk of the
backtest with its held-out part and grade. A series grows by a bar at a time and
everything is recomputed, as the code does. **MarketStructure** does the same for
swings, breaks, sweeps, gaps and zones. **UniverseScan** materializes a log of
observations as of a moment, researches each series, selects and filters.
**Orders** has the sorting and selecting that these modules need, by rank, in a form
that can be proved about.

**RiskDesk**, **RiskReview**: valuation, gate and head of desk as operators, and
a caller that assembles verdicts and reports of different moments. **PaperPlan**
uses RiskDesk for sizing and for the gate. **PaperOrders** takes an approval to
the broker and back; `posted` is history.

**ScanDesk** makes rows of bars, benchmark and backtest grade, sorts and
summarises them; **MarketScan** runs scans, tests and saves as concurrent
requests over settings, status, artifacts, history and report. A save is
`SaveSettings` (settings.json), `SaveSecrets` (alpaca.env, when it was given
credentials or told to clear them, and the reading of both for the answer), `ResetStatus` and
`UnlinkReport` (`invalidate()`); each may be its last step, because an error ends the
request (`SaveFails`) or the process dies (`Crash`). `ScanFails` and `ProbeFails` are the
errors of the other requests. `doubt` is history: it says whether the status or the
report may be of settings that are gone, and why. **Accounts** is
`dashboard/auth.py`, where `BootstrapCheck`/`BootstrapInsert` and
`RedeemRead`/`RedeemWrite` are two steps each, since Python's sqlite3 opens a
transaction at the first write.

**Parts.** Components that share no state are checked in one run: its module has a
variable `part`, chosen at the start, and a behaviour takes the steps of that
part only while the others stay as they began. Nothing is lost by this, since no
property relates two parts. Definitions introduced by a comment "Bug variant"
are the faults that show each property can fail; no specification uses them.

## 3. The runs

| Run (module) | What it asks | Bounds |
|---|---|---|
| `control` (MCControl) | *alerts*: can interleavings, retries, expiries and deaths send an alert twice or leave a row that lies; does the outbox implement its promise? *commands*: does a command take effect once, with a true and final answer, and does every call end? | 2 dispatchers, 2 alerts, 3 instants, 2 attempts; 2 planes, 1 run of 2 requests, 4 command ids, three of them with two contents |
| `runtime` (MCRuntime) | Does a committed step keep its word whatever crashed; is a failure explained by the tables; is the outside view RunLedger? | 3 runs that share a decision, one with a shorter time to live; 2 instants, ticks of 1-2 jobs, toggled while its audit is shorter than 3 |
| `capture` (MCCapture) | *cycles*, *caps*: is a cycle acquired once and sealed with all that was known, interrupted anywhere? *paper*: is a result explained and final, does every evaluation end? *feed*: does a call return all of its interval while it changes? *facts*: do histories show what was known and not superseded? | 2 processes, 2 cycles that overlap in a bar, 4 ids, room for 3 observations; in *caps* for 2, on pages of 1, and no seal that lacks an interval is researched; 2 evaluations of one decision, 3 attempts, 3 instants; 3 minutes on pages of 1, one late or corrected item; 4 versions, batches of 2, 2 collectors, 2 instants |
| `research` (MCResearch) | *store*, *replay*: are batches whole and replays exact and repeatable? *series*, *structure*: is what is said of a series consistent, causal and never repainted? *universe*: does a scan look ahead? | 2 processes, 2-3 ids, batches of at most 2, pages of 1 and 2; series of 6 bars of 6 kinds, structure of 7; 2 instruments, 7 kinds of observations, 4 of them, 2 moments, 2 windows |
| `desks` (MCDesks) | *gate*: can a limit be evaded? *desk*: does an alert rest on a valid verdict? *scan*: are the rows of a report, its order, ranks and lead borne out by the bars? | 2 instruments, 5 accounts, orders of -1, 1 and 2; 1 account and all orders of results; 2 symbols, one of which may miss bars, SPY listed or not, 5 bar times, 3 held-out results, charts of 4 bars |
| `paper_desk` (MCPaperDesk) | *orders*: is an approval one order; is the journal ever ahead? *plans*: are sizes, the gate and the cash floor consistent? | 2 requests, 2 orders, 1 approval in memory; 1 symbol at 2 prices, cash 7, 8 inputs, 2 eligible plans |
| `dashboard` (MCDashboard) | *accounts*: is a count exact and its overshoot bounded? *saves*, *scans*: do claims, reports and measurements hold under overlap, failure and death? | 2 requests, 3 accounts, 2 codes, clock 0..1; see the header of the module |
| `accounts_limit`, `failed_save`, `paper_not_active`, `plan_overspend`, `scan_twins` | Findings: violated | the smallest part that shows each |

Why the bounds are enough. Two dispatchers, planes, processes or requests make
every race on one row, and rows are all they share; a second alert, order or
cycle shows that rows do not disturb each other. Two attempts contain every kind
of retry, as nothing is kept of older ones but their events. Three instants put
an evaluation, an expiry and a retry before, at and after each other. Two cycles
with one bar in common contain the only way cycles touch, the shared store. With
periods of two, a series of six bars passes warm-up, has values that leave the window, a breakout, an open trade at its end and one after another trade,
and a held-out part; the bars include one that reaches both stop and target and
one at price zero. With spans of one, seven bars hold several confirmed swings, a
break, a sweep, a zone tested and broken. Two sizes of an order and their sum
are what splitting needs. One late item before the pages still to come is what
makes an offset repeat an item, and an item at the end of the interval is what an
inclusive provider adds. Two versions of a key, one of them outside of the filter,
are what tells the two orders of filtering apart. With periods of three, five bar
times hold a breakout, and a chart of four (120 in the code) drops a bar that the series
has. Two saves of one or two files each, one of which fails or dies, and one test and
scans that overlap with them are every reason for which an old claim can stay. The theorems of section 6 do not
depend on bounds.
`MaxAttempt`, `MaxEvents`, `MaxTime`, `MaxBars`, `MaxPlans`, `MaxVersion`, `MaxLate`,
`MaxBatch`, `Bounds` and the `MaxObservations` of UniverseScan are bounds of the
models; the other constants exist in the code.

`runtime`, `capture`, `research`, `desks` and `dashboard` are checked with
CHECK_DEADLOCK FALSE: runs become terminal, cycles and evaluations end, a series
or a clock reaches its bound, a case of the desk or a scan ends in its answer, and then
no call changes anything. `control` and `paper_desk` never stop.

## 4. Findings

* `paper_not_active`: after a POST whose answer is lost the journal says
  REJECTED_OR_UNKNOWN, which the desk explains as "Not active"
  (`live.py:557-558`), while the broker may be working on the order.
  `UnansweredForGood` shows that nothing corrects this: without a provider id no
  refresh and no cancellation reaches the row.
* `accounts_limit`: `redeem()` tests what it read before its transaction begins, so
  two requests redeem a code beyond its limit (`PHASE95_DESIGN.md:14`).
* `plan_overspend`: two plans sized from one sync spend the same cash and leave
  less than the minimum that the form asks for (`live.py:1735`, `index.html:10`).
* `failed_save`: a settings save that fails after it has replaced settings.json
  (`settings.py:330-337`) is never followed by `invalidate()`, as the handler calls it
  only when `save()` has returned (`server.py:561`). The old CONNECTED_READ_ONLY and the
  old report stay beside the new settings, although every save is to "require a fresh
  explicit connection test" (`live.py:626`). A full disk does it, and so does a key with a
  `\x0c` or `\u2028`, which `save()` takes and `public()` then refuses to read.
* `scan_twins`: a scan inserts an equivalent row while another one has dropped
  the unique index; afterwards every scan fails at creating it (`live.py:1225`).

Seen while modelling, without a run of their own: a row is READY although its
broad-market check is CAUTION (`live.py:1109`), which `DASHBOARD_GUIDE.md:47-49` excludes;
a refresh looks at ten known orders of the fifty newest rows, so that an older working
order is never refreshed again (`live.py:481`); two set-ups at once create two
MASTER_ADMIN accounts (`auth.py:170`); a bonus gives a subscription without end
an end, and so shortens it (`auth.py:430`); a second process that opens a new
store may take it for corrupted (`observation_store.py:246`), and succeeds when
it tries again; one low pivot closer to zero than half the zone width fails all
zones (`structure/engine.py:293`); the planner's gate sees an account without
positions, so its concentration is always that of a single holding and a SELL is
always vetoed (`live.py:1805`); a failed scan leaves its artifacts without a
report (`live.py:830`); the catalyst and event engines filter before they select
the last revision, so a filter can show a version that another has superseded,
where `PHASE16_DESIGN.md:27-28` selects the latest version known
(`catalysts/engine.py:47`; `HistoriesAreSound` says what does hold); an hourly feed
repeats the events it has told, and `append_many` then rejects the new ones with
them (`events/store.py:247`); one article that was updated after the end of its
interval fails the whole call for news (`news.py:160`). When else a status or a report of old
settings stays, after a save that overlapped with the test or the scan or died halfway, is
what `OldClaimsAreExplained` delimits (`live.py:691`).

## 5. Fairness

Only the program is fair, and only where a call that has begun runs without
waiting for anybody: `WF(Execute(p))` for each plane's `execute()`,
`WF(Step(p))` for each process inside of `evaluate()`, whose locks are held over
bounded work, and `WF(Step)` for a provider call, where every request ends by its
time-out at the latest. Commands, calls, crashes, failing stores, transports and the
broker are never fair. The liveness properties are `CallEnds` (every command and
run state has an answer) and, in `PastsAndCallsSettle`, `EvaluationEnds` and
`FetchEnds` (no combination of attempts, journal rows and clocks leaves an evaluation
without an end, and no sequence of pages and tokens a provider call). The outbox,
orders, captures and accounts have none: an abandoned claim, an unanswered order and
an unresolved cycle stay as they are, by design and as the properties say.

## 6. What is proved

TLAPS checks the theorems listed in `PROJECT.json` for every value of the constants: any
number of dispatchers, alerts, runs, plans, planes, commands, processes, cycles, bars,
requests, orders, symbols, accounts, codes and instants. They assume the
named assumptions of the component and nothing else: that times are naturals, a
schedule increases, a plan names existing decisions, a policy has integer limits, the sets
that are counted or summed are finite. An assumption is either an ASSUME of its module,
or a definition (`ControlAssumption`, `PlanAssumption`, `ReviewAssumption`, ...) that is the
hypothesis of the theorems and that the MC module ASSUMEs of its constants, so that TLC
evaluates it. In each module a first theorem gives an inductive invariant, checked
with TLC before it was proved where it says more than the run's properties; the others
follow from it. One lemma per action shows that a step keeps it.

* **AlertOutboxProofs.** A claim in progress is the current STARTED row, no two
  dispatchers hold one key, nothing has arrived before a send, rows and claims are
  true. The middle part makes it inductive: at-most-once alone would not survive two
  senders of one key. From it `DeliveredAtMostOnce`, `RowsAreTruthful`, `OutboxIsTrue`,
  `ClaimsStayCurrent`, `ResolvedStaysResolved`, `HistoryIsComplete` and
  `OutboxKeepsPromise` (refinement: a claim is Begin or Expire, a send is Arrive or a
  stutter, a finish is Settle).
* **RunLedgerProofs.** `RunsNeverGoBack`, and `AuditStaysExplained`: the audit replays to
  the row of its run. The invariant adds that an unregistered run is empty;
  without it a registration could turn a clock back. How an audit grows is shown by lemmas
  on appending the entries of one tick; they hold of the last entry and of neighbours,
  so that no induction over the audit is needed.
* **RuntimeProofs.** The journal and the outbox never take anything back, so what a tick
  has seen there still holds when it commits, or when another tick repeats its steps
  after a crash. The invariant says for every stage of a tick what it has seen of its
  steps so far, and the outbox's own invariant goes along. From it `StepsStayKept`,
  `AlertsStaySound`, `RunsStayExplained`, `RuntimeNeverGoesBack` and the two
  refinements: `RuntimeKeepsLedger` (a commit is the tick of RunLedger, every other step a
  stutter) and `RuntimeKeepsOutbox`.
* **ServerProofs**, control plane. A call in progress holds the unresolved row of its
  command alone, and how far it is says what the command has done to its run. `CommandsTakeEffectOnce`,
  `ResponsesAreHonest` (other planes may move the run on before its status is read) and
  `LedgerStaysFinal`, with the lemmas of RunLedgerProofs through INSTANCE.
* **CaptureProofs.** Only the holder of the guard moves the durable clock, so the time
  that a call carries from one commit to the next is still the last one used, and
  nothing is received behind a seal: `SealedEvidenceIsSound` and
  `CoordinatorKeepsPromise` (refinement of CaptureOnce), for any caps. For the paper
  evaluation, no attempt is claimed while the second transaction of another is in
  progress, so the attempt that stores its result is the latest, and attempts are in the
  order of their times: `ResultsHaveReasons`, `StoredStaysStored`.
* **CaptureProofs**, histories of facts. Each of the three keys ends with the identity of
  its fact, of which the table has one row, so the engines' orders are strict; then a
  history is a set of facts in the order of its key, and the contracts are facts about
  sets and their sizes. A version that none supersedes is superseded by none of those that
  pass a filter, but not the other way round, which is why the two orders of filtering
  differ: `SoundFacts`. Batches are dated when they are received, so what one adds
  later lies behind every cutoff that no batch on its way is dated by: `FinalPast`.
* **CaptureProofs**, feed. A page holds the first of the items that its token leaves, so
  none lies between a page and the next one; what is published late only moves
  others away from the front, so what lies before a token was before it already or has
  been fetched: `ExactFetches`, for any sizes and caps of pages.
* **DeskProofs**, gate and head of desk. `Total` folds over CHOOSE; that its result does not depend on the
  order in which elements are taken is proved first, from the well-foundedness of the
  naturals, and gives that a change of one value changes the total by as much. A held
  position is only traded at the mark it is valued at, so a filled proposal moves value
  between the cash and one position: `EquityConserved`. Two orders leave the account
  that the two in one order would leave, and a larger purchase leaves no more cash and
  no less exposure: `LimitsHold`. Verdicts and decisions are kept with their requests and
  are the answers to them, and a decision with an alert is one that nothing blocks:
  `AlertsEarned`.
* **DeskProofs**, orders and plans. An order that is fresh or approved has no row and was never sent;
  its approval is the only one and disappears in the step that writes its row; so a
  request before its POST is the only one for its order (`OneApprovalOneOrder`). An order at
  the broker stays there and a final status is final, so what a request learned before an
  await is still good when it writes it (`JournalStaysBehind`), and a row without an
  answer never gets one (`UnansweredStays`). For the planner, the size is the least of
  six quotients, each of which bounds what the gate computes of its own; an approval or
  an order that is alone leaves the floor when it fills (`PlansStaySafe`). The types of
  plans say that no sale is ever approved (`PlansTypeCorrect`).
* **ServerProofs**, dashboard. Nothing that is written to a count or to the redemptions comes from
  the stale row, and the primary key is tested inside of the transaction; so every step
  that adds a redeemer adds one (`CountsAreExact`). A request goes underway only below the
  limit, so that count plus requests underway stay below limit plus requests
  (`OvershootStaysBounded`, while nobody edits the limit). The id of a scan is no row's
  before it is recorded, and selected rows are earlier rows (`HistoryStaysSound`). Every
  request carries the present settings unless what it is going to write is in doubt: a
  save that replaces a file under a request says so, one that fails or dies leaves its
  doubt behind, and one that resets a file while nobody makes another clears it
  (`OldClaimsStayExplained`).
* **OrderProofs.** An enumeration gives every element of a finite set the
  place of its rank, and is the only bijection that keeps the order. With this,
  sorting, paging and selecting can be proved about without induction over a
  sequence: the elements below a bound come first, selections commute, and what a
  selection leaves out may be inserted anywhere.
* **ResearchProofs**, store and replays. A batch that waits to be appended has ids of its
  own and one time, so the table stays one of whole batches; the rows after the last
  one that a reader has are exactly the rows it lacks, so that any pages it is given
  add up; a cutoff that has passed while nobody held a receipt time stays settled.
  `AppendedStays`, `SoundReplays`, `ReplaysOnlyRead` (refinement of the store alone).
* **ResearchProofs**, structure. A bar more leaves what is derived from the bars before it,
  and a set of places that is extended behind its end keeps its first place or gets
  the new one. `ConsistentStructure`, `StructureAdvances`.
* **ResearchProofs**, series. A recursive function is a CHOOSE for the provers. One
  lemma shows by the well-foundedness of ranks that the fixed point exists when each
  step looks at earlier places only; induction over an interval, for sets of
  places, then gives what the recurrences compute: sums and averages of their
  window, bounds of the averages and of the strength index, and that the queue of
  candidates holds the extreme of the window. A longer series begins with the
  features of a shorter one (`NothingRepaints`, `FinalResearch`), the walk of the
  backtest is causal (`CausalTrades`), and features, evidence and regime agree,
  where a close breaks out exactly when it is beyond every bar of the window before it
  (`ConsistentResearch`). The last one assumes `RegimeAssumption`, that the return looks
  no further back than the breakouts do; with longer returns a breakout may well come
  with a negative return. The dashboard takes returns over one bar
  (`live.py:1466`). All of it assumes valid bars, as `MarketBar` makes sure of them.
* **ResearchProofs**, universe. The bars of a scan are those of a selection of the log, the
  bars until its moment are the first of them, and the research of these says the
  same, so neither later bars nor other sources nor what is learned later
  matter. `SoundScans`.
* **ResearchProofs**, reports. An active setup is the conclusion of the last bar's
  evidence, so by the series' theorems its bar broke out and the trend is its own; the
  stop is the extreme of the same bars. Rows are sorted by their keys, which are those of
  different places of the watchlist, so no two are equal, and a ready row comes before
  every row of a worse key: its rank is the number of ranked rows until it. `SoundReports`,
  for any watchlists, series with gaps and held-out results.

Only model-checked:

* Liveness: `CallEnds`, and `EvaluationEnds` and `FetchEnds` in `PastsAndCallsSettle`. Fairness and
  ENABLED are out of this prover's reach.
* What the violated runs show: their counterexamples are of the small instances.

## 7. Abstractions, and what is not modelled

Requests are valid and authorized where a module does not say otherwise. Digests,
JSON and schema validation are injective: an id is one request, and a corrupted
file, which the code refuses to read, is not modelled. Processes of one machine
share a wall clock that does not go back, except where the durable clock of the
capture guards against it. Failures inside a transaction are failures of the whole
transaction, as SQLite makes them. The decimal contexts of the engines are exact
fractions, a bar's time is its position, and provenance records with their
re-validation are left out. Open-ended windows of materialization are large ones.
Headlines, the session filter, the window arithmetic and the calibration table are
left out of the scans. `paper_plan` is one step. The denial log of the control
plane is written and never read.

Not modelled: the wire formats of Alpaca, news, Myfxbook and CSV files; snapshots
of the market provider; sessions and subscription status of the dashboard; the
hosted façade and its schema; value types; the static page.
The placeholders (`llm/`, `desks/hunter.py`, `data/sec.py`, ...) have no behaviour.

## 8. Plan

1. Sessions and subscription status in Accounts.
2. Calibration and the outcome returns of the journal, once a property needs them.
