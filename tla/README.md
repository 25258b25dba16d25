# Open Incident Bot: TLA+ specifications

The Open Incident Bot listens to WhatsApp groups in which the BI-FAST monitoring
of a bank announces that transfers to some other bank were *closed* or *opened*.
It remembers each bank's state, counts how often a bank flaps (OPEN to CLOSED),
raises an incident when it flaps too often, verifies a closure against metrics
and complaints, and resolves incidents when a bank has been stable. This
directory models that logic, checks it with TLC and proves most of what it checks
with TLAPS. Paths below are relative to the repository's `src/`.

## 1. The system

### Components

| component | source | state | operations |
|---|---|---|---|
| incident pipeline | `application/usecases/ProcessMonitoringEvent` with `domain/incident/IncidentPolicy.ts`, `application/services` | none of its own; each call of `execute` holds an event and what it has read | `execute` |
| repositories | `infrastructure/persistence/mysql`, `prisma/schema.prisma` | tables `monitoring_state`, `monitoring_events`, `incidents` | get, set; append, count, cleanup; hasOpen, create (an upsert), list, save |
| resolve job | `application/usecases/ResolveIncident`, `infrastructure/scheduler/IncidentResolveJob.ts` | the list a run works through | a run every minute |
| cleanup job | `application/usecases/CleanupMonitoringJob`, `infrastructure/scheduler/MonitoringEventCleanupJob.ts` | none | a DELETE every six hours |
| bootstrap | `main.ts` | none | empties and seeds the tables |
| WhatsApp ingress | `infrastructure/ws`, `infrastructure/consumers/whatsapp/WhatsappClientv2.ts` | the socket, the listeners, messages on their way | webhook, publish, start, the listener |
| parsers | `infrastructure/consumers/whatsapp/Message*Parser.ts` | none | report, complaint and command of a text |
| bank list | `config/bifastlist.ts` | the monitoring page | lookups, normalisation, rewriting of a row |
| message handler | `application/usecases/BiFastMessageHandler`, `infrastructure/consumers/whatsapp/BifastConsumer.ts` | none; each message is at one of its awaits | `handle` |
| close recovery | `infrastructure/scheduler/CloseRecoveryBiFastScheduler.ts`, `infrastructure/external/healthcheck` | a timer by bank; the time of the closure by bank | start, stop, a tick every minute |
| verification | `infrastructure/scheduler/BifastVerificationJob.ts`, `application/usecases/AdvancedBifastVerifier`, `domain/policy` | a timer and a session by bank | start, stop, a tick every minute |
| timeline | `infrastructure/persistence/memory/InMemoryIncidentStateMachine.ts`, `application/usecases/StateTrackerUseCase` | a state by bank, the last hour's states | transition, list |
| complaints | `infrastructure/persistence/memory/InMemoryWagComplaint.ts` | complaints by bank | record, hasRecent, hasTotal |
| metrics | `infrastructure/external/elastic` | samples by table and bank | fetch |
| Remedy | `infrastructure/external/remedy` | a token | openIncident (nothing calls it) |
| Naura | `infrastructure/external/naura` | none | post; errors are swallowed |
| QRIS polling, Redis stores | `infrastructure/consumers/api`, `infrastructure/persistence/redis` | - | not started, not constructed |

### Interaction

Node runs one thread. The code between two awaits that leave the process (in
practice the database: the page of the monitoring tools and the metrics are
objects in memory) is one step, and at each such await anything else may run:
another message, a tick of any interval, a run of a job. Everything meets in the
three tables and in six maps by bank. The webhook and the client that listens to
it are in one process and talk through a socket all the same, which delivers in
order while it is up and does not come back. No component waits for another:
`BifastConsumer` starts a handler for each message without waiting for the
last, `setInterval` does not wait for an async callback, and the recovery tick
does not await `execute`.

### What is hard

- `execute` reads the state, writes it after an await and appends after another;
  the lock that should exclude a second execution lets everybody in.
- The resolve job decides on a count and saves after an await.
- The two jobs of a bank are started and stopped by messages that overlap, and
  a tick that is at an await when its job is stopped goes on.
- Three keys for a bank: the pipeline uses its name, the verification its
  abbreviation, the complaints its abbreviation in capitals.
- A verification decides on two windows of samples and complaints that are
  filled, and partly cleaned, at other times than they are read.
- What a message says is decided by three parsers on what they find anywhere in
  it, and words of any chat rewrite the page the jobs look at.
- A listener awaits its answer to a ping, so messages overtake each other, and
  nothing catches its rejection.
- A restart empties the tables in several statements and loses all timers.
- Three periods (15 minutes, 40 minutes, the retention) that must be in the
  right order.

PROJECT.json lists each hazard at its line, with the properties that would catch
it, in the environment where it bites. A hazard of overlap or of failing calls
whose properties are promised without them only has none there, and a note of
what a run without them shows.

### What makes each component correct

- *Pipeline*: a closure counts once; an incident is raised exactly when enough
  closures are recent and none is open; it is announced once; the stored state
  is the last one heard.
- *Tables and cleanup*: what has been counted stays until nothing looks for it.
- *Resolve job*: it resolves only what has no recent closure, it does resolve
  it, and overlapping runs do each other no harm.
- *Close recovery*: a bank is watched exactly while it is closed; a bank the
  page shows open is opened.
- *Verification*: it ends; what it confirms has an incident; a bank has one
  open incident.
- *Timeline*: it shows what was decided, through allowed transitions, under
  every spelling of the bank, for an hour; a closed bank is never shown normal.
- *Ingress*: a message is handled once, in order, and a report that was published
  is executed in the end.
- *Parsers and handler*: a bank's row and its complaints change only for what
  somebody said of that bank in a chat that is listened to.
- *Complaints*: what the group says of a closed bank is heard by its
  verification while it is recent, and nothing else is.
- *Metrics*: what confirms an incident is a rise in the last 15 minutes; of the
  response times a bank's own are kept, the slowest of each minute.
- *Remedy*: a call uses a token that is valid. (Nothing calls it.)

## 2. Modules

```
IncidentTables                     tables and repository methods
 |- ProcessMonitoringEvent         execute, one step per await
 |- ResolveIncident                resolve job, cleanup job
 |    \- IncidentLifecycle         both, with messages, time, faults, restarts
 |         |- IncidentHistory      history variables, promises, refinement
 |         |    \- FlapDetector    abstract specification (INSTANCE)
 |         \- OpenIncidentBot      + message handler and the two jobs of a bank
 \- BifastJobs (with IncidentStateMachine, AdvancedBifastPolicy)
                                   close recovery, verification
BifastEvidence                     what a verification decides on
 |- WagComplaints (with Filtering) complaint branch and store
 |- BifastMetrics                  fetch and its analyses, as operators
 \- AdvancedBifastPolicy           the decision
Inbound                            from the webhook to the stores
 |- WhatsAppIngress                webhook, socket, client
 |    \- MessageParsers            the three parsers, as operators
 |         \- BankList             lookups and the page, as operators
 |- IncidentTimeline               the timelines' two stores
 |    |- BankList (with Filtering)
 |    \- IncidentStateMachine      the transitions
 \- WagComplaints
IncidentLifecycleProofs            theorems about IncidentLifecycle
 |- IncidentHistoryProofs          ... about IncidentHistory and FlapDetector
 \- OpenIncidentBotProofs          ... about OpenIncidentBot
InboundProofs                      theorems about the traffic of Inbound
 \- MessageHandlingProofs          ... about its handlers, rows and complaints
      \- TimelineProofs            ... about its timelines and its types
EvidenceProofs                     theorem about BifastEvidence
SequenceLemmas                     what Filter does to a sequence in order of
                                   time (for TimelineProofs, EvidenceProofs)
MCIncidentLifecycle, MCIncidentHistory, MCOpenIncidentBot, MCBifastEvidence,
MCInbound
```

**IncidentTables.** `monitoringState`, `monitoringEvents` and `incidents` are
the tables, restricted to source BIFAST. The key of an event is the id of its
message, the key of an incident its entity (the upsert keeps one row per source
and entity). An entity is a bank's name or the abbreviation its verification
files incidents under; `Banks` are the names. Time is the age of a row:
`occurred_at >= Date.now() - w` is `age <= w`. Ages stop growing one unit past
`Retention`, the longest period there is; from there on every comparison has the
same outcome. Each repository method is the set or the new table it computes.

**ProcessMonitoringEvent.** A slot is a call of `execute` in flight. `pc` says
which await it is at: `get` (line 50), `setOnly` and `setCounted` (the set at 60
or 94, for a transition that does not count and one that does), `append` (110),
`evaluate` (115), `hasOpen` (153), `create` (245), `notify` (246). `GetState`
takes the three decisions of lines 59 to 104 on the state as it was read.
`Append` refuses an id that is there, as the primary key does. Lines 140 to 148
are part of `Evaluate` and have no effect, since every event that gets there is
CLOSED. `Fail` is a database call that throws.

**ResolveIncident.** `pending` is what remains of a run's list, `saving` an
incident resolved in memory and not yet saved. `ResolveSave` updates the row by
its id and nothing else, as `save` does. `Cleanup` is the cleanup job.

**IncidentLifecycle.** Composes the two, lets messages arrive (any bank, either
status, ids that come again), time pass, calls fail and the process restart
after any number of the four statements of `bootstrap`. `Overlap` and `Faults`
choose the environment: with both TRUE it is the code as it is; with
`Overlap = FALSE` an execution or a run ends before the next begins. The runs
that need the latter show that what goes wrong goes wrong by interleaving only.
`Tick` is among what must wait then: with `Overlap = FALSE` no time passes inside
an execution or a run, though nothing in the code holds the clock. An execution
takes milliseconds and the periods are minutes, but what is shown there is shown
of a clock that stands still inside it, and the refinement needs that: a closure
that is counted at the edge of the window and leaves it before the incident is
created would raise one that `FlapDetector` does not allow. With
`Overlap = TRUE` time passes at any await.

**FlapDetector**, the abstract specification: no awaits, no jobs, no tables. A
bank's closures are remembered with their message and age; `Raise` opens an
incident of a closed bank with enough recent closures, `Resolve` closes one
whose bank had none for long enough.

**IncidentHistory** adds what an observer saw: the last message about each bank,
the closures counted since it was last open, the posts of its incident. No step
reads them. `Detector` maps the pipeline to `FlapDetector`: the state and the
open incidents are the tables', and the closures are the rows of
`monitoring_events` with the one an execution has yet to append, since the
abstract step happens when the state is written.

**Filtering** is JavaScript's `filter` on a sequence, with a set of values in the
place of the test. It is a fold: the provers cannot look into `SelectSeq`.

**IncidentStateMachine** translates the transition table of the timeline and the
tracker as operators. **BifastJobs** has the two jobs of a bank. Since a timer is
in its map exactly while it is alive, the maps are sets of banks (`recovering`,
`verifying`). A `check` is a verification tick past the page, at one of its three
awaits: the lookup of an open incident (after which it decides and tracks), the
creation, the post. The level of the metrics, the complaint and the trend it
decides on are any. `page` is the row of the monitoring page, with whether its
UPDATED TIME is after the closure.

**OpenIncidentBot** composes everything. `HandleClosed` and `ClosedLoaded` are
the two halves of `handle` for a CLOSED message, before and after it has the
bank's state; `HandleOpen` is the whole of it for an OPEN message. `Recover` and
`Verify` are ticks. An execution that nobody awaits (`detached`) cannot fail
alone: its rejection is unhandled and ends the process, which is `BotRestart`.

**AdvancedBifastPolicy** is `decide`, shared by the two modules that use it.
**BifastMetrics** is `fetch` and the two analyses as operators on sequences of
samples; averages, slopes and their ratio are compared by cross-multiplication,
so that nothing is rounded. `Analysed` is the window as the code takes it, from
the sample at the index of the last new one in the whole array. **WagComplaints**
keeps the store as times by key: `WriterKey` is what the handler files a
complaint under, `ReaderKey` what the verification asks with.

**BifastEvidence** puts the three together on a clock of minutes: complaints come
in while a bank is closed or open, a fetch finds any of the `Dashboards` (an
empty one among them), and a tick decides. (In the repository the
response is a recorded one, in the place of the request that is commented out;
the model lets it vary.) A tick is one step here and every interleaving is
`OpenIncidentBot`'s, whose ticks in turn decide on any evidence: what is
confirmed there is more than what the evidence allows.

A dashboard is a sequence of tables with a title (its kind, and the bank or
"all") and rows. `Fetch` picks the tables that belong to the bank and the rows
that do, `SlowestAmong` is `getMaxDataPerMinute`, and each row becomes a sample.
A row shows a time of day: `AsShown` puts the clock's into it, a day being
`DayLength` minutes, and `parseMinute` reads it as a time of today, as the code
does.

**BankList** is the list with one row of each kind, its lookups, each of them the
first row that passes a test, and the monitoring page, whose one row that
changes is taken out and appended. **MessageParsers** takes a text as a record of
what the parsers look for in it (which patterns occur, in the whole text and in
its source lines, which keys of the lookup and where, which direction pattern
matches) and defines what is decided on that: which of several patterns wins, which
entity is taken, who complains of whom. **WhatsAppIngress** is the way of a
message: `Webhook` publishes it, `wire` has what the socket still owes, `Deliver`
calls the listeners one after the other, and a listener that answers a ping is in
`pinging` until the answer is acknowledged (`PingSent`) or fails (`PingFails`),
which ends the process. **IncidentTimeline** keeps state and list of each bank
under the normalised name; `WithDecision` is the tracker, with the WAIT it asks
for before a confirmation.

**Inbound** composes them. `Emit` is the listener's last line up to the first
await of `handle`; `HandleCommand`, `HandleComplaint` and `HandleReport` are the
parts of `handle`, each running on into the next when it awaits nothing, and
`Replied`, `ComplaintRead`, `ClosedRead` and `Executed` are what runs when an
await comes back. `RowRead` is the database looking a row up: its answer waits in
the handler (`row`) until `ComplaintRead` or `ClosedRead` acts on it, and the row
may change in between. An execution is one step that sets the row, and the two
jobs act on the timelines: `OpenIncidentBot` has both in full, with calls that
fail. There a lookup and what the code does with the answer up to its next await
are one step (`GetState`, `ClosedLoaded`, the lookup of a verification tick).
The two compositions overlap in the jobs and in nothing else: the one starts from
a parsed message, the other ends where the pipeline begins.

## 3. Runs

Every passing run checks properties that a mutant of the mapped code breaks; the
mutants stand beside the definitions they change and PROJECT.json pairs them.

| run | environment | bounds | shows |
|---|---|---|---|
| `serial` | no overlap, no faults | 2 banks, 3 ids, threshold 2, periods 1, 2, 3 | `Announced`, `StateIsLatest`, `AntiSpam`, `DetectorSpec` (the refinement) |
| `overlap` | overlap, faults | 1 bank, 2 ids, 2 executions, 2 resolve runs, threshold 2, periods 1, 2, 2 | `TypeOK`, `CountedEventStored`, `ResolveTargetsExist`, `NoCountableEventLost`, `NoResolveDecisionDuringRaise` |
| `liveness` | overlap, no faults | 2 banks, 2 ids, threshold 1 | `QuietIncidentsResolve` |
| `bot_serial` | no overlap, no faults | 1 bank with two spellings, 2 ids, threshold 1 | `WatchFollowsState`, `ClosedIsShown`, `RecoveredByPage` |
| `bot_overlap` | overlap, no faults | 1 bank, 1 id, 2 handlers, 2 verification ticks | `ConfirmedHasIncident` |
| `bot_faults` | overlap, faults | 1 bank with one spelling, 1 id, threshold 1 | `BotTypeOK`, `VerificationStops` |
| `evidence` | complaints and fetches in any order | 1 bank in capitals, 4 dashboards (empty, of 2 tables or of 4), 2 codes, 3 complaints, 3 ticks, 4 minutes, windows 1 and 2, a day of 2 minutes | `HeardAsVoiced`, `ConfirmedIsSupported`, `SlowestAreKept` |
| `inbound` | every delivery, await, job and disconnection in any order | 5 banks, 7 payloads, 3 messages, 1 verification tick, 2 units of time, windows 0 | `InboundTypeOK`, `HandledOnce`, `HandledInOrder`, `HourIsShown`, `TimelineIsARun`, `RowsFollowReports`, `ComplaintsOfTheirBank`, `ReportsAreExecuted` |

Four runs end in a violation, each of one property that a comment, or the
README, of the repository states and the code does not keep:

| run | property | comment | what happens |
|---|---|---|---|
| `double_announcement` | `AnnouncedAtMostOnce` | ProcessMonitoringEvent.ts:161 | both of two executions get the lock and post the incident |
| `late_recovery` | `RecoveredAtOnce` | ProcessMonitoringEvent.ts:138 | no OPEN event reaches the branch; this one needs no overlap |
| `two_incidents` | `OneOpenIncidentPerBank` | ProcessMonitoringEvent.ts:151 | one incident by name, one by abbreviation; no overlap either |
| `unheard_complaint` | `ComplaintsAreHeard` | README.md:146 (to do) | the bank's abbreviation is not in capitals: complaints are filed under a key nobody asks for |

`StateIsLatest`, which `serial` shows, is a promise of executions that do not
overlap: the comment at ProcessMonitoringEvent.ts:92 says "Always update latest
state", and with `Overlap = TRUE` an OPEN that is read while a CLOSED is being
written is dropped as a duplicate and the row stays CLOSED. `AntiSpam` and
`DetectorSpec` are of the same kind: of two CLOSED messages that read the same
state both count. So are `WatchFollowsState`, `ClosedIsShown` and
`RecoveredByPage`, which failing calls break too, as they break
`ConfirmedHasIncident`.

Without overlap the clock stands still inside an execution, a run or a handler
(`Tick`, `BotTick`): `serial` and `bot_serial` show what they show on that
condition as well.

### Why the bounds are enough

- *Banks.* Rows of different banks share nothing but the ids of messages and
  the resolve job's list, so the runs that look at the list or at fairness
  between banks have two and the others one.
- *Ids.* A threshold of two needs two closures; a third id lets one come again
  after the incident is open.
- *Executions and runs.* A race is between two; a third adds no kind of order.
- *Periods.* They are as small as they can be and different where the order of
  the two windows and the retention matters; age 0 is inside every window.
- *Messages and restarts* are not bounded, but in `inbound`; ids are used again
  and again, and ages saturate, so the state spaces are finite without bounds on
  either.
- *Evidence.* Readings are 2 and 4, on either side of the critical 2.5, and 9
  for a code that must be ignored and for slow responses; a fetch brings one
  code, two, or nothing (an empty dashboard). `Horizon` is one minute past the
  longer window, `MetricWindow` and `ComplaintWindow` differ; two readings make
  a trend and a third can be too old for it (`MaxTicks`); two complaints count
  and a third finds one of them cleaned away (`MaxComplaints`). This model stops
  at its horizon, so deadlock is not checked there. A dashboard has the bank's
  Error Transfer table, with two codes and no response times, or with one code
  next to the success it must ignore, the tables of other kinds and banks, and
  the response times of two banks in two minutes, each of them once the slower;
  a day of two minutes puts midnight into every run.
- *Inbound.* Two messages can overtake each other and contradict each other, and
  a third finds what they left; there is one payload of each kind the handler
  tells apart (a report by code with its source line, one in free words, a
  complaint that mentions a number and a name and has a direction, a command, a
  ping that names a status, an event that is no message). A window of 0 and two
  units of time make an entry of the timeline, or a complaint, recent in the first
  and old in the second. One tick of the verification is enough for each decision
  to meet each state. The process may end there (a rejection, a socket that is
  down), so deadlock is not checked.
- *Threshold 1* in the bot's runs makes every closure an incident, which is the
  shortest way to meet the verification's; in `bot_overlap` one id and a
  threshold of two leave the verification alone with the incidents, so that two
  handlers and two ticks fit.

Symmetry is used in runs without liveness properties, and only on sets whose
members no definition tells apart.

### Fairness

`Fairness` and `BotFairness` say: an await that was begun comes back and its
continuation runs (weak fairness of every step of an execution, a resolve run or
a tick); `setInterval` fires again and again (of the start of a resolve run, of a
recovery and a verification tick); time passes. The ticks get strong fairness,
since with `Overlap = FALSE` other work may be in progress at any one moment; the
event loop runs a timer that is due all the same. Messages, page updates,
cleanup, failures and restarts owe nothing.

`Fairness` of `Inbound` says that what has arrived at a socket is handed to its
listener, and that the database answers. The socket, the answer to a ping or to a
command, the jobs and the clock owe nothing.

The liveness properties are conditional on the world being quiet in the end: no
message about the bank (`Heard`, `ClosingHeard`), for the bot a page that stays as
it is, and for `ReportsAreExecuted` a socket that stays up and no rejection.

## 4. Proofs

The theorems hold for every value of the constants that satisfies the
assumptions of the modules (and, of a theorem, its hypotheses); the runs show the
same properties on small instances.

| module, theorem | property | hypotheses |
|---|---|---|
| `IncidentLifecycleProofs` | | |
| `TypeCorrect` | `TypeOK` | |
| `CountedEventsAreStored` | `CountedEventStored` | |
| `CountableEventsAreKept` | `NoCountableEventLost` | |
| `DecisionsSeeRaises` | `NoResolveDecisionDuringRaise` | |
| `ResolveTargetsAlwaysExist` | `ResolveTargetsExist` | |
| `IncidentHistoryProofs` | | |
| `HistoryOnlyWatches` | (`HSpec => Spec`: its behaviours are the pipeline's) | |
| `StateAlwaysLatest` | `StateIsLatest` | `~Overlap` |
| `ClosedOnceCountedOnce` | `AntiSpam` | `~Overlap` |
| `AnnouncedOnce` | `Announced` | `~Overlap` |
| `PipelineImplementsDetector` | `DetectorSpec` (the refinement) | `~Overlap` |
| `OpenIncidentBotProofs` | | |
| `BotTypeCorrect` | `BotTypeOK` | |
| `BotCountsStoredEvents` | `CountedEventStored` | |
| `BotResolveTargetsExist` | `ResolveTargetsExist` | |
| `BotKeepsCountableEvents` | `NoCountableEventLost` | |
| `BotDecisionsSeeRaises` | `NoResolveDecisionDuringRaise` | |
| `ConfirmedBanksHaveIncidents` | `ConfirmedHasIncident` | `~Faults` |
| `ClosedBanksAreWatched` | `WatchFollowsState` | `~Overlap`, `~Faults` |
| `ClosedBanksAreShown` | `ClosedIsShown` | `~Overlap`, `~Faults` |
| `InboundProofs` | | |
| `MessagesHandledOnce` | `HandledOnce` | |
| `MessagesHandledInOrder` | `HandledInOrder` | |
| `MessageHandlingProofs` | | |
| `RowsChangeAsReported` | `RowsFollowReports` | `ReportsAreMeant` |
| `ComplaintsAreFiledRight` | `ComplaintsOfTheirBank` | `ComplaintsAreMeant`, `ReportsAreMeant`, `OwnKeys`, `BankNames \subseteq Banks` |
| `TimelineProofs` | | |
| `LastHourIsShown` | `HourIsShown` | |
| `TimelinesAreRuns` | `TimelineIsARun` | |
| `InboundTypeCorrect` | `InboundTypeOK` | |
| `EvidenceProofs` | | |
| `StoreAnswersTheGroup` | `HeardAsVoiced` | `OwnWriterKeys` |
| `OnlyComplaintsConfirm` | (the half of `ConfirmedIsSupported` about complaints) | `OwnWriterKeys`, `CapitalsStay` |

### The hypotheses

`~Overlap` and `~Faults` are the environments in which the properties are
promised; the runs that show them (`serial`, `bot_serial`, `bot_overlap`) have the
same, and section 3 says what goes wrong without. `~Overlap` includes that the
clock stands still inside an execution or a run (`Tick`), on which
`PipelineImplementsDetector` relies. `ConfirmedBanksHaveIncidents`
needs no `~Overlap`: handlers, ticks and executions interleave as they please.
`IncidentHistory` has neither failing calls nor restarts, which its promises say
nothing of (but it may start on any tables that `bootstrap` leaves).
`ClosedBanksAreWatched` needs both, and says what the code owes to messages that
come one after the other.

`ReportsAreMeant` and `ComplaintsAreMeant` say of each payload that the parsers
find in it what a reader takes it to mean. They are about constants only (the
texts) and are what the code cannot promise: what the theorems add is that nothing
after the parsers, in any order of any number of handlers, turns a report of one
bank into a row of another, or files a complaint for a bank nobody complained of
or nobody reported closed. The samples of `inbound` satisfy them, and the mutants of both
properties are mutants of the parsers.

`OwnKeys` and `OwnWriterKeys` say that two banks do not share the key complaints
are filed under, which is the abbreviation in capitals. The 110 abbreviations of
`config/bifastlist.ts` are distinct in capitals too. `CapitalsStay` says of
`toUpperCase` that it changes nothing in what is in capitals already.

### The arguments

*Counted closures.* The argument of `DecisionsSeeRaises` is the one worth knowing.
An execution past its append has a row of its own in the table: an append writes
it, another append of the same id is refused, the clock ages row and event alike,
the cleanup deletes only rows past the retention, and a restart forgets the
execution too. (That is `CountedEventStored`; `EventsWriters` and `CountedWriters`
list who writes what.) The resolve window is not longer than the retention, so if
the event is within it the row is there and is counted, the count is not zero, and
the resolve job does not decide to resolve. The assumption `RetentionAssumption`
carries the weight: it is what the shipped retention of 2.4 hours still satisfies,
wrong as it is.

*The observers* (`HInv`). None of the three promises of `IncidentHistory` is
inductive. With one thing at a time (`OneAtATime`), what an execution read before
an await is still so when it acts on it (`ExecutionUpToDate`, a conjunct for each
await), the same for a run of the resolve job (`DecisionUpToDate`), and what the
observers saw differs from the tables by what the one execution in flight has yet
to write (`StateFollows`, `ClosuresFollow`, `PostsFollow`).

*The refinement.* A step maps to the abstract step at the await where it takes
effect: setting the row is `Observe`, creating is `Raise`, saving is
`Resolve`; everything else maps to a stutter. The closures of the abstract state
are the stored rows and the one an execution has yet to append (`Flaps`), so the
append itself changes nothing there unless its id is stored already, in which case
the closure was never one (`Noticed`). `HInv` gives what the abstract guards need:
at the creation the threshold is still exceeded and the bank still closed, at the
save the window still empty.

*The bot.* Each step of `OpenIncidentBot` is a step of the pipeline, a creation
under the verification's spelling, or leaves the tables alone (`PipelineStep`), so
that the lemmas about the pipeline carry over with one more case.
`ConfirmedHasIncident` is inductive with `BotTypeOK`: the tick that tracks
CONFIRMED_INCIDENT goes on to the creation, and no other step sets that state or
removes a row, without failing calls. `WatchInv` strengthens the two others: a
bank counts as closed (`Closing`) from the moment its message is in hand, not from
when its row says so, and is watched exactly then.

*The way of a message* (`TrafficInv`). That the message at the head of the wire was
not handled before follows from where it is, not from the list of those handled:
there is one listener (the client starts once), what is on the wire is numbered in
the order it was accepted and later than all that was handled or waits for its
answer (`WireInOrder`, `WireIsLater`), and a listener that waits has a ping of its
own, which is not in the list (`PingsWait`).

*The handlers* (`HandlingInv`). A handler at an await holds a message that came
through the consumer's filter, and is at that await for what was found in its text
(`HandlersHaveReason`): it may resume long after, when rows, jobs and timelines are
others. So a complaint may be filed of a bank that has opened since its row was
looked up, and what holds is what was said: a row that says CLOSED was reported
closed (`ClosedRowsWereSaid`), and so was one that a handler was given, whatever
became of it (`ClosedAnswersWereSaid`), because what was said stays said.

*The timelines* (`ShownInv`). A list is cleaned only when it grows, of what is
older than the window, and is never looked at when time passes. So the invariant
is not that the list is the last hour, but that it is the history of the bank but
for a beginning that is older (`Tells`), and that each entry of the history was
allowed after the one before and is not earlier (`Lives`). The two stores are
written under the name and under the abbreviation: `KeyOfSpelling` has that both
normalise to one key for every bank of the list, which uses the list's rows and
the order of the lookups. `TypesInv` adds the page (`RowsDiffer`) to it.

*The complaints* (`EvidenceInv`). The same, for the store that is cleaned when a
complaint is recorded and read through the window later: it is what was voiced but
for a beginning older than the window (`Keeps`), and a window of such a rest is
the window of the whole (`WindowOfKept`). The verification may ask under another
spelling than the one complaints are filed under. Such a key was never written
(`NothingElseWritten`), so the answer is empty and the bank is not confirmed: the
store errs to the side of silence only.

*Sequences.* `SequenceLemmas` has what `Filter` does, from its definition as a fold:
one element at a time (`FilterUnfolds`), and on a sequence whose members in the set
are its end, dropping the beginning (`FilterDrops`, `FilterKeeps`; `Dropped`).
Induction over the length is by the least counterexample (`Induction`, on sets of
naturals), since the library's induction theorems take an operator.

Each inductive invariant was checked by TLC on the instance of its run before it
was proved.

### The assumptions of the modules

The names are among the entities; there are finitely many message ids; the
threshold is positive; the three periods are naturals and the two windows not
longer than the retention; the placeholders are distinct from what they stand in
for; `Overlap` and `Faults` are Booleans; windows and bounds are naturals; the
complaint chats are among those listened to.

### Only model-checked

- `QuietIncidentsResolve`, `RecoveredByPage`, `VerificationStops` and
  `ReportsAreExecuted` are liveness: fairness and ENABLED are outside the prover.
- `ConfirmedIsSupported`: its half about the complaints is proved
  (`OnlyComplaintsConfirm`); the other is about averages and a regression over
  sequences of any length, sums that the provers have no theory of.
- `SlowestAreKept`: the maximum by minute over rows of any number, by a fold over
  sets.

## 5. Not modelled, and why

- *What is found in a text* (`MessageParser.ts`, `MessageComplaintParser.ts`): the
  regular expressions and the language library are given by the record a text is;
  the reason of a report and the quotation of a complaint are wording, and nothing
  calls `detectGangguanWithEntities`.
- *The dashboard itself*: the request to it is commented out
  (`ElasticMetricClient.ts:280`) and a recorded answer stands in its place; the
  models let it vary. Nothing calls `analyzeTrend`.
- *The list of banks row by row*: `BankList` has one row of each kind. Where a
  row is at odds with the other data (a number or a title that names nobody of the
  list) the hazards of PROJECT.json say so.
- *The shipped retention* (`24 * 60 * 60 * 100` in `consumers/index.ts`, 2.4 hours
  where a comment in `MonitoringEventCleanupJob.ts` says 24): the models take any
  retention that is no shorter than the two windows, as the shipped one is.
- *Naura*: a post cannot fail because its client swallows errors; what it says is
  formatting.
- *`WhatsappClient.ts`, `WuzApiClient.ts`, `MessageBus.ts`, `wa.ts`*: earlier
  clients and an experiment that nothing constructs.
- *Remedy, QRIS polling*: constructed, and called by nothing. *Redis stores*: not
  constructed. A model of them would be of code that does not run.
- *HTTP server, logger, utilities*: no state that a decision reads.
- *Columns no decision reads*: reasons, numbers, timestamps of incidents.

## 6. Plan

Done: the core (`IncidentTables` to `IncidentHistory`, the abstract
specification), the composition with the message handler and the jobs, the
evidence of the verification with the extraction of samples, the way of a message
from the webhook to the stores, the timelines, and theorems for every safety
property but two.

Next, in this order:

1. Proofs: what a fetch keeps (`SlowestAreKept`), with lemmas about the folds of
   `BifastMetrics`.
2. `RemedyTokens`, should anything come to call it: token cache and the retry after
   a 401 with two callers.
3. The stores of the Redis variant, should they be constructed, with a lock that
   excludes: `AnnouncedAtMostOnce` under overlap, for contrast.
