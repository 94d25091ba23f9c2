# Verification of flight-search-intelligence

TLA+ models of the agent loop, of the interactive session that runs the same loop in
one process, of the route searches (by one hub, by several, over dates, both ways), of
the dispatch that runs them, of the airport cache and of the shared rate limiter of
flight-search-intelligence, the TLC runs that check them on small
instances, and TLAPS proofs of their safety properties for every size. Paths are those of the
repository.

Contents: [the system](#the-system), [the modules](#the-modules),
[the runs](#the-runs), [where code and comments disagree](#where-code-and-comments-disagree),
[fairness](#fairness), [what is proved](#what-is-proved),
[what is only model-checked](#what-is-only-model-checked),
[what is not modelled](#what-is-not-modelled), [plan](#plan).

## The system

A traveler writes an email in plain words. A language model turns it into a
*spec*; a loop of decisions and searches then runs until there is a question to
ask or a reply to send. Three programs carry the loop. They share a SQLite
database and talk through two Kafka topics whose messages are bare ids.

```
  mail --> email-intake --agent-decisions--> agent-worker --search-tasks--> collector
                 |                             ^     |                        |   |
                 |                             |     +------ one row ---------+   |
                 +------- agent_requests, agent_tasks (SQLite) ---------------+   |
                                               +--------- agent-decisions --------+
```

| Component | State it keeps | Operations | What makes it hard | What makes it correct |
|---|---|---|---|---|
| agent-worker (`cmd/agent-worker`) | its position in agent-decisions | fetch, decide, publish the task, commit | an error leaves the message uncommitted and the loop takes the next one; a crash between two writes | a decision is made once per trigger that needs one; a task is published once |
| reconciler (`internal/agents/reconcile.go`) | rows of `agent_requests`, `agent_tasks` | `Decide`, `RecordTaskResult` | read, slow model call, write back; the write covers every column | searches capped; results land in their round; nothing is left waiting |
| spec forming, decision guards (`formspec.go`, `decide.go`, `spec.go`) | none | `FormSpec`, `DecideNextAction` and its overrides | the model may answer anything and leave anything out; what it left out is filled in from older rounds | no early stop for a complete spec; what is searched makes sense |
| collector worker (`cmd/collector/worker.go`, `dispatch.RunTask`) | its position in search-tasks, a goroutine per message | fetch, run, record, publish, commit | goroutines commit offsets out of order; commits regardless of the outcome | every dispatched search reports back once |
| email-intake (`cmd/email-intake`) | a process per mail | `-start`, `-signal` | holds the row it read across a model call | a mail that answers a question wakes its request and is in the next answer |
| interactive session (`email-intake -interactive`) | one request, the line being folded, the decision being stored | `runREPL`, `converse`, `driveToNextStop` | any model or database call may fail, between any two writes; the next line goes on from there | it comes back to its prompt; what it shows is for the last line |
| booking link (`booking_link.go`) | none | `bookingLink` | which round it is for | it has the dates that were priced |
| topics (`internal/kafka`) | logs and offsets, in the broker | `Send`, `Next`, the commit closure | redelivery after a restart; a commit covers everything before it | ids never run ahead of rows |
| rate limiter (`internal/ratelimit`) | recorded calls per window, a mutex | `Wait` | several windows at once; timers outside the mutex | no window exceeded; no endless wait |
| route search (`internal/routesearch`: hubs, n-hop, dates, round trips) | a plan, a query budget, a frontier | `Search`, `searchNHop`, `SearchFlexible`, `SearchDateRange`, `SearchRoundTrip` | pruning by bounds that must be admissible; truncation by budgets | the cheapest feasible itinerary is found and every candidate accounted for |
| offers cache and price table (`offers.go`, `internal/catalog/catalog.go`) | `flight_offers_cache`, `flight_prices` | lookup, save, lower bound | keys that leave out what was asked for | an answer fits its question; a bound never overestimates |
| dispatch fan-out (`internal/dispatch`) | the running best | `RunTask`, `runSearch` and its four shapes | partial failure of candidate pairs | the best over all pairs that worked |
| airport catalog (`internal/openflights`) | two cached files, a graph | download, load, radius lookup | processes start side by side and download into the same files; a download breaks off | a file at rest is whole |
| Google Flights client, command lines, trace files, environment | none that outlives a call | encoding, parsing, printing | none a model reaches | out of scope |

The list of hazards, each with its line and the properties that would catch it,
is in `PROJECT.json`.

## The modules

| Module | What it is |
|---|---|
| `Topic` | One Kafka topic read by one consumer group, as a value: a log, a fetched and a committed offset per partition. |
| `Rounds` | The round history of a request and `DecideNextAction`: pure operators. |
| `AgentLoop` | The three programs over the two tables and two topics. EXTENDS the two above. |
| `AgentLoopProperties` | What is claimed of `AgentLoop`, and its refinement mapping. |
| `RequestLifecycle` | The abstract specification: one request's status, searches and reports, without database, topics or processes. |
| `MCAgentLoop` | Instances for TLC. |
| `AgentLoopProofs` | Lemmas on histories, type correctness, what holds under every fault. |
| `LifecycleProofs` | The refinement of `RequestLifecycle`, where results go, what answers cover, that nobody is stranded. EXTENDS `AgentLoopProofs`. |
| `AirportCatalog` | Processes that load the two cached files, down to their pieces. |
| `Decisions` | `FormSpec`, `DecideNextAction`, the kinds of search and `bookingLink`, field by field: pure operators. |
| `InteractiveSession` | One session of `-interactive` from its prompt to its answer. EXTENDS the two above. |
| `SessionProperties` | What the session promises, and its refinement mapping to `RequestLifecycle`. |
| `MCSession` | Messages and omissions for TLC. |
| `SessionProofs` | The catalog's and the session's theorems. |
| `RateLimit`, `MCRateLimit`, `RateLimitProofs` | The limiter with its properties, the instance, the theorems. |
| `Pareto` | `paretoInsert` and dominance: pure operators. |
| `Offers`, `OffersProofs` | What every search of a collector shares: the offers cache, the price table, the lower bounds read from it, Google Flights (external); lemmas on them. |
| `HubSearch` | Concurrent `Search` runs over one offers cache and one price table. EXTENDS `Pareto` and `Offers`. |
| `HubSearchProperties` | What a search promises of its results, its audit trail and its budget; what the cheapest itinerary is. |
| `MCHubSearch` | Airports, timetables and inputs for TLC. |
| `HubSearchProofs` | Types, Pareto set, audit trail and budget; that branch and bound finds the cheapest. |
| `TripSearch` | `SearchFlexible`, `SearchDateRange` and `SearchRoundTrip`, around the hub search they run. EXTENDS `HubSearch`. |
| `Dispatch` | Concurrent runs of `runSearch`: a request over all its pairs of airports. EXTENDS `TripSearch`. |
| `DispatchProperties` | What a request is promised of its answer, and what it may spend. |
| `MCDispatch` | Cities, timetables and requests for TLC. |
| `DispatchProofs` | All that is claimed of `Dispatch`. EXTENDS `HubSearchProofs`. |
| `NHopSearch` | Concurrent `searchNHop` runs. EXTENDS `Pareto` and `Offers`. |
| `NHopProperties` | What the n-hop search promises of its labels, results, audit trail and budget. |
| `MCNHopSearch` | Airports, countries, timetables and inputs for TLC. |
| `NHopProofs` | All that is claimed of the n-hop search. |

### AgentLoop and the code

Each handler is cut at its database writes and its Kafka calls, because between
two of those another process may run or this one may fail. What a handler has
read stays in its job record (`worker`, `collector[s]`, `intake[i]`) until it is
written back, which is how stale writes come about.

| State | Code |
|---|---|
| `requests[r]` | a row of `agent_requests`: `status`, `spec_json`, `rounds_json`, `email_body` |
| `tasks` | the rows of `agent_tasks` with their status, keyed by request and round as in `<request>-round-<n>` |
| `decisions`, `searches` | the topics `agent-decisions` and `search-tasks` with the offsets of their groups |
| `worker` | the locals of one turn of agent-worker's loop |
| `collector[s]` | one goroutine of `runWorker`; `Slot` is the semaphore |
| `intake[i]` | one email-intake process |

| Action | Code |
|---|---|
| `WorkerTake` | `Consumer.Next`, then `LoadAgentRequest` and the status guard of `Decide` |
| `WorkerAsk`, `WorkerFinalize` | the single `SaveAgentRequestState` of those branches |
| `WorkerCreateTask`, `WorkerPark`, `WorkerPublish` | `CreateAgentTask`, `SaveAgentRequestState`, `Producer.Send`: three steps, any of which may be the last before a crash |
| `WorkerTaskConflict` | the primary key refusing a second `INSERT` of one task |
| `CollectorTake`, `Run`, `Record`, `Publish`, `Commit` | `runWorker`'s goroutine through `RunTask` and `RecordTaskResult` |
| `IntakeStart`, `Read`, `Fold`, `Wake`, `Publish` | `createRequest` and `applyFollowUp` |
| `WorkerError`, `WorkerCrash`, `CollectorError`, `CollectorCrash`, `IntakeStops` | an error return and a stop of each program |

Choices a reader should know of:

- *A spec is the set of mails folded into it.* What a mail says matters in one
  way: the mails of `Completing` leave no required field blank. The language model
  is an arbitrary choice among the actions the Go code around it lets through. A
  dispatch may always become a question: the fill puts values into blanks only, so
  arguments that contradict the spec can lack a field the spec has.
- *`email` is the set of mails an answer was written from*, which is what
  `AnswerCoversReplies` compares with the spec.
- *`SaveAgentTaskResult` and the read that follows it in `RecordTaskResult` are one
  step* (`CollectorRun`): nobody else reads a task's status, so the write commutes
  with every other process's steps. "done" stands for "failed" too, which
  `RecordTaskResult` treats as a result without offers.
- *A mail is eager or it answers.* Mails outside `EagerMail` arrive only when the
  request is parked, as a reply to what it was told; eager ones arrive any time.
- *The broker and the kafka-go reader are external.* `Next` runs on ahead of the
  commits, a commit overwrites the group's offset, a restart reads on from it.
- The time-ordered trace file that finalizing writes is best effort and changes no
  table; it is left out.

### InteractiveSession and the code

`-interactive` runs the loop of the three programs in one process: it decides, runs the
search and records its result itself, with no topic in between, and prints what the
other mode mails. Where `AgentLoop` looks at the processes and reduces a spec to the
mails in it, this model looks at the fields: what the language model leaves out, what
Go then repairs, and what a dispatch is filled in from.

| State | Code |
|---|---|
| `row` | the request's row of `agent_requests`; `email` is the spec a text was written from and its link |
| `tasks` | its rows of `agent_tasks`, by round, each with its request and its result |
| `repl` | the locals of `converse`, `createRequest`, `applyFollowUp`, `Decide` and `RunTask`, whichever is running |
| `files` | the cache directory: for each file that exists, the pieces written so far |
| `loader` | each process's place in `Load` and `ensureCached` |

| Action | Code |
|---|---|
| `Loaded`, `Type`, `Quit`, `Show`, `UnexpectedStatus` | `runREPL` and the switch of `converse` |
| `CreateRequest`; `ApplyFollowUp`, `Reawaken` | `createRequest`; the two writes of `applyFollowUp` |
| `NotDue`, `Decide` (`AskUser`, `Finalize`, `CreateTask`, `TaskConflict`), `ParkDispatched` | `Decide` under `driveToNextStop` |
| `RunTask`, `RecordTaskResult` | `RunTask` up to `SaveAgentTaskResult`, and `RecordTaskResult` |
| `StepFails` | an error of the model or of the database before the write of a step |
| `Stat`, `Get`, `Create`, `Write`, `Fails`, `StartAgain` | `ensureCached`, an error of it, and the next start of the program |

Choices a reader should know of:

- *Some fields are one.* `route` is origin and destination, `length` the range of trip
  lengths, `maxHours` the five limits that have a default, `maxPrice` those whose zero
  means something. The bounds of the whole trip and the notes are left out.
- *The language model copies or leaves out.* A spec is the one before with what was said
  put into it, less the fields of one set of `Omission`; the arguments of a dispatch are
  those of the spec, less one set, and after the first round with another limit. Values
  it makes up are not modelled; windows told the wrong way round are, as the traveler's.
  `SearchesMakeSense` is about such copies: nothing in the code checks dates that the
  model makes up when it dispatches.
- *The steps are cut at the database writes.* What runs in between has no other reader:
  the request is the session's own. The session is not restarted: a new process starts a
  new request.
- *A search brings back any dates it may price*, or nothing; a failed one counts as
  nothing found, as in `RunTask`. How the search gets there is `Dispatch`.
- *A link leads between the ends of a path*, which are airports its route resolves to
  (`Ends`). Its way out without a link, for an offer whose paths are too short, is never
  taken: `combineRoundTrip` gives a bundled fare the path of its pair.
- *Of the catalog* the pieces of the files are modelled, not what is in them. Nothing
  locks a file, and a file that exists is taken for a whole one.

### RateLimit and the code

`tryAcquire` holds the mutex from its reading of the clock to its last append, so
it is one step; waiting for the timer is between steps. The code keeps a slice per
window, appends the same time to each and drops only from the front; the model keeps
the one list `admitted` and how much of its front each window has dropped
(`pruned`). `DistinctReadings` says whether two readings of the clock can be equal. The
run and the theorem take a clock that never reads the same twice: `pruneBefore` keeps
a call exactly `Per` old, `tryAcquire` finds a delay of 0 for it and admits
(`ratelimit.go:84`), and with `DistinctReadings = FALSE` TLC finds `WindowsHold`
violated by a second call at that very reading.

### HubSearch and the code

A collector runs one goroutine per task, so several searches are under way over one
database. A search is cut where it waits or sleeps and between any two statements it
has the database run, so that another search may record a price there: a scrape that
returns is cached (`ScrapeReturns`), its prices are recorded, and it is charged to the
budget and acted on (`PricesRecorded`); each bound is a `SELECT` of its own. What reads
no row in between is one step.

| State | Code |
|---|---|
| `search[s]` | the locals of one `Search` (`queriesUsed`, `best`, `survivors`, the loop's position, leg 1) and its `Plan` (`FinalResult` is `results`, `CandidatesRanked` is `audit`) |
| `cache` | the newest fresh row of `flight_offers_cache` for each route, date and number of bags |
| `prices` | the least price in `flight_prices` for each route and date, which is all that `CachedPriceCents` reads |
| `market` | what Google Flights offers for each query; external, chosen at the start |

| Action | Code |
|---|---|
| `CacheHit`, `CacheMiss`, `ScrapeReturns`, `PricesRecorded`, `ScrapeFails` | `searchOffers` at each of the three places `Search` calls it |
| `BaselineFound`, `BaselineInfeasible` | step 0 of `Search` |
| `Leg1Found`, `Leg1Infeasible`, `DecideLeg2`, `Leg2Found`, `Leg2Infeasible` | the body of the loop, with pruning, the second budget check and `paretoInsert` |
| `BoundOfLeg1`, `BoundOfLeg2`, `RankHubs` | `ResolveCandidates`: the bounds of hub after hub, read leg by leg, and their ranking |
| `FrontierCutoff`, `BudgetExhausted`, `TryHub`, `Finish` | the head of the loop and its end, with `markRemaining` |
| `CacheExpires` | a row that outlives `offersCacheFreshness` |

Choices a reader should know of:

- *Times are instants*, which is what `timeutil.go` makes of local times. `Day`
  divides them into dates, so that a first leg may land on the next one.
- *`Hubs` is what the filters leave*: the detour and cruise-speed prunes and the
  country lists look only at the graph and the input. `Prior` is distance times
  `PricePerMile`. That flights cost no less is a hypothesis of `BestAmongAlike`
  (in `AlikeFlights`), not of the model.
- *Of equal prices any offer may win* and equal bounds rank in any order: the code
  takes Google's order and an unstable sort.
- *The newest row of the cache wins.* Rows of one key written in the same second,
  which the query may return in either order, are not told apart.
- *A cancelled context* makes the remaining scrapes fail, which `ScrapeFails` covers.

### TripSearch, Dispatch and the code

`runSearch` turns the airports of a request into pairs and searches them one after
another. The search of a pair has up to two phases: phase A prices pairs of dates one
query each, phase B searches the hubs on the cheapest dates; a round trip asks for the
bundled fare first and then searches there and back. Every one of these searches reads
and writes the cache and the price table of `Offers`, next to the other tasks of the
collector.

| State | Code |
|---|---|
| `task[s]` | the locals of one `runSearch`: the pairs, the position, the results or best plan so far, whether a pair failed |
| `trip[s]` | the search of the current pair: its plan and its locals; `Idle` between pairs |
| `search[s]` | the hub search that trip is running, as in `HubSearch` |

| Action | Code |
|---|---|
| `Resolve`, `ResolveFails` | `resolveAirports` for both ends |
| `TryPair`, `PairFailed`, `PairDone`, `TaskEnds` | the loops over candidate pairs and what follows them |
| `TripCacheHit`, `TripCacheMiss`, `TripScrapeReturns`, `TripPricesRecorded`, `TripScrapeFails` | `searchOffers` in `scanPair` and for the bundled fare |
| `ChooseDates` | the end of phase A |
| `Anchor`, `WayThereFound`, `WayBackFound`, `OneWayFound` | phase B; `combineRoundTrip` |
| `Searches` | the steps of the hub search |

Choices a reader should know of:

- *Dates are numbers*, 0 is the empty string. A range is given by its ends and its
  step; that no date lies in it is an error of the code, and like phase A finding
  nothing it fails the pair.
- *What only the command line sets* (a scan without phase B, excluded weekdays, a
  window around a date, more than one stop) is left out: dispatch sets none of it.
- *The graph of airports is external*: `Near` is what the radius lookup finds,
  `OutDegree` how many routes leave an airport. Of equally connected airports any may
  come first.
- *Scrapes are counted twice*: `queries` as phase A counts them against its budget,
  `scrapes` all of them, which is what `SpendsAsAnnounced` is about. `maxQueriesForDirection`,
  `hubEstimate` is what the command line announces before it starts; dispatch announces
  nothing, but its searches run the same plan, and the property holds them to the same
  number. `estimateDateCombinations` is the count of dates the deciding model is shown
  (`decide.go:219`); the command line's own (`flexible.go`, `EstimatedCombinations`)
  knows no range of returns. `QueriesUsed` as reported decides nothing and is left out.
- *Until its first trip starts a search, `search[s]` is one that has not begun.* It
  takes no step before that.

### NHopSearch and the code

`Search` hands over to `searchNHop` when more than one stop is asked for. It keeps
labels (partial itineraries) in a Pareto front per airport and tries the edges of its
frontier in the order of their bounds. It is cut as a hub search is: where it waits or
sleeps, and between any two statements it has the database run.

| State | Code |
|---|---|
| `search[s].settled`, `frontier` | the locals of the same names; the frontier is a set, as each turn sorts it anew |
| `search[s].edge`, `asked`, `offers` | `edge` and the call of `searchOffers` for it: not asked yet, being scraped, cached, answered; in `candidateEdges` the neighbor whose bounds are being read and their sum so far |
| `search[s].best` | the price of `best`, 0 for nil |
| `search[s].results`, `audit` | `Plan.FinalResult` and `Plan.NHopRanked` |

| Action | Code |
|---|---|
| `AskBaseline`, `BaselineFound`, `BaselineInfeasible` | the baseline query; then the origin's label (`Begun`) |
| `BoundOfLeg`, `BoundOfRest`, `AllRead` | `candidateEdges`: the two bounds of each neighbor that is worth trying, one after the other |
| `FrontierCutoff`, `TryEdge`, `Finish` | the head of the loop: sort, cut off, take the first edge, or stop |
| `ScrapeReturns`, `PricesRecorded`, `ScrapeFails`, `CacheExpires` | `searchOffers`, as in `HubSearch` |
| `Infeasible`, `Reach`, `Dominated`, `Settle` | the four ways a turn of the loop ends once the answer is there |

Choices a reader should know of:

- *`Minutes` and `Prior` stand for distances*: the estimated flying time, and distance
  times `PricePerMile`. `MinHubOutDegree` is a parameter.
- *Ties are open*, between offers of one price as in the hub search and between
  edges of one bound.
- *The audit trail is a set of entries*; its order is that of the turns. The
  self-transfer, layover and stopover fields of a result label it and decide nothing.
- *An unknown origin or destination* ends a search before it asks for anything.

## The runs

| Run | Properties | Instance | Shows |
|---|---|---|---|
| `loop_calm` | `NeverStranded`, `AnswerCoversReplies`, `EveryRequestParks`, `KeepsLifecycleGoing` | 2 requests sharing a partition, 3 mails (1 eager), 1 intake process, 1 slot, cap 2 | Without failures nothing is left behind: every woken request parks, and its answer covers the mails that replied. |
| `loop_no_collector_crash` | `ResultBelongsToRound`, `FollowsLifecycle` | 1 request, 3 mails (2 eager), 2 slots, up to 2 failures | Worker and intake may fail and stop, goroutines may fail and commit out of order: the loop still implements the life cycle. |
| `loop_all_faults` | `TypeOK`, `SearchesCapped`, `IdsResolve`, `TasksPublishedOnce`, `NoReplyWithoutSearch` | 1 request, 3 mails (2 eager), 2 intake processes, 1 slot, up to 1 failure of any kind | These hold whatever fails and however follow-ups overlap. |
| `rate_limit` | `WindowsHold`, `OneWaitIsEnough`, `EveryWaitReturns` | 3 callers, a window of 1 call in 2 and one of 2 calls in 5 | Neither window is exceeded, a computed delay suffices, every `Wait` returns. |
| `hub_search` | `TypeOK`, `BestAmongAlike`, `ResultsArePareto`, `KeptIsCovered`, `AuditFollowsRanking`, `BudgetKept` | 2 concurrent searches out of 3 kinds (unbounded; budget 3 and a price limit; one of a shared leg that refreshes), 10 markets over 4 airports, up to 1 failed scrape | Sharing a cache and recorded prices, a search still finds the cheapest itinerary; its audit trail is complete and in order; its budget is kept. |
| `nhop_search` | `TypeOK`, `LabelsAreFront`, `BestIsCheapest`, `ItinerariesCanBeFlown`, `ItinerariesAreAllowed`, `EdgesTriedOnce`, `NothingLeftOut`, `BudgetKept` | 2 concurrent searches, one thrifty (budget 4, price limit 4, 2 countries) and one of 3 kinds (up to 3 legs; up to 2 legs, refreshing; thrifty), 2 markets over 6 airports, 1 failed scrape or expired answer | What comes from the cache, from the other search and from a label built turns ago fits together into itineraries that can be flown and are allowed; nothing is asked for twice or dropped without reason; the budget is kept. |
| `dispatch` | `DispatchTypeOK`, `FailureCostsOnePair`, `AnswerIsOfItsDates`, `NoDearerThanTwoTickets`, `SpendsAsAnnounced`, `CeilingKeptOneWay` | one of 8 requests (exact, over dates, over lengths; one way and both ways; from a code, a city, a village; with a budget, a limit, dates that are excluded) beside an exact one that shares its answers, 2 markets over 5 airports, up to 1 failed scrape | The answer is the cheapest over all pairs that worked, belongs to the dates it names, and is no dearer than two tickets; no search scrapes more than its announced worst case. |
| `session` | `SearchesMakeSense`, `LinkIsOfWhatWasFound`, `ShownIsForTheLastLine`, `FilesWholeAtRest`, `SessionFollowsLifecycle`, `EveryLineComesBack` | one session of up to 3 lines out of 4 (windows told backwards and no trip type, the answer about it, a departure past the return, one way), 3 days, the model may leave out the limit and the return, 1 failure anywhere; or two processes on an empty cache and one line | What is searched makes sense, the answer and its link belong to the last line and to what was found, the session keeps to the life cycle and never hangs; a file at rest is whole. |
| `loop_worker_crash` | `NeverStranded` | 1 request, 1 failure | violated, see below |
| `hub_search_bound` | `AlwaysBest` | 2 searches of one trip, with and without a bag | violated, see below |
| `nhop_small_destination` | `AsGoodAsOneHub` | 1 search, a destination with a single route of its own | violated, see below |
| `session_backwards_trip` | `NoBackwardsTrip` | 2 lines, no failure, nothing left out | violated, see below |

The three passing loop runs are three because the properties need different
worlds: what holds whatever fails; what needs the collector not to restart (a task
delivered twice reports twice) and follow-ups not to overlap; what needs no failure
at all.

Bounds, and why they are enough:

- `MaxFaults` (0, 1 or 2 failures in a behavior). Each stranding in this system
  takes one failure; two are enough for a redelivered decision to meet a task row
  left by the first attempt.
- `RedispatchCap` is 2 instead of 3: the cap is reached, and a history has a round
  before and a round after the one in question.
- Three mails: one to open, one that arrives between a read and a write, one to
  reopen a finalized request. As every mail is read once, the length of a history
  is bounded by cap and mails; nothing else bounds it.
- One partition: messages of different requests then share offsets, which is the
  hard case; a second partition only adds independence. The proofs take any number.
- `LastCall` and `Horizon` of the limiter: calls start up to time 3, the clock runs
  on its own up to time 9, and after that only as far as a timer is set. Three
  callers under windows of 2 and 5 collide in both windows within that time.
- `hub_search` has two hubs, so that one can be cut off behind the other, and
  timetables in which the way by either hub, the direct flight, a connection on the
  next day or none at all wins. Its markets are chosen, not enumerated: each adds a
  case of `bestConnection`, of a bound or of the cache. Two searches are enough for
  one to record what the other is bounded by; symmetry makes them interchangeable.
- `nhop_search` has a hub on the way to another one and the other way round, so that a
  label dominates and another is dominated; a country that is excluded; an airport
  that leads nowhere; a direct flight, one by a hub, one by both, and a connection on
  the next day. Three legs are the least at which a label that is not the origin's is
  expanded and one at the limit is not. One fault is an answer that fails or expires
  between two queries for it. `MCInit` makes one of the two searches thrifty, which keeps
  their product small: it is the one that meets every limit, and the other one, of any
  kind, records what bounds it and is bounded by what it records.
- `dispatch` has a city with two airports that qualify (of three near it) and a
  village with none, two dates there and two back, a pair of airports with a hub and
  one without, and markets in which the bundled fare, two tickets or neither wins and
  in which the cheapest pair of dates is one that is excluded. One failed scrape can
  hit phase A, the bundled fare or either way; the properties say what it may cost.
- `session` has three lines: one that opens, one that answers or changes, and one more
  after a finalize or a failure, which is the least for a decision to meet a task left
  behind by a park that failed. With a cap of two there is a search filled in from
  another one and a forced finalize. Three days make a window of two, a return on the
  day of departure and one after it. Two pieces let a process empty a file between the
  pieces of another. The route leads from one of two airports of its city. The cache and the conversation share no state but the place at
  which the session starts, so `MCInit` has them vary in turn, not at once.
- Symmetry is used only in `loop_all_faults` and the runs of `HubSearch` and
  `NHopSearch`, none of which has a temporal property.
- Deadlock is not checked: each system comes to rest when no mail or call is left
  and every search is done.

Each property has a mutant: an operator next to the definition it changes, named
`...Mutant...`, that is not used by the model itself. It stands for a plausible bug
and is what shows that the property can fail.

## Where code and comments disagree

1. **A crash between parking and publishing strands a request** (`loop_worker_crash`).
   `Decide` stores `dispatched` (`reconcile.go:130`) before agent-worker publishes
   the task (`cmd/agent-worker/main.go:81`). The redelivered trigger then finds a
   request that is not awaiting a decision and is committed. The package comment
   says "a crash mid-step loses nothing" (`reconcile.go:4`).
2. **A recorded price is no lower bound** (`hub_search_bound`). `flight_prices` has no
   column for bags, so the price another search was quoted with a bag bounds one
   without (`scoring.go:98`), which is cut off before the cheapest hub.
   `scoring.go:93` calls the bound "admissible (never-overestimating)", and
   `search.go:98` says the cutoff "proves nothing left can beat `best`". The same
   property fails for two more reasons that the run does not need: the bound of leg 2
   is read for the date of departure and the leg queried for the date of arrival, and
   the cache key leaves out stops and price limit. `BestAmongAlike` excludes all
   three by its hypotheses `AlikeInputs` and `AlikeFlights`.
3. **A small destination is taken for a dead end** (`nhop_small_destination`).
   `candidateEdges` judges every neighbor as a hub, the destination too: unless it has
   `minHubOutDegree` routes of its own, the edge to it is dropped (`nhop.go:254`), as
   no airport has a route to itself. The n-hop search then returns the baseline only,
   where the one-hub search finds cheaper ways. `nhop.go:17` says "a high MaxLegs
   really does explore exhaustively by default", and the prune is explained by what an
   "intermediate hop" must offer (`nhop.go:240`). With a well connected destination
   the property holds on the same instance.
4. **A trip that comes back before it leaves** (`session_backwards_trip`). When a
   follow-up moves the departure past the return, `validateDates` clears the return
   window (`formspec.go:119`). `fillDispatchDefaults` takes a cleared field for one the
   model left out and fills it in from the round before (`decide.go:331`).
   `formspec_test.go:12` says that such a window "never reaches dispatch".
   `SearchesMakeSense` excludes what was filled in from a search for an older spec.

More that no run of their own shows:

- *A late result lands in the wrong round.* `RecordTaskResult` writes into the last round
  whatever task it ran (`reconcile.go:234`), and returns a parked request to
  `awaiting_decision`; `kafka.go:103` calls every step "redo-safe".
  `ResultBelongsToRound` breaks with one collector crash.
- *A follow-up during a decision is answered by nobody.* The decision works on the spec it
  loaded; the follow-up's process sees a request in flight and sends nothing.
  `main.go:377` says "whatever runs next reads the spec fresh, no nudge needed": nothing
  runs next. `AnswerCoversReplies` is about mails that reply, for this reason.
- *The refill of point 4* brings back a price cap that was taken away, and both ways to return
  at once, which are to be "never both" (`spec.go:67`).
- *Limits may be zero after a question.* "MaxHours/QueryBudget etc. always carry a usable
  value via fillDispatchDefaults" (`decide.go:162`), but the request of a round that
  asked is blank, and it is what is filled in from; `SearchesMakeSense` says so.
- *A window without an end* passes the check for a return that is too early, which looks
  at the end only; the search fails on it.
- *A session can be stuck.* After a failure between the dispatch and the record of its
  result, every line ends in the error of `main.go:191`, which "should never" come:
  nothing runs the task again. `ShownIsForTheLastLine` allows it after a failure only.
  A park that failed leaves a task whose number the next dispatch takes again: an error
  of the primary key, until an ask or a finalize makes another round.
- *The link may be for an older trip*, when the searches since have found nothing; its
  dates are right for that search, which is what `LinkIsOfWhatWasFound` says.
- *A process may load half a file* that another one is still writing, or that a broken
  download has left; `FilesWholeAtRest` is about files at rest whose downloads all went
  through.
- `NeverStranded` breaks likewise when `RunTask` or `Send` returns an error in the
  collector: `runTask` only logs it and the message is committed (`worker.go:63`),
  where its comment says the trigger is pushed "regardless of success or failure"
  (`worker.go:74`).
- A limit on the price is a "USD hard ceiling on the whole trip" (`types.go:29`), but
  the bundled fare and the sum of both ways are not held against it
  (`roundtrip.go:65`, `flexible.go`), so `CeilingKeptOneWay` is about one way only.
- A budget "caps how many scrapes the search may spend" (`types.go:20`); phase A and
  each hub search of phase B spend it anew, and the bundled fare is on top of it, which
  is what `SpendsAsAnnounced` states.

The comment of `markRemaining` says that the trail "accounts for every candidate that
was ranked". It does but for one way out, the `break` at `search.go:147` when leg 1
used up the budget; `AuditFollowsRanking` states this exception.

## Fairness

`AgentLoop!Fairness` is weak fairness of the worker's steps, of each slot's steps
and of each intake process's steps once it has a mail: agent-worker and the
collector loop for ever, and a process that was started runs to its end. Nothing
makes a traveler write, so no fairness is assumed of `IntakeStart` and `IntakeRead`,
and none of failures. The fair runs have no failures: an uncommitted message is
redelivered only after a restart, which nothing guarantees.

`RateLimit!Fairness` is weak fairness of the clock and of each caller's attempt
once its timer has fired. There is none for callers to call. `EveryWaitReturns` is
claimed of finitely many calls: waiters are not queued, so with newcomers for ever a
waiter may lose its place each time.

`FairSpec` of the session is weak fairness of `SessionStep`, all it does between two
lines: one process that runs on. Nothing makes the traveler type or the download arrive,
and failures are left to chance; `EveryLineComesBack` holds with them.

## What is proved

Every safety invariant and both refinements that the passing runs check are theorems.
They hold for every value of the constants, under the named assumptions of the modules:
`RedispatchCap` is positive, `DecisionPartition` maps requests to partitions, the
limiter has finitely many windows with positive spans and caps, `Hubs` and the airports
`Near` a city are finite sets, inputs, graphs and offers are of their types, dates are
positive numbers, 0 is a length, a limit and a price, what travelers say is of the types
of the fields, a file has at least one piece, and a request that is dispatched names a
departure (`missingRequiredFields`, `decide.go:174`, asks for one before it dispatches).

| Theorem | Statement |
|---|---|
| `AgentLoopProofs!TypeCorrect` | `Spec => []TypeOK` |
| `AgentLoopProofs!SearchesAlwaysCapped` | `Spec => []SearchesCapped` |
| `AgentLoopProofs!IdsAlwaysResolve` | `Spec => []IdsResolve` |
| `AgentLoopProofs!TasksAlwaysPublishedOnce` | `Spec => []TasksPublishedOnce` |
| `AgentLoopProofs!NoReplyEverWithoutSearch` | `Spec => []NoReplyWithoutSearch` |
| `LifecycleProofs!LoopAlwaysFollowsLifecycle` | `Spec /\ []OneFollowUpAtATime => FollowsLifecycle`, given `NoCollectorCrash` |
| `LifecycleProofs!ResultsAlwaysBelongToRounds` | `Spec /\ []OneFollowUpAtATime => []ResultBelongsToRound`, given `NoCollectorCrash` |
| `LifecycleProofs!AnswersAlwaysCoverReplies` | `Spec /\ []OneFollowUpAtATime => []AnswerCoversReplies`, given `NoCollectorCrash` and `NoIntakeFault` |
| `LifecycleProofs!NobodyIsEverStranded` | `Spec /\ []OneFollowUpAtATime => []NeverStranded`, given `NoFaults` |
| `SessionProofs!CatalogWhole` | `Spec => []FilesWholeAtRest` |
| `SessionProofs!SearchesAlwaysMakeSense` | `Spec => []SearchesMakeSense` |
| `SessionProofs!LinkAlwaysOfWhatWasFound` | `Spec => []LinkIsOfWhatWasFound` |
| `SessionProofs!SessionAlwaysFollowsLifecycle` | `Spec => SessionFollowsLifecycle` |
| `SessionProofs!ShownAlwaysForTheLastLine` | `Spec => []ShownIsForTheLastLine` |
| `RateLimitProofs!WindowsAlwaysHold` | `Spec => []WindowsHold`, given `DistinctReadings` |
| `RateLimitProofs!OneWaitIsAlwaysEnough` | `Spec => []OneWaitIsEnough`, given `DistinctReadings` |
| `HubSearchProofs!HubTypeCorrect` | `Spec => []TypeOK` |
| `HubSearchProofs!ResultsAlwaysPareto` | `Spec => []ResultsArePareto` |
| `HubSearchProofs!KeptAlwaysCovered` | `Spec => []KeptIsCovered` |
| `HubSearchProofs!AuditAlwaysFollowsRanking` | `Spec => []AuditFollowsRanking` |
| `HubSearchProofs!BudgetAlwaysKept` | `Spec => []BudgetKept` |
| `HubSearchProofs!BestAlwaysFound` | `Spec => []BestAmongAlike` |
| `NHopProofs!NHopTypeCorrect` | `Spec => []TypeOK` |
| `NHopProofs!LabelsAlwaysFront` | `Spec => []LabelsAreFront` |
| `NHopProofs!BestAlwaysCheapest` | `Spec => []BestIsCheapest` |
| `NHopProofs!NHopBudgetAlwaysKept` | `Spec => []BudgetKept` |
| `NHopProofs!EdgesAlwaysTriedOnce` | `Spec => []EdgesTriedOnce` |
| `NHopProofs!NothingEverLeftOut` | `Spec => []NothingLeftOut` |
| `NHopProofs!ItinerariesCanAlwaysBeFlown` | `Spec => []ItinerariesCanBeFlown` |
| `NHopProofs!ItinerariesAlwaysAllowed` | `Spec => []ItinerariesAreAllowed`, given `FlightsLeadElsewhere` |
| `DispatchProofs!DispatchTypeCorrect` | `DispatchSpec => []DispatchTypeOK` |
| `DispatchProofs!FailuresCostOnePairEach` | `DispatchSpec => []FailureCostsOnePair` |
| `DispatchProofs!AnswersAreOfTheirDates` | `DispatchSpec => []AnswerIsOfItsDates` |
| `DispatchProofs!NeverDearerThanTwoTickets` | `DispatchSpec => []NoDearerThanTwoTickets` |
| `DispatchProofs!AlwaysSpendsAsAnnounced` | `DispatchSpec => []SpendsAsAnnounced` |
| `DispatchProofs!CeilingsKeptOneWay` | `DispatchSpec => []CeilingKeptOneWay` |

*Types.* `TypeOK` is not inductive: a commit must not run ahead of the fetched
offset, so `TInv` adds `OffsetsFetched`, that every job holds a message its consumer
has fetched, and that a worker about to publish has a round to publish.

*The loop's safety.* None of the four properties is inductive alone, for one reason:
a history is read into a job, held across a slow call, and written back over what is
in the row by then. `SInv` therefore claims of every copy in a job what it claims of
rows (`HistoryOK`: at most the cap, every dispatch round names a task that exists),
in a form that only gets easier as rows are added; so `SFrame` can say once that a
step preserves the invariant if everything it changed is as it should be. For
`TasksPublishedOnce` the worker's job carries the missing fact: from the insertion of
a task until its publishing, that task is on no log (`ToPublish`). The key is that
`CreateAgentTask` refuses a second row. `NoReplyWithoutSearch` rests on the cap being
positive: a request forced to finalize has searched (`CapMeansSearched`).

*The loop as a life cycle.* What breaks the other four properties is always the same: a
row is read, held, and written back over what another process has put there meanwhile.
`UpToDate` says that this does not happen: whatever a worker, a slot or an intake process
is going to write back was formed from the row as it is now, and a task that waits on the
topic or is running has one message or one slot that reports it, and no more. It is
inductive because at any time one actor at most has a claim on a request, and it is true
only under two hypotheses, both of which the code needs. `NoCollectorCrash`: a collector
that comes up again is handed its last task again and stores a second result, in
whatever round is the last one by then (`reconcile.go:234`). `OneFollowUpAtATime`, a condition
on the behavior: two intake processes that fold a mail into one request at once lose one of
them (`main.go:351`). Every other failure is allowed. From `UpToDate` follow
`ResultBelongsToRound` and, with one lemma per action that writes `agent_requests`, the
refinement: the write is one step of `RequestLifecycle`, all else stutters.

`AnswersSeen` carries a mail from the spec to the answer: a decision that is under way sees
all that was folded in before it, since a mail that is not eager finds its request parked.
An intake process that stops between its two writes leaves the mail in the spec of a
request that still looks answered, hence `NoIntakeFault`. `Attended` follows a request from one
process that has it to do to the next: a decision that is due has an uncommitted message, a
worker or an intake process, a search that is out a message or a slot, and the message that
a process holds is not committed before it has acted. Any one failure strands a
request (`loop_worker_crash`, and the list above), hence `NoFaults`.

*The catalog.* `MissingIsToCome` is the strengthening: where a piece of an unbroken file
is missing, some process is about to write that piece or one before it. `Create` empties
a file others are writing, and the process that does is at the first piece, so it owes
all of them.

*What is searched.* `Grounded` is a claim about a whole history: each round's spec is
sound (`FormedIsSound`: the four repairs, none undoing an earlier one), and its request
says of the trip what the spec says or nothing (`Below`), unless it was filled in from an
older spec. The step that matters, `DecisionRound`, fills in from the round before: that
one is `Below` its own spec, which is the same spec as long as no older one is involved
(`FilledFromSameSpec`). Leaving out fields of a sound spec breaks none of its dates
(`BelowIsOrdered`). Between the decision and its write, the session holds a round that
would keep the history grounded (`ReplOK`).

*The link.* A round that searched has a task with the same request, and what it found was
priced for dates of that request, between two of its airports (`RoundHasTask`, `TasksOK`), although a task left behind
by a failed park may share its number with a round that asked. That the dates of the
link are then those that were priced is `LinkDates`, by the kinds of search: it needs
that nothing required is missing from a dispatched request (`DispatchedIsComplete`).

*The life cycle.* With `Expected`, where each write expects the request to be, every
write of `agent_requests` is one step of `RequestLifecycle` (`LifeStep`) and every other
step a stutter; `RoundCounted` and `ReportCounted` say what a write does to the counts.
For `ShownIsForTheLastLine`, `ShownInv` adds that a request is out for a search only
while the session is running it, or after a failure.

*The limiter.* `Inv` adds to `WindowsHold` that admitted calls are in the past and
that what a window dropped is older than its span. The key lemma, `NewCallIsLate`: if
no window delays a call, then the call `Max` places back is at least `Per` old.
`OneWaitIsEnough` rests on `TimersSuffice`: at the time a waiting caller is told to come
back, each window has room for one more, unless a call is let through meanwhile. The delay
is the greatest of those of the windows, so there have to be finitely many. With two
equal readings of the clock `WindowsHold` fails (see above), which is why both theorems
name `DistinctReadings`.

*A search's results, trail and budget.* `HInv` says of every search that it is
`Sound`: the audit trail has as many entries as the search has dealt with hubs
(`Placed`), which makes its order inductive, and a search about to query has room in
its budget, which a cached answer does not use up. One lemma per handler says that it
keeps a search sound, whatever offers it is given; the actions then only choose the
offers. That a least price exists rests on the well-foundedness of the naturals.

*Branch and bound.* `BestInv` says, as long as everything is alike, that cached
answers are what the market offers (`CacheExact`), that no recorded price exceeds a
flight's (`PricesBelow`), that hubs are ranked by bounds no itinerary by them
undercuts (`RankedSoundly`; a bound of which one leg is read is already too low,
`AdmissibleSoFar`), and that nothing a search has left behind is cheaper than
its best (`Best`). Bounds are read one by one, with prices of the other
search recorded in between; none is ever too high, which is why the cutoff is sound
although the order of hubs may be out of date by then. Hubs are left behind in three
ways, each with a lemma: kept or infeasible (`Leg1Best`, `Leg2Best`), pruned before
leg 2 (`PrunedIsNoCheaper`), cut off (`CutoffBest`). The theorem states what the code
promises, the cheapest by its own choice of first leg (`bestConnection` tries only
the cheapest one), not the cheapest of all pairs of flights.

*Labels.* `NInv` is the analogue for the n-hop search: a search is `Sound` if it is
well formed, its best price leads its results (`Led`), results and labels are fronts
(`Fronts`), nothing is known before the baseline is in (`Fresh`), and one that waits
for a scrape has room for it in its budget (`Thrifty`: the budget is checked at the
head of the loop, charged when the scrape is over). `FrontGrows` is the pure fact
both `paretoInsert` and `keepNonDominated` rest on. One lemma per helper says that it
takes a sound search to a sound one, so that an action only puts helpers together.

*Paths.* `ThoroughInv` says the rest of each n-hop search. `Flying`: labels, results and the edge
at hand are sums of flights of the market that connect. Prices and minutes are carried along
leg by leg, so this is about a sum over a path: adding a leg adds a term, and two paths
that agree up to a leg have the same sum up to it, which is shown by a smallest
counterexample instead of an induction. `Lawful`: no airport twice, within the legs and
countries. `TriedOnce`: an entry of the trail and an edge of the frontier are never of the
same continuation; it is inductive only with `LedTo`, that every path in use was made by
settling an edge that is in the trail, so that no label is ever made a second time.
`Complete`: of a label that is settled every way on that is worth trying is in the frontier
or in the trail, through pruning, dominated labels and the cutoff, unless the search is
still reading the bounds of those ways (`Reading`).
`ItinerariesAreAllowed` needs `FlightsLeadElsewhere`: nothing in the code refuses a search
from an airport to itself, and only Google's having no such flight keeps a baseline from being one.

*Dispatch.* A task runs a trip, a trip runs hub searches, and every one of them writes to the
cache that all read. Three lemmas first reduce a step to what it does (`SearchEffect`,
`TripEffect`, `TaskEffect`): wait, cache an answer, take one that is on offer, turn to the
next phase. Each claim is then kept by these effects.

`DInv` holds them together: cached answers are on offer and lack no cheaper one
(`CacheTrue`); a hub search has spent at most two scrapes per hub it dealt with (`Frugal`);
a trip is on the pair its task is at, has its dates from the grid (`Dated`), and has spent at most
the worst case of each phase it has behind it (`Spent`); what it found is a fare of its
market on its dates (`TripReal`); a task's answer is one of its pair, its dates and its limit
(`TaskReal`). Types, `SpendsAsAnnounced`, `AnswerIsOfItsDates` and `CeilingKeptOneWay` follow.
`TicketInv` adds, while nothing has failed, that what a round trip found for the way there
is no dearer than any direct flight there (`Ticketed`), so that the sum is not either, and
that merging the pairs keeps this (`BelowTickets`).

`CostInv` is about failures: of the pairs a task has tried, those that are missed, and
one more if the trip at hand has already been harmed, are no more than scrapes have failed. A
trip is `Good` as long as it can still end no dearer than any fare of its pair: a scan has
priced each pair of dates so far as low as the market (`Scanned`), the dates it chose hold the cheapest
(`Promising`), and afterwards what is in hand is a lower bound (`Floor`). A trip may stop being good
only by a scrape that fails, and once harmed it costs its one pair whatever fails next. The
running merge of pairs, a fold in the model, is unfolded into a function so
that a smallest counterexample can take the place of an induction (`MergingCovers`).

TLC checked `TInv` and `SInv` as invariants of the `loop_all_faults` instance, `UpToDate`
of `loop_no_collector_crash` and `loop_calm`, `Attended` and `AnswersSeen` of `loop_calm`,
`BestInv` of `hub_search`, `TicketInv` and `CostInv` of `dispatch`, before they were
proved; elsewhere it checked the properties themselves.

## What is only model-checked

- Liveness: `EveryRequestParks`, `KeepsLifecycleGoing`, `EveryWaitReturns`,
  `EveryLineComesBack`. Liveness under fairness is beyond the installed provers.
- What the four runs that expect a violation show: each is a counterexample.

Three theorems lean on a condition that the runs satisfy by their constants:
`OneFollowUpAtATime` (which is trivial for one intake process), `FlightsLeadElsewhere` (the timetables)
and `DistinctReadings`. What happens without them is said above.

## What is not modelled

- What is in the files of the airport catalog, the lookups in its graph, and an error of
  creating its directory.
- A crash of the interactive session: what it leaves in the tables is read by no later
  session, and a failed step covers what it leaves to this one.
- The table of plans: `savePlan` writes it, nothing reads it.
- Prompts and HTTP backends of the language model, the Google Flights wire format
  and parser, flags, printing, trace files, environment: input and output without
  state of their own.
- Great-circle distances and timezone arithmetic: floating point and calendar data.
- That the n-hop search finds the cheapest of all itineraries: it does not promise it,
  as labels are compared by price and duration only, and of the offers for an edge
  only the cheapest feasible one is tried.
- Errors of the database inside a search, which the code logs and goes on from.
- `ListActiveAgentRequests` has no caller, `StatusDeferred` no producer, and a
  message that does not decode no sender.

## Plan

Every component with control of its own is modelled, and every safety property that a run
checks is proved. What is left, in this order:

1. `BestAmongAlike` for the hub searches that dispatch runs, where two-way queries fill the
   same cache: the hypotheses carry over, the invariant is to be restated for `DispatchSpec`.
2. `NeverStranded` under failures that hit other requests only, in place of `NoFaults`.
3. Lemmas on what a dominated label may have been worth, which no property states yet
   (`nhop.go:324`).
