# Formal models of web-api-starter

TLA+ models of the stateful parts of this repository, TLC configurations that
check them on small instances, and proofs of their main properties for every
value of the constants (TLAPS). Paths below are relative to the repository;
`GW` stands for `src/Template.Functions/GithubWorkflow`, `UV` for
`src/Template.App/wwwroot/lib/jquery-validation-unobtrusive/jquery.validate.unobtrusive.js`
and `JQ` for `src/Template.App/wwwroot/lib/jquery-validation/dist/jquery.validate.js`.

## 1. The system

The program's own core is a Durable Functions application that runs a GitHub
Actions workflow on behalf of a caller and reruns it when it fails.

```
POST workflow/start -> GithubWorkflowTrigger -> orchestration instance
                                                  |  activities (at least once)
                                                  v
 GithubWorkflowOrchestrator --dispatch / rerun / read status--> GitHub run
        ^    (through GitHubClientFactory's shared client)        |
        | Durable events, buffered by name                        | jobs publish
        |                                                         v
 GithubWorkflowQueueMessageProcessor <-- ExampleQueue <-- default-queue
        |  dedupe rows                      |  failures
        v                                   v
     table storage  <------------  default-queue-poison -> exception handler
```

The other part with a state machine of its own is in the browser. The MVC sample
carries the script that validates forms, and `_ValidationScriptsPartial.cshtml`
puts it on any page that asks for it (no view of the sample has a form yet):

```
 data-val-* attributes --adapters--> rules, messages --validate()--> validator
                                                                   |       ^
 containers, summary <--onError, onSuccess, onErrors, onReset-- results  answers
                                                                        of the server
```

### Components

| Component | State | Operations | What is hard | What makes it correct |
|---|---|---|---|---|
| Workflow orchestrator (`GW/GithubWorkflowOrchestrator.cs`, trigger, activities, options) | position in the code, attempt, backoff index, run id, custom status, Durable's event buffers; the run at GitHub | dispatch, wait for start, find the run, wait for completion, read status, rerun with backoff | events match on their name only; activities run at least once; an exception does not say whether GitHub acted; timeouts race late callbacks | attempts stay in step with GitHub's; outcomes rest on real results; it ends; the status shown is right |
| Message processor (`GW/GithubWorkflowQueueMessageProcessor.cs`) | one table row per tuple (type, instance, run, attempt) | reserve, read an existing row, raise the event, mark completed, clean up | concurrent deliveries, a crash between two calls, failures after an effect, ETags | one id per reservation; completed means raised; extra raises only for known causes |
| Queue functions (`ExampleQueue.cs`) | messages with dequeue counts and leases, exception rows | validate, dispatch by type, store exception details, drain the poison queue | leases that run out, process death on the last dequeue, cleaning up after failures | no event lost to deduplication; no orphaned details; every message settles |
| GitHub client factory (`Template.Shared/Github/GithubClientFactory.cs`) | expiry, token, client, semaphore | get or create a client | the check is made outside the lock; the fields are assigned one by one | fresh clients, no needless token, nobody waits for ever |
| Client-side form validation (`UV` over `JQ`) | rules and messages by field name, the validator's copy of them, results, requests to the server and their counter, message containers and summary, the reset flag | parse attributes, check a field or the form, submit, ask the server, answer, reset | answers come late or never; fields are edited, loaded and reset meanwhile; adapters share rules; onReset is entered again | rules accept what the attributes ask for; only valid forms are sent; errors are shown where the validator has them |
| Callback publisher and authorization (`.github/actions`, `github-integration-test.yml`) | jobs, their results and outputs | authorize, announce, approve, report | conditions over skipped and failed jobs, reruns that skip jobs | every bot run that announces also reports, with the right conclusion |
| Managed identity token services (`Azure.ManagedIdentity`) | a cache of services by name | create on first use, fetch a token per request | concurrent first use | one service in use per name |
| Example API (`Template.Api`) | rows of examples | create, upsert, delete | existence is checked before the write | concurrent upserts and deletes end in a legal state |
| Timer (`ExampleTimer.cs`) | last successful run | read, work, write back | overlap, failure in between | no window is skipped |
| Configuration store selection (`AppConfigStoreSettings.cs`) | none | compute the selectors | precedence | a specific label overrides a general one |
| Container app revisions (`tools/dev-scripts/create-aca-revision.ps1`) | environment variables and a list of managed names | reconcile | sequences of deployments | only variables that a deployment set are removed |
| Access provisioning (`tools/infrastructure/ps-functions`) | groups, owners, members, role assignments | grant, revoke, set | partial failure, reruns | idempotent; ends at the requested state |
| Deployment pipelines (`.github/workflows`) | jobs and environments | build, deploy, release | ordering | traffic moves last |
| Host plumbing, MVC sample, data model | ambient values, static pages, generated migrations | - | - | - |

The first five are modelled. `PROJECT.json` lists the status of each component,
and under `hazards` each difficulty with its line and its properties.

## 2. Modules

| Module | What it is |
|---|---|
| `WorkflowOrchestrationContract` | what an orchestration promises whoever polls it |
| `GithubWorkflowOrchestrator` | the orchestrator with its environment; implements the contract |
| `MCGithubWorkflowOrchestrator` | the same for TLC, with the claims that comments and messages make |
| `WorkflowMessageProcessor` | concurrent calls of `ProcessAsync` over the table |
| `ExampleQueue` | queues, host and functions; uses an instance of the processor |
| `MCExampleQueue` | its messages for TLC |
| `GithubClientFactory` | the shared client |
| `UnobtrusiveAdapters` | one field's attributes made into rules |
| `MCUnobtrusiveAdapters` | the fields for TLC |
| `UnobtrusiveValidation` | a form, its validator and the server's answers |
| `MCUnobtrusiveValidation` | its fields and rules for TLC |
| `...Proofs` | theorems and proofs for each of the six modules that model code |
| `OrchestratorResultProofs` | theorems about which results the orchestrator acts on |
| `AdapterRuleProofs` | theorems about what the rules of a parsed field accept |

Operators that begin with a comment `Defect:` are plausible bugs. Nothing uses
them; they document which change of the code each property notices, and
`PROJECT.json` pairs them with the properties under `mutants`.

### GithubWorkflowOrchestrator

`pc` names the `await` the orchestrator is suspended at; one action is one turn,
with every change of `customStatus` up to the next `await`. `currentAttempt`,
`retryIndex`, `runId` and `lastWorkflowStatus` are the locals of the same name.
`runs` is GitHub's side: `Queued` (before the announcing job), `Tasks`, `Cleanup`
(concluded, reruns refused) and `Completed`. An activity is two steps: its effect
at GitHub (`CreateDispatch`, `AcceptRerun`), which may happen repeatedly, and the
turn in which its return or failure is recorded. `tookEffect` links the two: a
return needs the effect, a failure does not exclude it. The queue is reduced to
what an instance can notice of it. `WorkflowOrchestrationContract` holds the
promise that every instance ends; `ImplementsContract` covers it.

Abstractions:

- Durable buffers events first in, first out per name, and a wait that times out
  does not consume one. Events for an ended instance are dropped.
- What GitHub answers about a run is up to date. It refuses to rerun failed jobs
  of a run without any.
- Cancelled, and every other conclusion but success, count as failure, as
  they do in the code; the retries of the status activity are one outcome.
- `workflowSucceeded` follows `finalOutcome` and is left out, as are messages.
- The return after the rerun loop (177-185) and the exception for a missing
  status (385-388) cannot be reached: the last attempt is settled by
  `EvaluateWorkflowAttemptAsync`, and the list of delays is never empty. They have
  no action.

### WorkflowMessageProcessor and ExampleQueue

A `frame` holds the locals of a call; each storage or Durable call is a step that
may fail before or after its effect; an add may also be retried by the SDK after
its effect and then meet its own row (409). `Throw` is the `catch ... when
(lastAttempt)`. `kind`, chosen in `Init`, says
what each message is. `ExampleQueue` drives the steps of the processor unchanged, under
leases: an expired lease can leave an invocation at work beside the next one, and
only the holder of the valid pop receipt settles a message. Parsing of the payload
precedes the processor's `try`; a workflow message that does not parse therefore
behaves like any message whose handler throws (`Throwing`), stored details
included. The host's move to the poison queue is atomic. The poison handler
cannot throw by itself, since the details it reads were serialized by the code.

### GithubClientFactory

A token is its expiry time, a client its token. The first check is one atomic
step; the assignments of expiry (55), token (28) and client (29) are three. The
history variable `overtaken` marks callers whose check fell between them.

### UnobtrusiveAdapters

One field goes through `parseElement`: a step per registered adapter, in the
order of registration, run or skipped (`index`), then the rule `__dummy__`. An
element is its name, its type and its `data-val-*` attributes; names are
sequences of their dotted parts and comma-separated lists are sequences, so that
splitting, trimming and escaping are left out. `Empty` and `Undefined` are kept
apart, since an empty message runs an adapter and an empty bound does not count.
`Passes` says what the methods of jQuery Validate make of a rule, on texts known
by what the rules can tell of them (`Text`). The validator makes numbers of the
parameters of minlength, maxlength, rangelength and range (JQ:1342-1358), so a
range with both bounds compares numbers. A lone bound becomes the rule min or max,
whose method compares two texts (JQ:1496-1503): `NumeralOrder` gives the place of
a number's numeral among the texts, where 10 comes before 2. A number that is
entered is taken to be written the one usual way. `Rendered` says which attributes
ASP.NET Core renders together. `extensionMethod` is the branch at UV:362.
`Setting` is one assignment of a rule and `Replacing` what assigning does to the
rules there are.

### UnobtrusiveValidation

Every handler is one action, since JavaScript runs one at a time; `turn` splits
`onReset` (the form plugin may reset the form inside `resetForm`) and the second
half of `stopRequest`. The rules of a name are represented by the element they
were parsed from, because a validator may keep those of an element that is gone.
`rules` is what parsing collects and `validator` the copy made once by
`validate()`. `request` holds what was asked; its flag `current` says whether the
answer still reaches the `previousValue` of the field, which a reset or a reload
replaces. `approved` (answers that were true) and `unrecorded` (marks the
validator does not know of: rendered by the server, or left by a failed reset)
are history variables.

Abstractions:

- One element per name; hidden and disabled fields, groups, cancel buttons,
  `submitHandler` and rules from classes or attributes of HTML are left out.
- `Allowed` stands for all rules but remote; an answer depends on the value of
  its field only. Rules that read other fields (equalTo, additional fields) are
  covered in `UnobtrusiveAdapters` as far as they name the right fields.
- Every name has a container and the summary has a list, as the tag helpers
  render them. Showing the labels of the last check again (JQ:926) changes no
  container.
- Requests of one field abort each other (JQ:1634). Answers arrive between
  handlers, in any order, or never (`RequestFails`).
- `Load` stands for a script that puts a part of a form into the page. The
  unhighlight setting is the page's and may throw; the default one does not.

## 3. What is checked

Deadlock checking is off: instances end, queues run empty, the bounded clock
stops, a parsed field stays parsed, and a form that is sent is gone.

| Run | Question | Bounds |
|---|---|---|
| OrchestratorReruns | `TypeOK`, `AttemptsInStep`, `OutcomeHasEvidence`, `ImplementsContract`, `ResultsMatchAttempts` | 3 attempts, 2 delays, 1 run, 1 redelivery; 1.6 million states |
| OrchestratorTwoDispatches | `AttemptsInStep`, `OutcomeHasEvidence`, `NoRerunOfSuccess` | entire reruns, 2 runs, 2 attempts each; 2.5 million states |
| ProcessorCalls | `TypeOK`, `OneIdPerReservation`, `CompletedMeansRaised`, `EachExtraRaiseHasACause` | 2 invocations, 2 ids, 1 tuple, 4 calls; 0.8 million states |
| QueueOneMessage | `TypeOK`, `NoEventLostByDedupe` under expired leases | 1 message of any kind, 3 dequeues, 2 stalls; 0.4 million states |
| QueueTwoMessages | `NoEventLostByDedupe`, `NoOverlapWithoutStall`, `NoOrphanedDetails`, `EverythingSettles` | 2 messages of any kinds, 2 ids for a tuple, 2 invocations, 2 dequeues; 0.4 million states |
| ClientFactory | `TypeOK`, `FreshUnlessOvertaken`, `NoNeedlessToken`, `EveryCallEnds` | 3 callers, clock to 6, lifetime 3, buffer 1 |
| AdaptersTranslate | `TypeOK`, `EnforcesAttributes`, `MessageFitsRule`, `FieldsOfSameModel` | fields with any one adapter, or any two of the ten that share rules or fields, under each choice of their attributes; both branches for file extensions |
| FormValidation | `TypeOK`, `SentIsValid`, `PendingCounted`, `ErrorsAreExplained`, `LeftoversAreUnchecked`, `ResetRunsOnce`, `SummaryListsInvalid` | 2 fields, one required and one optional with a remote rule, 3 values, any errors rendered by the server; 1 million states |

Why the bounds are enough: three attempts contain a first, a middle and a last
one; two delays a first and a last one; two runs and one redelivery each source
of mismatched events. Two invocations and two ids give every pairwise
interleaving on a row, and rows of different tuples do not interact. Three
dequeues separate first, middle and last. Three callers are one in the lock, one
that queued and one that passes the check; the clock sees two tokens expire.
Adapters act on one field and meet only in the rules they share, so pairs are
enough; lengths and numbers lie below, on, between and above the bounds, and the
number 10 is above them but before 2 as a text. In
the form, a field with a remote rule waits while the other is checked, fails or
is loaded anew; two values besides the empty one are an asked and a changed one,
and nothing but the server tells them apart (symmetry). Counting two requests at
once, two elements of one name and a page without the form plugin are left to the
proofs, which hold for every form.

### Disagreements with comments and documentation

Four runs check a sentence of the repository and find it violated by the code
(`ProcessAsync` and the orchestrator); the sentences about the vendored scripts
are told here only:

- OrchestratorTerminalFlag: `IsTerminal` is `false` for an instance that failed
  because the status activity did.
- OrchestratorFailedOutcome: a late event of the first attempt, already settled
  by its timeout, is taken for the result of the last one, which is still running.
- ProcessorDuplicates: a crash between raising and marking repeats the event.
- ProcessorLastAttempt: the clean-up's own exception leaves `ProcessAsync` on the
  last attempt, and the message ends in the poison queue.
- JQ:386: the default message of the rule min is "Please enter a value greater
  than or equal to {0}." For a range with a minimum of 2 alone, "10" is refused,
  since the attribute's text is compared with the field's (UV:315-317, JQ:1496-1498).
  `EnforcesAttributes` leaves out the numbers that the texts order differently from
  a lone bound, and only those.
- UV:230-232: `parse` "enables validation according to the data-val-* attribute
  values". For a form that has a validator it does not: `validate()` returns the
  one there is, whose rules are a copy, so fields loaded later are not validated.
  `attachValidation` models this, and `SentIsValid` speaks of the validator's rules.
- UV:366-368: without the method `extension`, "we should use the 'accept' method".
  The jQuery Validate of this repository has neither in its main file, and the
  partial loads no other, so checking such a field throws. `EnforcesAttributes`
  excludes rules without a method. The adapter `fileextensions` (UV:427) does not
  even ask.
- UV:303-306 and UV:329-330: the attribute names given to `addMinMax` and the
  default "val" of `addSingleVal` are extracted but not read (UV:309, UV:335). No
  registered adapter depends on either.

What does hold instead is `EachExtraRaiseHasACause` (a repeated event has one of
two causes) and `ResultsMatchAttempts` (results belong to the current attempt
unless a wait timed out, a delivery or an activity was repeated, or the dispatch
was).

### Fairness

- Orchestrator: weak fairness of its turns only. Timers fire, and Durable records
  every activity as returned or failed. Nothing is assumed of GitHub or the
  queue. An activity can always fail, so it never depends on an effect.
- Queue: an invocation goes on until it ends or is killed, and the host serves
  every message. Kills have no fairness.
- Form validation: none; its properties are safety properties. A request that
  fails leaves the form waiting, which no fairness of the code excludes.
- Client factory: a call's own steps are weakly fair; `SemaphoreSlim` serves its
  waiters in turn, hence strong fairness of acquiring. Starting a call is not fair.

## 4. What is proved

For all values of the constants, under the ASSUME of each module:

| Module | Theorem | Result |
|---|---|---|
| GithubWorkflowOrchestratorProofs | TypeCorrect, AttemptsStayInStep, OutcomesHaveEvidence | `[]TypeOK`, `[]AttemptsInStep`, `[]OutcomeHasEvidence` |
| | ImplementsContractSafety | `Spec => Contract!Safety` |
| OrchestratorResultProofs | ResultsAreCurrent, SuccessIsNotRerun | `Spec => ResultsMatchAttempts`, `Spec => NoRerunOfSuccess` |
| | CalmResults | `[]CalmInv`, on which both rest |
| WorkflowMessageProcessorProofs | TypeCorrect, SkippingLosesNothing, OneIdRaises | `[]TypeOK`, `[]CompletedMeansRaised`, `[]OneIdPerReservation` |
| | ExtraRaisesHaveCauses | `[]EachExtraRaiseHasACause` |
| ExampleQueueProofs | TypeCorrect, DedupeLosesNothing | `[]TypeOK`, `[]NoEventLostByDedupe` |
| | OverlapsNeedStalls, DetailsHaveMessages | `[]NoOverlapWithoutStall`, `[]NoOrphanedDetails` |
| | ImplementsProcessorSafety | `Spec => Processor!Init /\ [][Processor!Next]_(Processor!vars)` |
| | QueueKeepsGuarantees | the processor's `CompletedMeansRaised`, `OneIdPerReservation` and `EachExtraRaiseHasACause` of its calls under the host |
| GithubClientFactoryProofs | TypeCorrect, HandsOutFreshClients, RequestsTokensWhenStale | `[]TypeOK`, `[]FreshUnlessOvertaken`, `[][...]_vars` of `NoNeedlessToken` |
| UnobtrusiveAdaptersProofs | TypeCorrect, MessagesFitRules, FindsFieldsOfModel | `[]TypeOK`, `[]MessageFitsRule`, `[]FieldsOfSameModel` |
| AdapterRuleProofs | RulesAreFromAdapters | `[]RulesAreSet` |
| | AttributesAreEnforced | `[]EnforcesAttributes` |
| UnobtrusiveValidationProofs | TypeCorrect, SendsValidForms, CountsPendingFields | `[]TypeOK`, `[]SentIsValid`, `[]PendingCounted` |
| | ExplainsErrors, LeavesUncheckedOnly | `[]ErrorsAreExplained`, `[]LeftoversAreUnchecked` |
| | ResetsOnce, SummariesListInvalid | `[]ResetRunsOnce`, `SummaryListsInvalid` |

Each proof shows `Init => IInv`, that every action preserves `IInv`, and that
`IInv` implies the property.

- Orchestrator. `AttemptsInStep` is not inductive: a rerun that was accepted and
  not recorded would break it at the next rerun. `AttemptsInv` counts the pending
  rerun; `ControlOK` says what each suspension implies (a run is tracked or not,
  only an outstanding activity has taken effect, no outcome is shown while
  running); `ResultsRecorded` puts a result behind every message, event and
  conclusion, so that whatever the orchestrator consumes is evidence. With
  `ControlOK` each turn is a step of the contract or a stutter of it: it starts
  an attempt below the maximum, ends the instance, or leaves what the caller sees.
- Results. `ResultsMatchAttempts` and `NoRerunOfSuccess` speak of steps in calm
  circumstances (no wait timed out, nothing happened twice), and circumstances
  never become calm again (`CalmBefore`), so the invariant is needed only there.
  It says that at most one result is on its way, as a message or a buffered event
  (`OneResultPending`); that it is from the run's current attempt, which has
  concluded (`PendingIsCurrent`); and that a rerun GitHub has yet to accept
  follows a failure that was taken from the buffer (`RerunAfterFailure`). The
  last one is what keeps a result of the old attempt from meeting the next wait.
- Processor. A call past its reservation works under an id that reserved the
  tuple (`WorkingCallsReserved`), rows inherit that (`RowsReserved`), and a row
  accounts for the one id that clean-ups do not (`ReservationsCounted`). For the
  repeated events, `RaisesCounted` counts with the raises so far the ones that
  can still come without a further cause: the calls about to raise or to clean
  up (`Contenders`), and one more while the tuple is `Open`, that is without a
  row, or with a row in Processing that no call is at work on. Their sum never
  exceeds one plus the interruptions and overlaps; a step that adds to one part
  takes from another or records its cause.
- Queue. Every step of an invocation is one of the processor's or leaves its
  state alone, so the processor's invariant, proved once, holds of the queue's
  instance of it. Three facts are added. As long as no lease ran out, an
  invocation has its message to itself (`Exclusive`), so the unfinished row of a
  tuple belongs to the one call at work on it (`OneAtWork`), and calls do not
  overlap. While a tuple's event has neither been raised nor had a last attempt
  (`Undecided`), its row is as it was added, and every call or message that was
  skipped met the row of another id (`SkippedForOthers`). If all of them had been
  consumed, the one that owns the row would have been skipped for itself; hence
  no event is lost. Last, a message with stored details has had its last
  attempt and can only go to the poison queue (`DetailsKept`).
- Client factory. The fields agree whenever no refresh is publishing
  (`FieldsAgree`), a refresh publishes what it was given (`RefreshOK`), and a
  caller that is not overtaken checked before any refresh still under way
  (`ChecksPrecede`).
- Adapters. The invariant records, for the adapters run so far, which of them
  set a rule: the message of a rule was given by one of these (`MessagesAreGiven`)
  together with its value (`MessageFitsRule`), as the later one replaces both or,
  without a message, only the value, in which case the property does not apply.
  `equalTo` and `remote` are set by one adapter each (`SettingsEffect`), so they
  hold what that adapter looked up (`LookupsAsSet`), and a name made from the
  element's prefix and `*.Other` is that of the one sibling `Other` (`SameModel`).
- What the rules accept. `EnforcesAttributes` speaks of the end of parsing and does
  not mention adapters. `RulesAreSet` holds all along: every rule has the value
  that some adapter run so far gave it, and no rule of such an adapter is missing.
  If no two adapters collide, each rule is therefore the one of its adapter, and
  the field accepts a text if and only if each adapter that applies allows it
  (`AcceptsByAdapters`). One lemma per kind of adapter says what its rules demand
  (`LengthAllows`, `RangeAllows`, `PasswordAllows` and so on), over the adapters
  of either page (`PageAdapters`), and `MeetsByAttributes` says the same of the
  attributes, one at a time. Two cases took a condition of their own: a lone bound
  (the texts' order), found by this proof, and the count of non-word characters.
- Form validation. `SentIsValid` looks back from the moment of sending, so the
  invariant says at every state what a check could rely on: a field that has
  been answered for its value with true was approved by the server
  (`ValidIsApproved`), which needs that a request under way is for the value its
  field remembers (`RequestsRemembered`), resets and reloads included. A request
  has its field among the pending ones, which makes the counter exact. The marks
  of containers follow the results (`Results`): a result, an error or a pending
  request exists only once there is a validator with rules for the field.

Assumptions on constants are those of the modules, and TLC evaluates them:
bounds are natural numbers, `MaxCalls` included; `Nobody` is no invocation and no
message. `AdaptersAssumption` says that the value of an absent attribute is none
of the values it is compared with, that names are sequences of strings, and that
elements have attributes as ASP.NET Core renders them (`Rendered`): a reference
that starts with `*.` names one property; bounds are numbers, empty or absent; the
adapter minlength has no maximum and maxlength no minimum; a count of non-word
characters is positive; patterns and lists of types are not empty. Nothing is
assumed of `NumeralOrder`.

Only model-checked: `EveryCallEnds`, `EverythingSettles` and the fairness half of
`ImplementsContract`. They are liveness, which is out of the prover's reach. Every
safety property that a passing run checks is proved as well.

## 5. Not modelled, and why

- The channel between queue and orchestrator is checked from both ends, not in
  one composed module: the orchestrator assumes that a message is delivered, lost,
  late or repeated, the queue module shows which of these it does, and the product
  of the two state spaces answers no further question.
- The job graph of `github-integration-test.yml`, approvals and authorization:
  expressions that GitHub Actions evaluates. The orchestrator's environment has
  what they amount to.
- `Azure.ManagedIdentity`: a `ConcurrentDictionary.GetOrAdd`, whose only race
  makes a service twice and keeps one.
- Example API, timer and data model: CRUD and scaffolding over Entity Framework
  and table storage; their concurrency is that of services the repository leaves
  at their defaults.
- Configuration store selection: a list of selectors; the Azure SDK applies it.
- Deployment scripts and pipelines (`tools`, `.github/workflows`): commands whose
  branches are decided by what Azure and Microsoft Graph answer. A model would be
  one of those services.
- MVC sample: static pages. `site.js` holds a comment.
- jQuery Validate itself, beyond what `UV` drives; generated and vendored assets,
  documentation tooling and wiring without state.
