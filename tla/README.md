# TALAP: TLA+ models of the webhooks, the workers, the catalogue and the search

TALAP answers shopping requests that arrive over WhatsApp. It is a FastAPI
service and a set of one-shot workers around one PostgreSQL database. Nothing
but the database connects the processes: a webhook handler leaves a row in
`message_processing_jobs`, a catalogue transaction leaves a row in
`product_indexing_tasks`, and workers pick rows up under leases. What can go
wrong is therefore mostly a matter of *which transaction commits between two
others*, of leases that expire under a slow worker, and of external calls
(embedding provider, extractor, WhatsApp API) that happen between transactions.
These modules model exactly that.

Paths below are relative to `src/`.

## 1. Inventory

| Component | State | Operations | Hard behaviour | What makes it correct |
|---|---|---|---|---|
| Indexing queue (`talap/indexing/scheduler.py`, `worker.py`) | `product_indexing_tasks`: status, attempts, available_at, started_at | schedule, claim a batch, complete, fail | leases expire under workers; the status check precedes the token check; the attempt limit acts on the failure transition only | one holder per claim; a lost claim changes nothing; retries while attempts are left |
| Indexing processor (`talap/indexing/processor.py`, `documents.py`, `decisions.py`) | `product_embeddings` | phase B reads, phase C provider call, phase D writing transaction | READ COMMITTED reads, unlocked re-read, unique violation between tasks of one product, crash | a completed latest task leaves the embedding of the current text |
| Catalogue API (`apps/api/services/catalog.py`) | merchants, products, variants, inventory | create, patch | the task must commit with the change it is for | every change of the text has a task |
| Catalogue import (`talap/catalog/importer.py`, `parser.py`) | `catalog_imports` and the catalogue | import a file | values read before an unlocked upsert; failure while recording a failure; row locks in file order | an import ends COMPLETED or FAILED, and schedules what it changed |
| Job queue (`talap/ingestion/jobs.py`) | `message_processing_jobs` | claim one, complete, release, fail | as the indexing queue; a release keeps the attempt, and the job comes back to every claim | as the indexing queue; a waiting job is not overtaken again and again |
| WhatsApp worker (`apps/worker/jobs/whatsapp_echo.py`) | none of its own | one job: dispatch, select, extract, search, store, send, finalize | five transactions and three external calls per job, whose exceptions are not all caught; only the job's transition is fenced | texts are answered; numbers select from the displayed set |
| Recommendation state (`talap/recommendations/service.py`) | `whatsapp_recommendation_states`, `unmet_demands` | store, load, mark selected, record unmet demand | concurrent stores of one customer; selection by id, after a lookup in another transaction | a set that was selected from stays selected, and later numbers do not find it |
| Ingestion (`talap/ingestion/service.py`, `fingerprints.py`) | `inbound_events`, `inbound_messages`, jobs, delivery statuses | ingest a normalized webhook | duplicate and overlapping bodies at the same time; inserts that wait for each other, and deadlock | bodies are ingested whole and once, before the 200 |
| Webhook routes (`apps/api/routes/whatsapp_webhook.py`, `telegram_webhook.py`) | none | verify, normalize, ingest, answer | the provider repeats what it saw no 200 for, in any order; the connection may be switched off between two transactions of a request | a 200 means everything the body says is stored as it was meant; a 400 is final |
| Normalizers (`talap/channels/whatsapp/normalizer.py`, `telegram/normalizer.py`, `inbound.py`) | none | payload to messages and statuses | every field may be missing or malformed; one bad element rejects the body; identifiers are unique in a chat only | nothing is stored that nobody sent |
| Extractor (`talap/ai/customer_request.py`) | its HTTP client | ask DeepSeek, repair an invalid answer once | failures of five kinds, at either request | errors follow from the answers; the client is closed |
| Embedding client (`talap/embeddings/jina.py`) | its HTTP client | embed a query or a document, with retries | which answers are retried, for how long | retries are bounded and justified |
| Product search (`talap/search/products.py`) | none | embed, query, rank | a changing catalogue; rows without distance, or at a distance that is not a number | the results are the best there are at that moment |
| Evaluation (`talap/evaluation/embeddings`) | none | an offline report | none | see section 6 |

Interactions: routes call ingestion; ingestion writes jobs that the WhatsApp
worker claims; the worker calls extractor, search and WhatsApp client and writes
recommendation state; the catalogue writes tasks that indexing workers claim;
the search reads what the processor wrote.

## 2. Modules

| Module | Models | Role |
|---|---|---|
| `LeasedQueue` | what either queue promises | abstract specification |
| `IndexingQueue` | the tasks table and the transactions on it | component, extended by the next |
| `ProductIndexing` | catalogue transactions and indexing workers | component, implements `LeasedQueue` |
| `ProductIndexingProofs` | | theorems about `ProductIndexing` |
| `MessageQueue` | the jobs table and the transactions on it | component, extended by the next |
| `WhatsAppWorker` | workers, customer and recommendation state | component, implements `LeasedQueue` |
| `WebhookInbox` | "all writes commit in one transaction" | abstract specification |
| `Ingestion` | the ingestion transaction, statement by statement | component, implements `WebhookInbox` |
| `CatalogImport` | imports of one merchant, beside the catalogue API | component |
| `Payloads`, `Normalizers` | JSON values, and both normalizers as operators on them | extended by the next |
| `ProviderFormats` | when a JSON value says what Meta or Telegram meant | extended by the next |
| `Webhooks` | concurrent requests of both channels, with the contents of what they store | component, implements `WebhookInbox` (`WebhooksProofs`) |
| `ProviderPayloads` | what Meta and Telegram send, what it means, and how it is damaged | inputs of `MCWebhooks` |
| `CustomerSearch` | extractor, embedding client and search, for one text | component |
| `IndexedDocumentsProofs`, `WhatsAppWorkerProofs`, `WhatsAppCalmProofs`, `IngestionProofs`, `CatalogImportProofs`, `WebhooksProofs`, `CustomerSearchProofs` | | theorems and lemmas about the module they extend |
| `MCProductIndexing`, `MCWhatsAppWorker`, `MCIngestion`, `MCCatalogImport`, `MCWebhooks`, `MCCustomerSearch` | | instances for TLC |

Operators whose comment starts with "Mutant" are plausible bugs of the operator
they stand before; each makes one property fail and is used for nothing else.

### Time, transactions and claims

Both queues compare timestamps with the clock and with nothing else. `ripe[t]`
is the outcome of that comparison (`available_at <= now` for a waiting row,
`started_at <= now - stale_after` for a leased one). A claim or a retry delay
makes it FALSE, and `Ripen` makes it TRUE at *any* later moment, so a lease may
expire at every point of a slow worker's run. The `ORDER BY` depends on
timestamps. For tasks it is left open: any eligible row may come first. For jobs it
is modelled, since an answer depends on it: `earlier[m]` are the jobs ordered before
`m`. A job joins the end when it is inserted or released (`available_at = now`) or
its retry delay has passed; one whose lease expired keeps the place it had. So a
message whose call always raises is claimed first whenever its lease has expired,
before those that wait.

A transaction that locks its rows first and does not wait in between is one
step. A transaction is several steps where another can commit between its
statements and be seen: the writing transaction of the processor, the storing
transaction of recommendations, the ingestion transaction. `Locked`,
`LockedSets` and `staged` are what such an open transaction keeps others from.

A claim is the snapshot `[task, attempt]`; the attempt is the fencing token.
`OwnsClaim` is what a transition checks once it holds the row's lock.

### `ProductIndexing` against the code

| Model | Code |
|---|---|
| `CreateProduct`, `PatchProduct` | `create_product`, `patch_product`: the product row is locked before it is compared, change and task commit together |
| `ClaimBatch`, `hand[w]` | `claim_indexing_batch` and the snapshots it returns, processed one by one |
| `ReadProduct`, `ReadVariant`, `ReadEmbedding` | the three SELECTs of phase B; `partial` and `expected` are what has been read |
| `SkipUnchanged` | the identical embedding: complete without calling the provider |
| `EmbedDocument`, `RecordFailure` | phase C, and the failure transaction |
| `LockTask` ... `CommitEmbedding` | `_write_embedding_atomically`: FOR UPDATE, re-read, compare, find the row, insert or update, complete, commit |
| `Crash` | end of a process. Also what a database error or cancellation in a call amounts to (open transaction rolled back, task left PROCESSING), and `run_indexing_claim_once`, which claims and leaves the claims alone |
| `reports` | results returned (or raised) by `process_claimed_indexing_task` |

A document is a pair: what a `products` row and what a `variants` row
contribute. Two parts are what it takes for a read to be torn. `Canonical` is
`build_product_index_text`, which normalizes whitespace: two documents may have
one text, in which case a patch schedules a task that finds nothing to do. The
sha256 of a text stands for the text. `overtaken` is a history variable: the
products that were patched while a transaction that writes their embedding was
between its re-read and its commit (`BeingWritten`).

### `WhatsAppWorker` against the code

`pc[w]` names the call that comes next in `process_one_whatsapp_echo_job`; every
disjunct of an action is one of its outcomes. `Supersede`, `Resume` and
`InsertSet` are the statements of `store_recommendation_set`: the UPDATE that
supersedes the active row (and waits if another transaction holds it), then the
INSERT under the partial unique index. `recommendation` is the status column,
`selection` stands for `selected_index`: the claim whose choice it holds.
`MarkSelected` is by id and without condition, as in the code, so a superseded set
becomes selected, and a call that had looked a set up overwrites the selection of
another. `chosen`, `replyTo` and `shown` record what a message selected and what the
customer had seen. `send_text` can deliver, fail, or fail after it delivered. A call
that fails in a way the code catches goes to `Fail`. The others leave the job
PROCESSING until its lease expires: `Raise` is the end of a call whose exception
always comes (digits `int()` rejects, a lost claim); `BreakOff` is any other
exception, at `Extract` and `Search` among them, and the death of the process, and
`losses` counts these. The customer is the environment: he sends messages of any
kind, and a number answers the list he was shown last.

### `Ingestion` against the code

`todo[h]` is what is left of the loop a handler is in, `staged[h]` its
uncommitted rows. An INSERT waits while another transaction has staged the same
key; `AbortDeadlocked` is PostgreSQL's deadlock detector, `Abort` any other
failure. `FirstOccurrences` is the deduplication inside one body, `Kept` what a
loop keeps of a sequence (the first of each identity; the messages whose INSERT
returned a row). A duplicate event ends the transaction with nothing inserted, as
in the code.

### `Webhooks` against the code

A body is a record of the connection it is posted to, its payload and its
elements: what the provider meant by it. `ProviderFormats` says when a payload
means what its elements are, by what is in it and not by what the normalizers do
with it; `FormatsAssumption` takes only such bodies. An
element that was damaged on its way is marked: the fields that identify it are as
they were or lost, all others may be anything. `Receive` is the verification (for
Telegram a transaction of its own, which reads the connection), `Parse` the
parsing and normalization with the time of the request, `FindInactive`,
`FindDuplicate`, `Ingest` and `RollBack` the outcomes of the ingestion, which
`Ingestion` takes apart and is one step here. `Accepts` is what the normalizer
does not raise on, `MessagesOf` and `StatusesOf` what it returns; the columns'
widths (`MaxInteger`, `MaxBigInteger`) and the fingerprint's own checks are `IsStorable`. `NormalizersAreFaithful`
asks that a body whose elements all arrived as sent is accepted, and that what an
accepted body is normalized to is what it says, all of it and nothing else. The
properties compare rows with elements and never look at the payload, so a normalizer that drops,
mixes up or invents a field violates them. A string is an atom: `Padded`,
`Long`, `Seconds` and `Checksum` say what stripping, a length check and the
parsers make of it (`Wide` for the narrower VARCHAR(255)). Only what is inserted
must fit its columns, hence `FirstOfEach` in `IsStorable`; `Unstorable` are the
payloads JSONB refuses. The parts of a Telegram identity are put together as they
are written, and the whole is stripped (`MessageIdentity`). `IsInbound` is the contract of `inbound.py`; the predicates of
the normalizers are what remains to be asked of a payload for the contract to
hold of what is built from it, which `WebhooksTypeCorrect` shows to be enough.
`Json` is the set of values payloads are taken from; it is closed under taking
the members of an object or a list, and nothing else is assumed of it.

### `CustomerSearch` against the code

`said` and `embedded` are the answers of DeepSeek and Jina so far: the loop's
`attempt` is the number of answers, and every property about retries reads them.
An answer stands for its class in the code: `Transient` for the statuses and
errors that are retried (with no Retry-After, one below the cap, one above it, or
one that is no number), `Permanent` for other statuses and unusable bodies,
`Unforeseen` for what leaves the client untyped: an httpx error that is neither a
timeout nor a transport error, and an integer no float holds. The first request
opens the client of the embeddings (`_http`), which is none before. A vector is known by the distances of the products from
it, which are columns of `catalog`; a vector of zeros is at the distance NaN of
everything, which PostgreSQL sorts last. `Matches` is the WHERE clause,
`FirstVariants` the window function, `Ranked` and `Found` the ORDER BY and LIMIT,
and `Query` the statement, its errors, and the similarities. The catalogue
changes before and between all calls.

### `CatalogImport` against the code

`Start`, `BeginValidation` and `MarkFailed` are the transactions on the import's
record; `ReadKeys`, `ReadProducts` and `ReadVariants` the SELECTs of the mutation
transaction, each with a snapshot of its own; `UpsertProduct` the row locks that
the upsert takes in file order; `Commit` the rest of the transaction (variants,
inventory, tasks, statistics, COMPLETED), which waits for nobody because every
writer of a variant holds its product. IMPORTING is set and replaced inside that
transaction, so no reader sees it. An import's locals are cleared when it ends.
`overtaken` is a history variable: the products somebody changed between an
import's SELECTs and its row lock. `CreateProduct` and `PatchProduct` are those
of `ProductIndexing`, here with the row locks of the imports in their guards.

## 3. Runs

Bounds: `MaxTasks` tasks per product (scheduled by the API, in `CatalogImport`), `MaxClaims` claims per row, `MaxAttempts`
the code's limit (default 3, here 2: one retry and one last attempt),
`ClaimLimit` the batch (default 10), `MaxCrashes`, `MaxFailures`, and `MaxLosses`,
the calls of the WhatsApp worker that break off. `MaxTasks`, `MaxClaims`,
`MaxCrashes`, `MaxFailures` and `MaxLosses` exist for TLC only. Two workers
suffice for every race of a holder with its successor; two tasks of one product
for every race of two tasks for one embedding row; three claims for a holder, a
successor, and a successor of that one. A row that has used up its claims no
longer becomes ripe (`Ripen`), which only a further claim would notice. Where a bound ends the behaviours the
cfg switches the deadlock check off: after `MaxClaims` claims a model stops, the
code does not. `Ingestion` never stops, and deadlock is checked.

| Run | Question | Shows |
|---|---|---|
| `IndexingCore` | Are claims and transitions fenced when leases expire, a worker dies, batches overlap, and does a completed latest task mean a current embedding? | `ClaimsAreUnique`, `SuccessIsFinal`, `WriterOwnsTask`, `RetryBudget`, and `ImplementsLeasedQueue`, with batches of two; `CompletedMeansIndexed` and `WritesAreVerified`, torn reads included, for every product that is not `overtaken` |
| `IndexingLive` | Does every task end, is every product indexed or given up? | yes, under `TimelyFairSpec`; documents with equal texts occur |
| `IndexingStaleWrite` | Is the stale embedding never written? | no: finding 1 |
| `WhatsAppCore` | With two workers on two messages of one customer: are selections kept, waiting jobs not overtaken, completed jobs answered, is the table a leased queue? | yes, in every interleaving and with every failing call. A selection may be overwritten, by calls that had looked the set up before |
| `WhatsAppCalm` | For a customer who waits for answers, does each number select from the list it answers? | yes, and without extraction, for every kind of message and two workers, under the assumptions of `CalmSpec` |
| `WhatsAppLive` | Can released Telegram jobs starve a WhatsApp job, when calls fail, raise or die? | no: it is answered or given up, unless more than `MaxClaims - MaxAttempts` of its own claims are lost |
| `Ingestion` | Does a 200 mean ingested; are overlapping bodies ingested whole, once and eventually? | yes; the instance has two bodies with two messages in opposite orders (a deadlock), a repetition inside one, a shared status, a third handler with a duplicate |
| `CatalogImport` | Are files applied whole or not at all, is what an import changes scheduled and counted, does every import end? | yes, scheduling and counting except for products that were overtaken; two imports in opposite file orders (a deadlock), one invalid and one malformed file, one failure or dead process at any point |
| `ImportUnscheduled` | Is every change scheduled? | no: finding 2 |
| `Webhooks` | Is what a 200 acknowledges stored completely, once and as it was meant, and nothing else? Is a 400 final? | yes: `NormalizersAreFaithful` of each body, `InboxIsExact` of the tables, `RefusalsAreFinal`; and `SoundBodiesAreAcked`: bodies that fit are acknowledged in the end |
| `CustomerSearch` | Does every call end the way its answers justify, with its clients closed and the best products? | yes, except for the Jina client of a failed embedding (section 5) |
| `SearchDisabledMerchant` | Are disabled merchants excluded? | no: finding 3 |

`Webhooks` starts from one of 377 mailings: one body with each kind of message,
status, update and callback; one for each field of each of them and each way of
damaging it (absent, null, blank, a number, a list, too long), beside a sound message;
numbers beyond INTEGER and BIGINT, a payload JSONB refuses, payloads without elements; and pairs of bodies that share messages, statuses,
identifiers or chats. TLC checks of every one of them that it is in the provider's format
(`FormatsAssumption`), in which the bodies were not written down. Two handlers
give every overlap of two requests, with one
step of the clock between any two of them and one failure or lost answer. More
than two bodies would add no pair.

`CustomerSearch` has three products, one with two variants, and a limit of two,
so that something is cut; five catalogues with equal distances, missing and
unusable embeddings, sold out and inactive rows; every wish of a request present
or absent; up to two retries (the default), a cap of two seconds on the delays, so
that there is one below it; and one change of one column between
any two steps: the statement is one snapshot, so a second change could only lead
to another catalogue. The model stops when the call has ended, which is why
deadlock is not checked there.

`WhatsAppCalm` has two workers and three messages, of all kinds: a number that
answers a list, the list, and a message of the other channel beside them. Its
specification excludes what the properties are known not to survive (section 5):
`Patient`, the customer writes once at a time; `ReliableSends`; `Uninterrupted`, no
call breaks off between its answer and its completion; `Timely`, no lease expires under its worker. Jobs of the other channel
are exempt from the first. Retries after failed calls are not excluded, nor are calls that break
off before they have an answer.

`WhatsAppLive` has one worker and two messages, which may be requests, messages of
the other channel, or digits that always raise, with one call that breaks off. Two
attempts and three claims leave room for a claim that is lost and one that is
released in vain; with more of them lost the bound, not the code, would end the
behaviour, and `MessagesAreDealtWith` says so (`LostClaims`). What the bound hides
of releases, that they could go on for ever beside a waiting job, is what
`WaitingJobsAreNotOvertaken` is about, of which `NoOvertaking` is proved without it.
What it hides of messages that always raise is not covered: each is claimed once in
15 minutes, first, and so many of them that a worker does nothing else would keep
the others waiting.

Symmetry is used in runs without liveness properties only.

### Fairness

`apps/worker/main.py` has no loop ("one-shot, no loop"): workers are run by
hand. Liveness is therefore conditional on their being run again and again;
`Fairness` says that, and that time passes.

* Indexing and WhatsApp: weak fairness of a worker's next step (a call either
  returns or fails; every external call has a timeout), of a claim, of the clock.
  In `IndexingLive`, `Timely` says that a lease expires only when its worker is
  gone. Without it two workers can take a task from each other for ever; the
  default lease (5 minutes) is chosen so that it does not happen. `WhatsAppLive`
  has one worker, from which nobody can take a job.
* `WhatsAppLive` assumes nothing about which job is claimed: that is the first of those
  due (`earlier`). A released job goes behind every job that is already waiting.
* Ingestion: the provider repeats a body until it is acknowledged; the
  connection is eventually switched on and stays on; a waiter is woken when the
  transaction it waits for ends (`NotOvertaken`). Failures are bounded by
  `MaxFailures`; deadlocks are not.
* Webhooks: a request that was received goes on (`Leave`, which some step of
  `Handle` or `Fail` always allows); a provider repeats a body until it has seen a
  200 for it; connections end up active.
* Imports: a call that was made goes on until it ends or its process dies.

## 4. What is proved

`ProductIndexingProofs` proves, for any number of products, workers, tasks,
claims, crashes and any batch size:

* `FencingInvariant`: `Spec => []Fencing`, the inductive invariant;
* `TypeCorrect`, `UniqueClaims`, `SuccessStays`, `WriterKeepsTask`,
  `RetryBudgetHolds`: the invariants that `IndexingCore` checks;
* `QueueRefinement`: `Spec => ImplementsLeasedQueue`.

Assumptions: `QueueAssumption` (what `validate_failure_inputs` and
`validate_claim_limit` enforce: positive limits) and `IndexingAssumption`
(the markers for "nothing" differ from real values).

The argument. None of the invariants is inductive alone. `SuccessIsFinal` needs
that a completed row is never moved, hence that every transition is made by the
owner of the claim; `WriterOwnsTask`, that nobody else moves the row while the
writer is past its check, which follows from the row lock *and* from
`ClaimsAreUnique` (two writers with the same claim would both pass the check);
`ClaimsAreUnique` needs that a new claim has an attempt that no claim in
anybody's hand has, which is `GrantedClaims`: a claim's attempt is at most the
row's `attempts`, and claiming increments it; and that needs `Rows` (rows that
do not exist have no attempts) and `Locals` (what a worker's locals hold where
it stands). `Fencing` is their conjunction. There is one lemma per action, on
top of lemmas for the five things an action can do to the table: leave it,
complete a row, fail a row, schedule a row, claim rows. The refinement maps each
of these to a step of `LeasedQueue` or a stutter; a call that lost its claim is
a stutter.

The other proof modules do the same for their components, each for any values
of the constants, under the assumptions of the module it extends:

* `IndexedDocumentsProofs`: `CompletedIsIndexed` and `VerifiedWrites`. `Indexed`
  adds to `Fencing` that what a worker on the *latest* task has read is what the
  product still says (a change would have scheduled a later task), and that past
  the check of phase D the text is current unless the product was overtaken.
* `WhatsAppWorkerProofs`: `WorkerTypeCorrect`, `NoOvertaking`, `CompletedIsAnswered`,
  `SelectionStays`, `MessageQueueRefinement`. The invariant adds to the types six
  parts: `Claims` (a held claim's attempt is at most the job's, and is held once),
  `Sets` (a claim stores at most one set; what a storing transaction has locked is
  active and locked by it alone), `Answers` (answers sent and claims that have not
  answered yet are at most the attempts, and a claim about to complete has
  answered), `Order` (a job that overtook a waiting one and waits again is ordered
  behind it), `OneActive` (what the unique index ensures) and `Reports`.
  `SelectionStays`: a call that looks a set up finds an active one, and a selected set
  is never active again, because the calls that could still store or supersede it
  hold claims that have stored nothing yet, or have locked an active row; so those
  that overwrite a selection are among the ones that were past their lookup.
  `NoOvertaking` holds whatever `MaxClaims` is.
* `WhatsAppCalmProofs`: `ChoicesResolved` and `ChoicesNotExtracted`, of `CalmSpec`.
  `Calm` adds to the worker's invariant that whoever works on a job owns it
  (`Leases`), that one message of the customer's is open (`OneOpen`), hence that one
  worker is busy with him (`OneBusy`, which needs that claims are unique); that what
  he was shown last is active or about to be replaced by a set that is being sent
  (`Display`); and that the set a number answers is active until the number is
  resolved to it, by the worker that then confirms it (`Resolution`). A number can
  only meet the wrong set, or none, if something is stored or selected between
  the moment it is sent and its lookup: all the parts are there to exclude that.
* `IngestionProofs`: `IngestionTypeCorrect`, `AckedAreIngested`, `WholeBodies`,
  `NoStandstill`.
  `Exclusive`: uncommitted rows are of one handler and not committed, since an
  INSERT of the same key waits. `HasInserted`: what `todo` does not name is
  inserted or was committed before. `Closed`: an event is committed with its
  rows, a message with its job, which is why a handler that finds a message
  present need not insert its job. Two lemmas about sequences (`KeptFacts`,
  `FirstFacts`) say what the loops get to work on. `NoStandstill`: only a busy
  handler holds rows, so if every busy handler waited they would wait within
  themselves, and of finitely many that do, a smallest such set is a deadlock as
  the database knows it. It needs that there are finitely many handlers (infinitely
  many could wait in a line), which `IngestionAssumption` says.
* `CatalogImportProofs`: `ImportTypeCorrect`, `WholeImports`, `ChangesScheduled`,
  `StatisticsExact`. Row locks are part of the types: no two imports hold the same
  product, so that a held product changes by its holder's commit only. `Progress`:
  what is held and what is still to do are together the keys of the file, and
  `fresh` are the held products that did not exist when they were locked, nor do
  now. `Reads`: what an import has read of a product that was not overtaken is
  still what the catalogue says. Hence the commit's comparison with what was read
  schedules what really changes, and its count of missing keys is what it inserted.
* `WebhooksProofs`: `VerdictsInvariant`, `RefusedForGood`, `NothingSkipped`,
  `WebhooksTypeCorrect`, `NormalizersFaithful`, `SoundBodiesGoThrough`,
  `InboxExact`, `InboxImplemented`, from what is assumed of the providers: what
  they send is in their formats (`FormatsAssumption`), and they repeat an element as
  it was (`ProvidersAssumption`); TLC evaluates both.
  The verdict on a body is a function of the body, so that no
  reordering changes it. `FlattenFacts`: the elements of a flattened sequence of
  sequences are those of its members; hence a WhatsApp payload is normalized to
  what each item of each change of each entry stands for, and to nothing else
  (`NothingSkipped`). What `FlattenSeq`
  computes is known by its recursion only, and the induction is done without an
  induction theorem, by the least length of a counterexample. `WebhooksTypeCorrect`
  follows each field of either payload to the row that gets it.
  `NormalizersFaithful` has a lemma for each kind of item (`CustomerMessageMeans`,
  `DeliveryStatusMeans`, `TelegramMessageMeans`, `CallbackMeans`): what is in the
  format is accepted, and what is accepted is read as it was meant; damage either
  leaves the identity of an element or has the body refused. With `NothingSkipped`
  these give a whole body (`MessagesFaithful`, `StatusesFaithful`).
  `SoundBodiesGoThrough` is the step half of `SoundBodiesAreAcked`: a request with
  a sound body ends with the body ingested, an inactive connection or a failure;
  whether a row fits its columns does not depend on the time of the request
  (`StorableAnytime`). `InboxExact` adds everything about bodies together: the first
  message of an identity is kept and others are dropped, which is the same message
  because providers repeat it unchanged;
  a status is one row for each moment; nothing is lost to an earlier body, a
  repetition, a failure or another request. The invariant (`Ingested`) relates the
  rows with the events that are committed instead of the bodies that are
  acknowledged, and needs the type of the rows. `InboxImplemented` maps the rows of
  the tables to `WebhookInbox`, whose body is now the place of a body in its
  mailing and whose rows are those of what the provider *said*: `Ingestion` and
  `Webhooks` implement the same abstract inbox.
* `CustomerSearchProofs`: `CallTypeCorrect`, `RequestsJustified`,
  `FailuresJustified`, `ClientsClosed`, `ResultsBest`. `Before` is a strict total
  order on the products found, hence their ranks are different numbers below
  their number, hence (pigeonhole) each is taken, and `Ranked` lists them in
  order: `FoundIsBest`; and what is found at a place has fewer products before it than
  the place says, so that a failure for want of a similarity is one of a product
  among the best (`FoundSpoils`). The rest follows from what `said` and `embedded` are at each
  place of the call.

Every invariant, every action property and every refinement that a passing run
checks is proved. Only model-checked: the liveness properties `TasksSettle`,
`EventuallyIndexed`, `MessagesAreDealtWith`, `BodiesAreIngested`,
`SoundBodiesAreAcked` and `ImportsEnd`, since fairness and ENABLED are out of the
prover's reach; `NoStandstill` and `SoundBodiesGoThrough` prove what can be said of
them without.

## 5. Findings

1. `IndexingStaleWrite`. `talap/indexing/processor.py:14-15`: "If the product
   document changed between B and D, the stale embedding is never written". It
   is, when the change commits after the re-read of phase D (`:301`), which
   locks the task but not the product. The change's own task usually repairs it.
   If that task was processed first, the stale embedding overwrites the current
   one and stays: this is why `CompletedMeansIndexed` exempts overtaken products.
2. `ImportUnscheduled`. `talap/catalog/importer.py:422`: "Create one indexing task
   per row whose semantic values changed". What a row is compared with is read
   before the upsert, without a lock (`:307`). A product patched in between is
   set back by the upsert to what the import had read, which is a change, and no
   task is scheduled for it. If the patch's own task was processed before the
   import committed, the product keeps the embedding of the patch.
3. `SearchDisabledMerchant`. `docs/DOMAIN_MODEL.md:138`: "A disabled merchant is
   excluded from customer search", and `:290` lists `merchant.active = true` among
   the conditions. The conditions of `talap/search/products.py:117` are about
   products, variants and stock; the merchant is not looked at.

Not checked by a run of their own, but worth knowing:

* `processor.py:103-104` says that stale claims "are never raised to the caller". A
  worker whose successor already completed or failed the task gets
  `InvalidIndexingTaskTransitionError`, which is not caught (`:293`): the reports
  of `LoseClaim` contain it.
* `README.md:24` says that a number is answered "without calling DeepSeek or
  product search again". The selection commits before the confirmation is sent;
  when the send fails, the retry finds no active set and extracts the number.
  `ChoicesAreNotExtracted` is therefore checked with reliable sends.
* Updates of Telegram that are neither a message nor a callback (an edited
  message) are answered 400 (`telegram/normalizer.py`), and so is a WhatsApp body
  one element of which is malformed, whatever else it carries.
* A body that the contract accepts and the columns do not (a negative error code,
  a duration beyond INTEGER, a size beyond BIGINT, a MIME type beyond its column), or
  that JSONB refuses (a NUL character, a lone surrogate, NaN), is rolled back and
  answered 503 at every delivery (`RollBack`): the provider repeats it until it
  gives up.
* A status without a timestamp gets the time of the request and with it a new
  fingerprint, so the same status in two bodies is stored twice;
  `InboxIsExact` asks for one row only where the provider gave the time.
* The search closes the Jina client it made in the `finally` of its query; when
  the embedding fails, it leaves before that (`search/products.py:183`).
* A `Retry-After: nan` passes `_retry_after_seconds`, and `min` keeps it; an httpx
  error that is neither a timeout nor a transport error is not caught, nor is the
  OverflowError of `float()` for a huge integer (`jina.py:202`): all leave
  `embed_query` as they are (`FailuresAreJustified` names them).
* `deepseek_timeout_seconds` and `deepseek_max_retries` (`core/config.py:45-46`) are
  read by nobody: the extractor has its own default and does not retry.
* A set is active before it is sent (`whatsapp_echo.py:386`), so after a failed
  send a number may be resolved against a list the customer never saw.
  `WhatsAppCalm` assumes `ReliableSends` for this reason.
* `mark_recommendation_selected` (`recommendations/service.py:149`) updates by id
  without a condition: a set superseded since its lookup becomes selected, and of two
  calls that looked a set up the second overwrites `selected_index` of the first.
  `SelectionIsKept` says what is left: no later number finds the set.
* Of the extractor only its two errors are caught, of the search only
  `ProductSearchExecutionError` and ValidationError (`whatsapp_echo.py:360-384`).
  Every other exception, those of `embed_query` above among them, leaves the job
  PROCESSING: it is claimed again after 15 minutes, before the jobs that wait, and the
  attempt limit does not end it.
* `"²".isdigit()` is true and `int("²")` raises (`recommendations/service.py:56`),
  past the worker's handlers: the last disjunct of `Dispatch`. The attempt limit
  acts on the failure transition only, so the job is claimed again for ever.
* A release keeps the attempt it took (`ingestion/jobs.py:183-205`), so jobs of
  the other channel collect attempts.
* When recording a failed import fails too, the import stays VALIDATING, not
  IMPORTING as a comment expects (`importer.py:163-164`): IMPORTING was set in the
  transaction that was rolled back.

## 6. What the models leave out

* Branches for missing rows (task, product, variant, message, job): products are
  never deleted (`docs/DOMAIN_MODEL.md`), and foreign keys hold the rest.
* Signatures and secrets of webhooks (a request that fails them changes nothing),
  tenants, logging, wording.
* Catalogue fields the text is not made of (price, stock, SKU) in `ProductIndexing`
  and `CatalogImport`, and conflicts of SKUs: such a patch changes nothing an
  indexing worker reads. `CustomerSearch` has price and stock.
* Errors of the database inside a call, except where the code handles them: they
  end a call as `Crash`, `Abort` or `Fail` does.
* In `WhatsAppWorker` extraction and search are choices among the outcomes that
  `CustomerSearch` derives (its "raised" is a `BreakOff`); in `ProductIndexing` the
  embedding client is one.
* Commits whose outcome the caller does not learn, and files without rows.
* Of a request, the words: `build_query_text`, prompts, attributes, and what the
  validator of the model's answer looks at (it is valid or it is not).

Not modelled, and why: the evaluation of embeddings (an offline command that
keeps no state and on which nothing depends; its metrics are floating-point
averages); the migrations (DDL; the unique indexes and foreign keys the models
rely on are read from the model classes); the CSV parser beyond "a file parses or
does not" (string processing); the speech worker (a placeholder); configuration,
health and sessions (no state).

## 7. Plan

Done, in this order: the indexing pipeline (the system's longest-lived data,
and its most intricate protocol), its proofs, the WhatsApp worker, ingestion, the
catalogue import; then the webhooks with their normalizers, the customer search,
and the proofs about contents, the worker, ingestion, imports, webhooks and search;
then those about the contents of the inbox and the customer who waits, and about
the formats the normalizers read.

What could follow:

1. `CatalogImport` composed with `ProductIndexing`, so that `CompletedMeansIndexed`
   is asked of imports too; commits of unknown outcome.
2. `Ingestion` composed with `WhatsAppWorker`, so that a message of a body
   acknowledged twice is answered by one job.
3. `CustomerSearch` as the refinement of the choices `WhatsAppWorker` makes.
