# A TLA+ model of provenex-core

provenex-core records where the chunks of a retrieval pipeline come from. An
*index* maps the fingerprint of a chunk to the document and version it was
ingested from; an *ingestor* fills it; a *gate* between retriever and model asks
it about every chunk, lets chunks through or blocks them, and issues a signed
*receipt*; a *transparency log* makes the rows of the index append-only for an
auditor; *sinks* ship receipts to a firehose; a *trajectory* links the receipts
of an agent run into a DAG. Paths below are relative to `src/`; the Python
package is `src/provenex/`.

## 1. Inventory

| Part | State it keeps | Operations | What is hard | What makes it correct |
|---|---|---|---|---|
| Provenance index (`index/base.py`, `sqlite_index.py`, `postgres_index.py`) | tables `documents` (current version, grant) and `fingerprints` (rows with a `superseded` flag, a timestamp, a signature) | `add`, `lookup`, `verify`, `set_authorization`, `supersede` | one fact in two tables, shared fingerprints, edits that are reverted, clocks of several hosts | the flag agrees with the current version; verdicts are sound and depend on the chunk's own documents only; rows are never changed |
| Ingestion (`integrations/langchain/ingestor.py`, `integrations/llamaindex/ingestor.py`, `cli/main.py`) | none of its own; a running call | one `add` per fingerprint | a call is many atomic steps; others, a revocation or a crash fall between them | what an undisturbed call wrote is live and served, also when it repeats a crashed call |
| Retrieval gate (`core/verify.py`, both retrievers, `integrations/langgraph/node.py`) | a receipt under construction | `verify` and `lookup` per chunk, two gates, finalize | the two reads are not one transaction | a receipt is a snapshot where nobody wrote; a revocation is enforced; a citation can be checked later |
| Transparency log (`core/merkle.py`, `index/merkle_sqlite_index.py`, `index/merkle_postgres_index.py`) | leaf table, in-memory tree, dictionary of positions | `add`, `tree_root`, `inclusion_proof`, rebuild at start | row and leaf are two commits; memory is updated after the commit; many threads and processes | a published leaf stays where it is; proofs verify, and only for their own leaf |
| Receipt sinks (`export/streaming.py`, `kafka.py`, `aws.py`, `gcp.py`) | bounded queue, closed flag, edge-triggered warning | `publish`, `close` | outages, a full queue, late acknowledgements, closing while others publish | order, no silent loss, no duplicate of its own, `publish` always returns |
| Trajectory (`core/trajectory.py`) | an immutable cursor the caller holds | `next_step`, `merge_branches`, `audit_trajectory_dag` | fan-out and fan-in, repeated step numbers | the audit accepts exactly the DAGs an agent can produce |
| CrewAI session (`integrations/crewai/session.py`) | the shared cursor, the list of receipts | wrapped tools, `advance` | tools run concurrently and read the cursor before they store its successor | no receipt lost from the chain |
| LangGraph nodes (`integrations/langgraph/node.py`) | keys of the graph's state | retrieval, admission and step nodes, merge | parallel branches, two possible reducers | a linear graph's state is its record; every archive of one trajectory audits |
| Access-control policy (`policy/`, `tool_call/yaml_evaluator.py`) | none: loading and evaluation | `from_yaml`, `from_text`, `evaluate`, `validate_policy_file` | missing attributes, early exits of the loop, two layouts of the file | the decision is the one the file demands; `rules_fired` is its trace |
| Tool-call admission (`tool_call/`) | a receipt per action | `admission_check`, wrapped tools | decision and execution are separate | a denied action is not executed |
| Receipt (`core/receipt.py`) | none after `finalize` | summary, status, signing | two gates in one status | the status agrees with what was blocked |
| OCSF export (`export/ocsf.py`) | none: events of one receipt, forwarded one by one | `publish` | a failure between two events, decisions joined by fingerprint | the SIEM is told what was done, in order |
| Cloud sinks (`export/kafka.py`, `aws.py`, `gcp.py`) | the vendor's client | `publish` | an error after the message arrived, keys that repeat | every event is kept |
| Normaliser and hasher (`core/normalizer.py`, `hasher.py`, `fingerprinter.py`) | a rolling hash | `normalize`, `iter_window_hashes` | order of the passes, last window, modular arithmetic | what was indexed is found again |
| Bloom wrapper (`index/bloom.py`) | a filter beside the index | `add`, `verify` | two writes | no indexed chunk is UNVERIFIED after `add` returned |
| Command line (`cli/main.py`) | none | `ingest`, `verify`, `audit`, `policy validate` | - | the same calls as the library's |

How the parts interact: ingestors, operators and the gate share only the index
and call it directly. The Merkle variants are subclasses of the index whose `add`
wraps the base `add`. The gate and the admission check hand a finished receipt to
a sink and swallow what the sink raises, so a sink never influences a verdict.
Trajectory cursors are values that callers pass along; only the CrewAI session
shares one. What sinks wrote is later read back by the audit of the command line.

`PROJECT.json` lists under `hazards` what is hard to test here, at its line, with
the properties that cover it or the reason why none does.

## 2. Modules

| Module | Models | Uses |
|---|---|---|
| `DocumentLedger` | abstract: what an index promises about one document | - |
| `ProvenanceIndex` | the two tables and the five operations | implements `DocumentLedger` |
| `Ingestion` | `ingest()` of both integrations and of the CLI | extends `ProvenanceIndex`, implements it |
| `RetrievalGate` | `verify_chunks()` and its copies, with writers in between | extends `ProvenanceIndex` |
| `MerkleTree` | RFC 6962 root, audit path and verifier, pure operators | - |
| `TransparencyLog` | abstract: what a transparency log promises an auditor | - |
| `MerkleSqlite` | `MerkleSQLiteProvenanceIndex` | extends `ProvenanceIndex`, `MerkleTree`, implements `TransparencyLog` |
| `MerklePostgres` | `MerklePostgresProvenanceIndex` | extends `MerkleTree` |
| `RetryQueue` | `RetryQueueSink` | - |
| `AccessPolicy` | loading a policy file, evaluating it for a chunk or a call | - |
| `TrajectoryAudit` | `provenex audit`, of one receipt or of a trajectory | - |
| `AgentSession` | a crew on one `ProvenexCrewSession`, then the audit | extends `TrajectoryAudit` |
| `AgentRun` | abstract: what an agent run promises whoever reads its receipts | - |
| `AgentRuntimes` | LangGraph graphs and wrapped tools, composed with it | extends `AgentSession`, implements `AgentRun` |
| `ReceiptExport` | summary of a receipt, its OCSF events, the sinks behind | - |
| `Fingerprinting` | normalization, rolling hash, windows | - |
| `ProvenanceIndexProofs`, `MerkleTreeProofs`, `MerkleSqliteProofs`, `MerklePostgresProofs` | theorems about the module they are named after | TLAPS |
| `IndexUserProofs` | theorems about `Ingestion` and `RetrievalGate` | TLAPS, `ProvenanceIndexProofs` |
| `SinkProofs` | theorems about `RetryQueue` and `ReceiptExport` | TLAPS |
| `AgentRuntimesProofs` | theorems about `TrajectoryAudit`, `AgentSession` and `AgentRuntimes` | TLAPS |
| `LoopProofs` | theorems about `AccessPolicy` and `Fingerprinting` | TLAPS |
| `MC...` | small instances for TLC | - |

**ProvenanceIndex.** `current` and `authorized` are the columns of `documents`,
`rows` is the set of primary keys of `fingerprints`, `ingestedAt` and `superseded`
its two columns that matter. One call is one step: SQLite runs it under an RLock
and commits once, Postgres runs it in one transaction under an advisory lock on
the document. `ingested_at` is computed before any lock by the clock of the
caller, so `add` takes any time at all and times may tie or run backwards.
`tampered` stands for the HMAC: a row is in it when its signature no longer covers
its columns, which an edit outside the API causes (`Tamper`). `LookupRows` is
`ORDER BY superseded, ingested_at DESC LIMIT 1` as a set, because SQL does not fix
the order of ties; `OutcomeOf` has the checks of `verify()` in their order.

**Ingestion.** `job[w]` is the call of caller `w`: the document, the version, the
fingerprints the text yields and those still to be added. Chunking is a constant
that says which fingerprint sets a version's text can yield (the version hashes
the joined text, so there can be several). A crash forgets the call. `quiet` is a
history variable: nobody moved the document away during or after the call, and it
met no retired row of its own version.

**RetrievalGate.** `VerifyChunk` and `LookupChunk` are the two reads of one turn
of the loop, `sources` and `kept` the receipt and the result. All writers of
`ProvenanceIndex` interleave. Concurrent retrievals share nothing, so one call
stands for all. `touched` and `granted` are history variables: documents written
to, and documents authorized at some moment, since the call began. The policy is
what it decides, the blocked outcomes and the denied documents; `VERIFIED` is
never blocked, which is what `should_block` returns.

**MerkleTree.** A hash is the term that was hashed, which makes different terms
have different hashes. `Climb` is one turn of the verifier's loop.

**MerkleSqlite.** The index' variables and `leaves` are what the connection sees,
`disk` is what was committed last. `add` is `BeginAdd` (the look-up), `WriteRow`
(the base class, first commit), `WriteLeaf` (second commit) and `AppendTree`.
Either commit can raise; the code does not roll back, so the changes stay visible
and the next commit makes them durable (`CommitRaises`), unless SQLite rolled back
itself (`RollsBack`). While a pending leaf occupies the next position every later
`add` raises (`LeafKeyTaken`). `Restart` is a crash at any point and the rebuild.

**MerklePostgres.** Threads of several processes. `add` is `CheckExists`,
`BaseAdd`, `LockTail` (advisory lock and `MAX(leaf_index) + 1`), `InsertLeaf`
(commit), then `AppendTree` and `IndexLeaf` on memory no lock protects. `Fail` is
an exception of the database at any of these points, a commit that was carried out
but reported as failed included; `Restart(p)` kills all threads of a process.
Only the set of rows is kept of the index' tables. `lost` and `solo` are history.

**RetryQueue.** A receipt is the number of its publish in the order of the lock.
The closed flag is read before the lock (`Enter`, then `Lock`); each call of the
downstream sink is a step (`Drain`, `Send`, `PublishFails`, `CloseDrain`,
`CloseEnd`) and may raise with or without having taken the receipt, as
`KafkaSink.publish` does when `future.get(timeout=10)` runs out.

**AccessPolicy.** A file is what `yaml.safe_load` returned, reduced to the keys the
loaders look at; a value of the wrong type is `Malformed`, a key without a value
`Null`. `LoadPolicy` is `Policy.from_yaml()`, `LoadEvaluator` the constructor of
one evaluator as callers of the legacy layout use it; both differ in what they make
of `section: null` and of keys they do not know, which `Half` and `FromSection`
keep apart. The loop of `evaluate()` is `SkipRule`, `PassRule`, `DenyByRule`,
`RaiseInRule` and `AllowAtEnd`. `when` and `require` keep the order of the file,
because an entry may raise and one before it may hide that.

**TrajectoryAudit.** `files` is what the directory held, in the order of the paths;
`color` and `stack` are the search of `audit_trajectory_dag()`, one step per turn of
its loop. `ReportOne` is the audit of a single receipt. The order of a receipt's
parents and of a dict's keys is left open: any is taken.

**AgentSession, AgentRuntimes.** A call of a crew's tool is four steps: it reads the
cursor (`ReadCursor`), issues and publishes the receipt (`Issue`), stores the next
cursor (`StoreCursor`) and appends the receipt (`AppendReceipt`); `RunTool` is the
admitted tool. `advance()` reads the cursor twice (`CallAdvance`, `ReadParents`).
A superstep of a graph hands one state to several nodes (`BeginSuperstep`), each of
which issues a receipt; `Join` merges what they return in any order, under either
reducer of the receipts key, and `FailSuperstep` drops it all. A wrapped tool or MCP
handler (`CallWrapped`, `RecordWrapped`) uses the trajectory of its caller and moves
no cursor. `AuditSession` turns what the sink wrote into the archive of
`TrajectoryAudit`; `AuditOther` audits any other directory. `overlapped`, `asked` and
`origin` are history variables.

**ReceiptExport.** One receipt: chunks are judged and calls admitted, then it is
published through one of four compositions to a destination that may raise before
or after it took the event: `OCSFAdapter` alone, behind or in front of a
`RetryQueueSink`, or in front of a `MultiSink` (`Pipeline`). `todo` is what the adapter has yet to
forward; `waiting` is the deque of the retry queue, which drops its oldest element at
`MaxQueue`; `call` says whose `publish` or `close` holds its lock. The sinks are
shared, so the queue may hold what other calls left there and other calls go through
it (`OtherCall`); an element that belongs to others carries no event of this receipt.
`close` may come at any moment, for an adapter without a queue in front also in the
middle of its `publish` (`Interrupted`). `lost`, `kept` and `executed` are history:
events that no sink holds on to any more, and what was really done.

**Fingerprinting.** Characters are a few of Unicode's, those on which the four passes
interfere: letters and marks that NFC composes (`Composite`; U+1FD7 even takes two
marks), characters that case folding expands to several (`Folding`: sharp s, and an
iota with perispomeni, which is decomposed again), zero-width characters and spaces.
Each pass is a loop that puts what it makes of one character after the other (`Put`),
and `Normalize` runs the enabled ones in the code's order. `Begin` is the normalization, `Prime` and `Roll`
the turns of `iter_window_hashes()`; SHA-256 is injective, the rolling hash is
computed with a small base and modulus.

## 3. What the runs check

Passing runs:

| Run | Question | Properties |
|---|---|---|
| `index` | Do two tables stay consistent under every order of operations? | `VerifiedIsCurrent`, `VerdictIsLocal`, and `LedgerSpec`: the tables implement `DocumentLedger` |
| `ingest` | What survives of an ingest among others, crashes and repetitions? | `QuietIngestIsServed` |
| `gate` | What is a receipt worth that was made of two reads per chunk? | `UndisturbedSourceIsSnapshot`, `RevocationHolds` |
| `merkle_sqlite` | Do failed commits and crashes spoil the log? | `PublishedTreeIsDurable`, `ProofIsExact`, and `LogSpec`: table and tree implement `TransparencyLog` |
| `merkle_postgres` | What holds with many writers? | `NoRowForgotten`, `SoloProofVerifies` |
| `retry` | What reaches the downstream sink, and does `publish` return? | `FifoDelivery`, `NothingVanishes`, `DropIsAnnounced`, `PublishReturns` |
| `policy` | Is a file enforced as written, however it is laid out and wherever the loop ends? | `FileIsEnforced`, `FiredIsTrace` |
| `agents` | Do threads, branches and wrapped tools leave a trajectory that holds together, and is the audit's verdict right? | `NoReceiptForgotten`, `CalmSessionIsAStory`, `LinearGraphStateIsTheRecord`, `SessionArchivePasses`, `VerdictIsExact`, `AuditEnds`, and `RunSpec`: the receipts implement `AgentRun` |
| `export` | Is a SIEM told what was done, and in what order, and what does a call of the queue leave behind? | `SiemAgrees`, `StatusAgreesWithEvents`, `EventsStayInOrder`, `QueuedReceiptArrives` |
| `windows` | Which normal forms are stable, and which windows of a text are found again? | `NormalFormIsStable`, `WindowsAreExact`, `WindowIsFound` |

Each also checks its module's type invariant (in `windows` it is a part of
`WindowsAreExact`). Every property has a mutant in `PROJECT.json`: a variant of one
definition, kept next to it in the module, that makes the property fail.

Two runs end in a counterexample, because the code and a statement about it
disagree:

| Run | What the trace shows |
|---|---|
| `two_threads` | `ProofVerifies` fails: two threads of one process append to the tree in the other order than to the table, and proofs do not verify until a restart (`index/merkle_postgres_index.py:177`). |
| `export_objects` | `EveryEventIsKept` fails without any error: all events of a receipt go to the object `<hour>/<receipt_id>.json`, and the last one remains (`export/ocsf.py:484`). Behind the same line, but not in the trace, because a publish that raises is outside the property: `PubSubSink` reads a `receipt_id` that an event does not have. |

### Bounds

- `index`: two fingerprints, documents, versions and times and one tampered row, at
  most four rows. Two of each is enough for a shared chunk, a kept chunk, an edit
  and its reversal, and a tie or inversion of clocks; the properties relate at most
  two rows.
- `ingest`: two callers, three calls (a third repeats a crashed one while the
  second runs), a version with two chunkings. Times are constant here: their order
  only matters to `lookup`, which `index` covers. The calls are used up at some
  point, so the run really ends: deadlock is not checked.
- `gate`: up to two chunks, two rows, and writes to one document per call.
- `merkle_sqlite`: six possible rows, so logs of up to six leaves, where the tree
  is lopsided and the last leaf is carried up two levels (five leaves); one failed
  commit and any number of crashes.
- `merkle_postgres`: two threads in one process and one in another, one chunk in
  two versions, one failure, any number of restarts. `two_threads`: one process
  with two threads and no failure.
- `retry`: two publishers, one closer, a queue of two, six receipts: the queue
  fills, drops, is partly drained and fills again. Calls run out, so deadlock is
  not checked.
- `policy`: files of up to two rules in every layout with every kind of malformed
  part, over rules that use every operator; attributes that are present, `None`,
  missing, of the wrong type or too long. The properties relate two rules at most
  (an early exit and the rule it hides).
- `agents`: two threads, branches or callers and three receipts, so that a diamond
  (fan-out and fan-in) and a lost update of the cursor both occur; `AgentBound`
  leaves out states with two denied calls or two receipts that the sink lost. Other
  archives have up to three files over three ids, with every set of parents, so
  that copies, dangling parents and cycles of every length up to three occur.
- `export`: two chunks, which may have one fingerprint and two decisions, one call,
  two failures, every place of the queue. The queue holds one element, so that a
  receipt of two events already overflows it, as does one call of others.
  `export_objects` asks one more question of the same instance.
- `windows`: every text of up to five characters over seven Latin or six Greek
  characters, windows and strides up to three. Five characters are enough for what
  goes wrong: a composition by two marks with a zero-width character in between, and
  an expansion in front of a mark. Base 10 and modulus 13 make windows collide and
  differences negative.

The last four stop when the one file, session, receipt or text is dealt with:
deadlock is not checked there.

### Fairness

- `retry`: a call that was begun goes on: weak fairness of the steps inside
  `publish` and `close` and of taking the lock (`FairRetrySpec`). That is what
  Python's scheduling of a running call gives, provided the downstream `publish`
  itself returns or raises, as the Kafka client's timeout ensures. The lock need
  not be fair because the calls of an instance are finitely many. Nothing is
  assumed of the application or of the downstream sink's success.
- `agents`: weak fairness of `Audited` alone: the audit is one process that runs to
  its end. Nothing is assumed of the crew, which may stop at any moment.
- `export`: weak fairness of `Exporting`, which has the steps inside a `publish` or
  `close` only: a call that was begun goes on. That another one comes is not
  assumed, because the code has no drain thread; what waits in the queue may wait
  for ever. `QueuedReceiptArrives` therefore says that every call ends, and that one
  in which nothing raised has emptied the queue.

The other modules promise safety only.

## 4. What is proved

TLAPS proves every safety invariant and every action property that a passing run
checks, for all values of the constants that satisfy the named assumptions:
`IndexAssumption`, `IngestionAssumption`, `GateAssumption`, `MerkleAssumption`,
`PostgresAssumption`, `RetryQueueAssumption`, `ExportAssumption`,
`TrajectoryAssumption`, `SessionAssumption`, `PolicyAssumption` and
`FingerprintingAssumption`. They say that a marker (no version, no call, no file,
no session, no evaluator) is not one of the values it stands beside, that bounds
are numbers, and that threads are finitely many. `PROJECT.json` lists the theorems
with the property each of them states.

`ProvenanceIndexProofs`: the type invariant (with the foreign key), the safety
properties of the index and, as `ImplementsLedger`, that the tables implement
`DocumentLedger`. The inductive invariant is `IndexInv`: types, and every live row
belongs to its document's current version. It is what makes `add` right when it
skips the UPDATE because the version did not change. That a verdict exists at all
(`LookupFinds`) needs a latest timestamp, `LatestExists`.

`IndexUserProofs`:

- *Ingestion.* Every behaviour of ingestors is a behaviour of the index
  (`IngestionImplementsIndex`), so the theorems above hold of it; and what a quiet
  call wrote is live and served. The inductive invariant adds `QuietRows`: no row of
  a quiet call is superseded, *also not the ones it has yet to add*. Without that
  clause the property is not inductive, because `INSERT OR IGNORE` would let a call
  meet a retired row.
- *Retrieval.* All of `gate`'s properties, and that an undisturbed receipt never
  vouches for two versions of a document. The invariant adds what is known between
  the two reads: the pending verdict is still one `verify` gives if nobody wrote to
  the chunk's documents, it was given on a document that was authorized during the
  call when it is VERIFIED or STALE, and `granted` has seen every grant.

`MerkleTreeProofs`, for a log of any length: the audit path of every leaf verifies at
its position against the root (`AuditPathVerifies`), and nothing else does: what the
verifier accepts at a position is the leaf that is there with its audit path
(`InclusionIsUnforgeable`). Completeness goes by subtrees: climbing the path through a
subtree of at most `q` leaves (`q` a power of two) ends in its hash, and on the right
edge of the log a short subtree is carried up unchanged, which is what the inner loop
of the verifier unwinds. Soundness rests on the counters `r` and `sn` depending on the
length of a path only. Both assume nothing but that hashes are injective.

`MerkleSqliteProofs`: through any number of failed commits, rollbacks and restarts, no
root that was handed out is taken back (`PublishedTreesAreDurable`), table and tree
implement `TransparencyLog` (`ImplementsLog`: a commit adds one new leaf at most, and
the tree only ever becomes the committed log, so every root is extended by all later
ones), and proofs verify for their own row and position and no other. The invariant relates three sequences: the leaves the connection sees extend
the committed ones, which extend the tree, by at most one leaf (`LeavesAgree`). It also
says that a call about to log its row knows that no leaf has it (`CallIsBacked`), and
that the committed tables satisfy the invariant of the index themselves
(`DiskIsSound`), because a rollback or a restart makes them the visible ones.

`MerklePostgresProofs`: for any number of processes, threads, failures and restarts, no
INSERT meets a taken position, a row misses its leaf only if a call was cut short after
the first commit, a committed leaf never changes (`LogIsAppendOnly`), and a process
that writes alone holds the committed log and hands out proofs that verify
(`SoloProofsVerify`). The invariant adds what a thread knows between its two
transactions: the row it will log is in the table, the position it will enter is one of
the log. The tail is free because whoever has read `MAX(leaf_index)` still holds the
lock. For the sole writer the invariant is `SoloShape`: at most one leaf is unpublished,
and tree and dictionary lag behind by that leaf alone.

`SinkProofs`:

- *Retry queue.* Order, no silent loss and the announced drop, for a queue of any
  length under any number of threads. The inductive invariant, `Shape`, says where each
  receipt is while a call is between two steps: what arrived and what waits is in the
  order of the lock, the receipt in hand is the newest, and every receipt has arrived,
  waits, is in hand or was dropped.
- *Export.* For receipts with any number of chunks and calls and a queue of any
  length: what the SIEM is told of each is what was done, but for chunks overruled by a
  later decision on the same text (`SiemIsTold`); the status of the summary agrees with
  the events, findings of access control alone aside (`SummaryMatchesEvents`); events
  arrive in order, but for those that a full queue, a `MultiSink`, an exception or
  `close` let go, which never arrive afterwards (`EventsArriveInOrder`); and a call of
  the queue that met no failure leaves no event behind (`CallEmptiesQueue`). The
  invariant says that every decision stands next to the chunk it was made about (`ReceiptAgrees`,
  `ActionsAgree`), that the events the adapter has yet to forward are the last ones, in
  order, and that each of the others is at the stream, was let go, or waits in the
  queue, in order (`Rest`).

`AgentRuntimesProofs`:

- *Audit.* Whatever the directory holds, and whatever order the search takes, the audit
  passes exactly the trajectories that are whole, rooted, acyclic and signed. The
  argument is that of depth-first search: the gray receipts are the stack, the stack is
  a path, the frames below the top are the parents that were followed, and the black
  receipts are closed under parents and contain no cycle. Soundness of "cycle found"
  exhibits the path from the stack; soundness of "no cycle" is that everything is black
  at the end.
- *Runtimes.* For any number of threads, branches, callers and receipts, parents are
  older than their receipt (so no cycle), sessions and wrappers list every receipt
  exactly once, only admitted tools run, the audit passes what one trajectory left and
  fails a mixture, and it stays exact in the composition. The invariant `RuntimeInv`
  says of every cursor that some worker holds that its parents were issued, of every
  published receipt that it was issued under the trajectory it names, and of the archive
  that it holds what the sink took. Every step is first summed up by its effect on the
  receipts, so that the parts of the invariant about receipts are proved once and not
  per action. The same summary gives the refinement (`ImplementsRun`): in every runtime
  the receipts are a DAG that grows by one unchanging receipt at a time, and a tool runs
  once, under a listed receipt that allows it.
- *Without overlap.* A session whose calls do not overlap is a story, in which a receipt
  one step after another hangs on that one alone, and the state of a linear graph is its
  record. `Story` is inductive because the call under way holds the
  session's own cursor, and only a call that has issued but not yet stored is ahead of
  it; `Linear` allows for the one receipt of a node that has not returned.

`LoopProofs`:

- *Policy files.* A file of any length is enforced as written, in either layout, through
  either loader and whichever exit the loop takes, and `rules_fired` is its trace. The
  invariant says that a loaded evaluator holds what the file states (`Loaded`) and that
  no rule the loop has passed both applied and objected (`Scanned`).
- *Fingerprints.* For every text, window, stride, base and modulus: rolling never drifts
  from hashing and no window is missing (`EveryWindowIsExact`); the normal form does not
  depend on zero-width characters or on how composed characters are spelled, unless a
  zero-width character stands directly before a mark, and it is its own normal form,
  unless folding expands what NFC has composed (`NormalFormsAreStable`); and a window of
  a text that no pass changes any more is found again exactly if it neither begins nor
  ends in a space (`WindowsAreFound`). `RollIsHash` takes the first character out of a
  hash, where it counts with the power of its place. A pass leaves no pair of neighbours
  it would change (`Even`), the passes after it create none as long as folding puts one
  character for one (`FoldWrites` says what it puts), and composing commutes with
  stripping (`StripAndCompose`). A part of a text that is even is even itself, which is
  why its windows are found.

Induction over data. The library's induction theorems take an operator as a parameter,
which the provers cannot instantiate. What recursive functions compute is proved by the
least counterexample instead, or by lemmas that quantify over sets: a set of numbers that
contains 0 and with `n` also `n + 1` holds every position (`EveryPosition`), and a set
of sequences closed under appending holds every sequence (`EverySequence`). The
recursive functions are first shown to satisfy their equation.

Only model-checked: the three liveness properties (`PublishReturns`, `AuditEnds` and the
first half of `QueuedReceiptArrives`, that calls end), since fairness is out of the
prover's reach; and the two runs that end in a counterexample.

## 5. Where the code and its documentation part

Beyond the two runs that end in a counterexample, these came up while modelling.
They are modelled as the code does them; `hazards` has the lines.

- A document that returns to an earlier text (v1, v2, v1) keeps its first rows
  superseded, so its current chunks are STALE. `QuietIngestIsServed` leaves out
  calls that meet such a row.
- Row and leaf are two commits in both transparency logs, so a row can be without a
  leaf, which no later `add` repairs.
- The gate's two reads are not one transaction: a record can say VERIFIED and quote
  an entry that was revoked in between. A chunk shared by two documents stays
  VERIFIED when only one of them is revoked.
- `validate_policy_file` accepts files that the loader rejects.
- `MultiSink`'s docstring promises to raise when every sink failed; the code never
  raises, so a retry queue around it never learns of an outage.
- `export/ocsf.py:255` gives a chunk that access control denied severity Critical
  when its verdict was not VERIFIED; `docs/ocsf_mapping.md` says High. Denials by
  access control do not reach `overall_status`.
- `docs/how_it_works.md:84` and `docs/pinecone_integration.md:176` say that
  receipts carry inclusion proofs when the index is a Merkle index; no gate
  attaches one, only the receipt's format and the audit know the fields.
- The adapter joins access decisions to chunks by fingerprint (`export/ocsf.py:137`),
  and the last one wins. If one call retrieves the same text twice and decides it both
  ways, because their metadata differ, the SIEM is told the last decision of both:
  a chunk that was withheld may be reported as allowed. `SiemAgrees` excepts the chunks
  that were overruled.
- `export/streaming.py:79-81` says that `RetryQueueSink` spawns a background drain
  thread; there is none. A queued receipt waits for the next call (`:310`), and the
  events that a full queue drops (`:303`) leave a gap in the receipt's.
- Two passes of the normalizer run after NFC and may undo it. A zero-width character
  between a letter and a combining mark is removed after the composition
  (`core/normalizer.py:130-133`). Case folding may expand a character (`:135-137`):
  sharp s followed by U+0307 becomes `ss` and U+0307, which a second normalization
  composes to `s` and U+1E61; U+1FD7 becomes an iota with two marks, and the window of
  the iota and the first of them is indexed under a fingerprint that no lookup computes,
  because the query is composed. `NormalFormIsStable` and `WindowIsFound` say when this
  does not happen.
- A window that begins or ends in a space is indexed but can never be looked up, since
  the query is stripped.
- The `operator.add` reducer that `integrations/langgraph/node.py:174` recommends
  duplicates receipts, because a node returns the whole list. The retrieval node's
  receipt has no `session_id`; `record_step_receipt` without a cursor starts a
  trajectory of its own; the LangChain wrapper drops `next_trajectory`.
- Step numbers are not unique when a crew's tools run concurrently.

## 6. What is not modelled

- HMAC, Ed25519, SHA-256 and canonical JSON are abstracted (a signature covers its
  object or not, a hash is its argument). Chunking is a constant of `Ingestion`.
- Several processes on one SQLite file: `docs/langchain_integration.md:208` rules
  them out, so `add` is one step.
- The Merkle tree's cache: its keys are ranges of an append-only list, so a stale
  entry cannot differ from a fresh one.
- The retry queue lives in memory and dies with its process, as documented; no
  crash is modelled there.
- The Bloom wrapper: the repository only has `NoopBloomFilter`, which delegates
  every call.
- The Kafka, AWS and GCP clients: external, modelled as calls that raise before or
  after they took effect. Key management, the formatting of the two file sinks, the
  command line's output and the two thin adapters of the admission check.
- The handler of an MCP message removes `__operation__` from the message it was
  given, so a transport that redelivers the same object changes the request; the
  transport is not part of the repository.

## 7. Plan

Done: index, ledger, ingestion and gate; transparency logs; retry queue;
trajectories, crews and graphs with their audit; policy and admission; receipt,
OCSF export and sinks; normalization and windows; the three abstract specifications
and the proofs that they are implemented. What is left:

1. Action properties that no run states yet, proved from the invariants there are:
   what a step of the retry queue may do to its ledger of receipts, what a superstep
   may do to the record of a graph.
2. The Bloom wrapper over `ProvenanceIndex`, once a filter other than the stub is
   part of the repository.
