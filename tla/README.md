# A TLA+ model of the optimizer unit and its network layer

The repository is the optimizer unit of a distributed column store and the
network layer it talks through. A query is text; a thread pool translates it
into a logical plan, a physical plan and work items; these go to compute units
through a server that routes messages, as one request or as batches synchronised
through their answers. This directory models that path from the text to the
bytes on the wire, checks it with TLC on small instances, and proves the safety
properties of the pool, the network layer and the query intake with TLAPS for
instances of every size.

Source paths below are relative to `src/cpp/code/` unless they begin with `src/`.

## 1. Inventory

| Component | State | Operations | Correct when | Modelled in |
|---|---|---|---|---|
| `WorkCompletionTracker` (`include/WorkCompletionTracker.h`) | `completed_ids_`, `stopped_`, a mutex and a condition variable | `markCompleted`, `stop`, `waitNextCompletions` | no wake-up is lost, no wait takes the completions of another, every satisfied wait returns | `WorkCompletionTracker` |
| `QueryManager` (`src/optimizer/QueryManager.cpp`) | `queue`, `running`, `finished`, `stop_flag`, the worker threads | `addQuery`, `workerRoutine`, `processQuery`, `sendQueryPlan`, `sendQueryPlanParallel`, the destructor | no query is lost, doubled or stranded; batches are synchronised; shutdown ends | `QueryManager` |
| Work items (`include/Translator.hpp`) | the walk's stack, `seen`, `order`; `level`, `grouped` | `crateWorkItems`, `crateWorkItemsParallel`, `createQueryPlan` | children come first, dependencies are in earlier batches, an item carries what its node says | `WorkItems`, `ItemPayloads` |
| Framing (`src/Utility.cpp`, receive loops of `TCPClient.cpp` and `TCPServer.cpp`) | receive buffer, `unprocessed_bytes` | `extractItemsModifyBuffer`, `recv`, `notifyHost` | messages survive any segmentation of the stream | `Framing` |
| `TCPServer` (`src/TCPServer.cpp`) | `clientMap`, `clientUuidMap`, `cl_mutex`, one receiver thread per client, the accept thread | handshake, `sendTo*`, `rerouteToAnyOfType`, `getUuidForUnitType`, `removeClient`, `clear_aborted`, `closeConnection` | the two maps agree; removal does not deadlock; no freed client is used; sends arrive | `TCPServer` |
| `TCPClient` (`src/TCPClient.cpp`) | session uuid, callbacks, `globalAbort` | `start`, `listenLoop`, `notifyHost`, uuid collision callback, `closeConnection` | callbacks run in order; the end of the channel is noticed | `Framing`, `Routing`, `QueryManager` |
| `OptimizerUnit`, `ComputeUnit` (`examples/`) | the two processes | hand-over of queries; handshake; `WORK` and `TASK_FINISHED` callbacks | each request is answered once; answers reach the unit that asked | `Routing`, `QueryIntake`, `QueryManager` |
| Server routing (`examples/tcp_server_example.cpp`) | none of its own | nine callbacks that forward by unit type or uuid, and the console | a message reaches the unit its callback names; no request vanishes unnoticed | `Routing`, `TCPServer` |
| SQL translator (`src/SQLToLogicalPlanTranslator/`) | the logical plan under construction, the disjoint-set forest of the joins | splitting WHERE, join trees, push-down, output operators | the plan means the statement | `SelectPlanBuilder` against `Relational` |
| Physical optimizer (`src/optimizer/PhysicalOptimizer*.cpp`) | nodes, position-list chains, materialised columns | `transformNode` and its handlers, `ensureMaterialized*`, `optimizeJoinOutputs` | a column is read through the right position lists; the plan computes the answer | `PhysicalOptimizer` against `Executor` |
| Prefix parser, query intake (`processQuery`, `OptimizerUnit::chores`) | none; the loop over the file | `PARALLEL`, `NAME`; `-q`, `-f`, the prompt | prefixes are recognised, statements are handed over once and in order | `QueryIntake` |
| Generated protobuf code (`src/cpp/generated/`) | has-bits, members, oneof cases, unknown fields | accessors, `Clear`, `MergeFrom`, copy, swap, parse, serialise, size | objects hold, write and count what `src/proto` says | `MessageObjects` and the modules below it |
| Visualisers, logger, arguments; Python scripts | - | - | - | not modelled (section 7) |

How they interact. `OptimizerUnit` calls `addQuery` from a thread of its own.
Workers of the `QueryManager` compile a query and share one TCP connection. The
server's receiver threads run the routing callbacks, which call back into the
registry of `TCPServer` while its accept thread and the console change it. A
compute unit answers through the server; the listener thread of the `TCPClient`
runs the callback for `TASK_FINISHED`, which calls `markCompleted`, and workers
wait in `waitNextCompletions`. The destructor of the `QueryManager` stops the
tracker and joins the workers.

What is hard: notifications sent after an unlock; a `stop_flag` set without the
mutex; three locks for one query's life; ids that identify work across threads
and are random numbers; sends whose result is ignored; a byte stream cut
anywhere; client lists walked without the lock under which they change; a join
under that lock; shutdown at any moment; and, in the compiler, positions that are
relative to another list of positions. `PROJECT.json` lists each hazard at its
line and the properties that cover it.

## 2. Modules

| Module | What it is |
|---|---|
| `WorkCompletionTracker`, `WorkCompletionTrackerProofs` | the monitor, also the abstract specification that `QueryManager` implements; its theorems |
| `QueryManager`, `MCQueryManager` | the pool, the dispatch, the listener and the destructor; instantiates the tracker |
| `QueryManagerProofs`, `QueryManagerBatchProofs` | its theorems |
| `QueryService` | the abstract specification of the pool |
| `WorkItems`, `MCWorkItems`, `WorkItemsProofs` | plan to work items; all plans of N nodes; theorems |
| `Framing`, `MCFraming`, `FramingProofs` | messages over the byte stream; theorems |
| `Channel` | the abstract specification of a connection |
| `TCPServer`, `MCTCPServer`, `TCPServerProofs` | the registry of clients and its threads; theorems |
| `Registry` | the abstract specification of the table of clients |
| `Routing`, `MCRouting`, `RoutingProofs` | units, server callbacks and the messages between them; theorems |
| `QueryIntake`, `MCQueryIntake`, `QueryIntakeProofs` | from texts to queries; theorems |
| `Relational` | the reference: what a statement asks for and what a logical plan computes |
| `SelectPlanBuilder` | statement to logical plan |
| `Executor` | what compute units make of a physical plan (external) |
| `PhysicalOptimizer` | logical to physical plan |
| `ItemPayloads` | what an item carries of its node |
| `QueryCompiler`, `MCQueryCompiler`, `Syntax`, `Statements` | the three in sequence; the expressions of the syntax tree, the statements and the database |
| `ValueMessages`, `WorkItemMessages`, `RequestMessages` | the generated classes, a table per generated function |
| `MessageRuntime` | what the tables mean |
| `MessageSchemas` | the messages as `src/proto` declares them |
| `MessageObjects`, `MCMessageObjects` | two objects under any sequence of calls |

Operators whose comment begins with *Fault* are plausible bugs. No
specification uses them; `PROJECT.json` pairs each with the property that
notices it when it takes the place of the real definition.

### WorkCompletionTracker

`markCompleted` and `stop` are two steps each: the update under `mutex_`, after
which the caller is in `notifying`, and `notify_all`. A waiter is `out`, about to
test its predicate (`check`) or `asleep`. Test and block are one step, because
`cv_.wait` releases the mutex and blocks atomically and every writer of the predicate
holds the mutex. `Call` states the contract the code relies on without saying
it: overlapping waits are for different ids, since a returning wait erases its
own.

### QueryManager

A step is what a thread does between two points where another can see it. `pc`
follows `workerRoutine`:

    check -> popped -> process -> send -> wait -> ... -> leave -> done -> check
      |                   \____________________________/
      +-> blocking -> asleep          +-> exited

* `check`: inside `cv.wait`, about to test the predicate. Unlike the tracker, a
  test that fails and the block are two steps (`TestFails`, `Block`), because the
  destructor sets `stop_flag` without `queue_mutex` and can come between them. The
  mutex stays held (`Locked`), so `addQuery` cannot.
* `popped`, `process`, `leave`, `done`: the points between the three critical
  sections of `queue_mutex`, `running_mutex` and `finished_mutex`.
* `Kind[q]` is what `processQuery` makes of a query's text: `nothing` (blank text,
  empty translation, exception: all before the first send), `sequential`,
  `parallel`. `Batches[q]` are the levels of `crateWorkItemsParallel`, with the
  assumptions that the run `work_items` checks on that code.
* `Draws`: with `UniqueDraws` a plan id is new; without it, any value may come.
* `notifyHost`: the request goes onto the wire or is lost, at most `MaxDrops`
  times.
* `Execute` stands for server and compute unit together: each request is executed
  once, in any order. `Routing` is the detailed account of it.
* The destructor is five steps. It begins only when no `addQuery` is running, as
  C++ demands of the caller. `OptimizerUnit` itself ends with `_Exit` and never
  gets there; the destructor is modelled as the class offers it.

`QueryService` is what a caller sees of all this: `Accept`, `TakeUp`, `End`,
`Close`, `Gone` over a queue, the queries in work and the finished ones. The mapping
takes the queries that workers hold as `inWork` and the destructor's progress as
`phase`; locks, tests, notifications, batches and answers are stutters.

### WorkItems and ItemPayloads

`VisitChild` and `Emit` are the two branches of the loop over the explicit
stack; `Dependency`, `SetLevel` and `PushBack` are single turns of the loops of
`crateWorkItemsParallel`. Nodes are numbered in creation order, so children are
smaller than parents; this is the only form in which acyclicity enters. Levels
are keyed by node id as in the code, and `Drawn` is the set of id assignments
considered. `ItemPayloads` is the switch over the node type: which columns and
which expression of a node an item carries. Its columns go through `columnToProto`,
which replaces an alias by its base table, and a LIMIT is cast to `uint32_t`. The
item of a GROUPBY has no field for the function of its aggregate, so it is run as a
sum (`WorkItem.proto:116`). Two undefined reads are choices of `crateWorkItems`:
`*n->aggregationColumn` of a GROUPBY with several aggregates, which is never set
(`include/Translator.hpp:240`), crashes or reads as an empty column; `base_columns[0]`
of an AGGREGATE without input (line 194) crashes.

### Framing

Bytes are pairs (message, offset), so a mix-up is visible. `notifyHost` puts a
message, or a prefix of it, on the wire (at most `MaxShort` prefixes); `recv`
takes any number of bytes the buffer has room for; `Scan`, `Extract` and
`MoveRest` are the phases of `extractItemsModifyBuffer`. The two ends differ in
the buffer size and in how they meet a full buffer, with the same effect
(`Full`). Where the code reads memory behind the received bytes, the outcome is a
choice: an old delimiter is found or the process crashes; a header read from
other bytes shows a size out of `Garbage`.

`Channel` is the connection as a queue of whole messages. Under the mapping a
message is on its way from its send until the parser has moved past its last byte:
`inTransit` runs from the message of the first unconsumed byte to the last one sent.

### TCPServer

A step is what a thread does between two points where another thread can see it.
Only registration and `removeClient` hold `cl_mutex`; every other walk over
`clientMap` is unlocked and has one step per client. `th[t]` is the call a thread
is executing: the console thread `main`, and one receiver per unit, on which the
callbacks run. Removing a client is three steps, all under `cl_mutex`: close and drop the
uuid, join the receiver, erase and free. A freed `ClientInfo` stays readable, its use is
recorded in `fault`, and from then on the process may crash. Descriptors are
reused once closed. `Answers` are the ways a unit may answer the handshake.

`Registry` is the table of uuids with an atomic `Add` of a free uuid and an atomic
`Remove`. `ProbeUuid` and `Register` are two critical sections here, and between
them other threads remove clients; `Add` is mapped to the second.

### Routing

A connection is two FIFO queues of whole messages, each a `Channel` outside the
handshake; registration looks a uuid up and inserts it in one step, as `Registry`
allows (section 5). A unit starts with a random
uuid, answers the handshake (`Coalesce`: the single `recv` of the handshake takes
everything already sent and keeps only the first message), draws again on a
collision, and is then registered. One action per callback of the server program
and of the units. An optimizer builds a request (with its uuid at that moment) and
sends it later, as the code does on different threads. `Lose` ends a unit at any
time; messages it had not read are gone, and what the code gives up without telling
anyone is recorded in `dropped`, with the place.

### QueryIntake

A text is a sequence of tokens: the two keywords, white space, the semicolon,
anything else. `chores` hands over the `-q` query, the statements of the file and
the typed lines; `processQuery` strips prefixes in a loop, one test per turn. The
references are independent of both loops: `Reading` folds over the positions of a
text and takes a word at each of its starts, `After` collects the pieces between
semicolons from the end of the text.

### The compiler

`Relational` is independent of the code: a statement's answer is computed from
the cross product of the tables, and a logical plan's by evaluating its operators.
Rows are told apart by number, so duplicated or lost rows with equal values are
noticed. `SelectPlanBuilder` splits WHERE into conjuncts, builds the joins with
the disjoint-set forest or in the order of a JSON plan, pushes the selections down
one at a time, and stacks AGGREGATE, MAP, SORT, LIMIT and PROJECTION.
`PhysicalOptimizer` walks the plan in post-order with one action per handler;
`context` is the `TransformContext`: nodes, `chains` of position lists per table,
and the caches of materialised and computed columns. Both materialisation
strategies (`Modes`: chains composed into one list or followed one by one) and the
trimming of join outputs (`TrimModes`) are covered. `Executor` runs a physical plan
on the small database; compute units are not in this repository, so each operator
is taken from the columns the optimizer gives it and expects back.
`QueryCompiler` runs translator, optimizer and `crateWorkItems` in the order of
`processQuery`.

### Messages

protoc writes the same functions for each class, which differ in field numbers,
has-bits, masks and defaults, and it is there that a stale or edited generated file
goes wrong. So each generated function is a table of exactly these, read off the
generated code, and `MessageRuntime` is the common code that runs them.
`MessageObjects` keeps beside each object the contents that `src/proto` prescribes
after the same calls. The protobuf library underneath (varints, tags, strings,
unknown fields) is external.

## 3. Runs

| Run | Instance | Shows |
|---|---|---|
| `tracker` | 2 waiters, 2 callers, 2x2 ids | no wake-up is lost (`NoLostWakeup`), no completion is taken by another wait (`CompletionsKept`), a satisfied wait returns (`WaitReturns`) |
| `manager_safety` | 2 workers, 2 parallel queries and one that sends nothing, 1 lost send, shutdown at any time, symmetry | `OnePlace`, `NoStrandedQuery`, `BatchBarrier`, `NoStaleCompletion`, `StopDrains`, and `TrackerSpec`: the pool implements the tracker's specification |
| `manager_liveness` | 2 workers, a sequential and a parallel query, 1 lost send | `EventuallyFinished` (unless a send was lost), `ShutdownFinishes`, `JoinReturns` |
| `work_items` | all plans of 5 nodes with up to 2 children each (5733 plans) | `ChildrenFirst`, `WalkComplete`, `DependenciesEarlier`, `BatchesExact`, `Terminates` |
| `framing` | 6 messages, empty to too large, every segmentation, at most one short send | `StreamIntact`, `EndsOnlyForCause`, `AllDelivered`, as long as no send is short |
| `server` | 2 units of one type, 2 calls out of the 4 console and 5 callback operations, failing sends, uuid collisions, reused descriptors | `MapsAgree`, `HandleOwned`, `FreedAtSpawnOrRetry`, `SendsArrive` |
| `server_progress` | 2 units, 2 calls, fair threads | `CallsReturn`: the only deadlock is the join under `cl_mutex` of a receiver that waits for `cl_mutex` |
| `routing` | 2 optimizers with a request each, a compute unit that may be lost, 3 uuids, one further request of any of 7 kinds, symmetry | `RoutedRight`, `AnswersComeHome`, `NoRequestVanishes` |
| `intake` | every file of up to 5 tokens, a `-q` text or none, a prompt | `PrefixesByWords`, `FileHandedOver` |
| `compiler` | 485 statements, both strategies, trimmed or not | `PushesExactly`, `PlanMeansQuery`, `RowsTracked`, `ResultCorrect`, `AggregatesComputed`, `ItemsCorrect` |
| `messages` | all 27 generated classes, two objects that start empty or full (with each member of a oneof), any two calls | `Represents`, `ReadsDefault`, `WireAgrees`, `SizeExact` |
| `compiler_filtered_sum` | SUM over a filtered table | *violated*: `ResultCorrect` (section 6) |

Bounds and why they are enough. Two workers are the smallest pool in which one
thread sleeps, waits or exits while another works; the theorems cover larger
pools. Three queries on two workers leave one queued while both are busy. Batches
`<<{1,2},{3}>>`, `<<{1},{2}>>` and `<<{1}>>` have a batch with two
answers to wait for, successive batches, and ids that coincide between queries. One
lost send is enough to block a worker for ever. Five nodes hold chains, diamonds
and a child shared at two depths. In `Framing` a message fills the buffer exactly and
another exceeds it by one byte; headers of four bytes with a delimiter of two
can be cut inside the delimiter, inside the header and inside the payload. Two
units of one type share a vector of `clientMap`, so removing one moves the other;
two calls overlap on two threads, and with descriptors and uuids as scarce as units
both are reused. In `Routing` two optimizers can exchange answers or uuids, and a
third uuid makes the redraw possible. Five tokens hold both prefixes with their
white space and a body. The statements cover zero to two predicates on one, two
and three tables, self joins by alias, cyclic joins, external join orders, every
output form (plain, one aggregate, grouped, several aggregates, sorted, limited),
and the statements the translator refuses. An int has `IntRange` = 16 values in place
of 2^32, more than TLC can count: the limits of the statements are on the scale of
this range, and 17 is one that does not fit. Two calls on a message reach a member
left over from the first.

Symmetry is used in `manager_safety` (workers and plan ids) and `routing` (units
of a kind and uuids); both check safety only, and their properties name no
member of these sets.

`CHECK_DEADLOCK FALSE` is set where the program really stops: after the
destructor, when a translation has returned, when a receive loop or the server
process has ended, when the files are read and the calls are made. The tracker's
run checks deadlock.

## 4. Fairness

A thread that can run is scheduled: weak fairness of `WorkerStep(w)`, of
a caller that has unlocked and not notified, of the listener, of a destructor that has
begun, of a receive loop, of the walk over a plan, and in `TCPServer` of each step
of a call, of a receiver that has lost its client, of the accept thread and of the
join at the end. Strong fairness is assumed once, of `Redraw`: a unit that draws
uuids at random finds a free one eventually. A compute unit answers what reaches it:
this is an assumption on the deployment, not on this code, and
`ShutdownFinishes` shows what holds without an answer. Nobody has to add a query,
to connect, to call the server or to destroy the manager, no spurious wake-up is
owed, and no connection has to end.

`JoinReturns` is stated with the exception the code has: if the `notify_all` of the
destructor falls between a worker's test and its block (the step from `blocking` to
`asleep`), `join` can wait for ever. The property says that this is the only
way. `CallsReturn`, `FreedAtSpawnOrRetry`, `AnswersComeHome` and `NoRequestVanishes`
name the exceptions of the server in the same way.

## 5. Proofs

| Theorem | For every | Argument |
|---|---|---|
| `TrackerTypeCorrect`, `TrackerNoLostWakeup` | ids, waiters, callers | inductive as they stand |
| `TrackerCompletionsKept` | the same | waits in progress are for disjoint ids (`TrackerDisjointWaits`) |
| `TypeCorrect` | queries, workers, plans | the types, and that a worker that holds a query has one in `cur` (`Registers`) |
| `OnePlaceHolds` | the same | `QueueInv`: the four parts of `OnePlace` together with the registers |
| `NoStrandedQueryHolds` | finite pools | counting: a step that takes a worker out of `check` takes a query or finds the queue empty; `notify_one` trades a pending notification for an awake worker |
| `StopDrainsHolds` | the same | `StopInv`: after `stop_flag` nothing is added, and an exited worker left an empty queue |
| `BatchBarrierHolds`, `NoStaleCompletionHolds` | the same, if no plan id is drawn twice | `WaitInv` (what a waiting worker waits for is its batch), `PlanIdInv` and `FreshInv` (a plan id belongs to one query, and nothing of it is recorded before it is drawn), `BatchInv` (batches before the current one are acknowledged, later ones unsent), `CompletionInv` (a recorded id stands for an acknowledged item of the current batch) |
| `ImplementsTracker` | the same | each step is a step of the tracker or leaves it alone; the contract `Overlaps` follows from distinct plan ids |
| `ImplementsService` | nonempty finite pools | `OnePlaceHolds` and `StopDrainsHolds`: taking up is `PopFront`, so the order of the queue is the order of the service; a worker in `check` holds nothing, so there is room for one more |
| `WorkItemsTypeCorrect` | plans of any size | types of stack, list and loop indices |
| `ChildrenFirstHolds` | acyclic plans of any size, any ids | `WalkInv`: node numbers fall along the stack, `seen` is stack plus list, and a child a frame has passed is listed or is the next frame; a seen child cannot be on the stack, since everything there has a larger number |
| `DependenciesEarlierHolds` | the same, if node ids differ | `LevelInv`: levels before `idx` are above those of the children, `curLevel` above the dependencies looked at; a group holds the items of its level |
| `WalkCompleteHolds` | acyclic plans of any size, any ids | `ReachInv`: what is seen is reachable and holds the root; with `WalkInv`, an empty stack leaves a list closed under children, and a least number outside it would contradict acyclicity |
| `BatchesExactHolds` | the same, if node ids differ | `BatchInv`: a level is the successor of the largest level among the dependencies looked at, so each level below a used one is used |
| `FramingTypeCorrect` | messages, header, delimiter, buffer size | `data_ptr` stays within the received bytes and these within the buffer, whatever payload size garbage shows |
| `StreamIntactHolds`, `EndsOnlyForCauseHolds` | the same, and every way TCP cuts the stream | `StreamInv`: buffer after `data_ptr`, wire and unsent messages are the bytes of the messages not yet delivered; outside the parser `data_ptr` is 0 and the buffer holds an incomplete message |
| `ImplementsChannel` | the same, as long as no send is short | `StreamInv`: a send appends one message to what is in transit, `recv` and `MoveRest` move bytes and leave it alone, and `Extract` takes exactly the first message of it |
| `ServerTypeCorrect` | units, descriptors, uuids, types, calls | types of the frames: a thread that sends or removes has a client in hand |
| `MapsAgreeHolds` | the same | `RegistryInv`: `cl_mutex` has one owner (`ControlInv`), lists hold each client once (`ListsInv`), the two maps agree up to the client of the removal under way (`MapInv`) |
| `ServerImplementsRegistry` | the same | `NamesInv`: what `ProbeUuid` found free is free at `Register`, since only the accept thread inserts; and who has a uuid is past its handshake. Unlike `MapsAgree` this holds during shutdown as well |
| `HandleOwnedHolds` | the same, if no unit answers the handshake with another message type | `HandleInv`: a descriptor has one owner, which is registered, in the handshake, or being removed |
| `SendsArriveHolds` | the same as `MapsAgreeHolds` | `CallInv`: what a walk has passed was sent or removed, and what is left of its work lies ahead of its position (`SendInv`, `ReachInv`, with `CalmInv` for the calls made alone) |
| `FreedAtSpawnOrRetryHolds` | the same, with every operation the console of `main` calls | `FaultInv`: what a walk has in hand is registered and alive; what `sendToAllOfType` has in hand is past its handshake, so that only the console thread can free it, and if it is freed the copy was already met with it (`Walks`); a receiver runs on a freed client only if it was started on one (`Loops`) |
| `RoutingTypeCorrect` | units, uuids, requests, losses | types of the queues; a work message is about a request |
| `RoutedRightHolds` | the same | `RightInv`: the handshake (`ShakeInv`: a client is known by the uuid it has, and a uuid is redrawn only while no message depends on it) and what units send (`AskInv`: a request carries its sender's uuid and name) |
| `RoutingImplementsRegistry` | the same | `ShakeInv`: the unit of the handshake is not a client |
| `NoRequestVanishesHolds` | the same, if no optimizer is lost | `HomeInv` (below) and `KeptInv`: what leaves a queue enters the next one, the answers, or `dropped`, and a unit's queue has a reader until what it holds is noted |
| `AnswersComeHomeHolds` | the same, if no optimizer is lost and none numbers two requests alike | `HomeInv`: a request carries the uuid of its sender, is noted as stale, or stands before the answer to a collision, where the handshake fails on it; so the target of an answer is the optimizer's own uuid. `OnceInv`: a request is in one place, once |
| `IntakeTypeCorrect` | texts, files, lines | the position of the loop stays within the text |
| `PrefixesByWordsHolds` | the same | `LoopInv`: at each turn the loop stands at the start of a word, and its mode and name are what `Reading` has before that word |
| `FileHandedOverHolds` | the same | `Pieces` of a text is its first piece, unless blank, followed by `Pieces` of the rest |

`BatchBarrier` is not inductive: whether the next batch may start depends on
what the set of completions stands for, which is why `CompletionInv` and the freshness
of plan ids are needed. The hypothesis that plan ids (node ids) do not repeat
cannot be dropped: section 6 gives the instances that violate the property
without it.

The other hypotheses are needed as well. A unit that answers the handshake with a
message of another type has its descriptor closed and is registered all the same.
`ConsoleAssumption` is not a restriction but a reading of `main`: its menu and
`globalExit` call `sendToAll`, `sendToAllOfType`, `clear_aborted` and
`closeConnection` (`examples/tcp_server_example.cpp:333` to `:430`). A lost optimizer leaves its uuid behind: with
`MayLose = {o1, c1}` in `Routing.cfg` another optimizer draws that uuid and gets the
answer (`AnswersComeHome`), and with a monitor among the units, `Monitors = {m1}`
and `Optimizers = {o1}`, the answer goes to the monitor alone (`NoRequestVanishes`).

None of the three invariants of `Routing` is inductive. Which uuid a message
carries is decided when it is built, who has that uuid when it arrives; what
bridges the two is that a uuid changes only in the handshake, before anything the
unit has sent can be forwarded (`UuidStep`), which rests on the shape of both
queues during the handshake (`Greeted`, `Collided`).

The refinements. `QueryManager` implements `QueryService` and, on the side of the
answers, `WorkCompletionTracker`; `Framing` implements `Channel`; `TCPServer`
implements `Registry`. `Routing` is written on top of the last two: its queues are
channels and its `clients` is the registry, which `RoutingImplementsRegistry`
confirms. The hypotheses are needed. With a short send (`MaxShort = 1`) bytes
of two messages reach a callback as one, which no channel does. A pool
without workers ends its destructor with queries in the queue. And `ImplementsTracker`
needs distinct plan ids. What the mappings leave out is fairness: that a service
finishes what it accepts and a channel delivers what it was sent is liveness, and
stays with TLC.

`PrefixesByWords` and `FileHandedOver` compare a loop over a text with a recursive
function of its positions. The function's equation for every position comes first, as
a lemma proved by a least position at which it could fail (`NatLessThanWellFounded`,
`WFMin`): an induction over positions that needs no induction scheme. The rest is
what a loop skips: between two words nothing is read, and within a piece no
piece begins. The hypotheses of `PrefixesByWords` are part of the property. `Separated` is needed:
`PARALLELx` is taken for the keyword by the code and for a word by the reference.
`InOrder` is the order the README's line 103 asks for; the proof does not need it, its
invariant `AnyOrder` holds for the keywords in any order.

The assumptions are the named ASSUMEs of the modules: constants have their
types, the pool is finite, plans are acyclic, batches are nonempty and disjoint, the kinds of units are
disjoint, requests are numbered from 1, and texts are finite sequences of tokens.
TLC evaluates them on every instance.

The type invariants of these modules are proved and therefore not repeated in the
runs. The other modules keep their types through the runs' properties, which TLC
could not evaluate on ill-typed states.

Only model-checked, and why:

* liveness (`WaitReturns`, `EventuallyFinished`, `ShutdownFinishes`,
  `JoinReturns`, `Terminates`, `AllDelivered`, `CallsReturn`): fairness is outside
  the prover's reach;
* everything about `QueryCompiler` (`PushesExactly`, `PlanMeansQuery`, `RowsTracked`,
  `ResultCorrect`, `AggregatesComputed`, `ItemsCorrect`) and `MessageObjects`
  (`Represents`, `ReadsDefault`, `WireAgrees`, `SizeExact`): expressions, plans and
  nested messages are trees walked by RECURSIVE operators, and what these compute
  for every tree needs an induction over trees. The positions of a text are numbers,
  for which a least counterexample is enough; trees have no such number at hand.

## 6. Where the code departs from its documents

The properties above are stated for what the code can do. Where a document, a
comment or a test says more than the code does, the difference is listed here with
the instance that shows it: change the named constant of the named configuration,
keep the named property alone, and it is violated. One of them is kept as a run,
`compiler_filtered_sum`, and is the finding of `PROJECT.json`.

Pool and batches

* Plan ids come from one static `std::mt19937` that all workers use without a
  lock, and nothing checks for a repeated id (`include/Translator.hpp:85`). Two
  overlapping queries with one id break the barrier between batches:
  `UniqueDraws = FALSE` in `QueryManagerSafety.cfg` violates
  `NoStaleCompletion`, `TrackerSpec` and, checked alone, `BatchBarrier`.
* A sequential dispatch returns once the request is handed to the socket
  (`src/optimizer/QueryManager.cpp:153`), so two queries of a file can be executed
  together, while the README's line 99 says a file is executed sequentially.
* Node ids are drawn from 0 to 999999 without a check for repetition
  (`include/optimizer/PhysicalOptimizer.hpp:79`) and key the levels. With
  an assignment that repeats an id in `Drawn` (`MCWorkItems` has only distinct ones),
  `DependenciesEarlier` is violated.
* `WorkResponse.success` is not read (`examples/OptimizerUnit.cpp:120`): a failed
  item releases the next batch.

Stream

* The delimiter is searched for before anything checks that it has arrived
  (`src/Utility.cpp:108`); a first piece shorter than it makes the loop read past
  the received bytes. `EndsOnlyForCause` names this as a cause.
* The check for lost data (`src/Utility.cpp:113`) compares a pointer with itself,
  and the send's result is ignored (`src/TCPClient.cpp:88`): after a short send
  bytes of two messages reach a callback as one. The properties of `Framing`
  except runs with a short send.

Registry

* A client that answers the handshake with a wrong package type is not dropped as
  the comment at `src/TCPServer.cpp:117` says, but registered with a closed socket:
  `"other"` among the `Answers` of `TCPServer.cfg` violates `HandleOwned`.
* Between registration and the start of the receiver (`src/TCPServer.cpp:176`)
  another thread can remove and free the client; `FreedAtSpawnOrRetry` names this
  window.
* `removeClient` joins the receiver under `cl_mutex` (`src/TCPServer.cpp:701`),
  which a callback on that thread may be waiting for: `JoinsWaiter` in
  `CallsReturn`.
* `sendToAllOfType` walks a copy of the vector and does not advance after a failed
  send (`src/TCPServer.cpp:320`), so it uses the client it has just freed.
  `FreedAtSpawnOrRetry` names this as the other way to a freed client, and says
  that for the calls of the console there is no third.
* `rerouteToAnyOfType` walks by index up to the old size while a failed send
  shortens the vector (`src/TCPServer.cpp:404`): the next client is skipped, and a
  message can be given up while a unit of the type is connected. `SendsArrive`
  makes no promise for it.

Routing and intake

* A request takes its source uuid when it is built (`src/TCPClient.cpp:24`); if a
  collision changes the uuid before it is sent, the answer goes to whoever holds
  the old one. `AnswersComeHome` excepts these requests.
* The chores thread may send the `-q` request before the server has read the answer
  of the handshake (`examples/OptimizerUnit.cpp:108`); the handshake's single
  `recv` then takes both and drops the request, while the README's line 83 says
  it is executed. `NoRequestVanishes` names the place.
* The README's line 103 says that `PARALLEL` must precede `NAME`. The loop of
  `processQuery` tests for either keyword at every turn
  (`src/optimizer/QueryManager.cpp:97`) and accepts them in any order and number,
  with the same result. `PrefixesByWords` is stated for the order of the README;
  `AnyOrder` in `QueryIntakeProofs` says what the code does beyond it.
* `chores` hands over the `-q` query before the file
  (`examples/OptimizerUnit.cpp:63`), the README's line 92 says after it.

Translator. Each of these sets of statements (in `MCQueryCompiler`), as `Queries`
of `QueryCompiler.cfg`, violates `PlanMeansQuery`:

* `MCUnconnected`: tables that no join predicate connects are left out of the plan
  (`JoinTreeBuilder.cpp:285`).
* `MCLiteralFirst`: `5 < column` becomes `column < 5` (`PredicateBuilder.cpp:225`).
* `MCLowered`: `LOWER` is recorded for LIKE only (`PredicateBuilder.cpp:207`).
* `MCAggregateFirst`: the projection lists plain columns before aggregates,
  whatever the order of SELECT (`SelectPlanBuilder.cpp:405`).
* `MCOrderBySum`: ORDER BY over `SUM(a * b)` takes the first aggregate with the
  same function (`SelectPlanBuilder.cpp:439`).
* `MCTwoMaps`: two computed aggregates both take the output of the upper MAP
  (`SelectPlanBuilder.cpp:333`).
* `MCAliasedByPrefix`: an unqualified column gets its table's full name while scans
  are keyed by alias, so a join has a child that does not exist
  (`TranslatorHelpers.cpp:462`).

* `MCWideLimit`: a LIMIT or OFFSET is a 64-bit literal that is cast to `int` without
  a test (`SelectPlanBuilder.cpp:252`), so a larger one becomes another number. The
  statements of the runs have limits below half of `IntRange`.

Also seen and not modelled, as column types are left out: the schema calls a table
`date` that the prefix table calls `dates`, so its columns get the fallback type
(`SchemaResolver.cpp:39`).

Physical optimizer and items, again as `Queries`:

* `MCFilteredSum` (`ResultCorrect`, the run `compiler_filtered_sum`): below a
  FILTER an aggregate takes the position list instead of the column's values
  (`PhysicalOptimizer.cpp:578`; the comment at line 476 promises values).
* `MCStacked` (`RowsTracked`): a third filter on a table appends positions of
  the base table to a chain (`PhysicalOptimizer.cpp:215`).
* `MCReversedOrder` (`RowsTracked`): with an external join order against the order
  of the predicate, inner and outer are exchanged (`PhysicalOptimizer.cpp:388`).
* `MCGroupedScan` (`ResultCorrect`): grouped keys of an unfiltered table are read
  ungrouped (`PhysicalOptimizerMaterialization.cpp:92`).
* `MCGroupedDesc` (`ResultCorrect`): a descending sort by the keys is elided
  (`PhysicalOptimizer.cpp:968`).
* `MCGroupedByMin` (`ResultCorrect`): a sort by an aggregate takes the column with
  the suffix `_cluster` (`PhysicalOptimizer.cpp:1006`).
* `MCOrderBySumRev` (`ResultCorrect`): so does a sort by an alias that begins with
  `count`, `sum`, `avg`, `min` or `max`, such as `sum_rev`, whatever it stands for
  (`PhysicalOptimizer.cpp:989`).
* `MCCountedGroups` (`AggregatesComputed`): a COUNT(*) among several aggregates of a
  group has no input unless there is a MAP (`PhysicalOptimizer.cpp:712`), and making
  its item reads the first element of an empty vector (`include/Translator.hpp:194`).
* `MCThreeWay` (`ItemsCorrect`): an item has room for two inputs of a union
  (`include/Translator.hpp:200`).
* `MCGroupedMax` (`ItemsCorrect`): the item of a GROUPBY cannot say which aggregate
  it wants (`include/Translator.hpp:234`, `src/proto/WorkItem.proto:112`); the
  comment at line 116 of the latter speaks of a sum. Of the grouped statements the
  run `compiler` has only sums without ORDER BY, which is what `ItemsCorrect` covers.
* `ResultCorrect` and `AggregatesComputed` are about the nodes of the plan, which do
  have the function. That `RunGroupBy` of `Executor` uses it is an inference: for
  MAX and COUNT per group both properties rest on it, against the one comment about
  GROUPBY in the repository (`src/proto/WorkItem.proto:116`).
* `MCAliasedResult` (`ItemsCorrect`): a projected column of an aliased table gets
  the table's name even when it has been materialised (`PhysicalOptimizer.cpp:820`),
  so the RESULT item names an intermediate column under a base table where no item
  leaves it. A unit that finds columns by their name alone would not notice. The
  aliased statements of the run have ORDER BY, no materialised column or an
  aggregate in the projection.
* With several aggregates per group the projection names a column that no node
  leaves (`PhysicalOptimizer.cpp:725`); `ResultCorrect` excepts these
  statements and `AggregatesComputed` says what does hold of them.
* A join whose outputs nobody reads makes `optimizeJoinOutputs` throw
  (`PhysicalOptimizerPostProcess.cpp:70`), where its comment says the join is left
  unchanged; `ResultCorrect` allows this only for a plan without a projected
  column.
* The index of a RESULT node is not copied into its item
  (`include/Translator.hpp:267`), so the order of a result is lost;
  `ItemsCorrect` is stated for statements without ORDER BY.

Messages

* `WorkRequest` and `WorkResponse` were generated from an older `.proto`
  (`src/cpp/generated/include/WorkRequest.pb.h:461`,
  `src/proto/WorkRequest.proto:9`): newer fields are received as unknown bytes.
  `Drifted = TRUE` in `MessageObjects.cfg` (`Types <- Requests` is enough) violates
  `Represents`.

## 7. Not modelled

* Formatting, the visualisers, logging, argument parsing, and the Python scripts
  that drive or imitate units: no protocol state.
* The SQL grammar (third-party parser): statements enter as parsed trees.
* Column types; the optimizer's write-only maps (`available_poslists`,
  `filter_nodes`, `poslist_provenance`).
* Of the generated code: reflection, descriptors, arenas, and varints above 2^31.
* Compute units beyond their protocol: `Executor` is inferred from the optimizer.
* The random test-data helpers of `Utility`.

## 8. What could come next

1. `PushesExactly` for plans of any depth, with plans coded as functions over node
   numbers, as `WorkItems` has them, in place of nested records.
2. The varint and tag coding of `MessageRuntime` as functions of the number, apart
   from the nested messages, and its round trip as a theorem.
3. A composition of `Routing` and `QueryManager`, in which `Execute` is replaced by
   the routed request, with the barrier between batches as the property.
