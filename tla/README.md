# A verification project for tile38.go

`tile38.go` is a Go client for the Tile38 geospatial server: a pooled transport
for commands and pipelines, long-lived geofence streams, and typed builders for
the commands. This directory holds TLA+ models of the parts of it in which
something can go wrong that a test would hardly reach, the TLC runs that check
them on small instances, and TLAPS proofs of what holds on every instance.

## The system

| part | source | state | operations |
|---|---|---|---|
| connection pool | `internal/conn/conn.go` | slot channel, idle list, closed flag; per connection a socket, a `bufio.Reader`, a deadline | `Do`, `DoPipeline`, `Dial`, `Close` |
| RESP codec | `internal/resp/resp.go` | the position in the byte stream | `AppendCommand`, `ReadReply` |
| stream | `stream.go` | connection, closed flag, `sync.Once`, context watcher | `Fence`, `Subscribe`, `PSubscribe`, `Next`, `Close` |
| search builders | `builders.go`, `intersects.go` | options, `cursorOut`, per builder | `Do`, `Iter`, `Count`, `Cursor`, `Limit`, format switches |
| other builders | `builders.go`, `channel.go`, `geometry.go` | argument lists; `GetCmd`'s last fields, `Pipeline`'s queue | `SET`, `GET`, hooks, channels, `Flush` |
| single commands | `commands.go`, `management.go`, `server.go` | none | one round trip and a parse each |
| parsers, values | `parse.go`, `types.go`, `json.go`, `fence_event.go` | none | pure functions |
| client, options | `tile38.go` | the pool | `New`, `Close`, raw `Do` |
| endpoint URLs | `endpoint/endpoint.go` | none | a constructor a scheme, options |
| reconnect loop | `example_test.go`, README | the delay | `Fence`, `Next`, wait, again |

How they interact. Every command goes builder, `Client.do`, `Pool.Do`, one
connection, and back through a parser; `Iter` does so once a page and calls its
caller back in between. A stream takes a connection from `Pool.Dial` and never
gives it back. The pool's idle list and closed flag are shared under one mutex
that no socket call is made under; the slot channel is taken before the list is
looked at and given back last. Besides callers, three kinds of goroutine act on
their own: the function `context.AfterFunc` starts when a context ends, which
closes a connection; the socket's timers; and whoever calls `Close`.

What is hard in it, and what makes each part correct:

* Pool: a reply that comes after its caller has gone, an `AfterFunc` that runs
  late, a `Close` in the middle of a call, an error half-way through a batch, a
  slot not given back. Correct when a connection has one owner, is idle only
  when nothing is on its way on it, is never leaked, and when every call ends.
* Stream: the reason of a broken read is looked for after the fact, while others
  close the stream; buffered events outlive the connection. Correct when it
  never reports this side's own `Close` as a disconnection, loses no event in
  the middle, and `Close` and cancellation end a waiting `Next`.
* Paging: a callback in the middle of a loop that keeps its position in shared
  state. Correct when a range yields everything once and leaves no trace.
* Codec: where a reply ends, under errors, limits and fragments. Correct when the
  reader is at the start of a reply whenever it may be asked for one.
* Builders: methods come in any order, on copies that share arrays and pointers.
  Correct when the command that goes out has what its own chain asked for, each
  part once and in the parser's order, and a fence has no part of a query.
* Parsers: parts of an item are left out and others move. Correct when what comes
  out is what the server had.
* Objects and pipelines: handles are used again, and keep a slice or the fields of
  a reply from one call to the next. Correct when what is sent is what was queued
  and what is read belongs to the reply it came with.
* Endpoints: one argument carries several URLs, in which commas, slashes and
  ampersands have a meaning on three levels. Correct when the server takes apart
  what was put together.
* The reconnect loop: a drop, a refusal, a cancellation and a bad payload all come
  out of `Next` or `Fence` as errors. Correct when it ends for a cause only, ends
  when it is asked to, and finds a server that is back.

`PROJECT.json` lists these dangers one by one, at their lines, with the
properties that guard against each, or the reason why none does.

## The modules

**`CommandService`** is what the pool promises its callers. A call is issued,
admitted (at most `Limit` at a time), has its commands executed in order and once
by the server, and returns a result: "nil" only when all of them were executed;
"server" when all were, or none, because it was AUTH the server refused, which the
caller cannot tell apart; "closed" only when none was. After a broken connection
("fatal") or the context's error ("ctx") any number of them may have been executed,
and, since the server may still read what was written to it, more may be after the
call has returned (`Abandon`, then `Execute`). After any other result none is.

**`Pool`** is `internal/conn/conn.go`, with `ReadReply` of the codec by its
effect. A caller is a program counter over the points at which another
goroutine, the server or a timer can interfere:

| `pc` | code | actions leaving it |
|---|---|---|
| `ready` | outside | `Begin` |
| `acquire` | 132-142 | `Acquire`, `AcquireDone` |
| `get` | 196-210 | `GetClosed`, `GetIdle`, `GetNone` |
| `dial`, `auth`, `authread` | 177-191 | `DialOk`, `DialFail`, `AuthSend`, `AuthRead`, `AuthRefused`, `AuthFail` |
| `arm` | 247-248, 274-275 | `Arm` |
| `send`, `read` | 53-67, 277-293 | `SendOk`, `SendFail`, `Read`, `ReadFail` |
| `stop` | 250-253, 295-305 | `Stop` |
| `put`, `drop` | 212-221, 234-239 | `Put`, `PutRefused`, `Drop` |
| `release` | 144-148 | `Release` |

`Do` is a batch of one; what differs (where an argument that cannot be encoded is
found) is in the actions. A connection has its socket, its deadline, the
commands written and unanswered (`pend`) and the replies produced for the first
of them (`rep`). A reply is a value, an error, an array with an error in it
(which `ReadReply` leaves in the middle, so that "rest" remains), or bytes that
are no reply. The server answers in order or not at all, and may hang up. It does
not know when the client closes the socket: `Serve` executes what was written
before, whose reply is then "lost", and what a call had written and the server not
come to when its connection is dropped is kept as `behind`, for `ServeLate` to
execute at any time or `LoseLate` to lose. A caller stands for a goroutine, and
begins a new call once the server has nothing left of its last (`Begin`): until then
other goroutines are other callers. `AuthRefused` is the refusal of the handshake,
which `Dial` wraps, so that the call returns a server error though nothing of it was
sent; `AuthFail` is every other way the handshake fails. `Close` is two actions, the critical section and the closing of what it took; the
`AfterFunc` is two, the start of its goroutine and the close. The write buffer
kept between commands is in `Command`. `Stage`, `Size` and `Verdict` say what the
state of a call is to `CommandService`.

**`EventLog`** is what a stream promises its reader: the server's events each
once and in order, with losses at the end only.

**`Stream`** is `stream.go`. `openStream`, its callers and `newStream` are `Open`
to `AckWrong`; `Next` is `NextCall`, one action for every kind of message, and
`NextBroken`, `NextClosed`, `NextDone` for the three points at which a failed
read, the closed flag and the context are looked at. `Close` is one action a
statement of the `once.Do` body. Messages on the wire are lost with the
connection, those in the reader are not. `Dial` is one step here: `Pool` has its
parts. One stream is followed from its opening; `poolClosed` matters to
`openStream` only.

**`Feed`** is what the reconnect loop promises the program around it: events in
order and none twice, with gaps from one connection to the next only, and an end
that has a cause.

**`Reconnect`** is the loop of `README.md:307-339` as `example_test.go` compiles it.
`pc` is a place in it: the top with its `select` (`Top`, `WaitOver`,
`WaitCancelled`), `Fence` in its two halves (`DialOk`, then `OpenOk`,
`OpenRejected`, `OpenFails`), the inner loop (`NextEvent`, `Handle`, `NextFails`),
and what its errors lead to (`Reopen`, `GiveUp`). A stream is an `EventLog`, which
`Stream` implements: an open one has the events since its opening, and is over
when the server hangs up or the context ends, with events in its reader that
`Next` still hands out. The server goes up, down and into a state in which it
rejects the fence; the context may end and the client be closed anywhere.

**`Search`** is the paging of `builders.go` for one goroutine with several
builders. A builder points to a `searchState`; a format switch clones it. The
ranges under way form a stack, since the body of a range may start another. The
server's page is `Replies`: from the cursor, up to `LIMIT` or the cap, with a
cursor that is zero when the scan ran out, and either when it ran out exactly at
the limit. A `Do` that fails changes nothing and is a stuttering step, as is a
`Count`, whose command is in `Builders`.

**`Builders`** is the other side of the builders: how the commands are put
together. A handle is a builder value with its `slot`s, which the next call of the
same method overwrites (`searchOpts`, `detect`, `radius`, the area, the format),
and its `args`, the Go slice that `Where`, `Match` and their like append to. A
slice is a length in an array of `mem` whose capacity the runtime chooses, so two
handles that refer to one array write over each other, as they would in Go. A
command is a sequence of clauses, rendered by operators named for the functions
they stand for (`OptionTokens`, `FenceTokens`, `PointGeometry`, `BuildSearch`,
`HookHead`, `BuildFence`); of a clause's operands only the number is kept. The
actions are `Set` (any method that overwrites), `Area`, `Compare` (of `TestCmd`,
whose clauses are in places of their own), `Add` (any that appends) and `Switch`
(`clone` and a format). SET and FSET append everything they are given. A handle
"PSET" is a `PipelineSetCmd`: `Queue` puts its slice, not what the slice holds, into
the queue of the pipeline, and `Flush` empties the queue and hands it to
`DoPipeline`, whose part is `Pool`'s. The `append`s of a handle queued twice are the
reason arrays, lengths and capacities are told apart.

**`Endpoint`** is `endpoint.go`: one operator for each constructor and one set for the
options of a scheme, over texts that are sequences of symbols, the separators of a
URL among them. `Build` escapes path segments and values as `url.QueryEscape` does.
The other half is Tile38's reading of SETHOOK's argument (`Received`), as the
comments of `endpoint.go` and `builders.go` tell it: cut at commas, parts without a
scheme joined to the one before, path and query unescaped, and the refusals the
comments name. A `HookCmd` of `Builders` carries endpoints of a list, `Targets`, and
the run compares what is received with what was meant. `Addresses` says which URLs a
program may have made: a path and an option's value are any text; a host, which nothing
escapes, is without what ends one in a URL of its scheme; a connection string has no
semicolon in a part; an http URL is given as it is. No comma of a URL is followed by a
scheme: of those that are escaped this is proved, of the two others it is assumed, since
nothing in the code sees to it.

**`Command`** is `AppendCommand` and what `Conn.Do` does with it: a command is
written in the buffer the connection kept from the one before, unless that one was
too large.

**`Reader`** is `ReadReply` and `readLine` over a `bufio.Reader` that holds
`BufSize` symbols; the network delivers as many as it likes at a time. `line`
holds the fragments of a line, `need` what is missing of a bulk string, `frames`
the recursive calls. `Pool` and `Stream` have the same function by its effect: a
reply is taken whole or the connection is lost, which is what `Framed` justifies.
What the other end writes is a constant, `Streams`, and may be any symbols. A number
is one of `Numbers`, each of which is written in a way of its own
(`NumbersAssumption`).

**`Reply`** is that other end. A reply is a record that carries, besides what it is,
the symbols it is written with (`symbols`), what `ReadReply` is to make of it
(`means`), and whether it is within the limits and in order (`fine`); there is a
constructor for every kind, and an array is made of replies made before. `Replies` is
all that is sent or stands in an array that is (`RepliesAssumption`). A stream may
also be of commands: the server's end reads them by the same grammar, and the
repository's own test servers by the same function.

**`Values`** is `parse.go` on what `Reply` returns: one operator for each decoder
of a format, with Tile38's encoding, as the comments of `parse.go` tell it, for
the other direction. The objects of a page are any that have ordinates and a set of
named fields, each name once (`ObjectsAssumption`).

**`Answers`** is what single commands make of a reply: `GetExec` with the fields a
handle keeps, the terminals of GET, TTL's sentinels, `StringSlice`, `LookupKV`,
`Stats`, `Hooks`, one operator a command; and `FieldOf`, over integers of as many
values as `Sizes` has. `ReplyTo` is the server's encoding of an answer, `Truth` what the
caller is to be told, and `Asked` what may be asked (`QuestionsAssumption`).

`MCPool`, `MCStream`, `MCBuilders` and `MCReply` hold the inputs of the runs; the
`.cfg` files are named
after module and run. Definitions marked `mutant` are what a plausible bug would
make of the definition they stand before; no specification uses them. Each
property has one it does not survive.

## The runs

| run | what it asks | bounds |
|---|---|---|
| `pool_shared` | is a connection ever shared, leaked, poisoned, or closed under its owner | 2 callers, 1 idle connection |
| `pool_pipeline` | own replies, slots, deadlines left over, `Close` during a call, refinement of `CommandService`, does a cancelled call end though the server is mute | 2 callers, batches of 2, 1 slot, 1 connection, password, no timeout |
| `pool_timeout` | does every call end, is a closed pool drained | timeout unset in the options |
| `stream_channel` | reasons, `Close`, failed opens, refinement of `EventLog`; do opening, and `Next` after `Close` or cancellation, end | 2 closers, 4 messages, every kind of reply |
| `search_pages` | order, completeness, bounds, the builder left as it was, does a range end | 3 pages of 1, 2 builders, ranges 2 deep |
| `builders` | own filters, order and number of clauses, fence against query, areas, a pipeline's queue, endpoints | 2 handles, 4 calls, 2 endpoints of 15 |
| `reply` | framing of replies and commands, refusals, lines and bulk strings within bounds, termination, pages, answers and fields decoded | streams of 1 or 2 replies, lines of 7 symbols, buffer of 3 |
| `reconnect` | backoff, refinement of `Feed`, does the loop end when cancelled and find a server that is back | delays of the README, 3 events |

Bounds. Two callers are enough for every hazard listed: each is between a caller
and one other party, and with one idle connection or one slot the two compete
for it at once; a batch of two is the shortest with replies left to drain. With one
slot one connection is in use at a time, so `pool_pipeline` has one; what it leaves
out is a dial that overtakes the closing goroutine of the call before, and
`pool_shared`, with three connections, has that. Two
closers are a `Close` and another. Three pages are a first, a middle and a last,
and a fourth message puts an event behind an acknowledgement behind an event.
In `search_pages` a cursor is 0, the beginning, or 2, the middle, and a limit is 2, a
page larger than the cap of 1; `search_zero` has the limit 0, which the server takes
for none, and `search_nested` no cursor and no limit. Four calls on two
handles are a filter, a switch, a filter on each (the shortest way for two slices
to collide), or an area, a radius, another area and a switch, or a `SET` queued,
extended, and queued again; `Used` keeps the filters, areas and formats that differ
in shape. Two endpoints are enough for one to be taken for a part of the other, and
`Targets` has one of every constructor, with every option of its scheme and every
separator in its path and values. A buffer of 3 symbols cuts every
reply used, and the limits of 7 and 4 have replies at them and one above; the
numbers are -9 to 99, which has every length and count of those replies.
In three events one is lost in a gap between two that are not; integers of eight
values have both their edges, and the neighbours beyond, among the fields.
`MaxPush`, `MaxSize`, `MaxDepth`, `MaxCalls`, `MaxEndpoints`, `MaxEvents` and `Used`
bound the models; nothing else is capped. `fails` stops counting once the delay is
the longest, which it then stays.
The runs of `Stream`, `Builders` and `Reply` set `CHECK_DEADLOCK FALSE`: a stream
that failed to open is never used again, a program stops calling methods, and a
connection has no more replies. Elsewhere deadlock is checked.

Fairness. In `Pool`, a goroutine that can run does (`WF` on the steps of a call), and
one that waits for a slot gets it in time (`SF` on `Acquire`: blocked senders on a
channel are served first in, first out). Started `AfterFunc` goroutines run, timers
fire. In `Stream`, the same of the reading goroutine, a `Close` that has begun, the
watcher and the timer. In `Search`, commands come back, which `CallReturns` shows of
`Pool`, and the program does not stay for ever in the body of a range, by starting one
range after the other in it either (`SF` at each depth of nesting). In `Reply`, the
reading goroutine runs, and what was written arrives; when all has arrived and more is
wanted, the read fails (the peer's close or the deadline, whose part is `Pool`'s and
`Stream`'s). In `Reconnect`, the goroutine runs, its timer fires, `Fence` returns
(`OpenReturns` of `Stream`), a stream whose context ends is cut (`NextUnblocks`) and
the program's own `handle` returns. That the server stays up and the client open is
the antecedent of `Reopens`, not an assumption. Nothing is assumed of the server, of
`Close`, of cancellation or of callers who have not called.

### Where the code and its text disagree

Four runs expect a violation.

* `pool_nested` (`resp.go:154`, "fatal to the connection rather than an Error").
  The wrapped error still unwraps to `resp.Error`, so `isServerError` accepts it
  and the pool takes the connection back in the middle of a reply. The next call
  on it reads the rest.
* `stream_decode` (`stream.go:41`, "any other error wraps ErrDisconnected"). A
  payload that does not decode is neither a disconnection nor the end of the
  stream; the README's reconnect loop ends on it.
* `search_nested` (`builders.go:260`, "a second Iter on the same builder starts
  over"). Not inside the first, once that has moved on to its second page: the inner
  range starts at that page, and takes the cursor that is not its caller's for a
  bound. A body that is handed the error of a page and ranges again, to start over,
  gets the rest from that page instead.
* `search_zero` (`builders.go:873`, "Zero means no limit"). `Limit(0)` sends
  `LIMIT 0`, which is no limit to the server, but `searchIter` takes it for a bound
  and stops after a page.

Smaller remarks, for which no run is kept. A server that refuses AUTH makes every
call return a `ServerError`, since `conn.go:185-187` wraps the refusal, where
`src/README.md:219` says that it means "the command was rejected but the connection is
fine": the command was not sent and the connection is closed (`CommandService` allows
for it; `Reconnect` takes it for a fence that is rejected). A length prefix
"cannot allocate an arbitrary buffer" (`resp.go:172-174`) if it is a bulk string's; one
of an array makes room for as many elements as it says, unbounded (`resp.go:150`).
Inside the body of a range over the same builder, a `Do` runs from the page the range
has reached; a format switch there copies that page's cursor for good; and a
`Cursor` set there is undone when the range ends, by the restore. After `Close`, `Next` still hands out
events that were buffered, before the `io.EOF` of `stream.go:40`. A GET that misses
leaves `Fields` as the reply before it set them, where `builders.go:531` says "the
most recent terminal". `FieldOf[float32]` rounds what `types.go:76` calls exact. The
reconnect loop takes `ErrClosed` for a failed attempt, so a closed client is tried
again for ever unless the context ends. `Flush` empties the queue before it
sends, so that a batch that failed, in whole or in part, has to be queued again; no
property is about it, since the queue is emptied whatever comes back. Of `Fields`,
`FieldsExact` covers the objects read, not the misses between them.

## The proofs

Seven modules hold the theorems below, and `Inductions` the principles of induction
four of them use, with what is proved by them of `FlattenSeq` and of `SetToSeq`. What
they prove holds for any finite set of callers, any number of connections, closers,
builders, handles, arrays, objects and events, any batch sizes, limits, page sizes,
depths and delays, any symbols on the wire for `LineAndBulkBoundedHolds`, any replies,
arrays in arrays as deep as you like, for the rest of `ReplyProofs`, any objects,
pages and questions about them for `AnswerProofs`, and any hosts, paths and options
for the endpoints, under the assumptions the modules name (`ConfigAssumption`,
`InputAssumption`, `SearchAssumption`, `BuildersAssumption`, `LimitsAssumption`,
`NumbersAssumption`, `RepliesAssumption`, `ObjectsAssumption`, `QuestionsAssumption`,
`SizesAssumption`, `TargetsAssumption` and the like). One of these is there for the
provers only, who do not know a literal to be a `STRING` (`LiteralsAssumption`). TLC
evaluates these on every run.

| module | theorem | says |
|---|---|---|
| `PoolProofs` | `TypeCorrect` | `Spec => []TypeOK`, inductive as it stands |
| | `OwnershipHolds` | `Exclusive`, `OpenIsOwned`, `NoLateClose` (the last two by themselves: `NothingLeaks`, `NothingClosedLate`) |
| | `RepliesMatch` * | `PooledIsQuiet`, `OwnReplies` (the first by itself: `PoolStaysQuiet`) |
| | `SlotsHold` | `SlotsExact` |
| | `DeadlinesAreOwn` | `DeadlineIsOwn` |
| | `CloseIsFinal` * | `ClosedIsFinal` |
| | `ServiceImplemented` * | `Pool` implements `CommandService` |
| `StreamProofs` | `ReasonsHold`, `CloseReleases` | `ReasonIsTrue`, `CloseMeansReleased` |
| | `LogImplemented` | `Stream` implements `EventLog` |
| `SearchProofs` | `CursorsKept`, `InOrder` ** | `CursorIsCallers`, `YieldsInOrder` |
| | `WholeYielded` ** | `YieldsWhole` |
| `ReconnectProofs` | `TypeCorrect`, `FeedImplemented` | `TypeOK`; `Reconnect` implements `Feed` |
| | `DelayDoublesHolds` | `DelayDoubles` |
| `BuilderProofs` | `SeparationHolds`, `PipelineIsExact` | `Separation` of the slices; `PipelineExact` |
| | `OwnFiltersHolds`, `OnceInOrderHolds` | `OwnFilters`, `OnceInOrder` |
| | `FenceOrQueryHolds`, `AreaWholeHolds` | `FenceOrQuery`, `AreaWhole` |
| | `AddressedIs`, `ConstructorsReach` | a URL is read as it was meant, and each constructor's is |
| | `EndpointsArriveHolds` | `EndpointsArrive` |
| `ReplyProofs` | `LineAndBulkBoundedHolds` | `LineAndBulkBounded` |
| | `FramedHolds`, `RefusedForCauseHolds` *** | `Framed`, `RefusedForCause` |
| `AnswerProofs` | `PageDecodedHolds` *** | `PageDecoded` |
| | `AnswerDecodedHolds`, `FieldsExactHolds` *** | `AnswerDecoded`, `FieldsExact` |

(*) assuming no reply is an array with an error in it. Without that they are false:
`pool_nested` is the reason. (**) assuming no body uses the builder it ranges over,
which `search_nested` shows to be necessary for what the comments promise. (***)
assuming no garbage is on the stream, that is, every reply is one that Tile38 or a
client may write, though it be too long or have an error in an array. Of garbage,
which may happen to read like a reply, TLC checks particular ones.

So every invariant of the runs that pass is stated by a theorem, and so are the three
refinements and `YieldsWhole`; the rest is liveness.

*Ownership.* The three properties are not inductive: that nothing closes a
connection after it was given back depends on what a caller between `read` and
`put` still has armed. `Ownership` adds that a call that may still return its
connection holds one no closing goroutine is about to hit, unless its watch says
"fired", in which case `Stop` sees it and drops the connection. Each action has
one step in `OwnershipStep`; most leave ownership alone and follow from
`OwnershipFrame`. That deadlines are own follows from it: nobody but its owner sets
the deadline of a connection in use.

*Replies.* `Account(p)` says for each place a call can be at what is on its
connection, and which of its commands have been executed: nothing before `send`;
while reading, exactly its own unread commands (`OwesReplies`); after a success,
nothing; after a failure, commands of its own or the AUTH of its handshake (`Owed`).
Of a call that has left commands behind it says that they are its own, in order, from
the first the server has not executed, and that its result leaves them in doubt
(`LeftBehind`, `InDoubt`). `Accounts` joins these with an empty wire for every
connection in the pool or with `Close`. A step of one call leaves the others alone
because connections are exclusive, which is how `OwnershipHolds` enters
(`AccountKept`, `AccountsOffWire`, `AccountsOnWire`). `Serve` is the step that needs
all of it: a server executes what is pending on a connection, open or not, which
therefore has an owner and is of that owner's call, either its AUTH or the next of its
commands (`ServesACall`); `ServesLate` is the same of what was left behind.

*Slots.* `SlotsExact` counts the calls under way, and is inductive beside
`TypeOK`: `Acquire` adds one call to them and `Release` takes one away
(`FS_AddElement`, `FS_RemoveElement`); every other step of a call stays on the
same side (`SameCallsInFlight`) and touches no slot.

*After Close.* `ClosedIsFinal` is about calls that begin late; `Finality` adds that
such a call is nowhere between `dial` and `put` (`Turned`), because `get` looks at
the flag under the mutex `Close` sets it under, and that nothing is executed for a
call without a connection, which is `Serve`'s account again.

*The service.* Each action of the pool is an action of `CommandService` or a
stutter. `Serve` and `ServeLate` are its `Execute`, which may be taken only by a call
that has commands left and either has not decided its result or left it in doubt:
`Accounts` says so (`ServeExecutes`, `ServeLateExecutes`). A step to `release` is its
`Decide`: after a reply all was executed, after an error of the server all or, from
`authread`, none (`Decides`). `Release` is its `Return`, or its `Abandon` when
something was left behind (`Returns`, `Abandons`), and `LoseLate` is a stutter. `Acquire` is its `Admit`, within the limit by `SlotsExact`.

*Streams.* `Ending` keeps each reason `Next` may give together with the event it
speaks of: the connection was lost, the flag was set, the context had ended
(`Causes`), and what a `Close` at each of its statements has done so far
(`Closure`). `InOrder` is about the queue of reader and wire, `buf \o wire`: its
events are consecutive, they begin after the last one handed out and, while the
connection is whole, end with the last one sent. Losses are therefore a tail.

*Paging.* `Paging` says of every range under way that what it has ready follows on
what it yielded, and that the cursor of the server's last reply stands right
behind, or is zero and the rest is the end of the collection (`Sound`); and that no
two builders, and no two ranges, have one `searchState`, so that a range that ends
puts back the cursor its own builder's caller had set (`Apart`). The step that needs
most is a range's end, when the builder must be as before although others were
switched from and ranged over meanwhile. `WholeYielded` is read off `Sound`.

*The loop.* `Grounds` ties each way out to its cause: the context had ended, the
server had rejected the fence, an event had not decoded.

*The delay.* `Doubled` is a recursive function of the number of failures.
`FailureDoubles` says what one more failure makes of it under the limit, whether the
limit is passed before, by or after it, and with that `DelayDoubles` is inductive
beside `TypeOK`.

*Induction.* The principle of the library takes an operator for its parameter, which
no prover at hand instantiates. `Inductions` states it with sets: a set that has zero
and with each number the next has every number (`NatSet`), and so for sequences under
`Append` (`SeqSet`). They follow from `LeastOf`, and that from the order of the
naturals being well-founded. What `Doubled` and `Only` compute is proved with them.

*Slices.* `Separation` is about the arrays: no two handles append to one (`Apart`),
each holds the clauses its handle's chain gave, with nothing behind them (`Whole`,
against the history `asked`), a queued slice lies within its array (`Short`), and what
nobody refers to is empty and enough (`Clean`, `Room`). An array may be shared by a
handle and what was queued from it: `append` then writes behind every slice queued,
which is why `PipelineExact` is inductive beside `Separation`. `Switch` keeps `Apart`
because `clone` copies.

*Commands.* `Slotted` says what a handle's slots may hold, given its builder. The
properties of commands are then about how one is put together, in two notions.
`Tells(h, s)`: the part `s` has the filters and metadata of `h`. `Only` goes through
concatenation (`OnlyConcat`), so a part without such keywords changes nothing
(`SilentBefore`, `SilentAfter`). `Goes(s, W)`: the keywords of `s` are among `W`, stand
in the order of their stages, and repeat only where they may; two such parts go
together when no stage of the second is before one of the first (`BothGo`). Each
rendering operator has a lemma that says where it goes, from `OptionsGo` and
`FenceGoes` to `HookStemGoes`, and `Reads` sums up a command: a stem that goes and
tells, and the area. The four theorems are read off it.

*The reader.* `Held` has three parts. Outside a failed call a line is within its limit,
so that the fragment which takes it above, a buffer, adds at most `BufSize`
(`FragmentHolds`). A length is compared with the limit before anything is held for it
(`BulkHolds`), and what is read and what is missing of a bulk string stay, together,
what the prefix said (`PayloadHolds`). The buffer itself never grows.

*Framing.* That the reader is at the start of a reply is true between calls only; in
the middle of an array of arrays it is at the start of a part of a part. `Framing` is
a ledger of that. There is a level for the call and one for each array being filled
(`Placed`): what is still to come on it (`todo`), of which the first is the reply at
work one level down, and what is written behind that reply (`behind`). A level is tied
to the one around it (`Link`): the parts an array still lacks are `todo` of its level,
what it has been given and those make what it means, and it is fine unless one of them
is not. `At(r, b)` says that `r` is the innermost reply at work and `b` all that is
written behind it, and `Reading(r, b)` that what the reader holds and what is on its
way are together what is left of `r`, and `b`. Three lemmas move along it: an array
begins a level (`AtPush`), a part is given and the next is at work (`AtNext`), the
last is given and the level ends (`AtPop`). What a line says is decided by its first
line end, and two texts that agree from there on agree before it (`FirstEnd`,
`SameCut`): that is why a line cut off the buffer is the line of the reply at work,
whatever pieces it came in (`LineTaken`), and why one too long for the limit is of a
reply that is not fine (`FramingReadFails`, `LongLine`). `DispatchIs` has one case for
each kind of reply. A command is the array of its arguments (`DoIs`), whatever buffer
it was written in. What `FlattenSeq` joins, the library defines by a recursive
function; `FlatIs` to `FlatHead` say what it does, by `SeqSet`.

*Decoding.* What a caller is given is, by `Framed`, what the reply at the start of the
stream means; the rest is about operators. `MeansOf`, `ArrIs` and `StrMeans` say what
the constructors of `Reply` mean, whatever they are written with, `PairsFlat` that names
and values laid end to end come apart as the pairs they were, for any sequence of pairs
(by `SeqSet`), and `SetToSeqIs` that the order a server chooses for a set loses and
repeats nothing. From these, `FieldsRead`, then `CoordsRead`, `CornersRead` and
`ItemRead`, which has a case for each format and for each part an item leaves out, and
`PageRead`. Of the single commands there is one lemma each, from `GetRead` to
`HooksRead`; `Right(q)` is what each of them shows, and `AnswerRead` joins them. A
handle's fields are a recursive function of the replies it has had: it exists
(`KeptExists`), and after an object has been read what it was before no longer matters
(`FieldsKept`). `FieldRead` says of an integer that it has a value of its width or is a
miss, which takes that a value of a width is the only one with its low bits
(`LowBitsIs`).

*Endpoints.* `JoinIsLaid` gives the place of every symbol of a joined text: the sum of
the lengths of the parts before it, with a separator for each. `CutIsParts` is the
converse: cutting a text at the places where parts were joined gives the parts, because
the n-th place in order is the n-th join (`Counted`, since `CutAt` finds its places with
CHOOSE and counts those before them). `SplitJoin` and `JoinOf` follow, for parts without
the separator. In SETHOOK's argument the separator does occur in the parts, a broker list
being full of commas; `MarkedEnds` says that the commas a scheme follows are those
between two URLs and no others, when each URL has its scheme before its first comma, and
`ReceivedJoin` that the argument comes apart into them. `BuiltIs` reads one URL back
level by level: the question mark, the path, the options, each pair, each value. What
`Escape` writes has no separator and `Unescape` undoes it (`EscapeIs`); the options are
listed each once, in whatever order (`ListedIs`), and so are those their reader finds
(`ValuesAre`, `QueryIs`). `HookBegins` finds the argument in the command that
`buildFence` puts together. `ConstructorsReach` goes through the constructors, each of
which gives `Build` parts that are an address: options of any number and names make a
query (`ValuesAsk`), brokers with commas between them a host (`HostsJoined`), and a host
that Tile38 wants in two parts has them, if only by NATS's default port (`PartsMake`).

Only model-checked. Liveness: fairness and ENABLED are out of the prover's reach.
That garbage on the stream does no harm but to the connection it came on (the hypothesis
`NoGarbage` of the theorems marked ***), which TLC checks of particular garbage. The
parts of an Event Hubs connection string are read as given when none has a semicolon
(`HubIs`); that none of them has a comma before a scheme is assumed.

## Not modelled

* The arguments the single commands send (`RENAME` against `RENAMENX`, the variants
  of `CONFIG`): literals, one round trip each, no state. What they make of the reply
  is in `Answers`.
* `FieldOf` for floats and booleans, `Fields.UnmarshalJSON`, the payload of an event,
  the digits of a number: `strconv` and `encoding/json`.
* `geometry.go` beyond the number of operands and TEST's reply: constructors of
  argument lists.
* The memory an array header takes, which the reader does not bound: the model's
  numbers are small, and `LineAndBulkBounded` is about lines and bulk strings only.
* The wording of errors: who matches what with `errors.Is` is there
  where a property needs it, in `Pool`, `Stream` and `Reconnect`.

## What is left

`Framed` up to the first garbage of a stream, which needs no assumption; `Reconnect`
over `Stream` itself rather than over `EventLog`.
