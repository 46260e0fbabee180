# DAQs: specifications, model checking and proofs

DAQs records readings of variables (a temperature, a humidity, ...) in a
database server and draws them in a Qt/QML human-machine interface (HMI). The
server is a single-threaded Boost.Asio process over an SQLite file; clients
speak a small Protocol Buffers protocol to it over TCP.

This directory holds TLA+ modules translated from the source, the TLC
configurations that check them on small instances, and theorems that TLAPS
proves for every value of the constants. `PROJECT.json` lists the components,
runs, mutants, the source lines of every definition, the hazards and the
theorems.

- [1. The system](#1-the-system)
- [2. Modules](#2-modules)
- [3. How the models correspond to the code](#3-how-the-models-correspond-to-the-code)
- [4. What the runs check](#4-what-the-runs-check)
- [5. Fairness](#5-fairness)
- [6. What is proved](#6-what-is-proved)
- [7. What the code does that its documents do not say](#7-what-the-code-does-that-its-documents-do-not-say)
- [8. What is not modelled](#8-what-is-not-modelled)
- [9. Plan](#9-plan)

Paths below are relative to `src/src/`; `ds/` stands for
`src/src/database-server/`.

## 1. The system

### Inventory

| component | source | state | operations |
|---|---|---|---|
| compression | `ds/data-access/dataaccess.cc`, `DataAccess::compress` | none across calls; in a call: result vector, loop counter, three iterators | cut a history into at most `max_len` chunks and return the mean of each under the timestamp of its middle element |
| data source | `ds/data-source/sqlitewrapper.cc` (interface `idatasource.h`) | the SQLite file: tables VARIABLE and VARIABLE_VALUE | `create_scheme`, `add_variable`, `add_variable_value`, `fetch_variables`, two `fetch_variable_values`, two `count_variable_values` |
| data access | `ds/data-access/dataaccess.cc` | a handle to the data source | the same insertions; fetches that collect the callbacks into a vector and compress it |
| sessions | `ds/session.cc` | per connection: socket, the message being read or written, the pending asynchronous operation | read meta header, header and body, one handler per request type, write the response, read again |
| server process | `ds/server.cc` | acceptor, data access object | constructor (schema, seed variable "temp"), accept loop, `io_context.run()` |
| protocol | `protocol/messages.proto` | none | frames `MetaHeader, Header, Body`; four requests, three kinds of response |
| data model | `ds/data-model/` | values of a Variable or a VarValue | getters and setters |
| client | `ds/client/client.cc` | a Qt socket | `send_var`, `send_var_val`, `request_vars`, two `request_var_values`; `onReadyRead` parses responses and emits signals |
| HMI models | `hmi/model/`, `hmi/main.cc` | lists of variables and values shown in QML, a single-shot timer | refresh on signals, refresh request after an addition, first request six seconds after the start |
| HMI QML | `hmi/qml/` | widgets, the axes and points of a chart | a dialog that adds a variable, a chart that follows the readings and asks for the period selected on it |
| build, tests, docs | CMake files, `ds/*/test`, `ds/doc/protocol.msc` | none | none; `protocol.msc` is a sample diagram of fictional processes |

### Interactions

- HMI models call the client; the client writes frames to its socket and emits
  a Qt signal per parsed response.
- A session reads the frames of one connection. Its handlers call the data
  access object, which calls the data source, which calls back once per row.
  All sessions share one data access object and one SQLite file.
- Everything in the server runs on the thread of `io_context.run()`: a
  completion handler is atomic, and between two handlers of a session the
  handlers of every other session may run.

### What is hard about it, and what makes each part correct

| component | hard behaviour | properties that make it correct |
|---|---|---|
| compression | unsigned arithmetic; two passes with different chunk sizes over raw iterators | no reading dropped or averaged twice (`Tiled`), exactly `max_len` results (`ResultLength`), even chunks, longer ones first (`Balanced`), time order kept (`KeepsTimeOrder`), the input left only for known lengths (`OverrunExactly`) |
| data source | statements that fail in the middle, names looked up in a subselect, no enforced foreign key, no transaction around the schema, doubles printed as text, the wall clock as timestamp | `IntegrityHolds` (of the server, and a lemma per statement), `FetchDeliversWhatWasAsked`, `CountAgreesWithFetch`, `StoredWithinPrecision`, `AppendOnly`, `SchemaIsCreatedOnce` |
| sessions and server | pipelined frames read in three asynchronous steps, clients that vanish in a frame, sessions that get out of step with their client, failures that are answered, interleaved sessions on shared tables, kill and restart on the same file | `FramingAligned`, `AnsweredInOrder`, `SavedAtMostOnce`, `ReadsSeeAcknowledged`, `OthersAnswered`, `RequestsAnswered`, `KeptWhileConnected`, `ResetSessionSpins`, `ServesOnlyNewFile`, `DiesOnlyOnLongHistory`, refinements of `ReadingLog` and `Service` |
| client | the stream may be cut anywhere; short reads are dropped, one response is read per `readyRead`, a body is awaited for three seconds with the user interface blocked, an empty answer emits nothing | `SignalsFollowResponses`, `LagNeverShrinks`, `WaitEnds`, `EachHandled` |
| HMI models and QML | a list refreshed by a request sent from an answer, answers to overlapping requests, other clients that change what is asked for, a connection that is never replaced | `ListComplete`, `ListOnlyGrows`, `PlaceholdersUntilAddition`, `HistoricOfLastFilledPeriod`, `AxesHoldPoints`, `ClosedForGood`, `AsksComeBack` |

## 2. Modules

| module | models | composed of |
|---|---|---|
| `Chunks` | the arithmetic of `compress`: sizes and amounts of the two kinds of chunk, with `size_t` wrapping modulo `SizeMod` | |
| `Compress` | a call of `DataAccess::compress`, one action per loop iteration and change of pass | `Chunks` |
| `SQLiteTables` | the two tables and one operator per SQL statement | |
| `SQLiteWrapper` | every function of the data source as one action, with what its caller sees | `SQLiteTables` |
| `DataAccess` | what `DataAccess` returns to a session | `SQLiteTables`, `Chunks` |
| `Wire` | requests, responses and frames as token sequences | |
| `DatabaseServer` | the process, its sessions, its clients as environment | `DataAccess`, `Wire` |
| `ReadingLog` | abstract specification: a registry of names and a log of readings that only grow | |
| `Service` | abstract specification: requests of each connection executed in order, each at one moment, on the registry and log | `ReadingLog`, `Wire` |
| `ServiceOfServer` | the refinement mapping from the server to `Service` | `DatabaseServer`, `Service` |
| `Client` | class Client above a socket whose stream arrives in segments of any size | `Wire` |
| `Hmi` | the interface: `main`, `VarsModel`, `VarValuesModel`, the two QML pages and the user | `Client`, `Service` |
| `MCCompress`, `MCSQLiteWrapper`, `MCDatabaseServer`, `MCClient`, `MCHmi` | constants for TLC | |
| `CompressProofs`, `SQLiteTablesProofs`, `SQLiteWrapperProofs`, `DatabaseServerProofs`, `ClientProofs` | theorems | the modules they are named after |
| `AnswersProofs` | theorems: what the clients of `DatabaseServer` are answered | `DatabaseServerProofs` |
| `ServiceProofs` | theorem: the server implements `Service` | `ServiceOfServer`, `AnswersProofs` |
| `HmiProofs` | theorems: what the interface shows | `Hmi`, an instance of `ClientProofs` |

Operators named `X_Suffix` (`ReadHeader_NoAddVar`, `Selected_EitherBound`, ...)
are mutants: the form of `X` that a plausible bug would give. Every property of
every passing run is violated when the definition named in `PROJECT.json` is
replaced by its mutant.

## 3. How the models correspond to the code

**Compress.** `pass` is where the call is: `reserve`, the first pass (`ceil`:
chunks of the quotient rounded up), the second (`floor`: rounded down), `done`.
`begin` is the begin iterator as an offset into `in_vals`; the code's `end` and
`mid` are `begin + chunk size` and `begin + chunk size / 2` and are not kept. A
result is the slice whose mean it holds and its timestamp, so "which readings
went into which result" is in the state and the value of the mean is not.
Reading past the end of `in_vals` is undefined behaviour. Whatever the reads
return, the amount of the second pass has wrapped around to almost 2^64
iterations that each append an element, so no outcome returns: the action
`Overrun` ends the call in state `overrun`. `reserve` is the only error `compress` reports;
`VectorMax` stands for `max_size()`. The double division and `std::ceil` are
exact below 2^53 readings, and there integer division rounded up says the same.

**SQLiteTables.** A row's ID is its index: both tables are AUTOINCREMENT and no
statement deletes. A double is an integer number of 10^-7 units, so that the
`%f` of the INSERT, which keeps six decimals, has something to lose. SQLite's
`%f` prints at most sixteen digits and zeros for the rest, so that of a double
from about 10^10 on it keeps fewer decimals, and in the end fewer digits, than
that: `MaxSignificand` is the first number of millionths with too many digits
(10^16) and `PowersOfTen` the places a last digit may have. `NotFinite` is an infinity or a NaN, whose text is no SQL literal. `Clock` is
the set of readings the wall clock may give, in any order: `system_clock` may
step back. `IoErrors` lets every statement fail at any time. An unknown name
makes the subselect NULL, which the NOT NULL of VARIABLE_ID rejects; the
FOREIGN KEY clause itself is not enforced, because SQLite does so only after a
PRAGMA that the code does not execute, so integrity has to follow from the
order of the insertions.

**SQLiteWrapper.** One action per function; `call` is what the caller saw:
result, and the callbacks in order. A SELECT visits its rows in the order of
their IDs (`InOrder`), and one that fails may have delivered a prefix of them. `create_scheme` executes its statements up to the first
that fails and does not undo those before it.

**DatabaseServer.** `proc` tells how far the constructor got: the acceptor is
the first member, so the port is open (`opened`) before the tables are
created (`half`, `schema`) and the seed variable is added (`serving`). Each
CREATE TABLE is a step of its own because the process may be killed between
them. Per connection,
`conn` is what the kernel knows (`none`, `open`, `fin`, `rst`), `inbox` the
tokens sent and not yet read, `phase` the asynchronous operation the session
waits for, and `work` the request being read or the response being written:

| phase | pending operation | code |
|---|---|---|
| `unborn` | not accepted yet | `server::do_accept` |
| `mh` | read of the meta header | `Session::read_header` |
| `h` | read of the header | `Session::read_header` |
| `body` | read of the body | `Session::read_*_request` |
| `write` | write of the response | `Session::send_msg` |
| `astray` | read of the body of a request that was never sent | `Session::read_body`, out of step |
| `lost` | a read of more bytes than will come | `Session::read_header`, out of step |
| `gone` | none; the session is destroyed | |

An action is a whole completion handler: `read_save_value_request` consumes the
body, executes the INSERT and starts the write of the response. `Disconnect`
cuts the inbox at any token (a part that did not arrive whole is as good as
lost) and is a half close (`fin`) or a reset (`rst`). `Exit` ends the process:
every connection is reset and every session is gone, the tables stay. A kill
may strike at any time (`Crash`); in `DieInCompress` the handler of a
GET_VALUES meets a history that makes `compress` leave its input. A write that fails is answered
with a write of a failure on the same socket (`WriteFailed`), as in
`send_msg`.

Two kinds of message have no request behind them. One of a `RESPONSE_*` type
(`Unknown`) reaches the `default` of `read_body`: it is answered and its body
stays in the stream. A type that is no member of the enumeration
(`Unlisted`) is dropped by the parser of a closed enumeration, `msg_type()` is
then the first member, `REQUEST_ADD_VAR`, and the body is read and executed as
an addition (`AsRead`).

A session that begins to read where its client has not started a message
(`Misplaced`) is out of step. The sizes, the type and the body it reads are
whatever the bytes say, and no result of `ParseFromArray` is looked at: a field
that could not be read has its default. `ReadMisaligned` is the two reads of
`read_header`: they `Swallow` the stream up to any place, inside a part too (what
is left of it is a `Rest`, and holds up to `MaxStray` messages' worth of
bytes), and end in the `default` of `read_body`, or with any
request that `read_body` executes (phase `astray`; a header of no bytes gives an
addition of `NoName` with an empty body), or wait for more bytes than will come
(`lost`). `ReadAstrayBody` reads the body and executes the request as its
handler does, with the INSERT and the answer. `AstrayReadFailed` is the end of
the stream met by one of these reads, and `DieAstray` a size too big for `new`,
whose exception leaves `io_context.run()` and with it `main`, or a fetch that
makes `compress` leave its input.

History variables (`sent`, `replies`, `floor`, `found`, and `given` in
`SQLiteWrapper`) exist for the properties only. The `rows` of an Ok response to
a save name the stored row; the code sends no such number.

**ReadingLog.** The registry is the sequence of names in VARIABLE and the log
the join of the two tables. The refinement mapping is in `DatabaseServer`
(`Log == INSTANCE ReadingLog WITH ...`): a session, a crash or a restart is a
registration, a log entry or a stutter, and no reading ever changes its name.

**Service.** What the server promises a client, without sessions, frames or
tables: `asked` are the requests sent on a connection, `owed` those that can
still be executed, `held` the answer on its way, `replies` the answers
delivered. `Execute` is the one moment at which a request takes effect and its
answer is determined. A connection that breaks may lose what was sent from any
request on, but what is left of it is still executed. `ServiceOfServer` maps
`DatabaseServer` to it: `owed` are the requests whose last part is in the
stream (`Whole`, and the one, of an empty body, whose session already waits for
that body), `held` is the response a session is writing. Reading parts of a frame,
accepting, creating tables, resets that nobody sees and spinning on a reset
connection are stutters; the end of the process, however it comes, is `Stop`.
The mapping presupposes that clients send only requests `read_body` has a case
for (`Requests \subseteq Understood`: after others a session may be out of step,
and what it then does is no promise) and that `reserve` accepts
the server's own limit (`VectorMax >= max_values_ammount`).

**Client.** The responses written so far form one stream, and the state is three
positions in it: `arrived`, up to which the socket has received it, `taken`, up
to which `onReadyRead` has read it, and `ends`, where each response ends. A part
of a frame is some bytes long (`MhSize`, `HSize`, `StatusSize`, `EntrySize` per
entry), which is enough to cut it; a status body's text may vary in length in
the code, and nothing depends on it. `Segment` delivers any number of bytes.
`phase` is what `onReadyRead` is doing:

| phase | where in `onReadyRead` |
|---|---|
| `idle` | not running: the event loop serves the user, the timer and the socket |
| `body` | in the do-while loop of a values or variables body, in `waitForReadyRead` |
| `astray` | in the same loop, for a size that was read where no response begins |
| `terminated` | a size read out of step was too big for `new`; the exception leaves `main` |

`WholeFrame`, `PartOfBody` and `ShortRead` are the three ways a call can go that
begins where a response begins, by how much of it has arrived. `ShortRead` is
every early return for a read that came short: the bytes it got are gone
(`taken` moves to `arrived`). `Misread` is a call that begins elsewhere: sizes
and type are whatever the bytes say, so it may drop any part of the buffer,
emit a signal (recorded as 0), wait for more, or terminate. `readyRead` is
disconnected while the handler runs and no segment is re-announced, so what is
left in the buffer stays until the next `Segment`. `GiveUp` is
`waitForReadyRead` returning false, at any time: a pause of three seconds needs
no clock. `write` drops what is written without a connection, as `QIODevice`
does when it is not open, and keeps what is written while the socket connects.
`cut`, `joined` and `signals` are history.

**Hmi.** The interface is one thread: a step is a segment that arrives with
everything `onReadyRead` and the slots of its signals do (`Receive`), or a
request of the user or the timer while `phase` is `idle`, or a step of the
environment. Its instance `Cl` of `Client` reads the answers that the instance
`Svc` of `Service` has delivered on the connection of the interface, so the
server is present through what `ImplementsService` shows of it; the actions of
`Hmi` are conjunctions of one action of each. `Others` are the server's other
clients. `m_vals` is both the readings of `VarValuesModel` and the points of the
chart, which change together; a reading is its place in the log. `m_vars` is
the list of names, or `Placeholders`, the thousand entries "aa 0" to "aa 999"
the constructor fills it with. `append` on the list property does not append but
sends the variable (`onAccepted`). A selection zooms the chart in before it is
mapped to times, so the period asked for is not determined by what the user saw:
`onSlectedChanged` takes any. A signal made up of misread bytes may change
anything it can reach (`Misled`).

## 4. What the runs check

| run | configuration | question |
|---|---|---|
| `compress` | every length up to 31 in time order and every vector of two timestamps up to 7, limits 1..6, `VectorMax` 5 | what `compress` returns and when it leaves its input |
| `compress_doc` | limit 120 and 14520 readings, the server's real numbers | violation: the promise of `dataaccess.h` |
| `sqlite_wrapper` | two names, four doubles (one negative, one of too many digits, one not finite), two times, three rows per table, failing statements | every sequence of calls |
| `sqlite_relation` | same instance | violation: a sentence of a header |
| `server_shared` | two clients, two requests each to register or record the same variable, leaving at any point | integrity, framing, order of answers, no duplicate; refinement of `Service`: interleaved sessions are linearizable |
| `server_restarts` | two clients, one message each of every kind, those without a case and of no listed type included, failing statements, three boots | crashes, restarts, resets; what a session that is out of step executes leaves the log sound and the other client answered; refinement of `ReadingLog` |
| `server_long_history` | one client, seven requests, limit 2 | when a fetch takes the process with it |
| `server_answers` | two clients, one request each of every known kind, periods with one and two bounds, two clock readings in any order, failing statements, two boots | reads see what was acknowledged to any client; refinement of `Service` across failures, crashes and restarts; liveness: nobody starves |
| `client` | three responses out of a failure, an empty one, one with one and one with two entries; parts of two bytes, segments of any size | what is signalled; how the client falls behind; liveness: waits end, responses are handled |
| `hmi_list` | two names, two additions, the timer, another client that registers; parts of one byte | what the list shows |
| `hmi_chart` | one name, two times, two doubles, two readings of other clients, one request of the user and one of the timer, failures, a connection that may end | what the chart shows; the end of the connection; liveness: requests come back through the composition |
| `server_unknown` | one client, two requests, those without a case among them | violation: the comment in `read_body` |

Why the bounds are enough:

- *compress*: the interesting lengths are those around multiples of the limit
  m, below and above m * m. With m up to 6, lengths up to 31 contain, for m = 1
  to 5, multiples above m * m and, for every m, each remainder and multiples
  below m * m. Limit 6 exceeds `VectorMax`, so `reserve` fails. `KeepsTimeOrder`
  needs vectors with ties and inversions: two timestamps and seven readings.
- *tables*: three rows are two readings of one variable around one of the
  other, so a fetch has to skip a row; two times make ranges of one point, of both and
  of none (start after end). The values -4 and 15 sit on both sides of the rounding of the
  last decimal, and 98765 has more digits than %f prints, which are two in these
  instances (`MaxSignificand` 100, places up to 100): two are cut off it.
- *sessions*: two clients with two pipelined requests each is the
  smallest instance in which one reads a header while the other changes the
  table between that header and its body. Symmetry of connections is used in
  `server_shared` and `server_restarts` only, which check no liveness.
- *restarts*: a crash before, between and after the CREATE TABLE statements
  and a second and third start on what was left: three boots. A fourth would
  find the same file as the third.
- *out of step*: a message whose body is left in the stream, and another client.
  One request read out of that body is executed, whatever it says, with `NoName`,
  which no client registers, or with the names the other client uses, and before,
  between or after the requests of the other client. More of the kind follow when
  `MaxStray`, the bound on the messages read from what is left of one part, is
  above its 0 in `server_restarts`; it is 1 in `server_unknown`, where a session
  also reads on into the next message. The theorems on `DatabaseServer` put no
  bound on it.
- *long history*: with limit 2 the shortest fatal history has six readings,
  which with the request that reads it makes seven requests.
- *service*: the two runs split one question: two sessions that pipeline requests
  that change the tables, and two that send one request of any kind, reads
  included, among failures and kills. That reads may be pipelined too is proved
  (section 6). That a session which pipelines does not stop is
  `KeptWhileConnected`, proved for any number of them.
- *client*: parts of two bytes can be cut in the middle, and three responses are
  one that is read, one that is joined to it, and one that comes later. Whether
  a part has two bytes or ten changes where it may be cut, not what follows.
- *HMI*: with parts of one byte a frame can still be cut between its parts, in a
  body of two entries and across responses; cuts within a part are the subject
  of `client`. Two additions and the refreshes they cause are the smallest
  overlap of refreshes; a selection before and after the timer's request is the
  smallest overlap of readings. `hmi_list` needs no readings and `hmi_chart` no
  second name. Requests fail for no visible reason in `hmi_chart` only; in
  `hmi_list` an addition fails when another client was faster.

Deadlock checking is off where the system may stop: a call of `compress` that
has returned, clients that have sent all of their requests, a process that is
not started again, a closed connection of a client or interface whose user asks
for nothing. In `sqlite_wrapper` it is on.

## 5. Fairness

`Compress` needs none: its properties are invariants. For the server,
`FairSpec` assumes only

- weak fairness of the constructor's steps: a process that was started is
  scheduled until it serves (or exits);
- weak fairness of each session, which stands for `io_context.run()`: a
  handler whose operation completed is run. The queue of the io_context is
  first in, first out, so a session whose operation stays completed is not
  passed over for ever by another, not even by one that spins on a reset
  connection. It includes that a client reads what it is sent, so that a write completes.

Nothing is assumed of clients' sending, of disconnects, of crashes or of
restarts: they may or may not happen. `RequestsAnswered` excludes broken
connections, and with them the end of the process.

`FairSpec` of `Client` is weak fairness of reading: TCP delivers what was written
for as long as the connection lives, and `waitForReadyRead` returns. That it
returns because of its time out and not only with data is what keeps the
interface alive (`WaitEnds`). `EachHandled` claims no more than that a response
is handled when no segment cuts a part and none brings the ends of two
responses: in every other case the code may leave it unread for ever, and TLC
finds such behaviours when one of the exceptions is dropped.

`FairSpec` of `Hmi` adds that `main` runs and the timer fires, that a connection
attempt ends, that TCP delivers both ways, and that the server executes and
answers, which is what `RequestsAnswered` shows of it. Nothing is assumed of the
user, of other clients, or of the connection's life.

## 6. What is proved

TLAPS checks every proof to its leaves. The assumptions are the ASSUMEs of the
modules, which TLC evaluates in every run: sizes and limits are natural
numbers, limits and `SizeMod` are not 0, requests are built from the names,
colors and doubles of the instance, `Absent` and `NotFinite` are not numbers,
and vectors are shorter than `SizeMod`. What some theorems assume beyond that
stands in their statements and below.

**Compression** (`CompressProofs`), for every history, limit
and width of `size_t`:

- `TypeCorrect`, `InputIsTiled`, `OverrunCharacterised`, `ReturnsMaxLen`.
- `ChunksBalanced`, `TimeOrderKept`.

`Tiled` alone is nearly inductive, but `ResultLength` and `OverrunExactly` are
not: they say nothing about the state in the middle of a pass. The invariant
`IInv` adds `Position`: after i chunks of the first pass `begin` is i times
its chunk size, after i chunks of the second it is the end of the first plus i
times the smaller size, and a first pass that has ended shows that the length
does not overrun. The arithmetic comes first: when n is no multiple of
m, or is at most m * m, the two passes have m chunks together and cover n
exactly (`PassesCover`); otherwise the first pass alone asks for more than n
(`PassOverruns`). Hence the iteration that leaves the input exists in exactly
those cases. The other two need to know what each result was made of when it
was made: `Placed` says that the k-th chunk has the size of its pass, that its
timestamp is that of a reading inside of it, and that it ends before the next
begins. Time order is not read off the middle elements but off this: in an
ordered history a reading of an earlier chunk is not later.

**Tables** (`SQLiteTablesProofs`): every statement preserves the types and the
integrity of the tables, the INSERT into VARIABLE_VALUE because its subselect
finds a row or the statement fails.

**Data source** (`SQLiteWrapperProofs`), for every sequence of calls:

- `TypeCorrect`, `FetchIsComplete`, `CountIsExact`, `PrecisionKept`,
  `RowsAreKept`, `SchemaOnce`, all from the invariant `WrapperInv`.

It has two parts. `DataInv` is about the file: the integrity of the tables, and
that what is stored is what was given, to the precision of the text it goes
through (`StoredWithinPrecision`): half of the sixth decimal, or ten parts in
`MaxSignificand` (fifteen digits) of a double too long for that. It follows for any
double from the definition of `%f` alone (`SixDecimals`), with the assumption that
the places of `PowersOfTen` reach as far as the doubles do.
`AnswerInv` is about the last call and what it handed to its callback. The
interesting case is a fetch: its SELECT looks the name up in a subselect, while
the property asks for the readings whose variable has it; these are the same
because references resolve and names are unique (`JoinFindsRows`). That no row is left out or handed over twice
is a matter of cardinality: the rows visited are as many as there are rows
that qualify, in strictly rising order, so they are all of them (`VisitsAll`).

**Server** (`DatabaseServerProofs`), for any number of connections, requests
and restarts:

- `TypeCorrect` and `IntegrityKept`. The inductive invariant joins the type of
  the state with the integrity of the tables and with `SchemaInv`, what a
  process that got so far has found and created. The type has to be there:
  that an INSERT gets a name and a double of the instance follows from the
  request a session works on in phase `body`. `NextIsStatement` then says that
  every step changes the tables by one statement of `SQLiteTables` or not at
  all, and the lemmas on the tables do the rest.
- `OnlyNewFileServed`, from `SchemaInv`.
- `SessionsKept`: a session is gone only when its connection has ended.
- `DiesOnLongHistory`: from the arithmetic of `AboveSquare`, the
  cardinality of a set of IDs, and the fact that the log only grows.
- `SpinsForEver`: the action property `ResetSessionSpins`.
- `Refinement`: `Spec => ImplementsLog`, by mapping each statement to a step of
  `ReadingLog` or a stutter. That old readings keep their name needs
  `ReferencesResolve`: a registration must not touch a name a reading already
  refers to.

They hold for all requests of the protocol, those without a case included:
what a session that is out of step executes is a request of `Understood`, handled as any other
(`AstrayBodyHandles`, `HandlesStatement`), and whatever else happens to it leaves
the tables alone (`AstrayEffects`).

**Answers** (`AnswersProofs`), for any number of clients that pipeline any
requests, disconnect anywhere in a frame, and meet failures and restarts:

- `FramingKept`, `OrderKept`, `SavedOnce`, `AcknowledgedSeen`.

None of the four properties says where in its stream a session is, and that is
what decides them. The invariant `AnswersInv` therefore supplies it: `cur[c]`
is the number of the request the session of c is at, and to each token that is
not yet read belongs the number of the request it is a part of. These numbers
rise by one after each last part, start at the session's own and, while the
client is there, end at the last request sent (`Stream`, `StreamInv`,
`Attended`). A step of another session leaves all this alone (`Untouched`) and
can only add rows, which leaves answers true (`FittingStays`). For `SavedOnce`
it adds an assignment `by` of a request to each row, one to one (`Origin`).

Two hypotheses are in the statements. `Requests \subseteq Understood`: clients
send requests that `read_body` has a case for. After others the
body may stay in the stream and the next read start in it; the run
`server_unknown` shows that it does, and `server_restarts` what is still true then. With the hypothesis no session is ever out of step
(`NeverAstray`). `AcknowledgedSeen` and the refinement
below also have `max_values_ammount <= VectorMax`: else `reserve` throws, and a
fetch is answered Ok with no reading at all. The server's limit is 120.

**The service** (`ServiceProofs`): `ServiceImplemented`, that
`Spec => ImplementsService` under the same two hypotheses. The stream of a
connection holds requests of rising numbers, so what is whole in it is a slice
of `sent` (`WholeOfStream`). `Whole` is a recursive function, and a fact about
it for every stream is shown by the least length at which it fails
(`LeastNat`, from a well-founded order) instead of by induction. Then reading,
cutting and appending tokens become arithmetic on the two ends of the slice.
Each handler that calls the data access object is `Execute`; `WriteDone` is
`Deliver`; `Connect`, `SendRequest` and `Disconnect` are `Open`, `Ask` and
`Break` (a disconnect keeps the requests that arrived whole, which is a prefix);
`Exit` is `Stop`; every other step is a stutter. One more invariant is needed,
`ServedInv`: requests are read on a complete schema only, so that a statement
fails because of what it asks for, and not because a table is missing.

**Client** (`ClientProofs`), for any number and size of responses:

- `TypeCorrect`, `SignalsInOrder`, `LagKept`.

`SignalsFollowResponses` speaks of a client that never lost a part; to keep
it, `IInv` adds that responses lie behind each other and are not empty
(`EndsInv`) and that while a body is awaited `taken` lies behind the parts of
its response that are read at once and before its end (`BodyInv`). `LagKept`
compares those waiting before and after a segment: at most one is read, and one
that has just arrived takes its place (`OneOutOneIn`).

**Interface** (`HmiProofs`), for any number of variables, readings, requests and
responses, with other clients that change what is asked for and segments of any
size:

- `TypeCorrect`, `ListIsCompleteWhenQuiet`, `PlaceholdersAtFirst`,
  `ChartOfLastFilledPeriod`, `ChartWithinAxes`, `ListGrows`, `ClosedStaysClosed`:
  every safety property the runs `hmi_list` and `hmi_chart` check.

All follow from one invariant `IInv`, because none of them says how what is shown
came about. It joins what holds below the models with what holds of them:

- `CP!IInv`, the invariant of `ClientProofs`, whose instance `CP` has the
  answers delivered to the interface for its responses. It gives that the
  signals the models get are those answers, in order, until a segment cuts a part.
- `ServiceInv`, what the answers on their way are worth. `LinkInv`: an open
  connection owes one answer to each request that has none, and the k-th answer
  belongs to the k-th request. `FitsInv`: each answer still fits its request,
  although the registry and the log have grown since; it says so of the rows it
  names, not that they are all there now. `OrderInv`: a list has every variable of
  the lists and the additions answered before it. This is why an older list never
  replaces a newer one and why one refresh after the last addition suffices.
- `WindowInv`, until a segment cuts a part: the list shown is that of the last
  list told (`ListInv`), the chart and its axes are those of the last readings
  told (`ChartInv`, `AxesInv`), a zoomed chart has a selection to be answered
  (`ZoomInv`), an addition told has a refresh issued after it (`RefreshInv`),
  and there is no refresh without an addition (`CauseInv`).

Most steps tell the models nothing: they leave the signals, the list and the
readings alone, and one lemma (`NothingTold`) keeps `WindowInv` across all of
them, the requests of the user and the timer included, which issue something and
may zoom the chart in. What a segment tells is taken apart by `ReadTells`: as
long as no part is cut, it is at most one answer, later than those told before, and `SomethingTold` shows what that
answer's slots do to the windows. The service's part is kept action by action;
the interesting one is `Execute` (`ExecuteService`), where `FitsInv` and
`OrderInv` are made true for the new answer. The two action properties follow
step by step (`ListStep`, `ClosedStep`). That a list names each
variable once rests on the names of the registry being distinct.

`HmiAssumption` says what these theorems assume of the constants: the requests
and answers of the interface are among those the client can frame, there are
finitely many names, the readings of the instance are integers and its times natural
numbers, and what stands for placeholders, made-up data and a zoomed axis is
no list of names, set of readings or pair of numbers. Values are compared and
never rounded here, so that integers stand for any doubles in the same order.

**Only model-checked**: liveness (`RequestsAnswered`, `WaitEnds`,
`EachHandled`, `AsksComeBack`), which rests on fairness and ENABLED and is out
of the provers' reach, and `OthersAnswered`, where `AnswersProofs` assumes
that every client sends requests with a case. Every other invariant and action property of a
passing run, and both refinements, are proved.

## 7. What the code does that its documents do not say

Three runs show a sentence of the repository violated (`PROJECT.json`,
"findings", quotes each):

1. `compress` does not always return `max_len` readings: for a multiple of
   `max_len` above its square (14520 readings with the server's 120) the amount
   of the second pass wraps around and the process does not survive the call.
2. A reading handed to the callback of `fetch_variable_values` has no variable.
3. After a request of unknown type the connection is kept and read out of step,
   where the comment asks for a restart of the connection. What is read that way
   is executed: such a session may insert a variable of the name "" and answer Ok.

One more needs no run, because the definition of `fetch_variables` says it:
every variable is handed to the callback with the index 0, where
`ds/data-source/idatasource.h` calls it the current value index.

Another follows from the protocol's enumeration being closed: a message of a type
that is none of it registers a variable (`AsRead`).

Several passing properties describe behaviour a maintainer may want to change:
no server restarts on a file it has created tables in (`ServesOnlyNewFile`),
a reset connection keeps its session writing for ever (`ResetSessionSpins`),
and a reading whose acknowledgement is lost is stored all the same, so that a
client that retries stores it again (`SavedAtMostOnce` counts rows per request
sent, not per intent). On the other side, a client whose buffer holds two whole
answers stays one answer behind (`LagNeverShrinks`); the interface shows a
thousand placeholders until its user adds a variable, whatever the server has
(`PlaceholdersUntilAddition`); a period without readings leaves the old readings
in a zoomed chart (`HistoricOfLastFilledPeriod`); and a connection that ended or
was refused is never replaced, the timer's request included (`ClosedForGood`).

## 8. What is not modelled

- The byte encoding of Protocol Buffers. A part of a frame is one token; that a
  meta header has a fixed size, and that a body of no field has no bytes, is
  kept.
- The arithmetic of an iterator moved past the end without being read (the last
  iteration of a pass): formally undefined, without effect in the builds of
  this code.
- The value of a mean, colors, messages of errors, logging.
- What the bytes say that a session reads out of step: sizes, type and body are
  arbitrary, within the names, colors and doubles of the instance.
- What bytes read out of step by the client mean, beyond "anything".
- The getters of the QML list properties, `VarModel` and `VarValueModel`, which
  hold a row each, and how long QML keeps a pointer that `var_at` or `val_at`
  has handed out.
- The history that is reduced by `compress` as the chart sees it: `Hmi` takes
  answers below the limit, where the readings of an answer are those stored.
- Layout and widgets in QML, build files, tests and the sample diagram.
- A second process on the same port or file.

## 9. Plan

Done: A `Chunks`, `Compress`; B `SQLiteTables`, `SQLiteWrapper`; C `Wire`,
`DataAccess`, `ReadingLog`, `DatabaseServer`; D `Service`, `ServiceOfServer`;
E `Client`, `Hmi`; F the theorems of section 6.

No property of a passing run is left to prove but liveness, which stays with
TLC, and `OthersAnswered`. When the code changes, the order to follow is that of the modules: the
definition at the lines `PROJECT.json` names, its run, then the lemma that is named
after the action in the module of its theorems.
