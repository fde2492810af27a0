# A verification project for Webserver_42

`webserv` is an HTTP/1.1 server in C++98, one process and one thread around a
kernel event queue (`kqueue`). This directory holds TLA+ modules that model it,
configurations that let TLC check them on small instances, and theorems about
them that TLAPS proves for every value of the constants. `PROJECT.json` lists
the components, the runs, the mutants that show each property can fail, the
lines of code behind every definition, the hazards and the findings.

    tlc -workers 2 -config MCOverlap.cfg MCOverlap   # any row of the table of runs
    tlapm WebservProofs.tla                          # about five minutes

## 1. Inventory

### The parts of the system

| part | state it keeps | operations |
|------|----------------|------------|
| Event loop (`Router::listen`, `Router::dispatch`) | `_connections`, the event queue | take one event, call `dispatch` of the object in its `udata`; accept one connection per event of a listening socket |
| Connection object (`HTTP`, `HTTP_events.cpp`) | descriptor, parser state, request, response, two buffers; a READ and a TIMER knote, at times a WRITE knote | `register_*`, `deregister_*`, `dispatch`, `delete this` |
| Receiving and replying (`HTTP_request.cpp`, `HTTP_response.cpp`) | the same object | `recv_request`, `compute_response`, `compose_response`, `send_response` |
| Parser (`HTTP_parse.cpp`) | `_buffer_recv`, `_state`, headers, the two bodies | `parse`, `parse_body`, `handle_chunk` |
| CGI (`CGI.cpp`) | pid, pipe, a reference to its `HTTP` object; a PROC and a TIMER knote | `execute`, `dispatch` |
| Virtual hosts (`Router::getServer`, `Server`) | `_servers` | choose a server; copy it (`operator=`) |
| Routes (`Server::getRoute`, `translate_target`, `check_index`) | `_routes`, the request's target and file | two copies of the look-up, translation to a file |
| Configuration (`Router::load`, `parse`, `Location`) | stack of contexts, open location, `_servers` | one setter per directive, `check`, `compare_servers`, opening the sockets |
| Methods (`HTTP_methods.cpp`) | the file system | GET, HEAD, POST, PUT, DELETE |
| File helpers (`file.cpp`) | none | `load_file`, `autoindex`, `generate_html`; fail or throw by what the file system holds |
| String helpers (`string.cpp`) | none | `normalize`, `strtolower`, `how_many_words`, `get_word`, `urldecode`, ... |
| Entry (`main.cpp`), log (`log.cpp`) | none | `load`, then `listen`, whatever `load` returned; messages |

### How they interact

* The loop knows an object only by the pointer in a knote. Who deletes an object
  must therefore take its knotes out of the queue; the kernel does that for the
  READ and WRITE knotes of a closed descriptor, but not for TIMER knotes.
* An `HTTP` object starts a `CGI` object and forgets it. The `CGI` object holds
  a reference to the `HTTP` object and replies through it when the process ends
  or runs out of time. Neither tells the other when it goes (`CGI::kill` has no
  caller).
* All `HTTP` objects share one reference, `_server`, which is `_servers[0]`:
  routing a request writes to it.
* `parse()` decides, segment by segment, when a request is complete;
  `recv_request()` then routes it and computes the response at once.

### What is hard here

The code has no threads, so its hazards are orders of events: a reply, a
timeout, the end of a process and the end of a client may come in any order,
and objects may be gone when they do. A second source is state shared by
accident (`_servers[0]`), a third the cutting of a stream into segments, a
fourth the two copies of the look-up of routes and the changing target between
its uses, a fifth what is thrown and caught nowhere, which ends the server for all
clients. `PROJECT.json`, "hazards", lists them line by line, each with the
properties that watch it or the reason why none does. Per component, it is
correct if:

* event loop and connections: no knote leads to a deleted object, a served
  connection keeps its READ and TIMER knotes whoever had its descriptor before,
  every connection is accepted;
* receiving and replying: a request is answered or its connection closed,
  within the timeout, also if the client drips or the process never ends; the
  method is known whenever a reply is computed;
* parser: how the stream was cut makes no difference;
* virtual hosts: a request is answered by the server its host names;
* routes: the most specific location is found, and one request is judged by one
  location;
* methods: a reply says what was done, and nothing else was done;
* replies: a client that waits gets one reply for each request, in order, with
  parts of that request alone, and as long as it tells;
* descriptors: whatever is taken is accounted for, and reading what a process wrote
  comes to an end;
* configuration: no word of the file is lost, a setter reaches the server and
  location whose braces are open and means the number or path that was written; a
  program that listens has what its file says.

Several of these do not hold of the code. Where a comment or a header of the
repository says they do, there is a finding (section 6); elsewhere the property
states exactly how far they hold.

## 2. The modules

    EventQueue <- Connection <- CgiProcess <- Webserv <- WebservProofs
                     |                           |            |
                  Request                  WebservCycle <- WebservCycleProofs
                     |                           |
                HttpParser                  RequestCycle
    HttpParser <- HttpParserProofs    Replies <- RepliesProofs
    MessageHead, ChunkLoop, CgiOutput <- MessageProofs
    Descriptors <- WebservCycleProofs
    Vhosts, Routing, Methods <- TargetProofs
    Config, ConfigText, Directives <- ConfigProofs
    StdString <- Text <- MessageHead, CgiOutput, ConfigText, Directives, StringProofs
    StdString <- HttpParser, ChunkLoop
    StringProofs <- HttpParserProofs, MessageProofs, TargetProofs, ConfigProofs

`A <- B`: B extends A. `Connection` and `HttpParser` both instantiate `Request`;
`WebservCycle` instantiates `RequestCycle` under a refinement mapping.

### Events, connections, processes

**EventQueue** is the queue behind `IEvent::kq`: one operator per
`EV_SET`/`kevent` pair (`EvRead`, `EvWrite`, `EvTimer`, `EvTimerDelete`,
`Close`). A knote is named by filter and ident and carries its owner. Time is a
number of seconds left per timer.

**Request** says what one call of `parse()` can make of the parser state, the
method and the connection header, and `ParseLoop`, the loop of
`recv_request()`.

**Connection** has the `HTTP` objects. An object's contents are a record (life,
descriptor, parser state, method, connection header). `SendResponse` is
`compose_response()` down to the end of `send_response()`, with its deletions;
`HttpEof`, `HttpWrite` and `HttpTimer` are branches of `HTTP::dispatch`.

**CgiProcess** has the `CGI` objects: `Execute` (with the child that is gone
before it is registered), `CgiProc`, `CgiTimer`.

**Webserv** composes them: `Accept`, `RecvRequest` (whole, from `recv` to the
reply or the fork), and the environment: clients that connect, send anything and
close; processes that end or do not; the clock. A history, `lost`, has what became of
processes that worked on a request: gone before they were registered, or their output
not read. Using freed memory is the
outcome `loop = "aborted"`, since the Makefile builds with AddressSanitizer, and
a `send` to a client that has gone may kill the server (`"killed"`). An output is
taken to be one that can be parsed, and no exception is thrown; where one is, is
the matter of MessageHead, Methods and CgiOutput.

**RequestCycle** is the abstract specification: what a client may count on,
whatever events, timers and processes the server uses. A connection has a
descriptor of its own until it is closed for good; requests are received,
completed and answered, one connection per step. **WebservCycle** maps Webserv to
it: the stage of a connection is what its parser waits for, the holder of a
descriptor the owner of its READ knote.

**Descriptors** (the CGI objects are called scripts there) counts what `accept`, `open`, `pipe` and `fork` take and what is
given back: the sockets, the file that `execute()` opens, the two ends of the
pipe, the processes nobody waits for, and the copies that each process inherits.

**Replies** follows one connection through several requests, whose bodies have a length
or come in chunks, in one segment or in two, and says of every part of every reply which
request it belongs to and which process wrote it. It has the contents (`_response`,
`_buffer_send`, and whether something is left in `_buffer_recv`) that Webserv leaves
out. A history, `upset`, has the events that set requests and replies out of step.

### What becomes of a request

**HttpParser** is the parser in detail. The stream is a sequence of tokens (a
start line, a field line, a chunk's size, a byte, an end of line) that may be cut
between any two of them; a second request may follow without waiting. A complete request
is answered at once or left to a process, and while that works, more segments let the same
request be computed once more. A step is a call of `parse()`, a turn of the loop in
`handle_chunk()`, or an event of a process. It implements `Request`: property
`StepsAreParses`.

**MessageHead** is `parse_start_line()` and `parse_field_line()` on characters:
method, target (slashes, query, decoding), version, names and values of fields,
and the exception of `std::stoi`. **ChunkLoop** is `handle_chunk()` on bytes, with
the sizes that `strtol` reads (blanks, a sign, `0x`, and the largest or the smallest
`long` for what fits none) put in a `size_t`.

**Vhosts** has the configurations that the slots of `_servers` hold, the requests
that choose among them and the processes that reply later.

**Routing** takes one request from its complete target to its method through the
five look-ups of its location. Between the first one and the others the assignment of
`HTTP_request.cpp:58` may replace the routes by those of another server; two histories,
`before` and `replaced`, have the routes there were and whether they were replaced. Keys
are directories, extensions or the default; the order of the map is an operator, `Before`.

**Methods** takes a request from `translate_target()` to its reply: `check_index`,
`compute_response`, the five methods, `load_file`, `autoindex` and what
`compose_response` adds. The file system is a function on the seven paths that
matter to one target, and others write to it between the steps of the server: between
`stat()` and what is done with its result, and in a PUT also between its second `stat()`
and the open. What a PUT writes, nobody checks: the file has all of it, a part or nothing.

**CgiOutput** is `CGI::dispatch()` on the text a process wrote, a line per step:
`parse_headers`, `check_headers`, the status, and the exceptions of `substr` and
`stoi`.

### The configuration

**ConfigText** goes from the characters of a file to directives: `load()` with
`normalize()`, the tokeniser of `parse()`, and what `main()` makes of the result.
**Config** takes the directives one per step, keeps the stack of contexts and the
open location the way `Router::parse` does, and ends rejected, undefined (the top of
an empty stack), or listening. **Directives** has the arguments: numbers, units,
paths, lists, pages, addresses. **Text** has the helpers of `string.cpp` they all
use; a character is a string, a text a sequence of them. **StdString** is what is
used of `std::string`, of texts and of the tokens of HttpParser alike.

### Modules for model checking

Runs that ask questions of one kind share a module: `MCOverlap` (Webserv, Replies),
`MCReuse` (WebservCycle, Descriptors), `MCParser` (HttpParser, MessageHead,
ChunkLoop), `MCConfig` (Config, ConfigText, Directives), `MCRequest` (Vhosts,
Routing, Methods, CgiOutput). `MCCycle` is WebservCycle with a symmetry. Each extends
the parts there are proofs about, so that a configuration checks the very
definitions the theorems name, and instantiates the others; the variable `part` is
chosen at the beginning from the constant `Parts`, that part takes all steps, and the
others stay in one state. The parts do not interact in these modules: each reaches exactly the
states it has alone, and a configuration may leave parts out.

A property there that names several of its parts' properties is their
conjunction; the comment says of what. In the modules, the operators marked
"Mutation" are plausible mistakes in the code. Forty of them, one for each property
of a passing run, are listed in `PROJECT.json`; the others were tried the same way
on the conjuncts that the forty leave out, and each violates its property.

## 3. What the runs check

| run | configuration | question |
|-----|---------------|----------|
| overlap | 2 connections, 2 processes, 2 descriptors, timeouts 2 and 1; Replies: 2 requests of 4 kinds in one segment or two, 2 processes | is the parser state sound, when is a complete request left without anything that will answer it, do deadlines only come closer, whose request does each reply belong to, and which request gets none? |
| reuse | 3 connections on 2 descriptors, 1 process; Descriptors: 3 connections, 3 CGI objects, 7 descriptors, 2 processes | which knotes outlive an object, what can use freed memory, is every step one of RequestCycle; what stays open, and does reading a pipe end? |
| live | 2 connections on 1 descriptor, 2 processes, with fairness | which requests end whatever their client does, and which only if it stops sending? |
| accept | as live | expected violation: a connection is left in the backlog |
| parser | 14 requests, one of every framing, up to 3 bytes of content, 5 with another behind, in up to 4 segments, with processes and without; targets of up to 5 units, request lines of up to 5 tokens, pairs of field lines; bodies of up to 4 bytes or 4 pieces | which heads and bodies survive as they were sent, which requests are answered and how, when do the loop or the server end? |
| version | the heads of parser | expected violation: a version that is not supported is accepted |
| config | files of up to 11 directives, 2 locations, 2 names, 2 addresses; files of up to 3 directives in every layout of 3 separators, all files of up to 4 characters; up to 3 directives with arguments of every kind | do setters reach their target, is every word read once, and is the result what the file says? |
| duplicates | files of up to 7 directives | expected violation: a directive given twice is accepted |
| request | 3 servers, 2 addresses, 3 hosts, 2 connections; targets of up to 3 names, all choices of 4 directories and an extension before the request is routed and after; 17 requests, 7 locations, 40 file systems; outputs of one line of up to 4 characters or of up to 4 lines of 9 kinds | what does the copy over `_servers[0]` spare; is the first match the most specific, and which look-ups agree; does the reply say what was done; is an output answered as it was written? |
| corresponding | the servers of request | expected violation: the wrong server answers |
| location | the targets of request | expected violation: `/a` is not routed to location `/a` |
| deleted | the file systems of request | expected violation: "File deleted." is said of a file that stays |

### What they show

* **TypeOK, PartsTypeOK** also bound what a state can be: between two events a
  parser state is one of the four of `HTTP.hpp`; a size is never negative.
* **MethodKnown, CompleteHasWorker, CgiDeadlineFirst, DeadlineKept** (overlap). A comment in
  `HTTP_response.cpp` says the method cannot be NULL. It holds although stray
  WRITE events and replies of earlier processes clear half-received requests: they
  reset the state with the method. A complete request has a process whose two knotes
  are in the queue, in all but two cases: the output of a process could not be read, and
  the WRITE event that follows finds nothing to send and clears the request; or a
  process was gone before `EVFILT_PROC` was added, which `execute()` does not notice. A
  watched process always runs out of time before its connection does. A segment
  that completes nothing does not postpone the deadline.
* **InStep, MixedCause, RepliesFramed** (overlap). A client that waits for each reply
  gets them in order, each of its request alone, processes that run out of time included,
  if its chunks come in one segment, every output can be read and no WRITE event clears
  a request. It may not like them: a body with a length that comes in two segments is
  appended twice and rejected with 400, from the most patient client, and behind a
  process that was gone too early it waits. Chunks that come in two segments are taken to
  end with the first one: that is answered, and so is the rest, as another request. Parts of two
  requests meet in one reply only for that, or if the client
  sent something while its request was complete, which starts a second process, or
  if the WRITE event after a 504 or a failed read meets its next request. When nothing is
  under way any more, a request has no reply only because of an output that could not be
  read, a process gone too early, or the end of a cleared request, which waits in the
  buffer for a line feed. No part is sent twice.
* **Registered, Leftovers, AbortHasCause** (reuse). The TIMER knote that a closing
  reply leaves is harmless if the descriptor is accepted again in time, and
  fatal otherwise. Freed memory is used only after one of three
  things has happened: a closing reply has left that knote, or processes that still hold a
  reference to its connection (`CGI.cpp:141` registers a WRITE event on a connection that
  its own 504 may have deleted); a process that timed out has left its PROC knote; or the
  client of a process at work has left. Where each of them leads there is not told apart.
* **CycleImplemented** (reuse). Every step of Webserv, for whatever object its event
  was meant, is a step of RequestCycle of one connection, or none: a knote or
  reference that is left over never moves a connection it does not belong to.
* **HoldersKnown, OutputEnds** (reuse). The parent keeps the file of every process, the
  pipe of one that ran out of time, could not be read or could not be forked, and
  nothing else; a connection that was
  closed looks open to its client as long as a process forked meanwhile runs. The
  `read()` that blocks until the last writer is gone returns, since the write end is
  closed in the parent before it can fork again.
* **CycleProgresses** (live). A request that is received in part is completed or given
  up, however its client drips; a request that a watched process works on, or that a WRITE
  event will clear, is answered or given up, whatever its client sends. Not so one whose
  process was gone before it was registered: bytes that come while a request is complete
  start the 30 seconds again and another process for the same request, which may be gone
  as well, so that a client that goes on sending holds its connection. The property claims
  the end of such a request only under the premise `<>[][~Postponed(h)]_vars`, that
  from some time on no segment moves its deadline.
* **WholeBodyIntact, HungCause, AnsweredApart, StepsAreParses, LoopsEnd** (parser). A
  body that came in one piece is taken as sent, and stays so while processes work for the
  request; the loop hangs only for a coding
  that is not chunked or a cut between a chunk's size and its line end; otherwise
  everything that has arrived in full is decided, however it was cut (possibly
  wrongly: the first property claims nothing of a body cut in the middle), or left to a
  process. A request sent without waiting is answered as what it is only if the one before
  it was answered when all of that one had arrived and nothing of this: if it shares a
  segment with the end of the other, or comes while a process works for that, it is lost,
  misread, or has only let the other be computed once more. If each request comes in a
  segment of its own, and none before the other was answered, none is answered twice.
* **HeadAsSent, HeadRejected** (parser). A target is decoded once and cut at its
  query; a field is found under its name, unless an earlier line had the same. 501
  is said exactly of an unknown method, and every other line that is rejected has a
  status of HTTP, except that a target that does not begin with `/` leaves status 1;
  an escape in the path without a digit after `%` throws.
* **ChunksAsSent** (parser). Chunks that frame data give that data; of any body
  no byte becomes data twice, unless a size is negative: -1 and -2 are large sizes
  to which adding 2 wraps, so that everything becomes data and most of it stays.
* **OthersKeepTheirs, NamedServerAnswers, DefaultGoneForGood** (request). Named
  servers keep their configuration and their requests; the default server's is
  lost with the first request routed elsewhere.
* **MostSpecific, OneRoute** (request). The order of the map gives the longest
  location, and the root looked up by key is the root of the target's location. The limit
  of the body is that of the longest location the default server had before the request
  was routed, which is another server's if the request's server was then copied over it
  (`HTTP_request.cpp:49`, 58). File, index and method are of one location of the server
  the request is for, unless its target was made that of a directory by `check_index()`.
* **HeadTellsGet, RepliesAsDone** (request). HEAD has the status of GET, unless the file
  cannot be read or was changed between the two looks. What is refused changes
  nothing. What PUT does not refuse is stored where it should be and nowhere else, whole or
  in part: the write is not checked, so 200 and 201 do not tell, and a 204 may even stand
  for a file that could not be opened. 201 says that `stat()` found no file; one that
  another process made before the open is lost. Nothing follows a
  204 or the header for a HEAD, unless the request came in chunks.
* **OutputAsWritten** (request). A line with nothing after its colon ends the server
  by an exception, as does one line of blanks without its LF; nothing else does. The headers were put in lower case, so `Status`
  is never found and a process that succeeds is answered with no status set, while an
  empty output is answered 422 instead of 204. The headers are those of the lines
  before the first empty one, in small letters, and the body is what follows it.
* **TerminationCause** (request). The exceptions that nothing catches: listing a
  directory that has entries for a client that sent no host, a form with an escape
  that `stoi` does not take.
* **SettersHaveTarget, ListeningReachesAll, FlagsAsWritten** (config). The two
  variables beside the stack follow every brace. Once the server listens each
  server has its socket. Flags are those written, unless `autoindex off` or a
  directive given twice flips them.
* **TextAsWritten, ArgumentsAsWritten** (config). The layout of a file, its
  comments included, makes no difference: what is neither blank nor in a comment is
  in one directive, in order, and a file made of directives is read as these. A program that ends with success has seen no directive
  at all, for instance because its file cannot be read. A limit is the number written
  if an int holds it; the code of a page is what an int holds of it; a redirection
  written without a target leads to its own code; roots and upload directories can be
  joined with a target; what is given again is added.

### Bounds, and why they are enough

Every bound is a constant or a guard: `Connect` waits for an `HTTP` object that
is left, `Execute` for a `CGI` object unless its process is
gone at once, `MaxDirectives` ends a file, `Depth` a
target; `Streams`, `Heads`, `Bodies`, `Requests`, `Outputs`, `Files` and `Args` list
inputs; `MaxSegments` ends a stream;
`MaxRequests` and `MaxReplies` end a client's patience; `Limit` and
`MaxProcs` are the system's. Two connections and two processes give
every pair of actors that can meet over one knote or one reference (two
processes of one connection; a process of a dead connection and a live one); three
connections on two descriptors give a descriptor its second owner while another is
in use. Two requests in two segments each let the reply of the first one's process, and
the WRITE event after it, meet the second before, within and behind it. In the run live two
connections on one descriptor have the second wait for the first one's end, and two
processes let one be forked while another works; processes that are gone at once are not
counted, so a client may go on sending for ever. Seven descriptors leave every call of
`execute()` without one in some order. Timeouts 2 and 1 are the least that keep the
order of 30 and 8 seconds and leave a tick between accepting and expiring; the
proofs need only their order. Eleven directives reach two servers of which one has a
location with both flags, and one server with two locations. Three servers are
needed for two to share an address with the default one not the only one that can
be found. Others change the file system once between any two steps the server
takes for a request. `Part` stands for whatever is left of a body not written whole. A `long` that ends at 15, with a `size_t` of 5 bits, and an `int` of 11 wrap at sizes that a few
digits reach, as 64 and 32 bits do at longer ones; `Kilo = 4` stands for 1024 so that
the products stay small. The configurations with symmetry check safety properties
and CycleImplemented, whose mapping is symmetric.

`CHECK_DEADLOCK FALSE` is set where the modelled system really stops: an aborted,
killed or hung server, a file that was read, a request that was answered. In
`MCCorresponding.cfg` the check is on.

### Fairness

`FairSpec` of Webserv gives weak fairness to the clock and to each kind of event
that `kevent` reports, for `Router::listen` takes an event, handles it and comes
back, and a level-triggered or one-shot event stays in the queue until taken.
Nothing is assumed of clients (who may stop at any byte, or never close) or of
processes (which need not end: `tests/while.c`). `Tick` waits for expired timers to
be handled, i.e. the loop is taken to be faster than one second. `FairSpec` of
HttpParser and of ChunkLoop says only that a `while` loop goes on. The progress of
RequestCycle is stated as a leads-to property, which is what it promises, instead of
fairness of its actions.

## 4. What is proved

`WebservProofs` (any numbers of connections, processes and descriptors, any two
timeouts with `CGI_TIMEOUT < REQ_TIMEOUT`, which is `TimeoutAssumption`, and
distinct identifiers, `IdentAssumption`):

| theorem | property |
|---------|----------|
| TypeCorrect, RegisteredAlways, LeftoversBounded, MethodKnownAlways, DeadlinesOrdered, WorkerAlways, AbortsExplained | the invariants of the runs overlap and reuse |
| DeadlineNeverMoves | DeadlineKept |

None of the invariants is inductive alone: that a process' timer is ahead of its
connection's (`CgiDeadlineFirst`) needs that a TIMER knote at a pid belongs to a
live CGI object with at most `CGI_TIMEOUT` left; that only three causes lead to
freed memory needs to know who can own each knote. The inductive invariant `IInv`
adds these facts: `Sockets` (READ and WRITE knotes name the live owner of the
descriptor), `FdTimers` (its TIMER knote is its owner's or one a reply left),
`CgiKnotes` and `CgiHttp` (a process' two knotes come and go together, and its
reference was never ended by a 408 while watched), `AcceptPending`. There is
one lemma per action (`AcceptOK`, `RecvRequestOK`, ...), over lemmas that give the
fields of the queue after each operator. `Leftovers` follows from `IInv`.

`WebservCycleProofs`: `ImplementsCycle`, Spec => CycleImplemented, under the same
assumptions. The initial states map to initial states, and under `IInv` every action
maps to a step of RequestCycle or a stutter, one lemma per action. `IInv` is needed
for the descriptors: a step closes the connection whose READ knote it removes only
because `Sockets` says whose it is.

The same module, of Descriptors (any connections, CGI objects and limits):
HoldersAlwaysKnown and OutputAlwaysEnds. That the `read()` ends needs to know what every other process has
inherited: `OwnWriteEnd`, the write end of a pipe is held by its own process only,
unless its `fork()` failed, which follows from what the server has open when it forks
(`Accounted`).

`ConfigProofs` (any addresses, names, locations and sets of methods, files of any
length, with `ConfigAssumption` and `LimitAssumption`): SettersAlwaysHaveTarget,
FlagsAlwaysAsWritten and ListeningAlwaysReachesAll. The invariant adds `Shapes` (the
history has the routes of each server) and `Nested` (an open location is a route of the last server, and is open
exactly three braces deep). That `limit_except` flips the right flags needs to know
that it finds those of a new route, with or without AUTOINDEX, which is the
invariant again. That a listening program has what its file says is inductive over the loop of `compare_servers()` (`NoneRepeats`)
and that of the sockets (`Reached`).

The same module, of Directives (any arguments of any length, any number of them, any file
system and resolver): ArgumentsAlwaysAsWritten and ArgumentsTypeCorrect.
`ArgsAssumption` says that an argument is a text whose blanks are single and between words,
which is how ConfigText leaves it; `WidthAssumption` that a `long` has the values of an
`int` several times over, and a `size_t` those of an `int` in any unit;
`UnsetAssumption` that no redirection is one. The invariant, `ArgsIInv`, has the types of
location and server, and for each field what it has of the arguments taken so far
(`LocFits`, `SrvFits`); TLC has checked it on the arguments of the run config. It is
inductive as it stands, for a setter changes one field and one history
(`SetLocKeeps`, `SetSrvKeeps`, `OthersFit`); the work is in what the setters compute.
`AtoiIs` and `LimitIs` say when a number survives `atoi()` and the product with its unit, and
when they make 0 of it: a number that `strtol` cuts off becomes -1, whose limit is a large
one and not none. `WordsOfIs` counts words by blanks and finds the first one,
`HowManyAre` that `how_many_words()` counts the same in such an argument, `PartedAt` puts a
redirection together again, `OffIs` says what is left of a path, and `PageAppended` that
one page more leaves the others to their status.

`TargetProofs`, of Vhosts (any number of servers, names, addresses and connections, with
`ServerAssumption`, `ConfigAssumption` and `NoRepeatedName`): VhostsTypeCorrect,
OthersAlwaysKeep, NamedServerAlways and DefaultLostForGood. The invariant is the
conjunction of the first three; the key lemma is that `getServer` on the
overwritten slots still finds a server other than the default one by its own
name, for the only copy is in front of it and equals it. `NoRepeatedName` is what
`compare_servers()` means to check; it compares neighbours only, so the
theorem is about files where that suffices.

Of Routing (any names, extensions, index files and routes, targets of
any depth; `RouteAssumption` says what the constants are): AlwaysMostSpecific and
OneRouteAlways. Nearly all of it is about the look-up, no step of which is in the state: of
directories that begin one target the longer one begins with the shorter one
(`PrefixesOrdered`), so a first match exists, is unique and is the longest
(`LongestPrefix`, `LookUpIs`), and a key looked up as a target leads back to itself
(`KeyLeadsBack`), for which the default route must be among the keys. The invariant, `RouteInv`,
says which routes and what target each look-up saw: the limit was looked up in the routes
before, and these are the same unless another server's took their place. Of Methods (any
contents, requests, locations, file
systems and writes of others; `MethodAssumption`: a form with an escape is not empty, and
a file's content is not a directory): HeadAlwaysTellsGet, RepliesAlwaysAsDone and
TerminationAlwaysHasCause. The invariant `MethodInv` says that there is a request
between `stat()` and the reply, that the directory of an index file stays one, and that a
PUT which has found no file finds none until another process writes.

`RepliesProofs` (any requests and processes, any number of each;
`RepliesAssumption`: `Nothing` is not a request): AlwaysFramed, AlwaysMixedCause and
AlwaysInStep, with RepliesTypeCorrect in it. None of the three is inductive. That nothing
is sent twice needs `Spent`: a part that was sent belongs to an earlier request, and
the process that wrote it works for it no more; and `Shapes`: only chunks wait in a
response, and only those of the request under way. Whose parts a reply has needs
`InCalm`: as long as none of its three causes has come, at most one process works,
for the request that is complete, and what the buffer holds is of the request under way.
That the replies are those of the requests needs `InOrder`, and that a request is not
forgotten `Counted`: requests are at most the replies, the processes at work and a
request half sent, whatever was cleared or mixed up, as long as none was given up.

`HttpParserProofs` (any set of streams with `StreamsAssumption`): AlwaysStepsAreParses,
AlwaysWholeBodyIntact, AlwaysHungCause, AlwaysAnsweredApart, and ParserTypeCorrect, for any
`MaxSegments`. The assumption says what a client sends: a start line, good or bad, with any method;
any number of field lines, of any names, in any order and repeated; a
body that is framed as the head says, in chunks of any number and size or by its
length, which may be empty; then possibly a second request, without a coding. It
does not restrict how the stream is cut. A body that contradicts its head is
outside of these theorems; those of ChunkLoop are about those. The inductive invariant
ties the buffer to the stream: it is the tokens from some position on (`At`),
and `Received` says for each state of the parser what that position is: the beginning
of a line, the beginning of a chunk (`InChunks`, with the data taken so far), the end of
the header. `FieldsUpto` says that a field is the first of its name among the lines
read, which is why the framing the parser finds is the one the client meant, and
`Answered` for which line each reply was made: one
that begins where a segment ended (`About`), and, as long as the client waits, one per
segment (`Counted`) and by one process (`Patient`). That is what AnsweredApart rests on. The
lemmas on chunks show that a turn of the loop in `handle_chunk()` that finds a
whole chunk goes from one position of `Chunking` to the next.

`MessageProofs`, of MessageHead (any lines of any length, any reading of two characters as
an octet): HeadAlwaysAsSent, HeadAlwaysRejected and HeadTypeCorrect. `OctetAssumption`
says that an octet is not the mark for an exception, `NoMethodAssumption` that the null
pointer is not a method, and `HeadsAssumption` what it is for a target to be built from
units: the line is the method, the units one after the other and the version, and a
unit is one character that is no blank, or an escape that can be decoded and holds none of
the characters that mean something in a target. It asks nothing of a line that was not
built. A property that compares a target with its units needs the way back from characters
to units, at every place where the code cuts: `IsFlat` gives the characters of the first k
units for each k, `FlattenPart` (StringProofs) where a unit lies among them, and the
lemmas on `ParseQuery`, `OneSlash` and `UrlDecode` show that the cut at the first `?`
(`PathUnits`), at the slashes (`Collapsed`) and at each escape falls between two units.
`UrlDecode` is a recursive function; `DecodeUnits` follows it from unit to unit, at rest
at the end of each (`AtRest`). The invariant, `HeadIInv`, says per function what is left
of the line and what was found (`StageInv`), and that the headers are what the lines taken
say, the first line of a name for all of them (`FieldsAre`). TLC has
checked it on the heads of the run parser.

`MessageProofs`, of ChunkLoop (any bodies of any length, any `LongMax` but 0, any digits of
values up to 15): ChunksTypeCorrect and ChunksAlwaysAsSent. `BodiesAssumption` says what it is for
chunks to frame data (`FramedAt`: at a byte where a chunk begins there is a line, its
size is a number of bytes that are there and are the data, and after them and two
bytes the next one begins); it asks nothing of bodies that frame none. The invariant
says that the buffer is an end of what was sent (`ChunkShapes`), that what became data
lies before it, in its order (`NothingTwice`), and that in framed data the loop is always
before a chunk, with the data before that chunk taken (`FramedSoFar`). `TurnIs` gives a
turn of the loop as numbers, from the lemmas on `Strtol` and `ToSize`: what `strtol`
returns is at least `-(LongMax + 1)`, so that only -1 and -2 wrap to a size to which
adding 2 wraps again.

`MessageProofs`, of CgiOutput (any outputs of any lines, any bodies left before):
OutputAlwaysAsWritten. `OutputsAssumption` says that an output is lines without an LF,
the last of which may lack its LF; `LowerAssumption` that the letters `strtolower` changes
are neither blanks nor a `:` or a `#`, and become none of these. An output whose parsing
the code does step by step on offsets is compared with its lines, so the way back from
an offset to a line is needed again: `IsFlat` with lines for units, and a cut at the
first LF of an end of the output is the cut after one line (`LineCut`). `WordsKept`
follows `del_multipl_sp` from character to character: a blank that stays comes after a
word and before another, and what stays is as far from the beginning as there are
characters that stay before it. The invariant, `OutputIInv`, says that some number k of
lines was taken, none of them blank and none with nothing after its colon, that what is
not parsed is the output of the other lines, and that the headers are those of the first
k lines, the last line of a name for all of them; `StageAfter` ties status, body and the
two ways to throw to that k. It was checked by TLC on the outputs of the run request.

`ConfigProofs`, of ConfigText (files of any number of directives in any layout, and files of
any characters): TextAlwaysAsWritten and TextTypeCorrect. `NamesAssumption` says that the
names of contexts and directives are words, `FilesAssumption` that a file is characters
and that the text of one that says something is, comments taken out and blanks joined, one of
the ways to write its directives. `Plain`, what a text says, is a recursive function, and so is what `normalize()` does; the
lemmas follow each along its text, and `IsFlat` has the beginnings of a text that is written
directive by directive. The invariant, `TextIInv`, says that what was read and joined so far is what the text
says up to there (`Gathered`); then, that everything it says is in one of the directives
found or in the rest (`Shared`); and, if it was made of directives, that those found are
read as the first k of them and the rest is what was written of the others (`ReadAsSaid`).
`TextTypeIInv` adds that the rest has single blanks and none at its ends (`Tidy`), which is
what lets the next name begin at its first character.

`StringProofs` has what these proofs share. The induction theorems of the library
take an operator, which no prover instantiates; `Along` takes a set of numbers instead
and is proved by a least counterexample, and `RecursionExists` gives the function
that a recursive definition along a sequence means.

### What is only model-checked, and why

* CycleProgresses, LoopsEnd: liveness is out of the prover's reach.
* PartsTypeOK of the run parser: its three conjuncts are proved one by one
  (ParserTypeCorrect, HeadTypeCorrect, ChunksTypeCorrect); that the parts are put
  together without touching each other is checked. So are those of the run config, by the invariant of ConfigProofs,
  ArgumentsTypeCorrect and TextTypeCorrect.

## 5. What is not modelled

* The wording of replies and of pages; dates, logs, the list of a directory; the
  environment of a process (`CGI::setmap`, `map2array`).
* Sends that are cut short: `send()` may take a part and the rest is thrown away.
  No document says what then becomes of a reply.
* A client that sends a request and half-closes at once, beyond that `HttpEof` drops
  the request.
* A pid that equals a descriptor (`IdentAssumption`).
* `autoindex.cpp`, which the Makefile does not compile; `CGI::kill`, `unchunk` and
  `urlencode`, which nothing calls; the arguments of the command line.
* An identity is never used twice: AddressSanitizer keeps freed memory from being
  handed out again for long, and the server never waits for its children.
* In Config, locations are abstract keys whose look-up finds themselves; that the
  look-up of an extension could find another extension's location is not modelled.
* In Replies and Descriptors what ends the connection or the server is left out; in
  Methods which files can be opened is a choice made at the beginning.
* A process that a script starts and that holds its pipe on: OutputEnds is about the
  processes the server forks.
* In HttpParser a token is one piece. A cut inside the digits of a chunk's size, or between
  a CR and its LF, is seen as the cut behind the size, which hangs the loop as well; what
  other cuts inside a line do is not modelled.
* Pages, sites, sample configurations, `tests/` and `tools/`: data, sample processes
  and clients.

## 6. Findings

| run | the code | the repository says |
|-----|----------|---------------------|
| accept | one `accept` per edge-triggered event | `Router.hpp:70`: "Once a connection is received, routes it to its corresponding server." |
| corresponding | routing assigns through a reference, over `_servers[0]` | the same line |
| duplicates | nothing reads the column `duplicated` | `Router.cpp:14`, 19, 22 |
| location | routes are stored with a `/` at the end | `Server.cpp:47`: "are stored without ending `/'" |
| version | any version but HTTP/1.0 is taken for a good one | `HTTP_parse.cpp:151-153`: "compares it's value with the supported HTTP version." |
| deleted | `remove()` of the target, not of the file it was translated to | `HTTP_methods.cpp:111`: "File deleted." |

Three smaller disagreements have no run of their own: a target keeps an ending `/`
although "All `/' found at the end are removed." (`HTTP_parse.cpp:121`); a blank
before the colon of a field is accepted, and the name keeps it, although
`HTTP_parse.cpp:212-215` says such a message is rejected; and the default limit is
1 * 1024 * 1204 bytes (`Location.cpp:26`), not a megabyte.

## 7. Plan

Done: the modules of section 2, the proofs of section 4. What is left:

1. Config and Vhosts joined: when a file that is loaded satisfies `NoRepeatedName`.
2. Replies with the closing of connections, and with bodies in more than two segments.
3. Routing and Vhosts joined: which server's limit a request is held against, request by
   request.
