# Webel in TLA+

Webel is an HTTP client and server in C++ for Windows: a state machine for
every protocol layer, all of them driven by completions that a few worker
threads take from one I/O completion port. This directory models the parts
where that design is hard to get right, and the parsers whose states a document or
a message from the network drives; it checks the models with TLC, and proves
with TLAPS, for all sizes, properties of the client and its sockets, of both ends of a TLS
session, of a server's endpoint, of the frames of a message, of the HTML tokenizer and of the
modes and the two lists of the HTML tree constructor.

## The system

| component | its state | operations | models |
|---|---|---|---|
| Web client (`Web.Client.cpp`) | state, planned request, retries, redirects, transport, response frame | `Get`, its own job, the events of its sockets | `HttpGet`, `WebClient`, `WebClient_proofs` |
| Sockets (`Basic.*Socket.cpp`) | connect state, buffered write, outstanding completions, weak reference to the protocol | connect, write, receive, disconnect and their completions | in `WebClient`, `WebClient_proofs` |
| Completion port (`Basic.Job.cpp`, `Service.Globals.cpp`) | queue of jobs, the thread pool | dequeue, lock the weak completer, complete | in `WebClient` |
| TLS (`Tls.*.cpp`) | record state, handshake state, transcript, cipher states in use and pending | records, handshake messages, alerts, close | `SecureChannel`, `TlsSession`, `TlsSession_proofs` |
| Web servers (`Web.Server.cpp`, `Service.Endpoint.cpp`, `Basic.ListenSocket.cpp`, `Basic.ServerSocket.cpp`) | pool of accepts, state of each connection, its reference to itself | accept, handshake, request, response, end | `WebServer`, `WebServer_proofs` |
| HTTP frames (`Http.*Frame.cpp`) | state of the message, its headers, its body and the content stream | a byte or a piece of the body, the end of the connection | `MessageFrames`, `HttpMessages`, `MessageFrames_proofs`; in `WebClient` only their progress |
| Gzip (`Gzip.*.cpp`) | state of the file, the member and the deflated blocks; the alphabets and the window | a field, a code, a byte | `Gzip` |
| HTML tokenizer (`Html.Tokenizer.cpp`, `Html.CharacterReferenceFrame.cpp`) | one of 72 states, the token being built, the buffers | a character, the end of the input | `TokenStream`, `HtmlTokenizer`, `HtmlTokenizer_proofs`, `HtmlText_proofs` |
| HTML tree construction (`Html.TreeConstruction.cpp`) | insertion mode, open elements, active formatting elements | a token | `TokenStream`, `TreeConstruction`, `TreeConstruction_proofs`, `TreeFrame_proofs` |
| JSON, Uri, cookies, media types, encodings | parser states | one string at a time | not modelled |
| Start and stop (`Service.Globals.cpp`) | start-up state, worker threads | downloads, listeners, stop event | not modelled |
| Admin console, forms, scrapers, proxy, FTP, logs | | | not modelled |

How they interact. An event goes up: a worker dequeues a completion, the job
locks its weak reference to the socket, `Socket::complete` takes the socket's
lock, the socket changes and calls its protocol with an event
(`process_event_ignore_failures`), under that lock. The protocol is a
`RecordLayer`, a `Web::Client` or a `Web::Server`; a `RecordLayer` calls on to
its application. `Web::Client` takes its own lock on top. Writes and closes go
down as calls; a close is a job of its own, so it takes effect later. Every
reference upwards is weak, every reference downwards owns: a socket lives while
its client, or a worker inside a completion, refers to it.

The bytes a `Web::Client` or a `Web::Server` receives go to a response or request
frame, which hands them to the frame of the line, the headers or the body it is
in. A body frame writes to a stream: through the gzip frames if the headers say
so, and for a page on through a decoder, the input preprocessor and the tokenizer
to the tree constructor, each calling the next. One call goes back up that chain:
the tree constructor switches the state of the tokenizer that is giving it a
token.

A `FatalError` is caught nowhere, so it ends the process. The event loop of
`Basic.Frame.cpp` calls a state machine until it reports that it is blocked, and
`switch_to_state` throws when a machine enters the state it is in or leaves a
final one.

What is hard here: completions of an old socket that reach a client which has
moved on; bytes that are cut differently by the network; callbacks in the
middle of a handler; two ends that switch ciphers and close at the same time;
objects that keep themselves alive; listeners that are not replaced; framings
that must agree with the sender to the byte; pointers and iterators that an
earlier state of a parser has set; and two lists and a mode that every kind of tag
changes in its own way.
`PROJECT.json` lists these hazards with their lines and properties.

## The models

### WebClient: the client, its sockets and the workers

One action per handler, whole: `Get`; the client's job (`GetRefused`,
`GetOnOpenTransport`, `GetOnNewTransport`, `ResponseComplete`); the events
(`CanSend`, `Ending`, `Received`, `ReceivedUnread`). Between them the workers
`Dequeue` a completion of a socket and `Complete` it, which decides the event.
The gap between `Complete` and the client's handler is where another worker can
act: it is the wait for the client's lock.

- `sockets[s]` is a `ClientSocket`: its state, whether it is open, whether it
  buffers a write, the completions it has outstanding. `NetworkBecomes` frees a
  socket nobody refers to, with its completions, as the weak completer does.
- `frame` is how far the response frame has read: nothing complete, in a body
  with a known length, in a body ended by the connection, done, failed, stuck. One
  receive may take it any number of steps (`FrameSteps`, bounded by `Reads`). An
  error in the first line fails the frame, and the client retries at once. An
  error in the headers or the body leaves it stuck: the frame says that it is blocked
  (`Basic.Frame.cpp:86`), so the client returns (`Web.Client.cpp:300`) before it looks
  for the failure, and finds it with the next receive or the end of the connection.
- A url stands for what `is_transport_reusable` compares. A response carries a
  final status, a redirect to some url, or a 503 (`Headers`).
- `sent`, `told` and `owed` are history: requests of this `Get`, whether the
  headers of the last response were reported, completions owed to the caller.
- `owes` of a socket says that the peer has a request to answer. With
  `TrailingBytes` FALSE peers send nothing unasked; TRUE lets any receive bring
  bytes past the end of a response. `Unread` says when a receive is not read to its
  end, which ends the process: behind an error (what else the receive held), in a frame
  that is stuck, past the end of a response.

`HttpGet` is what the caller sees: one `Get`, a bounded number of requests,
headers only for a request, one completion. `ApiSafety` and `ApiSpec` say that
`WebClient` implements it, under the mapping of `Api`.

### TlsSession: two record layers

The connection is the sequence of records each end has written (`log`) and a
count of those the other has handled (`read`). A receive brings up to `Batch`
records, handled one per step; between them the other end may act. A record
carries the state it was encrypted with, so reading it with another state is a
failed MAC (`Acceptable`). Handshake messages are whole, since the handshake
protocol reads a stream of bytes; a Finished message carries the transcript it
commits to, and the keys are symbolic: "keys" when both ends derived them from
the same secret, "random" when the server refused the version in it
(`KeysFor`). Clients are those of this code and others: older, newer, one that
puts the negotiated version in its secret, one that sends heartbeats. `Data` goes to
the application, which with `Unparsed` may fail on it, as a server does on a request
that does not parse; a server's application that has closed is `Gone`, and data for it
fails the layer.

`SecureChannel` is what the two applications are promised: the client's is
connected after the server's, data arrives in order, and nothing after the end.

### WebServer: one endpoint

A connection is a `Web::Server` with its socket. `Init` spawns the pool;
`Accept` and `HandshakeDone` call the endpoint back, which spawns the next
(`Heard`); `Receive` is a receive with part of a request, a request with or
without keep-alive, with or without bytes after it, or no request at all;
`Ending` is the end of the stream. `Becomes` is `Server::switch_to_state`: a
server that leaves the states in progress drops its reference to itself, and
its socket with it.

### MessageFrames and Gzip: one message, byte by byte

A message is a sequence of units. A word or a number is one, each byte that
separates them is one, a body comes in bytes or in the units of `Gzip`. Lengths
count units, so that a length, the sizes of chunks and what is inside them must
agree as they must in bytes. `Receive` reads one unit, through all the frames
that are in progress; `Garble` reads another one where the grammar leaves the
sender no choice, once; `Ending` is the end of the connection, anywhere. `frame`
is the `RequestFrame` or `ResponseFrame` with the frames inside it.

- `HeadersFrame` keeps a header until the next line tells whether its value goes
  on; the first header of a name is the one that counts (`get_string`).
- `make_body_frame` chooses the framing, as `BodyFrame` does: chunked, a length,
  the end of the connection, or no body at all.
- `Written` is what the frames write, `EndWritten` the end they write after it.

`Gzip` is the same for the gzip file: `FileFormat`, `MemberFrame`, `Deflate`. Its
units are a field of a header, one bit of a Huffman code, the extra bits of a
symbol, a byte of a stored block. `make_alphabet` builds the codes from their
lengths as the code does, from counts and shifts, and keeps the old alphabet when
the result is no complete tree. A unit that the state does not read means that
the frames have lost their place among the bits; the model says "garbled" and
follows them no further. Likewise "null" where the code follows a null pointer.

Each message of the run says what its sender meant by it (`framing`, `content`).
Its encoder, in `MCMessageFrames`, takes the codes of the symbols from the
fractions of the code space before them and the rows of RFC 1951, and shares
nothing with `Gzip`.

Lengths and sizes of chunks are taken modulo `Uint32`, and the count of a size's digits
modulo `Uint8` (`HexNumberStream<byte, uint32>`, `uint8 count`; `as_base_10<uint32>`).
The run gives `Uint32` a value that TLC's integers hold and no length of it reaches.

`HttpMessages` is the grammar of RFC 7230 from the sender's side, in the same units, for
messages that are not packed: `Sent` is the point a sender is at behind the next unit,
given the framing and the content it means, and `WellMade` a message whose units go from
the `First` point to the end by it. It says which lengths and sizes the program can hold.
`MCMessageFrames` assumes, and TLC evaluates, that the run's messages that are not packed
are well made (`PlainMessages`).

### TreeConstruction: open elements, formatting, modes

One action per kind of token; each is `write_element`, the dispatcher with every
handler it calls. A handler is an operator from one state of the constructor to
the next; `ignored` and `reprocess` are the two references the handlers set for
their caller. Handlers call the dispatcher in their middle, for tokens that they make up,
and it calls them: they take the dispatcher as their first parameter, `D`, and
`DispatchedWithin` is the recursive function that gives the dispatcher with room for
so many dispatches inside each other. A node is a name and an identity, kept while it is open, in the
list of formatting elements, or the head or form element. `Vocabularies` says which tags
a document may have and how deep it may be: a vocabulary is about one part of the
rules. What is read depends on the tokenizer: `TokenStream!Legal` says which
tokens come while it reads the text of an element.

`failure` is what ends the thread: an empty list popped ("empty"), a null
pointer ("null"), an index out of range ("range"), no marker where one is looked
for ("no marker"), the bookmark ("bookmark"), or reprocessing without end
("overflow", at `MaxDispatch`). Two more are about start tags that pop without looking
(`PopUnseen`): those of `dd` and `dt`, and self-closing `math` and `svg`. When nothing is
left open the current node is null ("passed"). When an element goes that the mode was
chosen by ("astray") the process lives on, with a mode that does not fit the stack;
the model follows a document up to there, and the other properties hold up to there.

The two lists are tied together by `ContextsNest`, `NoahsArk` and `MarkersCover`. One might
expect more, that open elements have the same order on both lists. They have
not: after `<i><b><i><span>`, nine `<div>` and `</b>`, the `b` is listed before the second
`i` and is open inside of it. Where step 9 of the adoption agency should climb the
stack ("let node be the element immediately above node", `Html.TreeConstruction.cpp:1029`),
the code looks at the element above the furthest block each of the three times, and an
element further out keeps its place. This cannot happen to two elements of
different contexts, one listed before a marker and one after it, which is what
`ContextsNest` says.

### HtmlTokenizer and TokenStream

`Come` brings a piece of text; `Write` gives its next character to the
preprocessor and, unless that drops it, to the tokenizer; `write_eof` is the end
of the input. Each is one call of `write_element`: a state's code with what it calls, and the tokens
it gives out (`out`). What a state has read again, one character or a buffer of
them, it does as the last thing of that call, by calling `write_element` for each. These pend in
`again`, and each is a step of its own (`Reread`); nothing else happens before they are read
(`Returned`). That step is not visible to other threads, and splitting the call there is what makes
the invariant between two of them something to state. The tree constructor is
the environment: it may or may not answer a start tag of an element with text
content by switching the state inside the call that gives it (`answer`, `Emit`).
`failure` is what ends the thread: an object or iterator that no state has set ("null"), no
tag to give ("no tag"), a state entered from itself ("same state"), and a buffer that
is emptied while it is being read ("replay").

`TokenStream` is the promise between the two modules: one end, and nothing after
it; tags, comments and DOCTYPEs only while the content is data; otherwise text, up
to the end tag with the name of the last start tag. Its steps give one token (`Give`) or
any number of characters (`GiveText`). `HtmlTokenizer` is shown to
implement it (`Promise`), `TreeConstruction` assumes it.

## The runs

| run | instance | shows |
|---|---|---|
| `client_safety` | 2 urls, 3 sockets, 2 workers, 1 retry, 1 redirect | types and five invariants, and `HttpGet`'s safety |
| `client_live` | as above, 2 sockets, 1 worker, 0 or 1 retries, a url that is not http, well-formed responses, fair | every `Get` completes; no `FatalError` with one worker |
| `tls_session` | 6 kinds of client, receives of up to 2 records, 2 data records each way, the client closes, the server's application may fail on what it reads, the connection may be lost | ciphers in step, agreement, nobody compliant refused, the channel, no crash, progress |
| `web_server` | pool of 2, 5 connections, with and without certificate | the pool is kept or accounted for, servers keep themselves exactly while in progress and are released |
| `message_frames` | 41 messages: every framing, chunkings, gzip members, odd headers | messages end where their sender meant them to, content arrives whole, a body ends once, mistakes are refused |
| `html_tokenizer` | documents of up to 5 pieces that reach all 72 states | nothing is used before it is built, the end arrives, contents are read in step, text is kept, `TokenStream` |
| `tree_construction` | documents of tables, of objects, of formatting, of captions, of structure and of definition lists | handlers fail in the known ways only; until then the mode fits the stack and the two lists fit each other |

Runs that find a disagreement between the code and what it says of itself:

| run | what happens |
|---|---|
| `client_unresolved` | a failed `Resolve` leaves an unconnected transport, which the next `Get` for the previous host reuses: the `Get` hangs |
| `client_split_redirect` | headers of a redirect in one receive, the body in the next: neither followed nor reported |
| `tls_heartbeat` | a heartbeat is written between ChangeCipherSpec and Finished |
| `web_server_malformed` | a server whose request does not parse keeps itself for ever |
| `tree_bookmark` | `<b><p></b>`: the bookmark is looked for before the first entry of the list; the process ends |

### Bounds

Three sockets are the transport, the one it replaced and one a worker still
holds; with two workers each can hold an event of a different socket while the
client moves on. One retry and one redirect reach both limits and the reset of
one by the other. Two urls tell a reusable transport from another. In
`client_safety` sockets, workers and urls are interchangeable and TLC uses the
symmetry; `client_live` checks liveness and uses none. Two records per receive
are enough for an alert to come with the record before it, and two data records
for their order. A pool of two with three connections beside it lets every
combination of listening, shaking, open and leaking servers occur.

Messages have chunks of 2 and of 17 units, so that sizes have one and two digits
and a shorter one follows a longer; trailers that repeat the headers of the
framing; headers repeated, folded and spaced; and gzip members with a fixed block,
empty stored blocks, one of 257 bytes, dynamic blocks with no, one and four distance codes, copies
that overlap what they write and copies into an earlier block. Each may end at
any unit, or have one unit garbled.

The pieces of `html_tokenizer` are chosen so that five of them get from the data
state to every other and on from there, with every character that a state treats
differently; characters that are alike for all states are one ("1" is the only
digit, letters are those of the keywords and a few more). The vocabularies of
`tree_construction` are one of tables and selects (depth 9), one of objects among
them (depth 7), one of formatting with blocks and objects (depth 6), one of formatting in
and around captions (depth 6), one of heads, framesets and text (depth 5) and one of definition
lists and self-closing tags in tables (depth 8): each has the tags that one part of the rules
tells apart, and together they reach every mode. Four formatting elements are one more than
the three of a kind that may be in the list. No more than
`MaxDispatch` (24) dispatches are inside each other, which `KnownFailures` checks.

### Fairness

`WebClient`: the client's jobs and what a worker holds are finished (workers
never stop between); completions are dequeued in order, so no socket's is passed
over for ever (strong fairness per socket, since which completion comes is up
to the network). Of peers it is assumed that one that owes a response sends it or
closes, and that none sends one body for ever: the client has no timeout, so without
that a `Get` may hang. It may hang, too, after a response whose headers or body do not
parse, if the peer then sends nothing more and stays open: nobody retries before the
next event. `client_live` has well-formed responses only. `TlsSession`: each end's receive and close are handled. `WebServer`:
peers close some day.

## The proofs

Every theorem holds for all values of the constants that the `ASSUME`s of the module
allow, unless its own hypotheses say more. Each module has one inductive invariant
(`IInv`, or a name of its own), a lemma for each action that keeps it, and the
properties as consequences.

### WebClient_proofs: the client's own state

For every number of urls, sockets and workers, every limit and every set of `Reads`:

- `TypeCorrect`, `JobsBalanced`, `NeverNull`, `RequestsBounded`: the invariants
  `TypeOK`, `OneJob`, `NothingNull` and `BoundedRequests`;
- `Implements`: the safety of `HttpGet`.

These are not inductive one by one. The inductive invariant `IInv` is `TypeOK`,
`OneJob`, `NothingNull` and:

- `OneCompletion`: exactly one completion is owed, unless the client is
  `inactive`. `HttpGet` needs it: a completion may be made only once.
- `PlanOK(plan)`: the counters of the plan stay within their limits.
- `sent <= Spent(plan) + Credit`: `Spent` is
  `redirects * (max_retries + 1) + retries`, and `Credit` is the one request
  that the plan does not count yet. It is 0 in the states whose plan already
  counts its next request, 1 in the others. `BoundedRequests` follows.
- A response is read only after a request was sent (`sent > 0`), and
  `response_complete` is reached only with the response's frame done.

There is a lemma for each action, and one for the many
actions that leave the client's own variables alone. `Implements` then maps
each action to a step of `HttpGet` or to a stutter.

### WebClient_proofs, second part: the client and its sockets

`TransportsCompatible` and `NeverStranded` (`CompatibleTransport` and `Awaited`) need
to know about every socket, the dropped ones included. `SInv` adds to `IInv`:

- `Held`: a socket with work, or in a worker's hands, has an object, and the event a
  worker carries is the one its completion makes;
- `Serving(transport)`: the transport leads to the server of the request in hand (of
  the last transaction, once connected); it is unconnected exactly while the client
  waits to send; and either it is open and the completion that moves it on is
  outstanding, in its jobs or in a worker's hands, or a worker is about to tell its end.

Both assume `Unresolvable = {}`: they are false without, which is the run
`client_unresolved`. `NeverFatal` (`NoFatalError`) assumes one worker, responses that are
well formed (`Reads \cap Malformed = {}`) and nothing past their end (`TrailingBytes = FALSE`), and
is false without any one of these (see "What the models leave out"); its invariant is `Turns`: a peer
owes a response only on the transport, while the client waits for it, and only then has the
worker bytes in its hands.

### TlsSession_proofs: both ends of a session

For every set of clients (any versions, either secret, with heartbeats or without), any
size of receives and any amount of data: `StaysInStep`, `Agree`, `NeverRefused`
(`InStep`, `Agreement`, `Unrefused`), `TypeCorrect`, and `ImplementsChannel`, the
safety of `SecureChannel`.

Each end reads a log it has not written, so that the invariant must say what the logs
are. `ClientWrites(h, i, r)` and `ServerWrites(h, i, r)` say which record is the `i`th
that an end writes to a client whose hello is `h`; from the `i`th record follow its
cipher, its version and its body. `ClientLayer`, `ServerLayer` say what each
handshake state means for the layer's fields, `ClientLog`, `ServerLog` how much has
been written by then, `ClientHeard`, `ServerHeard` how much was read. With these, "who
reads the `n`th record is in the state for it" is arithmetic. `Leaving` is about the
end: an alert is the last record of its log, and an end without transport handles no
more than what came with the receive in which it closed.

`NeverCrashes` (`NoCrash`) assumes that the server's application does not close
(`"server" \notin Closers`), whatever the client's does; without that it is false, as said
below. `NeverRefused` says that a layer fails only when a connected application fails on
what it reads (`Unparsed`). `FinishedFollows` assumes
clients without heartbeats: of these, what the run `tls_heartbeat` refutes is true.
The refinement maps the two ends' `connected` and `ended` and the data records written and
handled; its steps need the invariant, since only the handshake's order makes the server
connect before the client.

### WebServer_proofs: the endpoint

For every pool and number of connections: `TypeCorrect`, `PoolAccounted` (`PoolKept`),
`NeverDropped` (a server in progress keeps itself) and `SelfReleased` (`SelfKept`). The
last assumes that no request is malformed (`"bad" \notin Requests`), since the run
`web_server_malformed` shows it false with one. The invariant adds to the properties
that a socket listens only for a server that waits for its connection (`SocketFits`)
and that exactly the servers that exist keep themselves (`SelfHeld`).

### MessageFrames_proofs: what the frames promise of any message

For every set of messages: `BodiesEndLast` (`EndsLast`) and `HeadersStay`
(`HeadersKept`), wherever the message is cut, garbled or ended, and of messages
that are no messages at all. `Shaped` says which states of the nested frames occur together,
`Ends` how many ends have been written in each. `HeadersStay` rests on the lemma that
headers only grow at the end (`HeadersGrow`), and on the first of a name being the
one that is found (`FirstOfName`): the least index with that name, which exists since
the intervals below the members of a set of numbers are well-founded (`Least`).

For every message that is well made (`HttpMessages!WellMade`), of any length, with any
headers in any order, any chunking and trailers: `WellMadeFramed`, `WellMadeDelivered` and
`WellMadeRefused` (`Framed`, `Delivered`, `Refused`). All three follow from `Understood`:
there is a sequence of points, as the grammar has them, such that the frame `Agrees` with
the point at `position` until a unit is garbled or the connection ends. `Agrees` pairs the
sender's points with the states of the frames (`AtStartLine`, `AtHeaders`, `AtBody`,
`AtEnd`), the headers, what is left of the body or the chunk, the size read so far with
its digits, and the content sent with the content written. The step is one lemma
for each part (`StartLineAgrees`, `HeadersAgree`, `PlainBodyAgrees`, `ChunksAgree`); the headers end where the
sender's framing and the one that the code takes from the headers must be the same (`FramingAgrees`).
A garbled unit is one where the sender had no choice, and there every frame refuses any
other (`CtlFails`). The widths matter in one place each: a length or a size that
fits is not wrapped (`Unwrapped`).

### HtmlTokenizer_proofs: the tokenizer in every document

For every set of pieces and number of them, every set of named references and every
choice of text elements: `BuiltAlways`, `EofArrives`, `StaysInStep` (`Built`, `EofEnds`,
`InStep`) and `KeepsPromise`, the whole of `TokenStream`.

All four follow from what each state takes for granted, `Fit(s, state)`: a state of a tag
has a tag, of an element or the end tag of the text around it; a state of a value has an
iterator into that tag's attributes; a state of a comment or DOCTYPE has one, with the
identifier that it appends to; a text state is in its own content. `Fit` is not enough
at the end of the input, which sends every state of a tag to the data state,
whatever the content; there it must be known that the end is the last thing to be read
again. So `IInv` has two parts. `Feeding`: the input has no end of the input in it, and nothing is
left of it once it is closed. `TokenizerInv`: until it is closed the tokenizer is `Sound` and does
not have the end to read again; from then on it has given its last token (`Over`), is in the
data state with only the end to read (`Ending`), has taken it for one of the characters
that a state gathers (`Stuck`), or is `Sound` with the end still before it (`Coming`).

`Written` is the heart of it: each call of `write_element` in a state that is `Ready`
yields one that is `Kept`, with what it tells the tree constructor legal (`Told`). There is one lemma per
state for it, on top of lemmas on what `SwitchToState`, `Emit`, `Again` and the reference
frame keep. That the tokenizer is called back, and its state switched, in the
middle of `Emit` is in `Emitting`: only a start tag is answered, and it is given with the state
already chosen. The end of the input inside a reference's leftovers is `ReferenceRead`.

### HtmlText_proofs: no text is lost

`TextConserved` states `TextKept` for every document: a step from one state of a text element to
another conserves what was held back, followed by what is to be read again and what is read in the step.
That an end tag's letters are in the buffer, and that the buffer is empty when an end tag may begin,
comes from `Fit`; all else is about one step. `Passes` says it of one call of
`write_element`: what was held and the character are given or held, or what was held is given and the
character is to be read again. There is one lemma for each way to do so
(`GivesIt`, `HoldsIt`, `LeavesIt`, `GivesBack`, ...), then one per state that names its way.
The states that `Text` leaves out are the ones known to lose characters.

### TreeConstruction_proofs: the lists of the tree constructor

For every set of tags, DOCTYPEs and vocabularies, any depth of the document, any length of the lists
and any room for nested dispatches: `TreeTypes` (`TypeOK`), `TreeContexts` (`ContextsNest`),
`TreeNoahsArk` (`NoahsArk`), `TreeMarkers` (`MarkersCover`), `TreeStops` (`EofStops`) and
`TreeTextMode` (`TextMode`). The only assumption is `MaxDispatch \in Nat`.

The inductive invariant `IInv` is `Sane(tree)`, with the types. Its parts need each other:

- `Kinds`: no marker is open, and what is listed is a marker, or an element of a
  formatting name with an identity of its own. Without it, an open element could be
  taken for a marker, or a marker be opened again.
- `Nested`: of two open entries, the one before a marker is further out. It is
  kept by reconstruction because this opens only what is listed after the last marker and
  after the last open entry, and by adoption because the element it moves is the
  latest of its name and is put back after all markers (`Movable`).
- `Ark`: no four alike with no marker between them. To replace an entry it is first
  removed, which leaves `Space` for one of its name.
- `Covered`, while nothing has failed: there are at least as many markers as open elements
  that put one there. A handler may be one marker short in its middle
  (`InsertShort`, `SwitchShort`) or have one too many (`MarkedSlack`), and the lemmas say so.
- the head element pointer is an element of the name head or none: `after_head` opens it again.

A handler is given the dispatcher and the dispatcher is made of the handlers, so neither can
be proved first. `Keeps(D)` says that `D` keeps what is sane, of every state and token. There
is one lemma per handler: it keeps what is sane if `D` does. So `Dispatched(D)` keeps it
if `D` does (`DispatchedKeeps`). The dispatcher without room fails and changes no list
(`UnboundedKeeps`); if one with more room did not keep what is sane, there would be a least such
room, and with one less it would (`WithinKeeps`). That `DispatchedWithin` is what its definition says,
at every depth, is proved from finite approximations of it (`DispatchedWithinRoom`).

`TreeStops` (`EofStops`) goes the same way, on top of `TreeSafety`. Every handler, given
the end of the file, stops the parsing, fails, or asks to have it reprocessed (`Ends`). The
last leads to a dispatch with less room, which stops by the time the room is used up
(`StopsAtEof`, `WithinStops`). The mode `in_column_group` alone could leave the token there: it makes
up the end tag of the column group and goes on only when that is not ignored. So
`StopsAtEof` also says that it is not, unless there is but the html element, in
which case the handler stops by itself.

`TreeTextMode` (`TextMode`) is about two components, so its invariant, `Agreed`, ties them:
the parsing has ended, or the tokenizer reads markup and the mode is not text (`InMarkup`), or it reads
a text element and the mode is text (`InText`). In both, the mode to go back to is not itself one that
goes back (`Remembering`). `KeepsText(D)` says how one token can change this: from
markup to markup, after a tag also out of the text of a table (`Settled`); from markup to
text by a start tag in `OpensText` only; from text, an end tag goes back (`AfterText`) and
characters stay. No handler makes up one of the tags in
`OpensText`, so a made-up token opens no text, and this holds at each depth of dispatch as above
(`WithinText`). The tokenizer leaves the text with the end tag it gives (`TS!Given`), which is
the token with which the mode goes back; the end of the file is `TreeStops`.

### TreeFrame_proofs: the modes and the stack

`TreeRooted` (`Rooted`), `TreeModes` (`ModeAgrees`), `TreeCells` (`CellNote`) and `TreeSound`
(`KnownFailures`, as long as there is room for another dispatch) hold for every set of tags, every depth of
the document and every nesting of dispatches. The first three say nothing of a document
once a handler has failed, and a start tag that pops astray is one of the failures. `TreeSound` says that
handlers fail in no other way than the known ones; error messages are not part of the model (see
below, what the models leave out).

They rest on `TreeShaped`, whose invariant `Shaped` is about the frame of the stack: the open elements
of the names that `reset_the_insertion_mode_appropriately` looks for, and `html`. `Tower` says
that each element of the frame is in one of its `Parents`, with nothing of the frame between
them: a cell in a row, a row in a section, a section, caption or column group in a table, a table or select
in the body, a caption or a cell. `Level(names, open)` adds that the topmost
of the frame has one of these names, and `Standing(m, open)` what each mode needs: `Level` with
its `Holders`, or the few elements that are open before the body. `Shape` says it of the mode, and in text and
in the text of a table of the mode that is remembered, below the element that has the text.

A handler that makes up a token depends on what that token leaves behind. `KeepsShape(D)`
says what is needed of `D`: it keeps `Shape` from any mode, and an `Inner` tag, one of those that
the rules make up and go on after, leaves the mode as it was (`Stands`). Elsewhere a made-up token is the last thing a
handler does, or it leads to a mode that `Shape` describes (`close_the_cell` to a row). There is a
lemma for each operation on the stack (`LevelRemoved`, `LevelInserted`, `LevelMoved`, `PopToTop`, ...), one for
each group of tags, one for each mode, and then, at every depth, `WithinShape`. The
adoption agency is where the frame could be lost: `AboveFrame` says that nothing of the frame is above an element
that is in scope, so what it moves, removes and clones is outside of the frame.

Whatever fails would have to pop or look for an element that is not open, or a marker that is not listed, and the
shape says of each of these that it is there: the lemmas that keep `Shape` therefore also show that nothing fails but
for the reasons in `Lawful`: the bookmark of the adoption agency, want of room for a dispatch, and the
start tags that pop without looking, of which `PopUnseenFits` says that they leave the frame alone or fail. The markers
that are cleared are those of `MarkersCover` (`SlackMarked`). When the file ends
the stack is emptied and the shape is lost, so what happens then is a second induction over the dispatches,
`WithinSound`: `RulesSound` says that each mode stops, or has the end of the file processed again in the shape of
another mode.

### What stays with TLC

- Liveness (`ApiSpec`, `Settles`, `Released`), which the prover cannot do.
- `Framed` and `Delivered` of messages that are packed (gzip).
- Of `KnownFailures` of `TreeConstruction`, that 24 dispatches inside each other are enough, a bound on
  how often one token is processed again.

## What the models leave out

- `Web::Client`: cookies, history, the header callback's choice of body stream.
  A TLS transport is not composed with the client: it is another stream that
  delivers the same events.
- `client_live` has one worker and well-formed responses. After headers or a body that do
  not parse, the response frame returns blocked (`Basic.Frame.cpp:86`) and the client
  returns at `Web.Client.cpp:300` before it looks for the failure, so that what else the
  receive held is not read, which `Basic.ConnectedSocket.cpp:44` answers with a
  `FatalError`, or a `Get` waits for as long as its peer stays open and says nothing. The
  model has both (`Received`, `Unread`): with `Malformed` added to its `Reads`, `client_live`
  finds `NoFatalError` violated. With two workers `NoFatalError` fails: the ending of a
  socket the client has dropped resets the transport of the next transaction, and
  bytes of a dropped socket meet the client in a state that does not read them,
  which the check at `Basic.ConnectedSocket.cpp:44` answers with a `FatalError`.
- The client is composed with the frames by their progress only. It does not hand
  the end of the stream to its frame (`Web.Client.cpp:320`), so a body that ends
  with the connection (`Http.BodyFrame.cpp:103`) is not completed but retried or
  given up; `MessageFrames` has a caller that does.
- The DNS lookup is a choice, made in the handler, as in the code (it blocks).
- `TlsSession` leaves out fragmentation, malformed messages, renegotiation and
  the contents of certificates. `Closers` is only the client in the checked
  run. A server's application that closes while it handles a record, as `Web::Server` does
  after its last response (`Web.Server.cpp:158`), is gone when the next record of the same
  receive comes: data then throws (`Tls.RecordLayer.cpp:370`), a close_notify makes the layer
  close again, and either uses a transport that is null (`Tls.RecordLayer.cpp:163`).
  A client that sends heartbeats
  once connected makes the server throw (`Tls.HeartbeatProtocol.cpp:47`).
- `WebServer` answers at once, as `Service::WebServer` does, and its listeners
  see a peer when AcceptEx completes, with its first bytes.
- A plain server that closes with bytes unread ends the process
  (`Basic.ConnectedSocket.cpp:44`); `Released` allows for that.
- `MessageFrames` takes header values as words and has no limit on a line or a name, as
  the code. Its messages avoid what the frames are known to misread. A body without
  a Content-Type, or with an encoding other than gzip, is not read and is taken for
  the next message (`Http.BodyFrame.cpp:25`). A chunk extension is refused. The
  range of a status code is not looked at when no reason follows. A request with a
  media type but no length waits for the end of the connection. A body of length
  0 ends without an end of its stream.
- `EndsLast` is about bodies that are not chunked. Each chunk is read by a frame
  that ends the stream (`Http.LengthBodyFrame.cpp:57`), so a chunked body ends its
  stream after every chunk and once more at the end. `Basic.IStream.h:14` wants one
  end, the last; the consumer at `Service.StandardSingleByteEncoding.cpp:201`
  takes the first.
- `Gzip` reads the lengths of the alphabets without the alphabet they are coded
  with, and bits without the byte they are in. The window is not cut to 32K. The
  members of the run avoid what is known to go wrong: a stored block's length is
  read most significant byte first (`Basic.NumberFrame.h:141`), so only lengths
  that read the same both ways are right, and its frames are not reset between two
  stored blocks (`Gzip.Deflate.cpp:239`); lengths that are no complete code leave
  no tree, and a single distance code among several lengths, which is legal, is
  one of these (`Gzip.Deflate.cpp:370`); a checksum is read and not compared; a
  second member, or a member that is no gzip, ends the process
  (`Basic.ProcessStream.cpp:17`); the symbols 286, 287, 30 and 31 of the fixed
  alphabets index past their tables.
- `HtmlTokenizer` leaves out the text of comments, values and DOCTYPE names. Three
  states take the end of the input for a character they buffer, and `EofEnds` names
  them. A `<!` among the characters that the markup declaration state reads again
  empties the buffer that is being read ("replay"). `TextKept` leaves out the
  states known to lose characters: the end tag in an escaped script, which begins
  with a dash here (`Html.Tokenizer.cpp:955`), and a character after one dash in a
  doubly escaped one (`Html.Tokenizer.cpp:1157`). In the service the tokenizer is
  behind a parser and a preprocessor that do not hand on the end of the input, so
  the token that ends the document never comes; the run has a caller that does.
- `TreeConstruction` leaves out the document (what is appended where), fragments,
  foster parenting, which the code does not have, and foreign content, whose rules
  the code never reaches (`Html.TreeConstruction.cpp:5109`). A `dd` or `dt`
  start tag closes the last open one with a loop that looks at the current node only
  after the first pop (`Html.TreeConstruction.cpp:2540`; likewise `close_a_p_element`, 1496). So
  the second `dd` of any list pops on to an outer one of the same name, and in the usual document,
  which has none (`<dl><dt>a<dd>b<dd>c`), to a null node. A `dd` behind a `dt`
  does the same, and a `dt` behind a `dd`; only when another element is still open inside the first
  does the loop end there, by chance. Self-closing `svg` and `math` pop the element around them (2951), since foreign
  elements are never inserted (208). The model has all of this, as `failure` "passed" and "astray", and
  does not follow a document beyond.
  What a parse error costs is left out: `HandleError` formats the names of all open
  elements into 256 characters (1346), and `sprintf_s` ends the process when they do not
  fit. So any tag out of place ends it once a few dozen elements are open, whatever
  `KnownFailures` says of the handlers. A select or table closed
  with nothing below it overwrites the first open element
  (`reset_the_insertion_mode_appropriately`); `Rooted` says why it does not happen.

## Plan

1. (done) `WebClient` with `HttpGet` and its proofs, `TlsSession` with
   `SecureChannel`, `WebServer`.
2. (done) `MessageFrames` with `Gzip`; `HtmlTokenizer`, `TreeConstruction` and the
   `TokenStream` between them.
3. (done) Proofs: the sockets of `WebClient`, `TlsSession`, `WebServer`,
   `MessageFrames`, `HtmlTokenizer` and the modes and lists of `TreeConstruction`.
4. Left: the start-up and the stop of the service over `HttpGet`; the cookie and
   media type parsers, the JSON tokenizer, UTF-8 and Uri.
