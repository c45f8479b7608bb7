# go-mms in TLA+

A verification project for go-mms, an MMS (ISO 9506) client and server library
in Go, and for the C sources kept beside it in `src/sources/`: the MMS layer of
a C client and server with its generated ASN.1 codec, and the Wireshark
dissector of the protocol. The modules model the parts where goroutines,
threads, contexts, peers and callbacks meet, the algorithms with edges that
tests hardly reach, and the C path of a service call octet by octet. TLC checks
them on small instances; TLAPS proves the safety properties of all the modules
of the Go program, and of the C client's connection, for every value of their
constants.

`PROJECT.json` lists the runs, maps every definition to the lines it models,
and names the hazards each property is aimed at.

## The system

The Go program:

| Part | Modules | What is hard | What correct means |
|---|---|---|---|
| Client call engine (`mms.go`, `internal/invoke/tracker.go`) | Client | the reader, callers, detached writes and Close race for one tracker entry; writes stall; IDs wrap | one answer per call, its own; exclusive writes; everybody returns |
| Server associations (`server.go`, `internal/serverconn/conn.go`) | Server | Shutdown against requests, late registrations, stalled writes | no association is left, no handler aborted, no torn write |
| Listener (`transport/iso/listen.go`, `ListenAndServe`) | Listener | a timer fires as the handshake completes; all slots are held; Close during backoff | slots are counted; no late deadline; silent peers block nobody; Close ends everything |
| Dial and retry (`transport/iso/dial.go`, `retry.go`) | Dial | failure at each stage; the context ends in any window | no leaked connection; bounded attempts; growing, capped delays |
| Association (`associate`, `Conn.negotiate`) | Negotiation | two rules on two sides, floors, absent fields | both ends use the same values; answers fit |
| Registry and name lists (`internal/servermodel`) | NameList | pages are slices of a shared array; tokens vanish | index equals map; an enumeration misses nothing |
| Read and Write, alternate access (`server_altaccess.go`) | Variables, AltAccess | callbacks of two associations overlap; items fail one by one; the type check is shallow | one result per item; what is written is read back; nothing else changes |
| Files (`server_file.go`, `client_file.go`) | Files | transfers interleave; contexts end between steps; the association ends | exact downloads; every file closed once |
| Response sizing (`server_pdusize.go`) | FitList, LongestPrefix | bisection | the longest prefix that fits |

The C sources:

| Part | Modules | What is hard | What correct means |
|---|---|---|---|
| Client connection (`mms_client_connection.c`, `iso_client_connection.c`) | MmsConnection | calling threads, the connection thread and the owner share a table and one transmit buffer | the buffer has one holder; handlers run once, for their own call; everybody returns |
| Generated codec (`asn1/`) | AsnTypes, Ber, BerStream | a decoder that is restarted at any octet | decoding is the inverse of encoding, however the octets arrive |
| Hand-written codec (`ber_encoder.c`, `ber_decode.c`, `mms_value.c`, ...) | BerCoder, MmsData, MmsValues, MmsStructures | lengths and integers at their limits; sizes computed before encoding | the sizes are right; values survive |
| Requests and answers of the client | MmsRequests, MmsCalls, MmsResponses | two codecs meet in one message | the answer means what the server said |
| Server services, device, value cache, reports | MmsServices, MmsDevice, MmsReports | lookup along components and indices, full PDUs, limits of data sets | the call returns what the device holds |
| Dissector (`packet-mms.c`) | MmsGrammar, Dissector | a third reading of the same octets | it accepts what the library sends |

How the parts interact. In Go, `Dial` creates a transport and a client;
`Negotiation` gives both ends their PDU size; `Client` and `Server` are the two
ends of an association; the server's Serve loop calls the services (`NameList`,
`Variables`, `Files`) one request at a time per association, while associations
run concurrently; `Listener` feeds `Server`; list services end in `FitList`. The
Go modules share no variables. Where one needs another it keeps what that one
guarantees: `Files` counts an answer only while its request is pending, which
`Client` establishes, and handles one request at a time, as `Server` does. In
C, `MmsExchange` composes the client's encoder, the server's decoder, the
services on the device, the answer's encoder and the client's decoder; the
same octets go through the generated decoder and the dissector.

## Modules

Every action is the code between two points where another goroutine or thread
can be noticed (a mutex, a channel, a semaphore, the transport, a callback). A
definition that ends in `_Mutant` is the next definition with a plausible
mistake; nothing uses it except the experiment of putting it in the place of
the original, which must break a property.

**Client** — one association of the client. Each call has a control point in
`doConfirmed` (`pc`) and its detached write goroutine (`wpc`, with the
compare-and-swap `state`). `pending` is the tracker's map; `readerHeld` and
`closerHeld` are entries taken from it under the lock and not yet sent to, the
window between unlocking and sending in `Complete` and `CancelAll`. The peer
answers each request it received at most once, in any order, may send reports
and unusable PDUs, stall any write for ever and drop the link.

**Server** — `Serve` per connection (`sp`), `Shutdown` with one aborting
goroutine per association (`g`), `Abort` by the application, `Broadcast` with
its snapshot and the detached writes of `SendUnconfirmed`, the cancellation of
`ListenAndServe`. `Ops` selects what the application does.

**Listener** — the accept loop (`lp`), one handshake goroutine per connection
(`cp`) with its timer and the deadline of its connection, and the loop of
`ListenAndServe` (`ap`), against `Shutdown`, `Close` and cancellation. Whether
there is a handshake timeout (`timeout`) is chosen in `Init`.

**Dial** — `Retry` around the stages of `dialOnce` and `newClient`. The policy
is a variable chosen in `Init`, so one run covers all edges of the defaults.

**Negotiation** — the options of both sides, the Initiate exchange, and the
three size checks. Another server implementation may answer anything.

**NameList** — the lists of one scope, in the registry or of one client's own
association (`scope`, chosen in `Init`). `heap` holds the arrays the index has
had, because Go slices share them: `InsertSorted` reallocates only when the
array is full and `removeFromSorted` moves elements in place. A page is a slice
that is cut under the lock and encoded after it; `torn` records that the index
changed in between. `stable` and `seen` are what the properties compare an
enumeration with: the names defined all the time, and at some time.

**AltAccess**, **Variables** — selection and patching along selectors, as
operators; Read and Write handlers on several associations, item by item, with
partial writes. A callback has a beginning and a return, so that callbacks
overlap as they do in the code. The application of the model keeps values in
memory and may refuse.

**Files** — `DownloadFile` calls, the request queue, the table of open files
and the provider of the application.

**FitList**, **LongestPrefix** — the bisection, and what it promises as an
abstract specification; `FitList!Implements` is the refinement (the mapping is
the identity on the arguments and the answer).

**MmsConnection** — the C client. `call` is where each calling thread is and
what its handler has been given, `table` the array of outstanding calls, `tick`
the place of the connection thread inside `handleConnection`, `owner` the
application thread that connects, concludes, aborts and closes. `buffer` counts
the semaphore of the one transmit buffer. `broken` records two things the code
never repairs: a path that returned without releasing the buffer ("buffer"),
and a conclude handler that ran before its parameter was set ("parameter");
the properties that need it say so.

**AsnTypes**, **Ber**, **BerStream** — the descriptors of the generated types
as data, the DER encoder and the BER decoder that runs over them, and the
decoder given its octets in pieces.

**BerCoder**, **MmsData**, **MmsValues**, **MmsStructures** — the hand-written
BER helpers; MmsValue and its codecs.

**MmsDevice**, **MmsServices**, **MmsReports** — the data model with its value
cache, every service that is compiled in and enabled, and information reports.

**MmsRequests**, **MmsCalls**, **MmsResponses**, **MmsExchange** — what the
client writes, which calls there are, what it makes of the answers, and a call
from its beginning to its return, with changes of the device in between.

**MmsGrammar**, **Dissector** — the dissector's tables, and what the BER
functions of Wireshark (external) do with them.

**MCClient**, **MCServer**, **MCSession**, **MCServices**, **MCVariables**,
**MCBer**, **MCExchange**, **MCMmsConnection** — instances for TLC. `MCClient`
and `MCServer` add a `plan`, chosen at the start, that says which operations a
behaviour has. `MCSession` (dial, negotiation, variables, broadcast) and
`MCServices` (fitlist, names, files, listener) check several modules in one run:
`part`, chosen in `Init`, says which module moves; the others rest.

**ClientProofs**, **ServerProofs**, **SessionProofs** (Dial, Negotiation,
Listener), **NameListProofs**, **ServiceProofs** (FitList, Variables, AltAccess),
**FilesProofs**, **MmsConnectionProofs**, **Induction** — see Proofs.

## Runs

| Run | Instance | Shows |
|---|---|---|
| `client_ends` | 2 calls sharing 1 invoke ID, Close | exclusive writes; one delivery per call; abandoned requests are not written; neither an answer nor the conclude response is lost when the reader exits |
| `client_live` | 2 calls, 2 IDs, nobody ends the association; and 1 call, Close or Abort | answers match; a call returns when its context ends, the link is lost or the association is ended; Close and Abort return |
| `server_serve` | 1 connection, 1 request, Shutdown, Abort, a report, cancellation | exclusive writes; Shutdown aborts no running handler and leaves nothing serving; Shutdown, the report and Serve end with stuck handlers and stalled peers |
| `session` | 72 policies with and without TLS; sizes and counts below, at and above the floors; 2 associations on a structure with an array and a nested structure, written whole and in part, also with values of another shape; a broadcast to 2 connections | no connection leaks and the policy is kept; the ends agree and answers fit; results are true and nothing else changes; only a write that is not checked takes a part away; a broadcast reaches every live association |
| `services` | lists up to 5; 3 names, 2 clients, 1 name a page; 2 downloads of 2 chunks; 2 connections on 1 slot | refinement of LongestPrefix; the index equals the map and an enumeration is complete; exact downloads, files tracked and closed once; slots counted, no late deadline; and what must end does |
| `ber` | every kind of PDU, in pieces of up to 4 octets and the rest at once | the decoder asks for more exactly until it has all; round trip; the dissector reads it |
| `cclient_pair` | 2 callers, 1 slot | the transmit buffer has one holder; no handler is left behind; answers match |
| `cclient_live` | 1 caller, 2 requests | calls, connect, conclude, abort and close return, but for the two cases below |
| `exchange` | every service call, 1 change of the device, invoke IDs across 127, messages of at most 30, 55 and 300 octets; values without room, variables without a value, names and bit strings of awkward lengths | what a call returns is what the device holds; replies fit; the dissector accepts the frames; reports arrive |
| `retry_error`, `read_overlap`, `element_write` | as `session`, `exchange` | three sentences of the repository that the code does not keep (below) |

### Findings

- `retry_error`: a comment of `Retry` (`src/retry.go:127`) says that the last
  error is joined with the error of the context. When the context ends as the
  timer of a wait fires, `Retry` returns the error of the context alone.
- `read_overlap`: `src/OWNERSHIP.md:51` says that the server ensures no
  concurrent mutation during the read handler call; `dispatch` holds `s.mu` for
  reading only, so a write of one association runs while the read handler of
  another is in progress.
- `element_write`: `MmsValueCache_lookupValueEx` finds the whole array for an
  element, the update of an array with the value of an element is refused, and
  `mmsServer_setValueEx` ignores that: the write is reported as a success.

### Other places where the words and the code differ

The models follow the code, and the properties state what does hold:

- `Close` with an ended context waits for `sendMu` behind a request write that
  is stalled. `CloseReturns` excepts a write that is stalled for ever.
- A request whose write is stalled outlives the end of the association; its
  call returns by its context.
- A call that registers after the `CancelAll` of `Close` may still be answered.
- `Shutdown` waits for handlers, but may abort between the return of a handler
  and the write of its answer. `HandlerFinishes` is about the handler.
- The release response is written without `sendMu`; `WriteMutex` is about the
  writes of the MMS layer.
- A list deleted by another association while a page is encoded shifts the
  array under the page, and a name is missed or comes twice. `ListCovers` and
  `ListExact` except such (`torn`) enumerations.
- `DownloadFile` closes the file with the context that has just ended, so that
  the file stays open until the association ends. `DownloadCloses` excepts it;
  `EndCloses` shows that it is closed then.
- The negotiated size exceeds a proposal below 128.
- A partial write to a range of an array compares the number of elements, not
  their types; one to a structure or an array compares one level only
  (`Type.ShallowCompatible`), and a whole write nothing. So an accepted write can
  take a part of a variable away. `PathsKept` says that nothing else does.
- In C, the two list services return with the transmit buffer when their
  request cannot be encoded (`broken`). `BufferKept` excepts that, and
  `CallReturns` and `OwnerReturns` also a conclude handler without parameter.
- In C, the connection thread clears `concludeHandler` after it has called it,
  so a conclude that is made in between waits for ever (`LostConclude`); and a
  connect whose association was accepted without an initiate response waits as
  long as the link lasts (`UnansweredConnect`). `OwnerReturns` excepts the two.
- In C, the server reports success whether or not the value had room for what
  was written: a number or an octet string that is too long leaves the variable
  as it was, or, inside a structure, half of it (`Landed`). A write of a list's
  member writes the whole variable. `WriteTakes` says what is there afterwards.
- In C, a structure or an array without a whole value adds no result to a read,
  nor does a member of a list whose component does not exist, so that the
  results behind it move up. `ReadTrue` and `ReadManyTrue` name these variables.
- In C, no minimum of the PDU size is kept. The answers to write, identify and
  initiate and errors are never compared with it (`Least`), and a page on which
  no name fits is announced as empty, has all the names, and is not understood
  by the client (`NoPage`). `RepliesFit`, `Framed` and `NamesTrue` except it.
- In C, lengths are miscounted in reports of several variables, in long journal
  requests, for bit strings whose padding octet crosses a length boundary
  (1009 to 1016 bits, 2033 to 2040 bits), and for the length 65535 (`Counted`).
  The client does not decode such a message; `Framed`, `ReadTrue`,
  `ReadManyTrue` and `ReportDelivered` say so.
- The dissector does not know three kinds of value and insists on a field that
  may be absent (`Framed`, `Dissected`).

### Bounds

Two calls are enough for the races in the client, since an entry has one owner
and a write one holder; the third party is the reader or Close. With one ID
for two calls the counter wraps at once, the case that takes 2^32 requests in
the program; with two IDs, two calls are pending at a time. Two connections
suffice for the broadcast, because associations meet only in the registry. Two
connections on one slot let one wait while the other holds it. For these
modules the proofs cover any number. Three names make a first, a middle and a
last element, and one name a page puts a page boundary everywhere; arrays of
the index grow 1, 2, 4 as in Go, so both reallocation and reuse happen. One
client enumerates: enumerations only read, and the other client can change all
that it reads. Two downloads share the table and the queue; two chunks make a
first and a last one. In the C client, two callers and one slot make the table
full and a slot used again. Liveness is checked with one caller, who contends
for the buffer with the owner and the connection thread; that two callers do
not starve each other is not checked, and would rest on the fairness of the
semaphore alone; its caller makes the two kinds of call (`Used`) that differ in
what they do with the buffer and with a list, where `cclient_pair` has all of
them. The exchange crosses invoke ID 127, where its encoding grows by an octet.
Messages of 300 octets hold the answers, of 55 one long name or a few short
ones, and of 30 not even the answer to an initiate request.

`MaxReqs` (server), `MaxNames`, `AttemptBound`, `MaxN`, `MaxSize`, `MaxChanges`,
`MaxPiece`, `MaxCalls`, `MaxRequests` and `MaxConnects` are the named bounds on what is
unbounded in the code. The sizes of `Negotiation` are scaled: floor 4 for 128,
default 7 for 65000. Symmetry is used in `client_ends`, `session` and
`cclient_pair`, which check safety only. In `client_live` the order in which the
two calls begin is fixed in the plan without Close and Abort, where the calls
are alike.

### Fairness

Goroutines run: weak fairness of every step a goroutine can take by itself.
Timers fire. A closed transport makes pending I/O return. `sync.Mutex` does not
starve (Go's mutex hands over to a waiter after 1 ms); as writers are finitely
many, weak fairness of the lock step says that. For the accept loop, strong
fairness says that `net.Listener.Accept` returns a queued connection in spite
of temporary errors in between. Nothing is assumed of peers, of service
handlers (in the server, a handler may run for ever), of when a context ends,
or that anybody calls Close. The handler of unconfirmed PDUs in the client is
assumed to return, as it runs on the reader and the API asks for it.

In the C client, threads run and the clock reaches every time limit (weak
fairness), and a thread that waits for a semaphore or a mutex which is free
again and again gets it (strong fairness).

`Dial`, `NameList`, `Variables`, `Negotiation`, the broadcast of `session`, `Ber`
and `MmsExchange` are checked for safety only, without fairness.

Deadlock is checked in every run of the Go modules; an association that failed
or was lost idles in an action of its own (`Idles`, `Rests`, `Terminated`). The
runs of the C modules may stop: a message has been read, an exchange is over,
the threads have used up their requests.

## Proofs

None of the properties is inductive alone. For every component the proof
module defines an inductive invariant; its parts were model-checked before they
were proved. Each part has a lemma with a step per action, and the theorems
follow from the invariant. What a theorem needs of the constants is an ASSUME of
the component's module or a named hypothesis of the theorem (`DialConstants`,
`ListenConstants`, `VariablesConstants`, `Constants` of NameListProofs); the
instances of the runs meet all of them.

**Induction** has what the proofs about data rest on, `LeastNumber` (a nonempty
set of numbers has a least member) and `SetInduction` (a set with 0 and the
successor of each member is all of Nat). Both speak of a set where the library's
principles have an operator as a parameter. Recursive functions (the delays of Dial, the parts of
a value along a path, the patches) are used through their defining equations,
each shown to have a solution first.

**ClientProofs**, for any set of calls, any `MaxID` and any way to end:
`TypeCorrect`, `WritesExclusive`, `DeliveredOnce`, `AnswersMatch`, `OwnAnswer`,
`AbandonedSkipped`, `EntriesReleased`, `NothingLost`, `WritesSafe`. The invariant
is `TypeOK /\ Control /\ Slots /\ Answers`:

- `Control` ties the control points of a caller, its writer and Close to
  `sendMu`, the compare-and-swap state and `closeRes`; WriteMutex,
  AbandonedNeverWritten and the conclude half of NotLostAtExit follow.
- `Slots` says where the right to send on a response channel is: in the
  tracker, with the reader, with Close, or used. It is needed because
  `Complete` and `CancelAll` send after unlocking. ExactlyOneDelivery and
  NoLeakedEntry follow.
- `Answers` relates an answer under way to the ID it was given for, and
  excludes that a caller who saw the reader exit had been answered;
  AnswerMatches and the other half of NotLostAtExit follow.

Assumptions: calls are not named like the model's markers, `MaxID` is positive,
`Ends` contains only Close and Abort.

**ServerProofs**, for any set of connections, any number of requests and any
operations of the application: `WritesSafe`, `ShutdownSafe`, `BroadcastComplete`.
The invariant is `TypeOK /\ Locks /\ Leaving /\ Reports`:

- `Locks` says that `sendMu` and `busy` are held by exactly those whose control
  points say so; that writes exclude each other and that Shutdown aborts no
  running handler follow.
- `Leaving` follows Shutdown through the registry: once the flag is set nobody
  registers, every registered association has its goroutine, and a goroutine
  exits only when its association is closed. So none is left when Shutdown
  returns, however late it registered.
- `Reports` follows a Broadcast through its snapshot: at most one association is
  being sent to, and all behind it were written, failed or closed.

Assumptions: `MaxReqs` is a natural number, and `Ops` contains only the five
operations of the model.

**SessionProofs**, on dialling, for any policy, with or without TLS:
`ConnectionsKept` and `PolicyHolds`. `DialInv` says at every stage which
connection is open (`Connection`), that the waits so far are the delays that
`Backoff` computes for the attempts so far (`Waits`), and that there is a wait
only after an error that the policy does not give up on (`Limits`). That delays
never shrink is a fact about the loop of `Backoff` (lemma `BackoffGrows`): with
the defaults in place the initial delay and the multiplier are positive, so every
round grows, and the cap at MaxBackoff keeps the order. Hypotheses: the numbers
of a policy are integers of any sign, and the defaults are positive.

On negotiation, for any options and sizes: `EndsAgree`, `ClientUsable`,
`ResponsesFit`, `NegotiatedSafe`. The invariant adds to the properties that what
the server keeps is what it sent and lies within the proposal, so that
`applyNegotiatedParams` takes it unchanged (lemma `AppliedSame`), and that PDUs
are under way only between associated ends. Assumptions: defaults and
`minPDUSize` are positive, and a ServiceError (at most 19 octets as encoded by
`MarshalConfirmedError`) fits `minPDUSize`.

On the listener, for any finite set of connections and any bound on the pending
handshakes: `TransportsSafe`. The invariant says that the semaphore is the
number of handshake goroutines (lemma `HandshakeCount`), which no exit path may
give back twice, and that a connection past its handshake has a stopped timer
and no deadline.

**NameListProofs**, for any number of names and clients and any page size
(names are positive numbers, which have the order of the strings they stand
for): `IndexRight`, `ListsCovered`, `ListsExact`. The first half is about the index:
`InsertSorted` into a full and into a roomy array, and the loop of deletions
that shifts the array in place, keep it sorted, without repetition and equal to
the map; that is an induction over the names deleted. The second half follows an
enumeration:

- `ScopeInv`: the index is sorted and lists the map, in an array that other
  slices may share.
- `PagesInv`: a page, also one cut before the index moved on, lies on names.
- `HistoryInv`: `stable` and `seen` enclose what was defined meanwhile.
- `ListInv`: unless the index moved while a page was encoded (`torn`), what has
  been gathered is every stable name up to the token, and in the registry nothing
  else; so each page continues where the last one ended, also when the token
  has been deleted.

**FilesProofs**, for any finite set of downloads on one association and files
of any positive number of chunks: `FilesAccounted` and `DownloadsExact`. The
invariant follows a request from its call to the file it is about:

- `QueueInv`: a call has one request under way at most, its latest. A request
  that was abandoned ends its call, except a read, which is followed by a close.
- `HandleInv`: IDs and handles count the files opened, of which there are not
  more than calls that have had their open request handled; an open file is
  one entry of the table; a closed one stays closed.
- `OwnInv`: no two calls are told the same ID.
- `DataInv`: so a call has the chunks up to where its own file has been read.

**ServiceProofs**, on fitList, for lists and encodings of any size: `BoundsKept`
and `FitsLongest`, that `fitList` refines LongestPrefix. The invariant is the bracket
of the bisection: the best prefix ends just below `lo` and fits, all beyond `hi`
are too long. That encodings grow with their prefix is part of LongestPrefix's
initial condition; it is what makes one failed encoding rule out the longer
ones.

On Read and Write, for any associations, names, types, values, paths and
requests: `AnsweredInOrder`, `WritesReadBack`, `WritesKeepOthers`. They are
action properties. `VariablesInv` says that a handler has one fitting result for
every item it is past (`ItemsInv`), that a callback is for an item that has a
variable, and writes a patch that applies (`CallsInv`), and that what was read
for a partial write is still the value when the variable is the association's
own (`OwnInv`), since its requests are handled one at a time. What is left is
about alternate access alone, by induction along a path:

- `ReadsBack`: a patch that applies, selected along its path, is what was
  written. Down to each depth the patched value and the old one take the same
  element, because a patch changes neither the kind nor the length of a container.
- `OthersKeep`: along a path that does not overlap, the selection in the patched
  value is the same as in the old one. Two paths run together as long as they
  can name a common element, by component, index or range, of the type; they part
  where they name different ones, and from there on the part is shared.

Hypotheses (`VariablesConstants`): no association is called "domain", selectors
have natural numbers, and the values written are values. The shape of the
current value is not assumed: the shallow type check lets a write change it.

**MmsConnectionProofs**, for any number of calling threads, any size of the
table and any number of requests: `BufferSafe`, `HandlersSafe`, `AnswersSafe`,
`CallsFound`. The invariant is `TypeOK /\ CallsInv /\ ClosingInv /\ BufferInv`:

- `CallsInv` says that a slot in use and the call it was registered for belong
  together until the handler has run, that no two slots have the same caller,
  and that a call without a result has a slot. The connection thread frees a
  slot only after its handler has run; in between the caller may have returned
  and registered elsewhere, which is why the invariant speaks of the slots that
  nobody is freeing.
- `BufferInv` counts the holders of the transmit buffer. It is an equation on
  the cardinality of a set, and every action takes one holder in or out.
- `ClosingInv` says who runs `handleConnection` when the owner closes.

`CallsFound` is the safety half of `CallReturns`: somebody will find the call.
Assumptions: no caller is named like the other users of the buffer or the
mark of a free slot, the services called are services, and the bounds are
natural numbers.

### Only model-checked

- All liveness, as it needs fairness and ENABLED: CallsEnd, EndReturns,
  ContextsBound, ServicesEnd, SilentPeersDoNotBlock, ClosingEnds, CallReturns,
  OwnerReturns.
- PathsKept, that a part of a variable becomes unreadable only by a write to it
  whose value the server compares with no type, or that lies two levels or more
  above the part. Both cases occur in the run.
- BroadcastReachesAll is `BroadcastComplete` of ServerProofs in the composition
  of `session`; likewise DialKept, ResultsTrue, OthersKept, NamesExact,
  NamesCovered, FilesExact and TransportsInv restate properties that the
  theorems have for the component.
- The C codecs, the services and the exchange (WantsMore, RoundTrip, Dissected,
  ReadTrue, WriteTakes, ReadManyTrue, ListsTrue, NamesTrue, RepliesFit, Framed,
  ReportDelivered): they are recursive operators over trees and octets, some with
  bit operations, which the proof system does not handle.

## Not modelled

- In Go: the codecs of all layers (an undecodable PDU is an event) and the
  headers of session, presentation and ACSE; TPKT and COTP are in go-cotp, of
  which only the use is modelled. Journals, Identify, Status, attribute
  services, file directory, rename, delete, obtain: no state between requests.
  Handlers that call back into the library; a second Shutdown; jitter;
  durations (a timer fires at some time). Authentication is an outcome. Errors,
  metrics, logging, test support and examples have no influence on control.
- Data races on the application's own variables, which are its own matter.
- In C: asynchronous calls of the application, the file and journal services
  (disabled in the server of the model), the layers below MMS and the server's
  threads, the XER and PER runtime, constraints, and object identifiers.
- `stack_config.h` is not in the repository. The model is of a build without
  named variables of VMD scope, with a flat, sorted name space and dynamic data
  sets limited to 10, 10, 10 and 50, and of a server without application
  handlers in which `blockRequests` is never set.
