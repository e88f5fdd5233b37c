# A TLA+ model of the httpd test modules

This directory models the C modules under `c-modules/`: small Apache modules that an HTTP
test suite loads into a server to exercise its filters, its body reading, its output path
and its connection hooks. The rest of the repository is Perl tests and fixtures for a server
that is not part of it.

## The system

| Component | State it keeps | Operations | Hard behaviour | What makes it correct |
|---|---|---|---|---|
| `input_body_filter` | `f->ctx->b`, a brigade that outlives a call; the caller's `bb`; per-directory `enabled` | filter call, reversal of a bucket, fixup, response handler, `insert_filter` | failures of the next filter and of a bucket read in the middle of a call, retries | no bucket lost, repeated, reordered, recalled; every call returns |
| `echo_post`, `eat_post`, `echo_post_chunk` | `r->remaining`, `nrd`, `total`, the response written so far | setup, announce, read loop, finish | body cut anywhere, client lost or slow, malformed chunks, trailers, filter in between | the echo is the body; a part of a body never looks complete |
| `test_rwrite`, `test_pass_brigade`, `httpd_test_util.c` | `buff_size`, `remaining`, `total` | parse the query, write loop | int/size_t mixing, a failed write, wrap-around | writes stay in the buffer; output exact; failure reported; loop ends |
| `nntp_like` | per-server `enabled`, the connection's brigade | pre-connection timeout, handshake, welcome, get line, echo | two parties that could wait for each other; stalled and vanished clients | handshake, greeting, echoes in this order; the worker is released |
| `random_chunk` | `total`, `i` | random writes and a total | int/size_t loop bound, failed writes | the total announced is the total sent |
| `test_session` | the session in `r->notes`, per-directory flags | load, save, encode, decode, form handler, config merge | order of callbacks chosen by `mod_session`; decoding in place; grouping of sections | a value set is got by later requests; a session is decoded once; the innermost section decides |
| `client_add_filter`, dispatch: the tests in front of every response handler | `r->handler`, `r->allowed`, the filter chain, headers of the answer | fixups, `insert_filter`, handlers tried one after another | unspecified order of modules; state changed by a handler that then declines; a filter asked for twice | at most one handler answers; a handler that declines leaves nothing behind; one filter for each time it is asked for |
| `authany` | `r->user`; in 2.4 the provider table | a `check_user_id` and an `auth_checker` hook (2.2), two providers (2.4) | order of hooks that all ask to be first; a provider asked before and after authentication | who is asked, who is served, and by what authority |
| `test_apr_uri` | a table of pieces, a buffer sized per row, two counters | put together, parse, compare, count | 256 subsets of each row, empty pieces, delimiters inside pieces | the buffer suffices; a right parser never fails, a wrong one does |
| harness servers (`t/modules/proxy_fcgi.t`, `proxy.t`, `scripts/uds-test.pl`) | sockets, a pipe, child processes | fork, accept, answer, kill, wait | two processes that race and wait for each other | what the byte in the pipe promises; both end with their test |
| `fold`, `list_modules`, `test_ssl`, `test_utilities`, rewrite map program | none | answer a request | — | see dispatch |
| tests, configuration, documents, build files | — | — | — | data for the server under test |

Interaction: the core (external) calls every module through hooks. A POST runs through
`HTTP_IN` (external), then `INPUT_BODY_FILTER` when `insert_filter` added it, then
`ap_get_client_block` (external), then one of the body handlers. A client can ask for the
filter a second time through `client_add_filter`. `nntp_like` replaces HTTP on its virtual
host. The response writers talk to the output filters only.

## Modules

| Module | Models | Composition |
|---|---|---|
| `Buckets` | brigades and buckets as the filter sees them; `Filtered` is a bucket after `reverse_string` | used by the next four |
| `InputBodyFilter` | `input_body_filter_handler`, called again and again | extends `Buckets` |
| `BodyStream` | abstract: what an input filter promises its reader | implemented by `InputBodyFilter` and `FilterChain` |
| `ReverseString` | `reverse_string`, pointer by pointer | justifies `Filtered` |
| `FilterChain` | the filter once or twice in the chain of a request, with `reverse_string` in steps | extends `InputBodyFilter` (the upper filter), instantiates it as `Lower` and `ReverseString` as `Reversal` |
| `PostRequest` | client, core body reading, the filter, the three handlers | instantiates `InputBodyFilter` as `Filter` and takes its actions as steps |
| `Response` | the total, the output that may fail for good, the widths of int and size_t | extended by the next two |
| `WriteLoop` | the two response writers and the query parser | |
| `RandomChunk` | `random_chunk_handler` | |
| `NntpLike` | the connection hooks of `nntp_like` and its client | |
| `GreetingEcho` | abstract: a peer that greets first and then echoes | implemented by `NntpLike` |
| `TestSession` | the session hooks and the form handler, over the requests of one client | implements `SessionStore` |
| `SessionStore` | abstract: a store of values that a client carries along | |
| `DirConfig` | the two directives of `test_session` and their merge | |
| `SessionLocation` | the sections of a location, then its sessions | extends `TestSession`, instantiates `DirConfig` as `Config` |
| `Dispatch` | fixup, `insert_filter` hooks, and which response handler answers | decides what `FilterChain!twice` and `PostRequest!req.handler` stand for |
| `AuthAny` | `mod_authany.c` in its builds for httpd 2.2 and 2.4 | |
| `AprUri` | `test_apr_uri_handler`, `iterate_pieces` | |
| `OneShotServer` | the FastCGI responder and the Unix-domain socket server with the tests that fork them | |
| `MC...` | the inputs of a run | extend the module they check |
| `...Proofs`, `BucketLemmas` | theorems and lemmas | extend the module they are about |

### How state and actions correspond to the code

*InputBodyFilter.* `ctx` is `f->ctx->b`, `bb` the caller's brigade; `src` and `got` are
histories. A call is `Call` (lines 93-98: keep the context, ask the next filter only when
nothing is left), `Fetch` (100-103, which may append *and* fail), then one of `Move` (125-134),
`MoveEos` (113-117), `ReadError` (121-123), `Exhausted` (106, 137) per iteration. The reader
(`Take`, `GiveUp`, another `Call`) is free to retry a failed call with the same brigade.

*FilterChain.* The variables of `InputBodyFilter` are those of the upper filter. Without `twice`
its next filter is `HttpIn`, any filter at all. With it a call that finds `ctx` empty enters the
lower one (`low`, `lpc`, `lrv`), which writes into the brigade it was given: the upper's
`f->ctx->b`, empty at that point; `handed` is its content, and it gets a new name when the call
returns (`Back`). A bucket is read (`ReverseFirst`: copy, set both pointers), reversed (`Swap`) and
replaced (`Pass`).

*PostRequest.* The body is the numbers 1..len, so an echo says where each byte came from.
The client (`SendBytes`, `SendLastChunk`, `CloseEarly`, `SendMalformedChunk`) races with the
request thread. `Readable` is what a blocking read of `HTTP_IN` may return: any non-empty
prefix of what has arrived, at most one buffer, in one bucket or two, EOS behind the last byte
for Content-Length framing and alone for chunked framing. `Unreadable` is a read that gives up.
`Ask`, `Read`, `FilterStep`, `Block`/`BlockFails` are one `ap_get_client_block`; `FilterStep` is any
step of the filter behind `HTTP_IN`, a bucket that cannot be read (`mod_input_body_filter.c:121-123`)
included, which the handler meets as a failed block. `Refuse`,
`NoBody`, `Begin` the code before the loop, `FinishEcho`, `FinishEat`, `FinishChunk` the code
behind it. Responses are abstracted to the length announced, the bytes echoed, the count, how
the response ends (`!!!ERROR!!!`, a total, a trailer or its absence) and the return value.

*WriteLoop.* `size_t` is arithmetic modulo `SizeMod`, `int` holds `IntMod` values; `ToInt` is
the narrowing of `int left = (remaining - total)`, and the comparison `left <= buff_size`
widens again. `Write` is an iteration whose write succeeds, `RwriteFails` one in which
`ap_rwrite` returns -1 and `total += nrd` subtracts one, `PassFails` the error return of
`test_pass_brigade`. Once a write has failed all fail. Any query is taken: where `malloc` of its buffer
gives NULL the `memset` behind it ends the child process (`Parse`), and where buffer and rest are both more
than an int can count `len` is negative and nothing says what the server does with such a write:
`NegativeWrite` is the child's end, `RwriteFails` and `PassFails` a server that refuses it.

*NntpLike.* `pc` walks through `process_connection`; `Pass` waits for room in the socket
buffer, and fails (`CannotPass`) when the client is gone or lets the timeout of
`pre_connection` expire. The client of kind `"test"` is that of `t/protocol/nntp-like.t` (reads
the greeting, then prints a line only after reading the answer to the last); the client of kind
`"any"` sends, reads, closes, stalls, resumes and vanishes at will.

*RandomChunk.* A round of the loop is `PutOne`, `PutNothing` or `PutSegment`, each with a write
that succeeds or fails, together with `++i`. `i` is an int: past `MaxInt` it wraps or, in a
build that keeps it in a wider register, goes on; both are taken. `total` is a `size_t`.

*TestSession.* `notes` is the session in `r->notes`, `jar` the string the client sends as its
query string. `LoadHook`, `TestDecode`, `TestEncode` are the hooks; `Loaded` and
`NotesAfterLoad` what `ap_session_load` (external) makes of them. `SomeLoad` is any load that
`mod_session` runs on its own. `Get`, `Set`, `HandleOther` are the handler, `Save` the save, encode
and save-hook sequence that ends in the response headers, `Respond` the client. A session string
is a prefix, present or not, and the entries it spells. `conf` ranges over the
flags of both modules; with `foreign` the client starts with a string that the decoder refuses.
Forms have at most three pairs and name an entry; one without a name would hand a null pointer to
`mod_session`. A POST may have an empty form. `IsGet` and `IsSet` are the two comparisons of lines 240-243,
bounded by the length of the client's value, so that an action cut short, or empty, counts. What a form *means*
to `SessionStore` is stated apart from them (`Told`, `Meaning`, `Understood`). The client is there to read the answer of a get.

*DirConfig, SessionLocation.* `section` is the section being read, `inner` those of its kind merged
so far, `outer` what the directories gave: the server merges locations among themselves first.
`Open` is the first request: from then on the hooks read what `Effective` was, and the sections,
having done their work, are forgotten.

*Dispatch.* `Fixup` and the two `insert_filter` hooks run first, client_add_filter's with one step of
`client_add_filter_header`, its callback, for each header (`at` is the header it is at), then `Handle` tries the loaded
handlers in any order the core may have given them. `Takes(h)` are the tests at the top of handler
`h`, `Leaves(h)` the marks on the request it has made by the time it declines or answers.

*AuthAny.* `claims` is what the request brings: credentials, a certificate, and what the other
requirement looks at. `phase` says who is asked. `order` is one of the orders in which `apr_hook_sort` may put the `check_user_id` hooks,
given what each asks for. `Access` asks the authorization providers without a user, the hooks
find one, `Authz22` and `Authz24` decide. The core, `mod_ssl`, `mod_auth_basic`,
`mod_authz_core` and the password file are external. httpd 2.2 has no expression `Require env` and no
`All`.

*AprUri.* A string is a sequence of characters, long words being one. `Piece` is one iteration of
`iterate_pieces`: `Input` is what the statements of lines 174-218 stitch together, `Expect` the set
the closure rules make of `u`, `Differs` the comparison; `EndRow` and `AddRow` are the
handler's loop over the table. The parser is the library's (external): as its documentation
has it, or with one of seven mistakes. Two slashes at the start that are not three begin an authority,
and a port that is not a number is an error (`Refuses`). Hosts in brackets, and schemes without `//` behind them, are left out;
no piece of the table has either. The handler takes any number from the request's arguments (321-322):
`Outside` stands for one that is no row, and `PastTable` is what may come of reading it, the end of the
child or a count of anything.

*OneShotServer.* `tpc` walks through the test, `spc` through the server it forks; `conn` is httpd's
connection (external). `world` says what goes wrong: fork, socket, Accept, port, a delay of more than two seconds,
a signal that is not delivered. Nobody looks at what `FCGI::OpenSocket` returned (41), so the child may write its byte
without a socket; whether the library ends the child instead is left open. A test that times out sends TERM (`Kill`)
and exits without waiting; the signal ends the child some time later (`Terminate`), so server and test may be
gone in either order.

Each module also holds *faulty variants* of some actions: small plausible bugs, used to make
sure that each property can fail. They are not part of any specification.

## Runs

| Run | Bounds | What it shows |
|---|---|---|
| `input_body_filter` | bodies of up to 6 buckets, brigades of up to 3, payloads of 0 to 4 bytes, FLUSH and EOS in every place, the filter once and twice | `Conservation`, `Reversed`, `UndoesItself`, `LeftOnlyByFailure`, `EveryCallReturns`, and that the filter implements `BodyStream` |
| `post_request` | bodies of up to 5 bytes, a buffer of 2, four framings | `EchoIsTheBody`, `NoPartialEcho`, `EatenTotalTells`, `TrailerEndsTheBody`, `Answered` |
| `write_loop` | 5-bit size_t, 3-bit int, buffer and `remaining` each over the whole range of size_t, negative numbers and one beyond it, none to three numbers in the query | `LenInBuffer`, `ExactOutput`, `FailureReported`, `Terminates` |
| `nntp_like` | 2 lines, up to 3 sent, 2 lines per socket buffer, with and without SSL, both clients | `HandshakeFirst`, `TestClientServed`, `WorkerReleased`, and that the client sees `GreetingEcho` |
| `random_chunk` | 4-bit size_t, 3-bit int, every count, segments of 1 and 2 bytes, a write failure at any point | `AnnouncedTotal`, `CountOfThings`, `ChunkTerminates` |
| `test_session` | 3 sections; 2 entries, values `""`, `v`, `w`, thirteen forms and the empty one, actions whole, cut short and empty, garbled query strings, an overriding header, all configurations | `InnermostWins`, `LoadedOnce`, `OwnSessionsAreRead`, `DirtyIsChanged`, and that the client sees `SessionStore` |
| `dispatch` | every two hooks loaded, and every three of those that share a location or mark the request; 15 locations and a request without one; GET, POST, PUT; five header lists | `OneOwner`, `NothingLeftBehind`, `AllowIsOrderFree`, `FilterOnceEach` |
| `auth_any` | both builds, every set of four requirements under `Any` and `All`, four names, three passwords, three certificates, every order of hooks | `AskedThenServed`, `CertificateIsEnough`, `OnlyTheAuthenticated` |
| `apr_uri` | 8 rows with every shape of the table, all 256 subsets, the right parser and seven wrong ones, the whole table, each row alone and a row that is not there | `BufferSuffices`, `RoundTrip`, `TableTells` |
| `one_shot_server` | both tests, every combination of what may go wrong | `ReadyMeansListening`, `NothingLeftOver`, `BothEnd` |
| `post_reversed` | as `post_request`, bodies of up to 3 bytes | a counterexample, below |
| `post_chunk_error` | as `post_request`, bodies of up to 3 bytes | a counterexample, below |

`TypeOK` (`ServersTypeOK` in `OneShotServer`) states the types of a module's variables. Where there is a theorem about the module it is
part of it; elsewhere it documents them, and adding it to the module's configuration checks it.

Why the bounds are enough: six buckets let two calls fail and leave buckets behind each
before EOS, also in both filters of a chain; a bucket of four bytes needs two swaps, one of three
has a byte in the middle; a body of five bytes and a buffer of two need three reads, of which each
may be cut in two buckets, fail, or end the body. With size_t two bits wider than int every relation
between `remaining`, `buff_size` and the multiples of 2^int occurs. Three lines and a buffer of
two let the client run ahead of the server until both directions are full. A count goes up to
four times what an int can count, beyond the point where a wrapped counter becomes smaller than it
again, and the bytes beyond what a size_t can. Two entries and two values tell a lost
value from a stale one and from another entry's; requests follow one another without bound. Three
sections are the fewest for which the grouping of the merge matters. A location names one handler,
so two modules meet there at most, and a third is enough to come between them. The table's rows differ in
which pieces are empty and in which hold a delimiter; rows with other words of the same shape are
parsed alike.

`Servable` in `Terminates` is a limit of the code: for a buffer size of 0, or a `remaining`
that an `int` cannot hold as an unsigned number, `len` is 0 at some point and
the loop of lines 45-53 (`test_rwrite`) and 50-75 (`test_pass_brigade`) goes on for ever.
So is a buffer and a `remaining` that are both more than an `int` can count, for which `len` is negative.
`ExactOutput` and `LenInBuffer` hold there too; `LenInBuffer` says for which numbers the length is negative or 0.
Versions of httpd whose `ap_rwrite` answers -1 to a negative length behave as in `RwriteFails`: the first write
fails, `total` wraps around, the loop ends and the answer is an empty 200.

### Fairness

The request thread or worker keeps running its handler: weak fairness of the handler's actions
(`Handler` and `ChainHandler`, `Server`, the loops of `WriteLoop` and `RandomChunk`). In
`OneShotServer` both processes and httpd's connection keep running, and a TERM that was sent and can be
delivered arrives (`Terminate`). No fairness is asked of clients, of callers
of the filter, or of failures, with one exception: `TestClientServed` is about the client of
`t/protocol/nntp-like.t`, which does keep playing its part. That a blocking read or write ends
rests on the socket timeout, `Unreadable` and `CannotPass`: they are enabled only when nothing
can be read or written. In `OneShotServer` an `accept` has no timeout and is assumed to
return only when there is a connection or no socket (`Awake`): `Forsaken` names the worlds in which a connection never comes, and `BothEnd` is about the others.

### Findings

* `post_reversed`: `t/filter/input_body.t:13-19` posts a reversed string and expects the string
  back. The filter reverses bucket by bucket (`mod_input_body_filter.c:106-135`), so the
  expectation holds only while the body arrives in one bucket.
* `post_chunk_error`: `mod_echo_post_chunk.c:58-60` deduces from a negative read that the
  request is in error. A client that closes or is slow gets the same 400.

Met while modelling, without a run of their own:

* `t/modules/session.t:144-145` expects a session that could not be decoded to be writable: a set gives a new session,
  dirty. The code loses the value: `test_session_decode` refuses the string (line 171), and the session
  `test_session_set` writes into (193-202) is held by nobody. The test lists the check under todo (19-21, PR 58171).
  `DirtyIsChanged` is therefore about strings that can be decoded, and takes no side in what happens with the others.
* `t/modules/proxy_fcgi.t:122-123` rejoins the child without a timeout. Where its guess of the port (83-87) is wrong
  the child waits in `accept` (51) and the test in `waitpid` (123), for ever (`Forsaken`).
* `mod_random_chunk.c:176-177` logs "sent N bytes". Failed writes are counted as 1 (line 158) or as
  -1 (line 170), so after a lost client N is not what was sent; `AnnouncedTotal` is about the
  total a client sees.
* A POST whose framing `ap_setup_client_block` refuses is answered by `echo_post` (26-35) and `echo_post_chunk`
  (27-36) with a 200 that is empty and without the error mark: both return 0, which is OK. `NoPartialEcho` says so:
  an answer without mark is for the whole body, or, in this case, for none of it.
* `t/modules/proxy_fcgi.t:41-45` does not look at the socket it opened before it tells its parent that it is ready,
  so the byte promises a socket only where one could be opened (`ReadyMeansListening`).
* `t/modules/proxy.t:109` sleeps two seconds for a server to listen. A server that needs longer is never asked
  again and waits for ever in `accept` (`Forsaken`).
* A number in the query of `test_apr_uri` that is no row is used unchecked (`mod_test_apr_uri.c:321-322`).
* A request that is not a POST to the filter's own location is answered by nobody: the fixup
  renames POSTs only, and the responder expects the new name (`OneOwner`).
* The loops of `WriteLoop` that never end, above (`Servable`).

## Proofs

| Module | Theorems | What they say, for every value of the constants |
|---|---|---|
| `FilterChainProofs` | `TypeCorrect`, `ConservationHolds`, `Refinement` | the filter alone keeps its types, conserves the body, implements `BodyStream` |
| | `LoopInvariant`, `ReverseStringCorrect` | the loop of `reverse_string` alone: its invariant, and the string reversed when it ends |
| | `ChainInvariant`, `ChainConservation`, `ChainRefinement` | the same of one or two filters with the loop inside them |
| | `ReversedHolds`, `FilteredAllTwice`, `UndoesItselfHolds`, `LeftOnlyByFailureHolds` | two filters undo each other; a call that succeeds leaves nothing behind, a failed lower filter excepted |
| | `EveryCallStepCounts`, `CallNeverStuck` | every step brings a call nearer to its return; a call that has not returned waits for `HTTP_IN` or can go on |
| `PostRequestProofs` | `PostInvariant`, `EchoIsTheBodyHolds`, `NoPartialEchoHolds`, `EatenTotalTellsHolds`, `TrailerEndsTheBodyHolds` | the three body handlers, for bodies of any length, any buffer, any cut of the wire |
| | `AskInvariant`, `EveryServerStepCounts`, `ServerNeverStuck` | every step of the request thread brings the answer nearer; until then there is one to take |
| `SessionLocationProofs` | `MergeAssociative`, `MergeInvariant`, `InnermostSectionWins` | the merge of sections alone, for any number of them |
| | `LocationInvariant`, `InnermostWinsHolds`, `LoadedOnceHolds`, `OwnSessionsAreReadHolds`, `DirtyIsChangedHolds`, `SessionRefinement` | a configured location and its sessions, for any names, values, forms and requests |
| `ConnectionProofs` | `TypeCorrect`, `EchoInvariant`, `EchoInOrderHolds`, `HandshakeFirstHolds`, `Refinement` | the hook's invariant, the order of greeting, handshake and echoes, and `GreetingEcho` |
| | `TurnsInvariant`, `EveryLineCounts`, `WorkerNeverStuck`, `NeitherWaitsForGood` | a conversation has at most 4 * MaxLines + 6 steps; a worker whose client is silent can go on; hook and test client never wait for each other |
| | `ServersInvariant`, `HandshakeIsEnough`, `NoServerIsLeft` | the harness servers: when a GET can fail although the byte was read, and what an fcgi test may leave behind |
| | `EveryStepCounts`, `NobodyIsStuck` | no run has more than 19 steps; where a connection comes, somebody can move until both have ended |
| `RequestProofs` | `AuthInvariant`, `AskedThenServedHolds`, `CertificateIsEnoughHolds`, `OnlyTheAuthenticatedHolds` | authentication and authorization in both builds, for any names, passwords and requirements |
| | `DispatchInvariant`, `OneOwnerHolds`, `NothingLeftBehindHolds`, `AllowIsOrderFreeHolds`, `FilterOnceEachHolds` | which module answers and through which filters, for any modules loaded, asked in any order, and any number of headers |
| `ResponseProofs` | `LoopInvariant`, `LenInBufferHolds`, `ExactOutputHolds`, `FailureReportedHolds` | the write loops, for every width of int and size_t |
| | `RoundsInvariant`, `AnnouncedTotalHolds`, `CountOfThingsHolds` | the counter and the total for every width, count and draw |
| | `EveryWriteCounts`, `EveryRoundCounts` | every write, where the request is `Servable`, and every round brings the end nearer |
| `AprUriProofs` | `EveryInputFits`, `NoRoundOverruns`, `EveryReportIsBounded`, `StopsEarlyOpenly` | the buffer holds the URI of any pieces and any subset with its NUL; the counters' bounds; a report that does not say it stopped early covers the table |
| | `EveryUriComesBack`, `RoundTripHolds` | any `Grammatical` pieces, in any combination, come back from the documented parser as they went in; so do the table's |
| | `MistakesAreFound` | each of the seven mistaken parsers has a failure in every report that covers the table, for any characters |
| `BucketLemmas` | lemmas | sequences, brigades, and the bytes of a flattened brigade |

Assumptions on constants: brigades are sequences of buckets with EOS last (`SupplyAssumption`);
the positions of a body are bytes and a buffer holds at least one (`PostAssumption`); there is
an entry to name, `""` is a value, a form names its entry and spells values (`SessionAssumption`);
the greeting is no line of the client, a socket holds at least one line (`NntpAssumption`); an
int has an even number of values and size_t at least twice as many (`WidthAssumption`), the default buffer
fits an int and a query is any sequence of integers (`QueryAssumption`); the delimiters are characters, a scheme
and a port are made of characters that are none (`CharAssumption`); a segment fits a size_t (`RandomChunkAssumption`); guest, bob
and the empty name are names, and the absence of a user is none (`CredentialAssumption`); the modules
loaded are those of this repository, and GET, POST and PUT are methods (`DispatchAssumption`).

### The arguments

*One filter.* `Conservation` is inductive with the types: a step either appends the same
buckets to `src` and `ctx`, or moves the head of `ctx`, filtered, to the end of `bb`, or moves `bb`
to `got`. The refinement follows: by conservation the bucket moved is the one after those
delivered.

*The chain.* A step of the chain is a step of the upper filter, whose next filter is any filter, so
`Conservation` and the refinement carry over; what has to be shown is that the steps inside the
lower filter are among those (`ChainStepIsFilterStep`). That needs `Nesting`, who runs while the other
waits, and `ReversesFirst`, that the string being reversed is the first bucket of the
brigade of whoever runs, with the loop's own invariant (`up + down` is constant). `UndoesItself`
is then arithmetic of sequences: what the lower filter delivered, and the conservation of both
(`LowerConservation`), give the source filtered twice. `LeftOnlyByFailure` needs to know where an
EOS can be (`EosEnds`: nothing follows one in any brigade) and what a filter may hold between
two calls (`LeftOver`).

*POST.* None of the four properties is inductive. They speak of the end of a request, and what makes
them true happened on the wire: `SentInOrder` (the buckets handed over spell the
bytes up to the one taken, of those that arrived), `Conserved` (what the filter received is what it
delivered or holds), `ReadPoints` (which of the brigades can hold anything while the filter is at
which line), `BatchFits` (a read that succeeded yields a buffer's worth at most, and no byte only at
the end), `EosEndsTheBody`, `Counted` (`total` and the echo against the buckets got),
`RemainingTells` (`r->remaining` goes to its last value when the EOS is got, and not
before) and `Stages` (what the handler knows before and after the loop). The reversal permutes the
bytes of a bucket, so lengths do not depend on the filter; that the byte count of a brigade is
the sum of its buckets' is the induction described below.

*Sessions.* `LoadedOnce` speaks of `r->notes` after any number of loads, `OwnSessionsAreRead` of a
string that goes out with one response and comes back with a later request. Their invariant
says which strings can be where: the client holds what it was given or what it started with
(`OwnStrings`), the session in the notes was made by a load from what the request carries
(`MadeByLoad`, `NotesBeforeSave`), its prefix gone once it was decoded; its entries are the
jar's with the form applied (`EntriesOfRequest`), and between requests nothing is kept
(`NothingCarried`). `LocationInv` adds that no request is served before the sections are read. In
the refinement of `SessionStore` a request's effect on the store is the step in which the client
takes the answer; until then every step stutters, and where the flags turn the session off
(`~Works`) all do.

*Sections.* `InnermostWins` needs that a flag not set is off and that "set" means given
(`MergeInv`); regrouping is `MergeAssociative` and the two lemmas on the empty configuration.

*nntp_like.* `EchoInOrder` is not inductive: it needs what `bb` holds at each point of the hook and
that nothing is lost on the wire, which is `EchoInv`; from its first conjuncts the refinement of
`GreetingEcho` follows.

*Writers.* `ExactOutput` needs, for the time after a failed write, that `total` never again
exceeds what went out until it wraps to the largest size_t (`LoopInv`), and `Len1Bounds`, the
arithmetic of the narrowing. `CountOfThings` needs the counter in both of its lives
(`RoundsInv`): equal to the rounds while it is not negative, one turn of an int behind them after
it has wrapped; a wrapped counter, read as a size_t, is past every count before it gets back to 0.

*Who may.* The properties speak of the answer, so that each must be carried through the hooks.
`Turns` says whose turn it is and what it finds: `mod_ssl` ran first, in every order the hooks may
have (`OrderFacts`, from authany's list of predecessors), so that a later hook finds the credentials
`Presented`; whoever comes after authany's hook knows that it had credentials and declined by
requirement; in 2.4 authentication is reached only when asking without a user was in vain
(`Userless`); where authorization begins somebody was `Authenticated`. `AuthzFacts` is what
`mod_authz_core` makes of each set of requirements.

*Who answers.* `OneOwner` follows from what the handlers test (`TakesWhat`, `OneTakes`) and from
`Renamed`, the name the fixup has left. For the marks the invariant is a sum over the handlers
asked so far (`MarksOfAsked`): none of them took the request but the one that answered, so what they
left is GET, from a set that does not depend on the order. `FiltersSoFar` counts the filters against
the headers read so far; the induction over the headers is that of the callback's steps.

*URIs.* `BufferSuffices` is a fact about any pieces: the length of each part is bounded by its share
of the sum of lines 162-171, and the delimiters by the constant added to it. `RoundTrip` needs what
the parser makes of a URI it did not see being put together. `Grammatical` are the pieces that can come back at
all: no delimiter where it would end its piece, a scheme of letters that is not empty, a host without a bracket,
a port of digits, a path that begins with `/` and not with `//`, which without a host before it would be read as
one (`RestIsNoHost`). A first delimiter is behind everything that is free of it (`FirstBehind`), the last `@` before
what has none (`LastAt`), and cutting there gives the parts back (`CutAt`, `CutMiddle`); so host, user,
what is before the path, and path, query and fragment each come back (`HostComesBack`,
`UserComesBack`, `InfoComesBack`, `RestComesBack`). That the subset put together is closed
(`ExpectClosed`: a user needs a host, a password a user, scheme and host each other) makes
the nine parts fall into those groups (`InputParts`). The parser is the model's, as the library's
documentation has it; the rows of the table are grammatical for any characters (`TableIsGrammatical`).

*Mistaken parsers.* A report stops at the second row with failures, so what has to be shown is that
a report that has got past the telling row of a mistake (`TellInv`) has counted something. For each
mistake `TellingRow` names the row and `TellingSubset` a subset of it; the parser with that mistake is computed
on what was put together, and a piece is missing, another, or one too many: an empty piece does not come
back, one with a delimiter inside comes back cut at the wrong one, a path comes back that was not put in.

*Harness servers.* Neither property can be read off the states of one process. `SocketInv` ties the
listening socket to the server's place, `PipeInv` the byte in the pipe to the server having come past its socket
when it wrote it, `ConnInv` httpd's connection to both, `OutcomeInv` the test's answer to
what was on the connection, `SleepInv` the two seconds of the other test to a server that is not late.

*Progress.* A liveness property is here its two halves that are no temporal logic, each
a theorem: a number (or a few, compared from the left) that every step under fairness lowers and that is
never below 0, and that before the goal one of those steps can be taken (in the writers' loops
the next round always can, and has bytes to write; a filter's call may first have to wait for `HTTP_IN`). `CallNearer`: the
stage of a call, then the buckets left in the brigade whose loop runs, then the swaps left for its first
bucket. `Nearer`: what the request thread is owed by the wire, then the stage of a read.
`WritesToGo`: the bytes to come until a write fails, from then on the rounds that take `test_rwrite`'s
total, less one in each, down through zero.
`TalkToGo`: a line is said, read, echoed and heard, hence the 4; `HookToGo` the part of it that is
the hook's. `RoundsToGo` and the ranks of `EveryStepCounts` count down. The guards of
`HookCanMove`, `ServerCanMove`, `CallCanMove` and the like are those of the actions, written out; TLC was asked on
the instances of the runs whether they are ENABLED. Two invariants are for progress alone:
`TurnsInvariant` (the handshake completes once, before the greeting; the test's client has heard as
much as it has said before it says more, and is not left before it has heard everything) and `AskInvariant`
(a read is asked for only when the last one is taken, and a client that is done has sent its whole body).

*Induction over data.* The bytes of a brigade are defined by a fold of the community modules, a
recursive function. `LeastNatural` (every non-empty set of numbers has a least one, from the
library's well-founded induction) gives `Induction` and `AppendInduction`, which speak of a set
instead of a predicate and so can be cited: a set that contains 0 and the successors of its members
contains every number, one that contains the empty sequence and is closed under `Append` every
sequence. With them the recursive function is shown to exist (`FlattenExists`), to satisfy its
equation (`FlattenRec`), and to be additive (`BytesOfConcat`).

### Model-checked only

Every safety invariant and every refinement of the passing runs is proved. What is left to TLC
is liveness as such (`EveryCallReturns`, `Answered`, `TestClientServed`, `WorkerReleased`, `BothEnd`,
`Terminates`, `ChunkTerminates`): the prover does not do ENABLED, so that the step from a rank that falls and a
guard that is open to "eventually", under weak fairness, is not in the proofs. `TestClientServed` and
`WorkerReleased` speak of a client that keeps its part, and of one that stays silent; their
theorems are about the same two.

## Not modelled, and the plan

Left out of the modelled components: logging, the `APACHE1` branches, memory allocation and its
failure, contents of headers; the releases of httpd 2.3 without `AUTHZ_DENIED_NO_USER`; output
filters that `client_add_filter` inserts, which nothing in the modules tells apart; the words of
the URI table beyond their shape; what is written on the connection of a harness server.

Not modelled: what `fold`, `list_modules`, `test_ssl` and `test_utilities` print, straight-line calls into
the server that keep no state (whether they answer, and what they leave on a request, is in `Dispatch`);
the rewrite map program, which answers each line from a table; the tests and
fixtures, requests and expected answers for the server under test; the build.

The plan has nothing left to prove but what "Model-checked only" leaves to TLC.
