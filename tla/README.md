# Formal models of da_gis_service

TLA+ modules that model the programs of this repository, TLC runs that check
them on small instances, and TLAPS proofs about each of them for every value of
the constants. Paths below are relative to
the repository; each definition's source lines are in `PROJECT.json` under
`map`, each property's purpose in the comment above it.

## 1. The system

Four programs, which share no state but ports, plus the camera process
(`salmon`), which is not in the repository:

```
 browser --HTTP 8082--> http_server [listener, sessions] -> CAPIHandler -> CUsersData -> jwtoken -> jwt-cpp
                                                         -> files        Url (linked in)
 wxUI    --WebSocket--> websocket_srv [listener, sessions]   (wxUI asks port 8082, see 6)
 salmon  ==shared memory==> main.cpp [readFrame, base64] -> [thrVerifyServer] --TCP 8090--> verification client
 run.sh starts http_server 8082 and websocket_srv 8083; stop.sh kills both
```

| component | state | operations | interacts with |
|---|---|---|---|
| API handler and user storage (`api_handler.*`, `users_storage.*`, `json_web_tokens.cpp`, `json_structs.hpp`) | `mutex_`, `request_context_`; the storage's `mutex_` and each user's vector of tokens | login, logout, info, secret; token check, expiry, access check | called by HTTP sessions from any io thread; the wall clock |
| HTTP server (`httpserver.cpp`) | listener, accept queue, per session: parser, pending response, 30 s timer | accept, read, handle (API, file, HEAD, OPTIONS, refusal), write, close, timeout | clients; the API handler; the files below `doc_root` |
| JSON Web Tokens (`jwt-cpp/jwt.h`, `jwt-cpp/base.h`) | none; builders and verifiers are values | build, sign, decode, verify | `json_web_tokens.cpp`, from the API |
| URLs (`url.cpp`, `url.hpp`) | per object: text, parts, `m_parse`, `m_built` | parse lazily, set, write through references, build, copy, move | `GetParamKey`, which is called by nothing |
| WebSocket server (`websocket_srv/`) | listener; per session: stream, `buffer_` | accept, handshake, read, echo, timeouts | clients, wxUI |
| wxUI (`wxUI/`) | the handler its one session waits for | send, exit | WebSocket server |
| frame reader (`main.cpp` 383-413, 1429-1560) | mapped ring, copied mutexes, `_last_index`, picture | map, read index, copy frame, encode | salmon through shared memory |
| base64 (`base64.c`) | none | encode, decode | frame reader |
| verification server (`main.cpp` 611-880) | `sct_vrf`, `sct_vrf_new`, answer buffers | socket, bind, listen, accept, send, reaccept | one client at a time; kills whatever holds 8082 when 8090 is busy |

What is hard, and the property that has to survive it:

- **API**: threads interleave between the storage's methods, each of which
  releases its mutex; the request context is one object for all of them; equal
  tokens of one second; a clock that moves during a request or is set back;
  exceptions that end the process. A request has to behave as if it took effect
  at one instant, and nobody but a token's holder may end it.
- **HTTP**: pipelined requests, half-closed and reset connections, a timer that
  covers reading, handling and writing, descriptors that run out. Responses keep
  the requests' order, a closing one is the last, an orderly end leaves none
  out; nobody waits for ever.
- **Tokens**: whole seconds against an exact clock, texts cut or changed on the
  way, claims that hide one another, a fill made of letters of the alphabet.
- **URLs**: two forms of one object and two flags that say which is good,
  references that outlive them, calls that throw in the middle, escapes that one
  end writes and the other reads.
- **WebSocket and wxUI**: a read error after which the handler goes on, a buffer
  that outlives its message, clients that vanish, a session run in the UI's
  thread. Echoes are whole messages; dead sessions end; the window comes back.
- **Frame reader**: no working exclusion against the camera. A picture is whole
  unless the camera lapped the reader; answers' times advance.
- **Verification server**: every system call may fail, descriptor numbers are
  reused, a client may stop reading, leave or reset between two calls; answers
  are written into buffers of a fixed size.

The hazards, each at its line, are listed in `PROJECT.json`.

## 2. Modules

| module | models | extends or instantiates |
|---|---|---|
| `ApiTypes` | users, routes, tokens, clock, requests, replies, the token store | |
| `ApiHandler` | `HandleApiRequest` step by step, by any number of threads | `ApiTypes` |
| `SessionService` | abstract: each request takes effect at one instant | `ApiTypes` |
| `ApiHandlerRefinement` | the mapping of the one to the other | `ApiHandler`, instance of `SessionService` |
| `ApiHandlerProofs` | the proofs about the handler, and of the refinement | `ApiHandlerRefinement` |
| `HttpResponse` | `handle_request`: what the answer to a request is | |
| `ConnectionService` | abstract: a connection's requests are done and answered one at a time | |
| `HttpServer`, `HttpServerProofs` | listener and sessions; the proofs | `HttpResponse`, instance of `ConnectionService` |
| `Base64` | both codecs: `base64.c` and jwt-cpp's `base.h` | |
| `JsonWebToken` | jwt-cpp's builder, decoder and verifier; `jwtoken` | `Base64` |
| `TokenTexts` | a token's text on its way, at every instant | `JsonWebToken`, instance of `ApiTypes` |
| `UrlText` | a URL's text: escapes, normal forms, parsing, building | |
| `UrlObject` | `Url` objects under any sequence of calls | `UrlText` |
| `UrlTextProofs`, `UrlObjectProofs` | the proofs about texts, and about objects | `UrlObject` |
| `FrameRelay`, `FrameRelayProofs` | camera process, ring, `readFrame`, `readAndCompress`; the proofs | |
| `VerifyServer`, `VerifyServerProofs` | `thrVerifyServer` and the sockets; the proofs | |
| `AnswerBuffers` | a picture's way into an answer and the sizes of the buffers | `Base64` |
| `TextProofs` | the proofs about base64, the buffers and tokens | `AnswerBuffers`, `TokenTexts` |
| `WebSocketServer` | listener and sessions of websocket_srv and their clients | |
| `UiClient`, `UiClientProofs` | wxUI composed with the WebSocket server; the proofs about both | `WebSocketServer` |
| `MC*` | instances for TLC | one of the above each |

**API.** A thread's `pc` is at a line of `HandleApiRequest` or inside a storage
method; a storage method is a step that takes `usersMutex` (`LockUsers`) and one
that does its work and releases it, and another thread may run in between.
`CreateToken` is apart from `Authenticate` because the code reads the clock for
"iat" and again for "exp". The clock shows a second and whether part of it has
passed, since jwt-cpp compares whole seconds with the exact time. A token is
its claims: two logins of one user in one second get the same text, so
`tokens` counts copies, and a logout takes one. `TokenExist` searches the header
*inside* stored texts; a header that is a piece of a token may be found
(`Piece`), after which `jwt::decode` rejects it or throws, and the exception ends
the process (`Die`). `Stop` and `Start` are stop.sh and run.sh; `MayStop` says
whether an instance has them. Without, every end of the process is a throw.

**Tokens.** `TokenTexts` shows what `ApiHandler` takes for granted about texts:
that `Verify` looks at the dates as `ApiTypes!Valid` says, never throws on a
token of `CreateToken`, and accepts nothing that was cut or changed. A text is a
sequence of bytes, claims are typed values, and the JSON text of an object
(`Serialize`) and HMAC-SHA256 are parameters; the instance gives small ones.
Exceptions are the result "throw". `Base64` holds both codecs, by what they do
with groups of three bytes and with the fill; a signature's last character has
bits that no byte uses, and jwt-cpp does not look at them.

**HTTP.** `HttpServer` has one action per completion handler. `Handle` runs
`handle_request`, whose response `HttpResponse` gives: its status and whether it
keeps the connection, for a target of tokens and the files below `doc_root`. What the API answers is `ApiHandler`'s, here any of its
statuses. Bytes the client has not collected fill a buffer of `SendBuffer`
responses, then the write waits. Closing a socket with unread input resets the
connection. `Expire` may fire whenever the timer is armed; it stays armed from
`do_read` on through handling and writing.

**URLs.** `UrlText` is `url.cpp` without its class: which characters a part may
have, escapes and their decoding, dot segments, host names and addresses, and
`Parts` and `Build`, with `Parses` and `Builds` for what throws. `UrlObject` has an
action per call; `lazy_parse` is part of each call that makes it. An object's
reference from `set_query()` stays in use (`refs`) until the object is cleared
or assigned to.

**Frame service.** `FrameRelay`'s camera fills a slot in three parts and then
publishes its index; the reader copies the two halves and the time in separate
steps. The shared memory of the indices and that of the frames are opened apart,
and one may be missing: reading a frame that is not mapped ends the service
(`FrameMissing`). The mutexes are copies made at the start, so they are either
busy for ever or free for ever. `Mode` is `readAndCompress`'s argument: `thrVerifyServer`
passes `MODE_TIME`, which reaches no branch; the branch that reads is checked
with `VERIFY_TIME`. In `VerifyServer` descriptors are numbers that the kernel
gives out lowest first; the code's two variables keep numbers that are closed.
`bind` may fail for a busy port or for anything else. `getsockopt` clears a
pending error, and a send to a broken connection raises SIGPIPE; a `send` that
waits with a part of the answer taken (`SendPart`) returns that part when the
connection ends, which the code takes for success (`SendCut`). Connections still open at `Exit` may hold port 8090 for a while
(`LingerEnds`). `AnswerBuffers` is what `readAndCompress` does with a picture:
which rows are compressed, and the lengths of its text and of the answer.

**WebSocket.** One action per completion handler of a session. A constructor of
the listener that failed leaves `listening` FALSE: `run()` follows all the same
and nobody is accepted. A failed stream refuses to write (Beast); `on_read` does
not return on an error and tries. `Timeout` is Beast's suggested setting: 30 s
for the handshake, 300 s without a sign of the client, whose pings are seen only
while a read is pending. `UiClient` adds the UI's session: its steps on its own
connections replace the free client.

## 3. Runs

| run | instance | what it shows |
|---|---|---|
| `api_race` | 2 threads, 2 logins of one user, lifetime 0 s, 2 seconds, login, info and logout; fair | own context, admitted tokens stay stored, copies added and revoked one by one, **refinement of `SessionService`**, waiting requests progress as a group |
| `api_requests` | 2 threads, every path, body and header form, 1 login | no `Stop`: the proofs' inductive invariant (types, lock nesting, what each step relies on; `ok` replies are due), and the process ends only by a body of wrong types or a piece of a stored token |
| `http_sessions` | 2 clients with 2 requests each of different kinds, 1 thread, 1 descriptor; fair | **refinement of `ConnectionService`** (order, one at a time), closing request last, graceful end answers all, the backlog is served, a write ends |
| `token_texts` | names of up to 3 bytes of 2 values, lifetime 1 s, 2 seconds, 10 foreign tokens, 8 verifiers | tokens verify exactly between their dates, cut or changed texts are refused, a stricter verifier accepts less, both codecs give back their bytes |
| `url_objects` | 2 objects, 4 texts, 13 setter calls, 4 calls | `str()` is current, texts read back, normal forms, a failed call changes nothing, copies and moves stand for their original |
| `frame_answers` | ring of 3, 10 frames; fair | torn pictures only when lapped, times advance, new frames shown, an answer without a time has the old picture, rounds go on |
| `verify_sockets` | 3 clients, 3 descriptors, backlog 2; fair | no descriptor leaks or aliases, late clients are not served, never stuck |
| `ui_echo` | wxUI and one free client, 2 messages, both ports, a listener that may have failed; fair | faithful echoes, gone clients dropped, the UI always returns |
| `api_settings`, `frame_mode`, `verify_port`, `url_zero` | small | violations, see 6 |

Why these bounds: two threads give every pair of requests that interfere (only
one is ever inside the handler); a lifetime of 0 or 1 second makes a token
valid, just expiring and expired within two clock seconds, and two logins make
equal and different tokens; in `http_sessions` a second request is pipelined
behind the first, one client asks for the API (which may end the process) and
then for a closing HEAD, the other for OPTIONS, a directory or bytes that are no
request, and with one descriptor each waits for the other's session. Names of
0 to 3 bytes meet every fill, and 0 and 251 the lowest and the url-specific
letters of the alphabet. Four URL calls are a text, a setter, a copy
and a `str()`, or a reference, a `str()`, a write and a `str()`; the texts and
setters hold one case of each normal form and of each throw. A ring of 3
and 10 frames lets the camera lap the reader more than twice, also by exactly the
ring's length; three clients are one served, one queued, one late or refused; with
two messages the second finds what the first left in the buffer. Each property
has a mutant, a plausible bug written beside the definition as *Faulty variant*,
that violates it within the same bounds.

`CHECK_DEADLOCK` is off where the instance really stops: `FrameRelay` when the
service is dead and the camera has taken its last frame, `UiClient` when the
window is closed and every client is gone, `UrlObject` after its last call.

## 4. Fairness

- `ApiHandler`: weak fairness of each thread's steps. Taking the lock has no
  strong fairness, as `std::mutex` promises no order; progress is therefore stated for
  the group (`SomeRequestAnswered`), and no single request is promised a reply.
- `HttpServer`: weak fairness of `Accept` and `AcceptAgain`, of each session's
  handlers (a session never has two that could run) and of its timer;
  `ioc.run()` runs ready handlers from a queue, and time passes. Clients owe
  nothing, and nobody starts the process again.
- `WebSocketServer`: the same for its sessions and their timeouts.
- `FrameRelay`: weak fairness of the service only; the camera may stop anywhere.
- `VerifyServer`: weak fairness of the thread and of the port's release, strong
  fairness of `Socket`, `Bind` and `Listen`: a call that is repeated does not fail every
  time. Not of `Send`: a client that stops reading holds the thread for ever,
  and `NeverStuck` counts it as served.
- `UiClient`: weak fairness of the UI's handlers and timers; nobody has to press
  the button. The connection is local, so the UI's own peer does not vanish.
- `UrlObject` and `TokenTexts` have no liveness properties: their operations are
  calls that return.

## 5. What is proved

Each theorem holds for every value of the constants that satisfies the named
assumptions of the modules it is about: any number of threads, connections,
clients, descriptors, frames, calls, any ring length and any token lifetime. The
assumptions are that bounds are naturals, that names of processes are not names
of states, and what the text below adds. Each component has an inductive
invariant, one lemma per action that shows its preservation, and the properties
as consequences. Where a property of a run is proved it is named in brackets.

**HTTP API** (`ApiHandlerProofs`)

- `Invariance` [`InductiveInv`]: the conjunction of types, lock nesting, `Stages`,
  `OwnContext`, `AdmittedStillStored` and `AnswersJustified`. None of the last
  three is inductive alone: that an admitted token is still stored needs that
  only the mutex's owner erases (`LocksNest`) and that the token was found
  (`Stages`); that a route method sees its own context needs both locks and
  stages. `Stages` says which checks each point of the handler implies.
- `TypeCorrect`, `LockOrder`, `ContextIsOwn` [`OwnContext`], `CheckedTokenStays`
  [`AdmittedStillStored`], `OnlyEntitledServed` (`AnswersJustified`): its parts.
- `OnlyHolderRevokes` [`RevokedByHolder`], an action property.
- `LoginsAddCopies` [`GrantedCopies`], an action property of two parts: the step
  that grants a token, received before or not, adds one copy of it, while no step
  adds any other (`LoginAdds`); and of a token nobody has received yet the store
  has after every step as many copies as there are replies under way with it
  (`CopiesUnderWay`). The second is inductive with `PresentedHeld` (a token that is
  presented was received by somebody, so that nobody erases one that is on its
  way) and with the finiteness of the set counted; the set of threads need not be
  finite.
- `OnlyFoundTextsEnd` [`OnlyFoundTextsThrow`], an action property: if nobody stops
  the process, it ends only by a login whose body has the wrong types, or by
  `jwt::decode` of a piece of a stored token that `TokenExist` found.
- `Implementation` [`ServiceImplemented`]: the refinement. A request takes effect
  when its login's token is stored, when `TokenExist` misses, or when `Verify`
  reads the clock; `GoodTokens` takes away the copy that a settled request will
  erase later. Each action is one abstract step or a stutter.

**HTTP server** (`HttpServerProofs`): `TypeCorrect` [`TypeOK`], `AnsweredInOrder`,
`NothingAfterClose` [`CloseIsLast`], `EndedInFull` [`GracefulEnd`], `Implementation` [`ServedInTurn`].
`InOrder` is not inductive: how many requests were
handled and written says nothing without how many were read. `InStage` ties the
three counts to what the session does, `CloseEnds` says that a request to close
that was read is the last one, and `BacklogFresh` that a client in the backlog has
no session, so that `Accept` starts a new one. From the responses the proof
needs that each keeps the connection exactly if the request did not ask to close
it (`ResponsesFollowRequest`).
`Implementation` is the refinement of `ConnectionService`, which knows nothing of
reads, buffers, timers or threads: `Handle` is the moment a request is done,
`OnWrite` the moment it is answered, an orderly end of the session `Finish` or that
last `Answer`, an error `Lose`, and the end of the process loses every connection
at once. Accepting, reading, the timer's firing and what a client
collects are stutters. It needs one more invariant, `ReadsRequests`: bytes
that are no request are never taken for one. What a client can see of
`InOrder` is part of it, so no run checks `InOrder` on its own.

**Verification server** (`VerifyServerProofs`): `TypeCorrect` [`TypeOK`],
`NoDescriptorLost` [`DescriptorsOwned`], `OneClientAListener` [`LateNeverServed`].
The heart is `OneIsTheSocket`: the kernel gives out the lowest free number and
`reacceptVerify` leaves nothing open, therefore the socket is descriptor 1 whenever there is
one and a connection never is, whatever stale numbers the two variables hold.
`LateWait`: who is late is in the queue, which is dropped with the listener.

**Frame reader** (`FrameRelayProofs`): `TypeCorrect` [`TypeOK`], `RingProtects`
[`TornOnlyWhenLapped`], `TimesDoAdvance` [`TimesAdvance`],
`UntimedAnswersAreOld` [`UntimedIsOld`], `NewFrameDoesShow`
[`NewFrameShown`; for `Mode = "VERIFY_TIME"`, the branch that reads, see 2].
`RingKept` says what each part of each slot may hold at each point of the
camera; `Wanted`, `Untorn` and `Times` what the reader knows, `OldPicture` what picture it
keeps when a round brings none. All rest on one
fact about the ring (`SameSlot`): two frames in one slot are the same or at
least N apart.

**WebSocket and wxUI** (`UiClientProofs`): `TypeCorrect` [`TypeUi`], `EchoesFaithful`
[`EchoFaithful`], `EchoIsShown` [`EchoShown`]. `InStage` says what `buffer_` holds: nothing
between two messages, the one that is echoed while the stream is good, and
anything only on a stream that has failed, where Beast refuses to write.
`OwnConnection` says that a press of the button has a connection to itself,
which only a timeout or a failed stream cuts off.

**URLs** (`UrlTextProofs`, `UrlObjectProofs`)

- `AnswersFromParts` [`StrIsCurrent`], and the action properties
  `ThrowingKeepsParts` [`FailedCallKeeps`] and `AssignedStandsFor`
  [`AssignedAlike`], whatever the functions of `UrlText` make of a text. The
  invariant says that no text but that of a cleared object is ever marked as
  built (`WellMade`: `build_url` does not mark the one it makes, which is why the
  reference of `set_query()` does no harm) and that references point to
  parsed objects.
- `NormalFormsKept` [`NormalForms`]: no dot segment, no empty segment but the last
  and no capital in a name, for all texts and all arguments of setters. Its
  invariant (`PartsInNormalForm`) is that every object's parts are so whenever
  they are good. What it needs of texts of any length: `Fields` takes apart what
  `Joined` puts together (`FieldsOfJoined`), so that a path written from segments
  has these segments and no others; `normalize_path` keeps no dots and no
  empty segment on its stack (`SegmentsOrdered`, `PathOrderly`) and runs after
  `decode`, so that escaped dots are seen; `to_lower` leaves no capitals
  (`NoCapitals`).
- What one end escapes the other restores, for every text: `EscapesUndone` for
  `encode` and `decode` under every mask without "%", `QueryUndone` for keys and
  values with their blanks and "+" (`encode_query`, `decode_plus`); `PathStays`: an
  orderly path, and so any that was normalized before, is left as it is. By
  induction on the text (`Appendwise`), with `DecodeEscape` for one escape.
- `ReadBack`: for parts that are `Sound`, that `Build` can write (`Builds`) and a
  text can carry (`Carried`, see 6), `Parts` of the text that `Build` writes
  are these parts, but for a port that is the scheme's own. Each part is written
  so that the character that ends it is not in it, and does not begin what
  follows: `SchemeBack`, `AuthorityBack`, `UserCut`, `HostBack`, `RearBack` and
  `QueryBack` say so of one part each, `CutClean` of any cut. A URL
  without a host has nothing before its path but the scheme, so the path must
  not be taken for an authority or a scheme: an orderly path does not begin with
  "//" (`NoDoubleSlash`), and one with a ":" in its first segment `build_url`
  refuses (`BarePath`).
- `AddressStays`: what `normalize_IPv6` writes of an address it leaves as it is,
  if it is an address. By the run of zeros that is left out (`ZeroRunIs`): the
  tokens that are written are the numbers with one gap (`Gapped`), and what reads
  them fills that gap with as many zeros (`GappedRead`).
- `PartsStaySound`, `ObjectsTyped` [`TypeOK`], `TextsReadBack` [`RoundTrip`]: every
  object's parts are `Sound` at every moment, also while they are not the good
  form of the URL, therefore typed, and whatever `str()` says is read back. What
  `parse_url` takes needs two more facts: no cut makes an escape of a text that
  had none there, so that `decode` makes characters of each piece (`PartsSpell`,
  `PiecesFit`), and the normal form of a host is one that stays as it is when it is
  read again (`NormalHostSound`, by `AddressStays`).

**Base64 and buffers** (`TextProofs`)

- `Base64Back`: the decoder of `base64.c` gives back what its encoder was given, for
  every sequence of bytes; `EncodeBack`: so does jwt-cpp's, for base64url with its
  fill. By induction on the number of whole groups (`Induct`, from the
  well-foundedness of < on the naturals), with `GroupRoundTrip` for one group and
  the three cases of the fill.
- `LengthKept`: for every length `Base64decode` returns that length and has room
  for it.
- `PictureBound`: a picture fits `left_b64` or `right_b64` if and only if it has at
  most 537597 bytes, a bound `readAndCompress` never compares with anything;
  `AnswerFits`: if both fit, the answer fits `send_json`, so of the three buffers
  only the first two can overflow; `StripLeftOut`: `jpegProc` compresses the rows
  of the camera's picture and none of the strip that `savePassage` draws below.

**Tokens** (`TextProofs`)

- `TokenTextsTypeOK` [`TypeOK`] and `VerifiedAsPromised` [`VerifyAsPromised`]: a text
  that `CreateToken` made is read by `Verify` without a throw and accepted exactly
  between its two dates, for every user, lifetime, second and instant. The
  invariant (`TokenTextsTyped`) adds to the types that the token at hand is the
  text of its user and dates (`MadeAsDated`); the step from there is that a
  signed text, cut at its dots, decodes to the header and claims it was made of,
  by `EncodeBack`, and that its signature is that of its first two pieces.
- `CodecsGiveBack` [`CodecsAgree`]: both codecs give back every name.
- `AcceptedMeetsAll`: `verify` accepts exactly the texts that pass each check;
  `DatesDecide`: for a text with the claims of `CreateToken` and a good signature,
  its verdict is `ApiTypes!Valid` of the two dates.
- `StricterIsStricter` [`StricterRefusesMore`], from `AcceptedMeetsAll` and the
  monotony of each check; for leeways that are naturals (`size_t` in the code)
  and audiences given as sets, as `with_audience` makes them.
- `SigningAssumption` is what they need of the parameters: the objects that are
  signed are among those `Serialize` is given for, and texts and signatures
  are byte strings, as picojson's and OpenSSL's results are. Nothing is
  assumed of the signatures beyond that.

What attempts to prove turned up in the models: `VerifyServer` allowed a client
with the name of the state "none", and `UrlObject` allowed calls of a setter it
does not have; both are assumptions now (`VerifyAssumption`,
`ObjectAssumption`). What a leeway and an audience may be, that a
date in a JSON object is an integer, and what signing gives, are assumptions of
`TokenTexts` and `JsonWebToken`. `UrlObject` says now that its texts and arguments
are of the model's characters, their escapes included, the versions it is
given at most 127 and what is written through a reference a list of entries; the
cases of `IPLiteral` overlapped. `RoundTrip` was false of hosts and versions no run has: a host
"v0" with only digits and dots is read again as an IPv4 address, and a version
of two digits is not read at all; `Carried` leaves both out and says so.

Only model-checked:

- liveness, which is out of the prover's reach: `SomeRequestAnswered`,
  `BacklogServed`, `RequestSettled`, `RoundsGoOn`, `NeverStuck`, `UiReturns`,
  `GoneClientDropped`;
- `ChangeRefused`, which is not true of every function in the place of HMAC-SHA256.

## 6. Disagreements found

Shown by a run:

- `api_settings`: api.txt:26-28 describes GET `api/settings` and both users have
  the route, but there is no method: 400 "Method not found".
- `frame_mode`: `mode` is set to `MODE_VERIFY::MODE_TIME` (main.cpp:648), which no
  branch of `readAndCompress` tests; the shared memory is never read.
- `verify_port`: when port 8090 is busy, main.cpp:707 kills what listens on
  8082, which is http_server, and 8090 stays busy.
- `url_zero`: an address of eight zero fields other than "::" is normalized to
  ":" (url.cpp:354), which is no address and which the class itself refuses to read.

In the models, and held by no text of the repository to be otherwise:

- wxUI connects to 8082 (wxMain.cpp:58); run.sh:13 starts websocket_srv on 8083,
  and 8082 is http_server, which declines the handshake. `EchoShown` is
  therefore about a websocket_srv that listens on the port wxUI names.
- `savePassage` (main.cpp:1581) draws a strip with the time below each picture and
  `jpegProc` (main.cpp:1397) is told the height without it: no answer ever
  shows the time (`StripLeftOut`).
- The response to OPTIONS declares a length of 0 and has two bytes, and the page
  that refuses a HEAD is sent whole: both put a kept-alive client out of step
  (read in the code; lengths are not modelled). GET of a directory ends the session without a response,
  while HEAD of it is answered with 200 (`Writable`).
- A token whose signature's last character differs only in bits that no byte
  uses is accepted by jwt-cpp (`ChangeRefused` says so); `TokenExist` compares
  texts and finds no such token.
- `Url`: `is_uint` adds a digit to 32 bits before it compares, so port
  4294967376 is taken; `host("cafe")` is refused by the setter though a text may
  have it; "urn:isbn:1" parses but `str()` throws, as it does for an entry
  without a key ("?a&"); what follows "]" in a text is dropped; a user that needs
  escapes makes a text that does not parse; the hosts [v4.x], [v0.x] and [v6.x]
  get the version of something else, and a version of two digits is refused; a
  reference from `set_query()` written through after `clear()` is not seen.
  `Carried` leaves the ones that do not read back out of `RoundTrip`.

## 7. Abstractions and what is not modelled

- The API's replies keep status, user and token; their text does not matter. Of
  an HTTP response the type, the declared length and the body are left out; a
  target is a sequence of tokens, of which `ApiNames` are those that begin with
  "api", as the code looks at a prefix only.
- Tokens that are never presented stay in the vector for ever; the model caps
  logins (`MaxLogins`), so the growth itself is not shown.
- Memory order between camera and service is taken as that of x86: stores are
  seen in order. The camera is modelled from how the service reads its memory.
- websocket_srv's end of the process is not modelled: it has no state that would
  outlive it.
- Of jwt-cpp, the algorithms other than HS256, keys and certificates are used by
  nothing here; picojson is the parameter `Serialize` with its inverse. A text that
  `Serialize` gives for no object makes `jwt::decode` throw in the model, though
  picojson parses other objects too: such a token is refused by the signature
  there, by the throw here, and accepted by neither (`ChangeRefused`).
- URL texts and what their escapes stand for are printable characters; the
  limits of length (8000, 256, 253) are left out, and so are IPv6 literals on which `normalize_IPv6` reads or
  writes past its fields (`Defined` keeps them out: their outcome is undefined).
- Not modelled: the libwebsockets broadcast (main.cpp:883-1358), started by
  nothing; positioning by comparison of pictures (numeric, OpenCV);
  `parse_settings`, `save_settings` and the reading of NMEA sentences, which nothing
  calls; the JPEG library; certificates (unused).
- `run.sh` and `stop.sh` are modelled as far as they start and kill processes.

## 8. Plan

Done, in order: API handler with its abstract service and proofs, HTTP server,
frame service, WebSocket server with wxUI, URLs, tokens and base64, responses,
answer buffers, the proofs of each component's safety. Next, most important
first:

1. `HttpServer` composed with `SessionService`: a login whose reply is lost
   leaves a token that nobody knows; `FrameRelay` composed with
   `VerifyServer`: which frame a stalled client is sent.
