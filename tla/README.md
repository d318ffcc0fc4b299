# A verification of the HTTP cache proxy

The program is a multi-threaded HTTP/1.1 proxy: it accepts browsers'
connections, reads one request from each, and serves GET (with a shared LRU
cache of responses), POST and CONNECT. This directory holds TLA+ modules that
model it, TLC configurations that check them on small instances, and theorems
that TLAPS proves for every value of the constants.

Run a check with `tlc -config MCRaces.cfg MCGetHandler.tla`, and the proofs with
`tlapm GetHandler_proofs.tla`; `Cache_proofs` takes some minutes.

## 1. Inventory of the system

`src/docker-deploy/src` is a byte-identical copy of `src/`; line numbers below
refer to `src/`. `run.sh` starts the program once and then sleeps for ever, so a
process that ends stays ended. Nothing is persistent but the log.

| Component | State | Operations | Code |
|---|---|---|---|
| `Cache` | hash map `cache_`, doubly linked list, `mutex_` | `exist`, `find`, `put`, `erase` | `cache.h`, `cache.cpp` |
| `HttpResponse` | no-cache, no-store, private, Etag, Last-Modified, `maxAge`, `expirationTime` | constructor, `ableToCache`, `noExpired` | `HttpResponse.*` |
| GET handling | per thread: the pointer into the cache, the response of its own | `checkGet`, `cacheResponse`, `revalidate`, `processRevalidResponse`, `do_get`, `badGateway` | `proxy.cpp:268-325, 447-595` |
| Response relay | received bytes, copy `bf`, `buffer`, remaining length | `recv_head_partbody`, `get` | `proxy.cpp:151-267` |
| CONNECT tunnel | the two sockets, `fds`/`backup`, `msg` | `connect` | `proxy.cpp:89-149` |
| Accept loop and dispatch | `id`, the vector `sockets`, one thread per connection | `run`, `handleRequest` | `proxy.cpp:329-446` |
| Request parsing | start line, headers, method, host, max-stale | constructors, `getMaxStale` | `HttpParser.*`, `HttpRequest.*` |
| POST handling | a receive buffer, the length still to come | `doPost`, `receiveAll` | `proxy.cpp:597-652` |
| Log file | `logfile` under `mtx`; the static buffers of `gmtime`, `asctime`, `localtime` | `logfile <<`, `request_cur_asctime` | all handlers |
| Socket set-up | none | `init_client_side`, `init_server_side` | `proxy.cpp:5-87` |

**How they interact.** `run` gives every connection a detached thread that runs
`handleRequest`. The threads share four things: the `Cache` (each member function
holds `mutex_` throughout), the log (one mutex, never held across a call that
blocks), the vector `sockets` (no lock) and the static buffers of the C
library's time functions (no lock). `Cache::find` returns a bare pointer: after
the mutex is released the handler goes on using an object that a `put`, an
`erase` or an eviction by another thread may delete. An exception that leaves a
thread's function ends the process and all other requests with it.

**What is hard.** The lifetime of cached responses between handlers; what a
browser is sent when the entry expires, when the origin server fails, or when it
answers only in part; recognising the end of a response from pieces of any size;
parsing loops that move through a text by what a search returned, without a test
for "not found"; a receive buffer read as a C string; a length never initialised;
two directions of a tunnel served by one thread with blocking sends; descriptors
that are never closed; errors that are not caught. There is no timeout and no
retry in the program, and nothing to recover after a crash.

**What makes each part correct.**

- *Cache*: the list and the map agree, evictions follow the least recent use, every
  response is owned once and deleted once.
- *GET handling*: no shared response is private or unstorable, none belongs to
  another line, none is served stale without being asked for, every request is
  answered once, no handler reads a deleted response.
- *Relay*: the browser gets a prefix of the response in order, the cached copy is what
  the browser got, and `get` comes back at the end of the response.
- *Tunnel*: bytes keep their order and their direction in the one buffer, no side is passed
  over, what is written is passed on.
- *Parsing*: every well-formed message is read, into exactly its fields; a part of one is
  not taken for the whole; a lifetime is computed from a date that could be read.
- *POST*: the browser gets the answer in order and whole unless the server or the
  message is to blame, and the handler ends. (The code keeps this but for the last two bytes.)
- *Log*: a line shows its own time.
- *Accept loop*: each connection is numbered, registered and handled; the process
  survives its requests.

PROJECT.json lists every hazard at its line, with the properties that bear on it.

## 2. Modules and their correspondence to the code

    LRUCache  <--implements--  Cache  <-- MCCache  <-- Cache_proofs
       ^
       |
    GetHandler (+ HttpResponse) <-- MCGetHandler, GetHandler_proofs

    Relay  <-- MCRelay, Relay_proofs      PostHandler <-- MCPost, PostHandler_proofs
    Tunnel <-- Tunnel_proofs              LogTime     <-- LogTime_proofs
    Proxy  <-- MCProxy, Proxy_proofs
    HttpParser <-- LastModified <-- MCTexts, LastModified_proofs

A module `X_proofs` holds the theorems about X with their proofs; GetHandler_proofs begins
with those about LRUCache, and LastModified_proofs has those about HttpParser. The arrows
are EXTENDS; Cache has LRUCache as an INSTANCE.

**LRUCache**: what `Cache` promises: `recency`, the cached keys with the most
recently used first, and `holds`, the response of each key. `Put` is the
disjunction of the three cases of `Cache::put` (`Replace`, `Insert`, `Evict`).
`PutDeletes` and `EraseDeletes` name the responses a call deletes: the handlers'
module needs them. Every member function holds `mutex_` from its first statement
to its last, so each is one step.

**Cache**: the same class with its pointers. `cache_`, `key`, `value` and `links`
are the map and the fields of the nodes; `AddToHead`, `RemoveNode`, `MoveToHead`
and `Deleted` are the functions of `cache.h` with their assignments in order.
`live` is the set of responses given to the cache and not deleted since. A
deleted node's address may be returned by a later `new`. `LRU` instantiates
LRUCache with the list read forward as `recency`; `ImplementsLRU` says that every
behaviour of Cache is one of LRUCache.

**HttpResponse**: the constructor as `Parse` of a header set: the lifetime (the
max-age, else a tenth of the document's age rounded towards zero, as the
conversion to `int` does), the flags, and what stays uninitialised (`Absent`).

**GetHandler**: one process per GET request, on an LRUCache. `pc` names the points
at which another thread can interfere: before each call of the cache, each
dereference of a pointer the cache may own, and each blocking call on a socket.
`ptr` is the pointer the handler uses; `deletedBy` records who deleted an object
and how; `answers` is what the browser has been sent. Reading a deleted object is
undefined: the model lets it yield the fields of any object, or end the process
(`WildCrash`). The clock moves at any time up to `MaxTime`. A handler constructs at
most one response, so objects have the names of requests. `DoGet` is the whole of
`get`: the ways it can end are the subject of Relay, and enter as `DoGet`,
`DoGetFails` (ResponseError, caught by `do_get`) and `Abort` (any other exception).

**Relay**: `recv_head_partbody` and `get` over a response whose bytes are positions;
`ResponseShape` says at which positions the texts lie that the code looks for.
Each `recv` returns any number of the bytes that have arrived. `AfterHead` follows
the tests of `recv_head_partbody` and `get` in their order, with the remaining length
in one integer that also serves as the markers -1 and -2. The server sends `cut` of the
response's bytes, any number up to all, and then closes or is silent for ever (`closes`);
the browser may close at any moment, and a `send` to it may then fail or raise SIGPIPE.

**Tunnel**: the `select` loop: `ready` is what `select` left in `fds`, `turn` the socket
the loop is at. `Send` blocks until the receiving side's window has room. The sides
write, read and close at any time. `msg` and `len` are the buffer both directions share: a
byte in it names its writer and its number in what that one wrote, `Filled` is the `memset` and
the `recv` (zero bytes behind what was received), and `Send` passes on what the buffer holds.

**HttpParser**: `parseHeadersAndBody` on texts of four kinds of character, CR, LF, colon and
any other. The two `size_t` positions, `npos` and the sums modulo 2^Width are those of
the code, so that a search that finds nothing sends the loop back to position 1 as it
does there. `Header` is one pass of the loop, with its two exits by `substr` throwing
and by `temp > lastPos`. Well-formed messages are built from a start line, fields and a
body (`Text`), which gives the reference for what the map must hold (`Fields`) and what the
code must keep as the body. A field has a space after its colon or not: the code drops the
character there without looking at it, so that without a space the map has the contents less
their first character. `Body` begins, as in the code, at the empty line and not behind it.

**LastModified** goes on where HttpParser accepts, as `do_get` and `doPost` do: the
constructor of HttpResponse looks Last-Modified up (its name is a text of the model, its
value one of `Dates`) and reads the date word by word into `lm`: for each field of
`struct tm` the word it is from, or `Zero` as in the initialiser. A word is its length, by which
alone the code tells what it is for, and what it is. `Throws` is `stoi` on no number,
`Fails` the code's `fail_tag`, `Left` the `substr` that never drops the last word.
HttpResponse has the same step from the outside: a header set's `lastModified` is the
result of the loop, `Unreadable` when a word has failed.

**PostHandler**: `doPost` with `receiveAll`. The first piece is parsed as a C string
(`StringLength`): it stops at the first zero byte, or runs into what the array held
before (`Remains`). `BodyLength` is what `getBody` hands out of it, from the empty line on, and
`Left` the unsigned subtraction back in an `int`: two bytes less than are missing. Without a
Content-Length its minuend is any int. What the constructors do with a header section
that was cut off is the subject of HttpParser; here they throw, do not end, or find an
end in the old bytes (`ParseCut`). A whole one they may not read either (`ParseWhole`): `parse` says
whether they return, throw (`stoi` on a word of a date) or go round for ever (a
Last-Modified that does not end in GMT), which are the outcomes of LastModified.

**LogTime**: the log lines that show a time. `Steps` is the order in which each of the two
kinds goes through conversion, formatting, mutex and output; a line's name stands for its
time. `asctime` writes, and the stream reads, in two halves, so that mixtures occur.

**Proxy**: `init_server_side`, `run` and `handleRequest`. A `push_back` on `sockets` is two steps (it finds
the end; it writes), so that two threads within it overwrite each other's element
or end the process (`PushCrashes`). Descriptors have numbers, the accept loop's and the handlers'
from one count, as the process never closes one; `raced` is history: what was being appended
while another thread appended. `accept` may fail at any time, for any reason (`AcceptFails`): the -1 is pushed
like a descriptor, then `AcceptThrows` ends the process. So does a thread that the system cannot
start (`SpawnThrows`). A request is a record of what `handleRequest` can tell about it; `parse` is how
HttpParser and HttpRequest end on it, "spins" the endless loop of HttpParser, and `stays` says at
which `recv` its peers keep the handler for ever: the browser that sends nothing, or
the server, or a tunnel left open. `Fatal` says what ends the process at the dispatch, `FitFdSet` being
the room FD_SET needs. Serving is the location "serving" and its end `Serve`; the other modules
have what happens there.

Definitions named `Buggy...` stand beside those they are slips of. They are part of no
specification; putting one in its neighbour's place makes TLC find the property
that PROJECT.json pairs with it violated, which shows that the property depends on
that part of the code.

## 3. Runs

| Run | Module, cfg | Instance | What it shows |
|---|---|---|---|
| `cache_pointers` | MCCache | 4 keys, 4 nodes, 4 responses, capacity 3 | list, map and ownership stay consistent over every sequence of calls with reuse of addresses; evictions follow the least recent use; Cache implements LRUCache |
| `get_races` | MCGetHandler, MCRaces | 3 requests, 2 lines, capacity 1, 3 moments | every interleaving of lookup, replacement, expiry, eviction: `CachedIsServable`, `DanglingNeedsARace`, `AnswerCount`, and the cache's own invariants |
| `get_headers` | MCGetHandler, MCHeaders | 2 requests, 2 lines, 7 kinds of header sets, max-stale 0 and 1, 3 moments | what may be shared and served unasked, and what is never freed; liveness: every request comes to its end and is answered, or its fetch failed |
| `relay` | MCRelay | 9 kinds of response, up to 24 bytes, `recv` of up to 12, any part of them sent, closed after it or not | order, completeness, the copy for the cache, why a relay ends; liveness: that it does when the server closes, or has sent all that it announced |
| `tunnel` | Tunnel | 2 sides, small windows, one buffer | order and direction of the bytes, end only by a close; liveness: what is written is passed on |
| `proxy` | MCProxy | 3 connections, 7 kinds of request, 3 descriptors, an `fd_set` for 2 | ids, what the race on `sockets` may lose, causes of the process's end; liveness: connections are handled but for silent peers |
| `texts` | MCTexts | 444 messages with and without spaces after the colons, their beginnings and small texts, 5258 in all; 81 dates | what the two parsing loops make of a message and of a date; liveness: on which texts they end |
| `post` | MCPost | 30 kinds of response of up to 12 bytes, first `recv` of up to 8, then 3 | order, what may be lost and why; liveness: when the handler ends |
| `log` | LogTime | 3 lines, both kinds in every mixture | a line shows another's time only next to a line with an expiration time |
| `one_response` | MCOneResponse | | **violated**: two whole responses to a request that finds an expired entry |
| `read_after_delete` | MCReadAfterDelete | | **violated**: a handler reads a response another has deleted |
| `relay_chunk_end` | MCRelayChunkEnd | | **violated**: the end of a chunked response split over two `recv`s is not seen |

**The properties that hold.** `CachedIsServable`: whatever handlers do to each other,
what the cache holds under a line was received for it, may be shared, has a lifetime
and is not deleted. `DanglingNeedsARace`: a handler about to read a deleted response
lost it to *another* handler, with a request for the same line unless it was evicted;
so one request at a time per line and a cache that never fills are safe.
`SharedAnswersAreShareable` and `UnaskedAnswersAreFresh`: what one browser gets of
another's response. Freshness is relative to the request's arrival: the code decides
at one moment and sends at a later one. `OnlyUncacheableLeaks`: the responses never
freed are exactly of the kind that may not be cached. `AnswerCount`: a second answer
only after an expired entry, none only after a failed fetch on a miss. `EndHasCause`
(Relay) and `EndOfProcessHasCause` (Proxy): each way of ending has one of the listed
causes, so anything else the peers do is survived. `OnlyRacedAreLost`: a descriptor whose `push_back` met
no other stays in `sockets` through all later races, and none is there twice; those that did
meet may be lost. `ConnectionsAreHandled`: a silent peer, or a request on which the header loop
never ends, keeps its own handler only. `RelayEnds` has the two cases in which a relay must end;
without a close, a server that falls silent midway holds it for ever, as `recv` has no timeout,
and so it does when the end is not recognised.

`PassedInOrder`: what a side is sent is compared with what the other wrote, byte by byte, through the buffer:
a byte of the other direction, or of an earlier turn, would show.

`CutIsNotAccepted`: the proxy reads a request with one `recv`; whatever part of the header
section that returns, it is never served as a request with fewer fields.
`LoopEnds`: the header loop ends on any text with a first line and a colon after it, whatever
else is wrong with it (a longer text that begins with a line's end may have a colon and
still never end). Without one it goes on for ever, which takes little: a request of
one line, or one cut off within the name of its first header. An empty value directly
followed by its CRLF is malformed to this loop: it takes the CR for the space after the
colon, the next name loses its first character, and as the last header it is refused.
A field without a space after its colon loses the first character of its contents; `MessageIsRead`
says so, as it says that the body kept begins with the empty line.
`DateLoopEnds` and `LifetimeIsFromDate`: the loop over a date ends on every date
whose last word is GMT, unless `stoi` throws. The response is then no-store if a word of three
letters was no month or one of eight no time; any other date gives a lifetime, also one that
is no date of HTTP: each field is from the last word of its length, zero without one, and
words of other lengths ("Sun, 06-Nov-94 08:49:37 GMT" has one of nine) count for nothing.
`LossHasCause` and `PostEnds` say what an answer to a POST loses. The empty line counts as body, so that
`receiveAll` stops two bytes early: what a later `recv` would have brought of the last two bytes is lost, and never
more. A zero byte in the first piece hides body from the C string and makes the handler wait
for more: one evens out half of it, two all of it, and from three on it waits for bytes that
do not exist. Old bytes in the array make it stop early by as many.
`TimeIsOwnOrOverlapped`: holding the mutex
from the conversion on, as `request_cur_asctime`'s callers do, is right among themselves;
the lines with an expiration time break it for both kinds.

**The disagreements** (PROJECT.json `findings`): the three violated runs contradict
what `dangerlog.txt`, `testcases.txt` and the comment on `checkGet` say.
Others seen while modelling, without a run of their own:

- a 301 response ends in ResponseError (`proxy.cpp:174`), though `dangerlog.txt:37` lists
  as an error only what "is neither a 200 nor 301 response";
- a stored no-cache response without a validator is served unasked (`proxy.cpp:512`),
  though it is logged as "cached, but requires re-validation";
- a failed fetch on a miss is not answered with 502 (`proxy.cpp:283`), though
  `dangerlog.txt:40` says so; `AnswerCount` has it as the one case without an answer;
- `get` stops before the announced length has come when the header section came in two
  pieces (`proxy.cpp:168`), against `dangerlog.txt:7`: `WholeWhenReturned` needs `first >= head`;
- not every malformed header section is answered with 400 (`dangerlog.txt:32-33`): one
  without a colon keeps the thread for ever, see `LoopEnds`;
- a Last-Modified in one of the obsolete formats makes `stoi` throw, uncaught, or the
  response no-store (`HttpResponse.cpp:52`);
- the answer to a POST may lack its last one or two bytes although the server has sent them and
  announced them right, because the body's length is taken from the empty line on
  (`HttpParser.cpp:37`, `proxy.cpp:637-638`), and any part of it when old bytes in the array count as
  body (`proxy.cpp:634`); `dangerlog.txt:2` says that `receiveAll` compares the body's length with
  Content-Length "to ensure it is completely send". `LossHasCause` names both as causes;
- `doPost` reads headers outside any `try`: a date that `stoi` refuses ends the process, and one
  that does not end in GMT keeps the handler, with the answer in hand (`proxy.cpp:635`);
- a response with `max-age=0` and no validator is served unasked while it is cached;
- the single `recv` of `revalidate` may store the first part of a longer response;
- responses that may not be cached are never deleted (`proxy.cpp:317`);
- `stoi` on a cut-off Content-Length throws what `do_get` does not catch (`proxy.cpp:193`);
- a second `send` to a browser that has closed raises SIGPIPE;
- the 400 path uses a pointer it has not initialised (`proxy.cpp:393-399`);
- no descriptor is closed.

## 4. Bounds, and why they are enough

- *Cache*: four keys on three places make a put evict, with a middle node to unlink and
  an address to reuse. As many responses as keys suffice, because at most three are
  live between two calls.
- *GetHandler, races*: a dangling pointer takes a reader, a deleter and, for the re-stored
  entry, a third handler: hence three requests. Two lines on one place give evictions.
  `MaxTime = 2` lets an entry with max-age 1 be stored, found fresh and found expired.
  Symmetry under permutations of requests and lines is sound: both are model values,
  no definition orders them, and the runs with symmetry check no temporal property.
- *GetHandler, headers*: `MaxTime = 2` lets an entry with max-age 1 be fresh, stale within
  max-stale and stale beyond it. The run also checks a temporal property, so it uses no
  symmetry. With one header set of each kind the parser tells apart, two requests
  (one that stores, one that finds) reach every case of sharing.
- *Relay*: the header section has ten or eleven bytes and a `recv` returns at most twelve,
  so the head comes whole, with a part of the body, or cut at any point, also inside
  the digits; bodies are longer than one `recv`.
- *Tunnel*: with two bytes per `recv` and per window, and four bytes to write, both windows
  fill while each side still has bytes to write.
- *Texts*: a message has up to two fields, with equal or different names, empty contents
  and colons within them, in the start line and in the body, so that each search of the
  loop can find the wrong one. The other texts are all those of up to four characters and
  of up to six pieces (a line's end, a colon, another character): two headers with each of
  their parts missing. A start line has two characters or more; after a start line of one
  character, position 1, where the loop goes on after `npos`, is an empty line's place.
  `Width = 5` leaves `npos` beyond every text. The dates differ from a good one by one word
  changed, added or left out.
- *PostHandler*: bodies fill the first `recv`, leave it empty, or take three more, so that a `recv` may
  end before each of the last bytes; zero bytes hide more or less of a first piece than the two
  bytes of the empty line; the int of six bits (`MaxInt = 31`) wraps for an uninitialised length at
  its ends and for no announced one.
- *LogTime*: with three lines, one may format what a second has converted while the third
  reads; a fourth would add no kind of overlap.
- *Proxy*: with three connections on three descriptors the limit is reached while a
  connection waits, or when a handler wants a server; and up to three threads can be
  within `push_back` at once. With an `fd_set` for two, a tunnel's descriptors fit, or one does not.
  The connections differ only by their names and have the same kinds to choose from, and nothing
  makes a browser connect, so the run names them in the order in which they come
  (`ACTION_CONSTRAINT InOrder`): every other behaviour is one of these with other names.

`MaxTime`, `MaxBytes` and `FdLimit` are the bounds on counters; only `FdLimit` stands for a
real limit (of the process). Deadlock is checked in the runs of MCCache,
MCGetHandler and LogTime (whose finished states have an explicit stuttering action). It is
not in `relay`, `tunnel`, `post`, `texts` and `proxy`, where the system may stop: the text is parsed, the relay or the tunnel has
ended or waits for a silent peer, the process has ended, or nobody connects.

## 5. Fairness

- Threads: weak fairness of each handler (`Handle(q)`, `HandleRequest(c)`), of the accept
  loop of Proxy, of the loops of Relay (`Get`), Tunnel (`Loop`), PostHandler (`DoPost`)
  and the parsers (`Next` of LastModified): the operating
  system runs every thread that can run. In Proxy `accept` must return when a connection waits,
  and must fail where it can do nothing else (`AcceptMustFail`: no socket to listen on, or a
  connection and no descriptor); that it fails otherwise is possible and never due.
- Proxy's peers: `kind[c].stays` says which of them are silent for ever, and then `RecvRequest` or `Serve` is
  never enabled, whatever the fairness; `ConnectionsAreHandled` names them as the exceptions. That a
  handler which is not held so comes back from its method is what the other modules' liveness says.
- Origin server: GetHandler's `FairSpec` assumes in addition that a handler in `get` or
  in `recv` comes back, that is, that the server answers or closes and the end of its
  answer is recognised. The code sets no timeout, so nothing weaker gives liveness;
  Relay says when the end is recognised (`RelayEnds`) and where it is not (`EndIsSeen`).
- Tunnel: a side that stays connected reads what it is sent. Without that, both
  directions stop for ever when both sides write before they read. Writes and
  closes carry no fairness.
- Relay, PostHandler: how much of its answer a server sends (`cut`) and whether it then closes (`closes`) are
  chosen at the start, each whatever the other is; a `recv` with nothing left to return is not enabled, and
  so never due. What has been sent arrives.

## 6. Proofs

All theorems are proved by TLAPS for every value of the constants that satisfies the
named `ASSUME`s of the modules, of which TLC evaluates each in a run:

- *LRUCache, Cache*: the capacity is positive (100 in `proxy.h`); `NULL` is none of the
  values it stands in for; `head` and `tail` are two addresses that no node has.
- *MCCache*: the keys are finitely many (a request line comes in one `recv`) and more than
  the capacity; only the proof of `RecentlyUsedIsCached` counts them.
- *GetHandler*: responses are named by requests; what the origin server sends is a header
  set; stale times are integers; `NULL` and the two markers of HttpResponse are none of
  the values beside them.
- *Relay, PostHandler*: the parts of a response lie in the order of HTTP (start line, fields,
  end of the head, body; the ends of chunks in the body; zero bytes only in the body);
  sizes of buffers are positive; no length is the marker for an absent one; a header section
  has the empty line.
- *Tunnel*: a window takes at least what one `recv` can return.
- *HttpParser, LastModified*: the parts of a well-formed message have no end of a line within
  them, its names no colon, and its start line two characters or more; a field without
  contents has a space; every text is shorter than what `size_t` can count; a date has a word.
- *LogTime, Proxy*: `Nobody` is no line and `Loop` no connection; `FdLimit` and `FdSetSize` are numbers.

Nothing is assumed of the number of threads, of the sizes of messages, or of how `recv`
cuts them: the theorems hold beyond the bounds of section 4. The bounds `MaxTime`,
`MaxBytes` and `FdLimit` may have any value.

**GetHandler_proofs, the cache.** `LRUInv` is `LRUTypeOK`, `OrderMatchesMap`, `WithinCapacity` and
`NoSharedResponse` together. None of the last three is inductive alone: `WithinCapacity`
needs the key's place in the order to exist when it is removed, and `Evict` removes the
right entry only if the last key of the order is cached and occurs once. The proof runs
over `Lists(s, C)`, "the sequence s lists the set C without repetition", with lemmas on
`RemoveAt`, `Front` and prepending. `PutEffect` and `EraseEffect` state what a call does to
`holds` together with what it deletes; the handlers' proof uses only them.

**Cache_proofs.** `CacheInv` is `TypeOK`, `MapMatchesNodes`, `OwnsLiveResponses` and `Readable`:
one path leads from `head` to `tail` over every allocated node, each once, and back by `prev`.
`WellLinked` follows but is not inductive: it compares neighbours only, so all nodes might form
a ring of their own beside an empty list, and a put into the full cache would then delete
the very node that it has just added. `AddReads`, `RemoveReads` and `MoveReads` say which path
`addToHead`, `removeNode` and `moveToHead` leave; each call is one of them or two, and the
order of the two in a put on a full cache, which adds before it removes, is covered by
`LastAfterAdd`: the node removed is not the new one, as the capacity is positive.

`CacheImplementsLRU` is the refinement, call by call: `FindIsFind`, `PutCachedIsReplace`,
`PutRoomIsInsert`, `PutFullIsEvict` and `EraseIsErase`. The abstract order is the list read
forward with the recursive function `At`; that such a function exists and satisfies its
equation (`IterateEquation`) is proved by the least-number principle (`LeastNumber`, from the
well-foundedness of the naturals), and `IterateReads` says that it follows the path.

`RecentlyUsedStays` has history in its invariant: `HistoryInv` says that the order of the
list is the order of last uses (the keys before a key in the list have been used after its
last use), and that a key without an entry has seen at least `Capacity` others used since.
The second needs the first when an entry is evicted: all others in the list are before it.

**GetHandler_proofs, the handlers.** `HandlerInv` strengthens `TypeOK`, `LRUInv` and `CachedIsServable`
with

- `Ownership`: an object exists only after its handler has constructed it, has the line
  of that handler's request, and is in nobody's hands until put; a deleted one is in
  neither the cache nor its constructor's unfinished put. Without it, a `put` could
  store an object that is already deleted.
- `Pointers`: a handler that uses its pointer uses it on an object of its own line
  that it has not deleted itself.
- `LifetimeOrNoStore`: the constructor leaves `maxAge` uninitialised only together with no-store.

The actions fall into six kinds by what they do to shared state (local, arrival, lookup,
construction, put, erase), one lemma each; `HandleStep` assigns every action to one, and
`HandlerInvariant` closes the induction. `CacheIsServable` and `DanglingIsARace` follow; the
second needs all of `HandlerInv`. `HandlersUseTheMap` says that every behaviour of the
handlers is one of LRUCache: they change the cache by its calls only, and what they put is
new to it. That is the condition under which `CacheImplementsLRU` speaks of the class they
share.

What browsers are sent is a second induction, `AnswersInvariant`, over `HandlerInv` and
`AnswerInv`:

- `Counted`: at each point of the code, how many answers there have been and whether the
  handler has met an expired entry. `AnswerCount` speaks of the end of a handler only.
- `Borrowed`: a response in use that the handler has not constructed may be shared and
  has a lifetime. It held when `find` returned it, and responses do not change.
- `SentWell` and `Unasked`: the same for what has been sent, the second with what
  `cacheResponse` has found out (`NotLate`) carried along to the send.
- `Kept`: a response that may be cached is in the cache, about to be put there, or deleted;
  `OnlyUncacheableLeaks` is this at the end of its handler.
- `Expires`: a response with a lifetime has an expiration time.

A handler that has read a deleted response (`wild`) is excluded where the property excludes
it; `HandlersStay` shows that no other handler disturbs the story of a handler.

**Relay_proofs.** `RelayInv` is `TypeOK`, `WholeWhenReturned`, `EndHasCause`, `Collected` and
`WaitsForMore`. `Collected` says at each place where `get` waits which bytes its three buffers
hold, in terms of the bytes consumed; `SentInOrder` and `KeptIsSent` follow from it, and with them
that no buffer holds a byte that has not arrived, which `TypeOK` says.
`WaitsForMore` excludes that `get` waits in the wrong loop, or for bytes that do not exist,
which the step that returns needs for `WholeWhenReturned`. `AfterHeadOf` tells what the tests
after the head come to for each framing.

**Tunnel_proofs.** `TunnelInv` is `TypeOK`, `EndsForACause`, `InOrder` (what has arrived at a
side is the stream of the other's bytes without a gap) and `NothingWaits`: between two turns of the loop all that was
received has been sent, and between `recv` and `send` the first `len` bytes of `msg` are those which
that side wrote next. Without it the buffer might hold anything when it is sent.

**PostHandler_proofs.** `PostInv` is `PostTypeOK`, `SentIsReceived`, `LossHasCause`, `RestFollows`
(the bytes collected by `receiveAll` are those after the first piece) and `WaitsForRest`
(`receiveAll` waits for what is missing of a regular response less the two bytes of the empty line,
and for as many more as a zero byte hid, unless old bytes were measured as body). The last needs the
arithmetic of the subtraction for every width of `int` (`ToIntOf`, `LeftCovers`).

**LogTime_proofs.** `LogInv` is `LogTypeOK`, `HoldsMutex`, `OwnOrOverlapped` (from the conversion to
the output only lines that have overlapped a line can have written `tm`, `text` and so what
is shown) and `ArrivalsApart` (two arrivals do not overlap, as both hold the mutex).

**Proxy_proofs.** `ProxyInv` is `TypeOK`, `IdsFollowAcceptance`, `EndOfProcessHasCause` and

- `Queue`: a connection waits in the backlog or is accepted, once, and `id` counts those
  whose thread has started; the last one may be on its way;
- `Slots`: exactly the threads within `push_back` have a place;
- `Handlers`: how far a handler is tells what it knows of its request and its server;
- `Numbers`: no two variables hold the same descriptor;
- `Meetings`: of two threads within `push_back` both are in `raced`;
- `Kept`: a descriptor that was in no race has a place in `sockets` before the place of every thread
  now within `push_back`, so none of them can overwrite it or cut it off;
- `Fresh`, `Unrepeated`: what is being appended is not in `sockets` yet, and nothing is there twice.

`OnlyRacedAreLost` follows from the last three. None of them holds alone: what keeps a place safe is
that a thread which began earlier is either done or was met.

**LastModified_proofs.** What the two parsing loops make of texts, messages and dates of any
length.

- *The date.* `DateInv` says that the loop over a date ending in GMT is behind its k-th word, for
  some k, and `WordsRead(k)` what then holds: `rest` is the remainder, `noStore` is set exactly if
  one of the k words has failed, and otherwise each field is from the last of them for it, or zero.
  `LifetimesAreFromDates` is the end of this. It needs that the last word is never dropped (`LeftIs`),
  or a date could end in another GMT than its own.
- *The texts.* A header section is a fold over its fields, of which no backend knows more than the
  definition. `FlattensExists` proves by the least-number principle that a function with the
  equation of the fold exists, hence that `FlattenSeq` is its last value; `UptoIs` then says that
  the section grows by a line with each field, `LineIs` which characters that line has, and
  `TextIs` that the text behind the k-th field is the next line or the empty line.
- *The searches.* `Positions` keeps both positions within the text, except that `npos` has sent
  the loop to position 1; the sums are then those of numbers (`PlusIs`), and a pass is `Pass`:
  each search has found the first such character (`Finds`) or none (`FindsNone`).
- *Messages.* `TextInv`: the loop stands behind the k-th field of the message with the map
  of the first k (`FirstFields`), or has accepted behind the last. `FieldPass` is its step, `InsertIs` the
  reason why `insert` keeps the first of equal names, `BodyIs` what the code keeps as the body. So the
  loop neither refuses nor throws on a message, and what it accepts is right: `MessagesAreReadRight`.
- *Parts of messages.* `Section` is the shape of a header section without its empty line, proved field
  by field (`SectionsAre`); `PartOfSection` is what remains of it in a part (`CutsAreParts`). In a text
  of that shape the loop is at a line's beginning or the end of the text (`AtLine`), or has come
  to position 1 with no end of a line left to find (`AtOne`), and at neither is there an empty line
  (`NoEmptyLine`): `CutInv`. A colon may be missing or cut off from what follows; the character
  after the first colon of a line is what keeps `eol` out of the CRLF.
- *Termination.* That the loops end is liveness; what makes them end is proved as action properties.
  A pass over a message comes to a later position (`MessageLoopAdvances`), a pass over any text with
  a first line and a colon behind it leaves less to read (`HeaderLoopAdvances`), a pass over a date
  takes a word off it (`DateLoopAdvances`). The second needs `BehindFirst`: a search for a colon that
  finds none sends the loop to position 1, from where it would come to the first header again, and
  the test against going round for ever stops it only because it has come further before.

**Only model-checked.** The temporal properties under fairness (`RequestsAreAnswered`, `RelayEnds`,
`EverythingIsPassed`, `ConnectionsAreHandled`, `MessagesAreRead`, `LoopEnds`, `DateLoopEnds`, `PostEnds`)
are out of this prover's reach: they stay with TLC. Of `MessagesAreRead`, `LoopEnds` and
`DateLoopEnds` all but the fairness is proved, as said above. Every invariant of a run that passes is
stated by a theorem. The three violated runs are counterexamples and need no proof.

## 7. Not modelled, and why

- The destructor of `Cache` and of `Proxy`: no execution reaches them (`run` never returns).
- HttpRequest's splitting of the start line and of Host at positions: Proxy has its outcomes
  only. `must-revalidate` and other directives the code parses but never asks for.
- A date in which the five characters cut off first are not "Sun, ", other than the two
  obsolete formats; a Last-Modified shorter than that throws like a word that is no number.
- In PostHandler the browser that leaves during `send` (it is the only send to it). What is wrong
  with a header section that the constructors do not read: HttpParser and LastModified have it.
- Memory that runs out (`std::bad_alloc` from `new`, `push_back` or a string, anywhere).
- What a data race on `sockets` may do to memory beyond the vector: the model has lost and
  overwritten elements, and the end of the process.
- What ends the process within the serving functions is in their modules (`Abort` and
  `WildCrash` in GetHandler, "aborted" and "killed" in Relay, "killed" in Tunnel, "thrown"
  in LastModified and PostHandler), not in Proxy.
- The wording of log and messages. Log lines without a time: each is one write under `mtx`.
- In GetHandler, the browser that leaves during `send`: Relay has it.
- A request that is longer than one `recv`: nothing in the code forwards its rest.

## 8. Plan

The composition of GetHandler and Relay: a length in `Object`, so that what is cut off by
`get` and by `revalidate` is compared with what is cached, and one proof carries the order and
completeness of a relay over to the answers from the cache.
