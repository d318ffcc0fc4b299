------------------------------ MODULE GetHandler -------------------------------
(***************************************************************************)
(* The threads that answer GET requests: Proxy::checkGet and the functions *)
(* it calls, one thread per request, all on one Cache.                     *)
(*                                                                         *)
(* Cache::find hands out a bare pointer and releases mutex_, so a handler  *)
(* keeps using a response that another handler may delete meanwhile.  Each *)
(* action below is the code between two points at which another thread can *)
(* interfere: a call of the cache, a dereference of a response that the    *)
(* cache may own, a blocking call on a socket.                             *)
(*                                                                         *)
(* A handler constructs at most one HttpResponse, so an object is named by *)
(* the request whose handler constructed it, and Responses is the set of   *)
(* requests.  The origin server is an environment that may answer a        *)
(* request with any of the header sets in OriginHeaders, or fail.          *)
(***************************************************************************)
EXTENDS LRUCache, HttpResponse, FiniteSets

CONSTANTS
  Requests,       \* the GET requests, each handled by a thread of its own
  OriginHeaders,  \* the header sets an origin server may answer with
  StaleTimes,     \* the max-stale values of requests, 0 when there is none
  MaxTime         \* bound: the clock stops here

ASSUME RequestsAssumption == Responses = Requests
ASSUME OriginAssumption == OriginHeaders \subseteq HeaderSet
ASSUME StaleAssumption == StaleTimes \subseteq Int
ASSUME TimeAssumption == MaxTime \in Nat

VARIABLES
  now,       \* time(NULL)
  running,   \* FALSE once an exception or a wild read has ended the process
  pc,        \* where each handler is
  request,   \* request[q]: its line, max-stale and arrival, NULL before that
  ptr,       \* the HttpResponse* a handler uses, from the cache or its own
  object,    \* object[o]: fields of the HttpResponse, NULL until constructed
  deletedBy, \* deletedBy[o]: the request that deleted object o and how, or NULL
  expired,   \* handlers in the branch of cacheResponse for an expired entry
  answers,   \* answers[q]: what has been sent to the browser, in order
  asked,     \* history: handlers that have contacted the origin server
  failed,    \* history: handlers whose do_get caught a ResponseError
  wild       \* history: handlers that read an object after its delete

cacheVars == <<recency, holds>>
history == <<asked, failed, wild>>
vars == <<cacheVars, now, running, pc, request, ptr, object, deletedBy, expired,
          answers, history>>

Locations ==
  {"idle", "find", "inspect", "erase", "get", "put", "log", "findAgain",
   "revalidate", "recv", "update", "send", "badGateway", "done"}

RequestRecord == [key : Keys, maxStale : StaleTimes, arrived : 0 .. MaxTime]

Object == [fields : ResponseFields, key : Keys]

Deletion == [by : Requests, how : {"replace", "evict", "erase"}]

ASSUME NullIsNoRecord == NULL \notin RequestRecord \cup Object \cup Deletion

Init ==
  /\ LRUInit
  /\ now = 0
  /\ running = TRUE
  /\ pc = [q \in Requests |-> "idle"]
  /\ request = [q \in Requests |-> NULL]
  /\ ptr = [q \in Requests |-> NULL]
  /\ object = [o \in Requests |-> NULL]
  /\ deletedBy = [o \in Requests |-> NULL]
  /\ expired = {}
  /\ answers = [q \in Requests |-> <<>>]
  /\ asked = {}
  /\ failed = {}
  /\ wild = {}

Key(q) == request[q].key

Goto(q, location) == pc' = [pc EXCEPT ![q] = location]

At(q, location) == running /\ pc[q] = location

-------------------------------------------------------------------------------
(* Reading through a pointer.  A read of a deleted object may find what it *)
(* last held or what the allocator has since put there, or end the process.*)

Deleted == {o \in Requests : deletedBy[o] # NULL}

Constructed == {o \in Requests : object[o] # NULL}

\* The objects whose fields a read of object o may return.
Seen(o) == IF o \in Deleted THEN Constructed ELSE {o}

NoteRead(q) == wild' = IF ptr[q] \in Deleted THEN wild \cup {q} ELSE wild

\* The cache deletes the responses in D during a call by the handler of q.
Delete(q, D, how) ==
  deletedBy' = [o \in Requests |->
                  IF o \in D THEN [by |-> q, how |-> how] ELSE deletedBy[o]]

\* cache.put(key of q, the response q has constructed)
PutOwn(q) ==
  /\ Put(Key(q), q)
  /\ Delete(q, PutDeletes(Key(q)), IF Key(q) \in Cached THEN "replace" ELSE "evict")

\* new HttpResponse(...); ptr is newRes in do_get, updateRes when revalidating.
Construct(q, h) ==
  /\ object' = [object EXCEPT ![q] = [fields |-> Parse(h, now), key |-> Key(q)]]
  /\ ptr' = [ptr EXCEPT ![q] = q]

Send(q, kind, o) ==
  answers' = [answers EXCEPT ![q] = Append(@, [kind |-> kind, of |-> o])]

-------------------------------------------------------------------------------
Tick ==
  /\ running
  /\ now < MaxTime
  /\ now' = now + 1
  /\ UNCHANGED <<cacheVars, running, pc, request, ptr, object, deletedBy, expired,
                 answers, history>>

\* handleRequest reads a GET request and calls checkGet.
Arrive(q) ==
  /\ At(q, "idle")
  /\ \E k \in Keys, s \in StaleTimes :
       request' = [request EXCEPT ![q] = [key |-> k, maxStale |-> s, arrived |-> now]]
  /\ Goto(q, "find")
  /\ UNCHANGED <<cacheVars, now, running, ptr, object, deletedBy, expired, answers,
                 history>>

\* checkGet looks the request line up.
CheckGet(q) ==
  /\ At(q, "find")
  /\ Find(Key(q))
  /\ ptr' = [ptr EXCEPT ![q] = holds[Key(q)]]
  /\ Goto(q, IF Key(q) \in Cached THEN "inspect" ELSE "get")
  /\ UNCHANGED <<now, running, request, object, deletedBy, expired, answers, history>>

\* cacheResponse: a no-cache response is not asked for its age, and only one
\* with a positive max-age is found expired.  An uninitialised max-age, which
\* only a read of a deleted object can meet, has either outcome.
FoundExpired(r, maxStale) ==
  IF r.noCache THEN {FALSE}
  ELSE IF r.maxAge = Absent THEN BOOLEAN
  ELSE {r.maxAge > 0 /\ ~NoExpired(r, maxStale, now)}

CacheResponse(q) ==
  /\ At(q, "inspect")
  /\ NoteRead(q)
  /\ \E x \in Seen(ptr[q]) :
       \E late \in FoundExpired(object[x].fields, request[q].maxStale) :
         Goto(q, IF late THEN "erase" ELSE "revalidate")
  /\ UNCHANGED <<cacheVars, now, running, request, ptr, object, deletedBy, expired,
                 answers, asked, failed>>

EraseExpired(q) ==
  /\ At(q, "erase")
  /\ Erase(Key(q))
  /\ Delete(q, EraseDeletes(Key(q)), "erase")
  /\ expired' = expired \cup {q}
  /\ Goto(q, "get")
  /\ UNCHANGED <<now, running, request, ptr, object, answers, history>>

-------------------------------------------------------------------------------
(* do_get.  checkGet returns after it; cacheResponse looks the entry up.   *)

\* Definitions named "Buggy..." are slips this code could have; a run that
\* replaces the definition below by one of them finds a property violated.
BuggyAfterDoGet(q) == "findAgain"  \* checkGet does not return after do_get

AfterDoGet(q) == IF q \in expired THEN "findAgain" ELSE "done"

\* get passes a 200 response on to the browser (module Relay); do_get parses it.
DoGet(q) ==
  /\ At(q, "get")
  /\ asked' = asked \cup {q}
  /\ \E h \in OriginHeaders : Construct(q, h)
  /\ Send(q, "response", q)
  /\ Goto(q, "put")
  /\ UNCHANGED <<cacheVars, now, running, request, deletedBy, expired, failed, wild>>

\* get throws ResponseError, before or after it has passed something on.
DoGetFails(q) ==
  /\ At(q, "get")
  /\ asked' = asked \cup {q}
  /\ failed' = failed \cup {q}
  /\ UNCHANGED answers \/ Send(q, "part", NULL)
  /\ Goto(q, AfterDoGet(q))
  /\ UNCHANGED <<cacheVars, now, running, request, ptr, object, deletedBy, expired,
                 wild>>

BuggyStoreNew(q) ==  \* do_get deletes newRes at its end, as it does resp_parser
  /\ At(q, "put")
  /\ AbleToCache(object[q].fields)
  /\ Put(Key(q), q)
  /\ Delete(q, PutDeletes(Key(q)) \cup {q}, "replace")
  /\ Goto(q, AfterDoGet(q))
  /\ UNCHANGED <<now, running, request, ptr, object, expired, answers, history>>

StoreNew(q) ==
  /\ At(q, "put")
  /\ AbleToCache(object[q].fields)
  /\ PutOwn(q)
  /\ Goto(q, "log")
  /\ UNCHANGED <<now, running, request, ptr, object, expired, answers, history>>

\* "not cacheable": the response is neither stored nor deleted.
KeepNew(q) ==
  /\ At(q, "put")
  /\ ~AbleToCache(object[q].fields)
  /\ Goto(q, AfterDoGet(q))
  /\ UNCHANGED <<cacheVars, now, running, request, ptr, object, deletedBy, expired,
                 answers, history>>

\* do_get logs the expiration time of the response it no longer owns.
LogStored(q) ==
  /\ At(q, "log")
  /\ NoteRead(q)
  /\ Goto(q, AfterDoGet(q))
  /\ UNCHANGED <<cacheVars, now, running, request, ptr, object, deletedBy, expired,
                 answers, asked, failed>>

BuggyFindAgain(q) ==  \* cacheResponse returns the entry it was called with
  /\ At(q, "findAgain")
  /\ Goto(q, "send")
  /\ UNCHANGED <<cacheVars, now, running, request, ptr, object, deletedBy, expired,
                 answers, history>>

\* cacheResponse returns what the cache holds after do_get.
FindAgain(q) ==
  /\ At(q, "findAgain")
  /\ Find(Key(q))
  /\ ptr' = [ptr EXCEPT ![q] = holds[Key(q)]]
  /\ Goto(q, IF Key(q) \in Cached THEN "send" ELSE "badGateway")
  /\ UNCHANGED <<now, running, request, object, deletedBy, expired, answers, history>>

-------------------------------------------------------------------------------
(* revalidate and processRevalidResponse.                                  *)

\* Without a validator the entry is served; with one, the request is sent again
\* with If-None-Match or If-Modified-Since added.
Revalidate(q) ==
  /\ At(q, "revalidate")
  /\ NoteRead(q)
  /\ \E x \in Seen(ptr[q]) :
       Goto(q, IF object[x].fields.hasValidator THEN "recv" ELSE "send")
  /\ UNCHANGED <<cacheVars, now, running, request, ptr, object, deletedBy, expired,
                 answers, asked, failed>>

RecvNotModified(q) ==
  /\ At(q, "recv")
  /\ asked' = asked \cup {q}
  /\ Goto(q, "send")
  /\ UNCHANGED <<cacheVars, now, running, request, ptr, object, deletedBy, expired,
                 answers, failed, wild>>

\* A 200 response, of which the single recv returns all or only a first part.
RecvModified(q) ==
  /\ At(q, "recv")
  /\ asked' = asked \cup {q}
  /\ \E h \in OriginHeaders : Construct(q, h)
  /\ Goto(q, "update")
  /\ UNCHANGED <<cacheVars, now, running, request, deletedBy, expired, answers,
                 failed, wild>>

BuggyRecvNothing(q) ==  \* the conditional request is sent again
  /\ At(q, "recv")
  /\ asked' = asked \cup {q}
  /\ Goto(q, "revalidate")
  /\ UNCHANGED <<cacheVars, now, running, request, ptr, object, deletedBy, expired,
                 answers, failed, wild>>

\* The server has closed the connection, or answers neither 200 nor 304.
RecvNothing(q) ==
  /\ At(q, "recv")
  /\ asked' = asked \cup {q}
  /\ Goto(q, "badGateway")
  /\ UNCHANGED <<cacheVars, now, running, request, ptr, object, deletedBy, expired,
                 answers, failed, wild>>

\* processRevalidResponse returns updateRes whether or not it has stored it.
Update(q) ==
  /\ At(q, "update")
  /\ IF AbleToCache(object[q].fields)
     THEN PutOwn(q)
     ELSE UNCHANGED <<cacheVars, deletedBy>>
  /\ Goto(q, "send")
  /\ UNCHANGED <<now, running, request, ptr, object, expired, answers, history>>

\* checkGet sends the message of the response cacheResponse has returned.
SendChecked(q) ==
  /\ At(q, "send")
  /\ NoteRead(q)
  /\ \E x \in Seen(ptr[q]) : Send(q, "response", x)
  /\ Goto(q, "done")
  /\ UNCHANGED <<cacheVars, now, running, request, ptr, object, deletedBy, expired,
                 asked, failed>>

BuggyBadGateway(q) ==  \* the answer has another status
  /\ At(q, "badGateway")
  /\ Send(q, "500", NULL)
  /\ Goto(q, "done")
  /\ UNCHANGED <<cacheVars, now, running, request, ptr, object, deletedBy, expired,
                 history>>

BadGateway(q) ==
  /\ At(q, "badGateway")
  /\ Send(q, "502", NULL)
  /\ Goto(q, "done")
  /\ UNCHANGED <<cacheVars, now, running, request, ptr, object, deletedBy, expired,
                 history>>

-------------------------------------------------------------------------------
(* What ends the process: an exception that leaves a thread's function (a  *)
(* 200 response whose header section HttpParser rejects or that a recv has *)
(* cut off, see Relay), or a read of a deleted response.                   *)

Abort(q) ==
  /\ pc[q] \in {"get", "recv"} /\ running
  /\ asked' = asked \cup {q}
  /\ running' = FALSE
  /\ UNCHANGED <<cacheVars, now, pc, request, ptr, object, deletedBy, expired,
                 answers, failed, wild>>

Reading == {"inspect", "log", "revalidate", "send"}

WildCrash(q) ==
  /\ pc[q] \in Reading /\ running
  /\ ptr[q] \in Deleted
  /\ NoteRead(q)
  /\ running' = FALSE
  /\ UNCHANGED <<cacheVars, now, pc, request, ptr, object, deletedBy, expired,
                 answers, asked, failed>>

Handle(q) ==
  \/ CheckGet(q) \/ CacheResponse(q) \/ EraseExpired(q)
  \/ DoGet(q) \/ DoGetFails(q) \/ StoreNew(q) \/ KeepNew(q) \/ LogStored(q)
  \/ FindAgain(q) \/ Revalidate(q) \/ RecvNotModified(q) \/ RecvModified(q)
  \/ RecvNothing(q) \/ Update(q) \/ SendChecked(q) \/ BadGateway(q)
  \/ Abort(q) \/ WildCrash(q)

\* Nothing is left to do: the process has ended or every request is handled.
Finished ==
  /\ ~running \/ \A q \in Requests : pc[q] = "done"
  /\ UNCHANGED vars

Next == Tick \/ Finished \/ \E q \in Requests : Arrive(q) \/ Handle(q)

Spec == Init /\ [][Next]_vars

\* The operating system runs every thread, and the origin server answers or
\* closes the connection: the code sets no timeout on a socket.
FairSpec == Spec /\ \A q \in Requests : WF_vars(Handle(q))

-------------------------------------------------------------------------------
Answer == [kind : {"response", "part", "502"}, of : Requests \cup {NULL}]

TypeOK ==
  /\ LRUTypeOK
  /\ now \in 0 .. MaxTime
  /\ running \in BOOLEAN
  /\ pc \in [Requests -> Locations]
  /\ request \in [Requests -> RequestRecord \cup {NULL}]
  /\ ptr \in [Requests -> Requests \cup {NULL}]
  /\ object \in [Requests -> Object \cup {NULL}]
  /\ deletedBy \in [Requests -> Deletion \cup {NULL}]
  /\ answers \in [Requests -> Seq(Answer)]
  /\ expired \subseteq Requests
  /\ asked \subseteq Requests
  /\ failed \subseteq Requests
  /\ wild \subseteq Requests

(***************************************************************************)
(* Whatever the handlers do to each other, what the cache holds under a    *)
(* line was received for that line, may be cached, has a lifetime (cache-  *)
(* Response never reads an uninitialised maxAge or expirationTime of it)   *)
(* and has not been deleted.                                               *)
(***************************************************************************)
CachedIsServable ==
  \A k \in Cached :
    /\ holds[k] \in Constructed \ Deleted
    /\ object[holds[k]].key = k
    /\ ~object[holds[k]].fields.noStore
    /\ ~object[holds[k]].fields.isPrivate
    /\ object[holds[k]].fields.maxAge # Absent

(***************************************************************************)
(* A handler that is about to read a deleted response lost it to another   *)
(* handler: none uses what its own erase or put has deleted, and unless it *)
(* was evicted the other handler had a request for the same line.          *)
(***************************************************************************)
DanglingNeedsARace ==
  \A q \in Requests :
    pc[q] \in Reading /\ ptr[q] \in Deleted =>
      LET d == deletedBy[ptr[q]]
      IN  /\ d.by # q
          /\ d.how = "evict" \/ Key(d.by) = Key(q)

(***************************************************************************)
(* What a handler sends that it did not receive itself is a response that  *)
(* was neither private nor no-store, and was received for the same line.   *)
(* (Of a handler that has read a deleted object nothing can be said.)      *)
(***************************************************************************)
SharedAnswersAreShareable ==
  \A q \in Requests \ wild :
    \A i \in 1 .. Len(answers[q]) :
      LET a == answers[q][i]
      IN  a.kind = "response" =>
            /\ a.of \in Constructed
            /\ object[a.of].key = Key(q)
            /\ a.of # q => LET f == object[a.of].fields
                           IN  ~f.noStore /\ ~f.isPrivate

(***************************************************************************)
(* An answer given without asking the origin server could not have been    *)
(* revalidated, and had not expired, by more than the max-stale the        *)
(* request allows, when the request arrived; except a no-cache response    *)
(* and one without a positive max-age, whose expiration the code does not  *)
(* look at.                                                                *)
(***************************************************************************)
UnaskedAnswersAreFresh ==
  \A q \in Requests \ (wild \cup asked) :
    \A i \in 1 .. Len(answers[q]) :
      LET f == object[answers[q][i].of].fields
      IN  /\ ~f.hasValidator
          /\ \/ f.noCache
             \/ f.maxAge <= 0
             \/ f.expirationTime + request[q].maxStale > request[q].arrived

(***************************************************************************)
(* Of what a finished handler has constructed, only what may not be cached *)
(* is never deleted: every other response is in the cache until a put or   *)
(* an erase deletes it.                                                    *)
(***************************************************************************)
OnlyUncacheableLeaks ==
  \A o \in Constructed \ Deleted :
    pc[o] = "done" /\ AbleToCache(object[o].fields) => \E k \in Keys : holds[k] = o

(***************************************************************************)
(* A browser gets a second answer only when its request found an expired   *)
(* entry, and never a third; it gets none only when its request found no   *)
(* entry and do_get failed before it had passed anything on.               *)
(***************************************************************************)
AnswerCount ==
  \A q \in Requests :
    /\ Len(answers[q]) <= IF q \in expired THEN 2 ELSE 1
    /\ pc[q] = "done" /\ answers[q] = <<>> => q \in failed \ expired

(***************************************************************************)
(* Every request that has arrived is handled to its end, and its browser   *)
(* then has an answer unless do_get failed; or the process has ended.      *)
(***************************************************************************)
RequestsAreAnswered ==
  \A q \in Requests :
    pc[q] = "find" ~>
      \/ ~running
      \/ pc[q] = "done" /\ (answers[q] # <<>> \/ q \in failed)

-------------------------------------------------------------------------------
(* What the repository says of the program, and the code does not do.      *)

\* checkGet answers from the cache or from the server (the comment above it;
\* the expired case in testcases.txt logs one Responding): one response is sent.
OneResponse ==
  \A q \in Requests :
    \A i, j \in 1 .. Len(answers[q]) :
      answers[q][i].kind = "response" /\ answers[q][j].kind = "response" => i = j

\* Freeing the responses is handled in the cache (dangerlog.txt): no handler
\* reads one that has been freed.
NoReadAfterDelete == wild = {}
===============================================================================
