----------------------------- MODULE DynamicRequest ----------------------------
(***************************************************************************)
(* A request that a controller answers, from lazydispatch's DynamicRoute   *)
(* to the client and back:                                                 *)
(*                                                                         *)
(*   DynamicRoute          a BufferedResponseWriter, ETag and flush        *)
(*     ErrorHandler        answers panics that reach it                    *)
(*       session manager   responseSaver: saves before the first byte      *)
(*         middlewares     of the application, may panic                   *)
(*           action        responseTracker, pooled controller, page cache  *)
(*                         or a stream of server-sent events               *)
(*                                                                         *)
(* Each element of Request is a connection that asks again and again, so   *)
(* the requests of one run concurrently with those of another; they share  *)
(* the controllers of the pool and the page cache.  The heartbeat of a     *)
(* stream is a goroutine of its own, which may outlive the request.        *)
(***************************************************************************)
EXTENDS InMemoryCache, FiniteSets

CONSTANTS Request,      \* connections
          Streaming,    \* those that ask for streams as well
          Sessions,     \* whether sessions are configured: {TRUE}, {FALSE} or both
          Controller, NoKey, NoController, Stray

ASSUME DynamicRequestAssumption ==
    NoKey \notin Key /\ NoController \notin Controller
    /\ Streaming \subseteq Request /\ Stray \notin Request /\ Sessions \subseteq BOOLEAN

VARIABLES
    sessions,   \* whether the application configured sessions
    at,         \* where each request is
    key,        \* cacheKey of each controller
    asked,      \* history: the key the action of each request asked for
    buffer,     \* BufferedResponseWriter
    begun,      \* responseTracker.sent
    session,    \* the registry's session, and responseSaver.saved
    held,       \* the controller of each request
    reported,   \* the controller in the error state of each request
    pool,       \* the controllers the pool can hand out
    data,       \* whose values are in the data of each controller
    cache,      \* the page cache
    kept,       \* the page it has under each key
    uses,       \* history: every key that was cached, last used first
    stream,     \* the context of each stream is not cancelled
    beat,       \* the heartbeat of each stream
    client,     \* what each client has received
    late,       \* history: frames the heartbeat wrote after the stream closed
    trouble     \* history: how the errors of each request happened

answering == <<buffer, begun, session>>
controllers == <<held, reported, pool, data>>
caching == <<cache, kept, uses>>
asking == <<key, asked>>
streaming == <<stream, beat, late>>
vars == <<sessions, at, asking, answering, controllers, caching, streaming, client, trouble>>

Place == {"idle", "action", "rendering", "filling", "streaming", "failing",
          "fallback", "release", "returning", "reported", "reporting", "flushing"}
Status == {"none", "ok", "error", "not modified"}
\* A page: its kind, whose values it was made of, and the key these asked for.
Owner == Request \cup {Stray}
Page == {"page", "error", "stream"} \X Owner \X (Key \cup {NoKey})
Answer == [status : Status, body : SUBSET Page, cookie : BOOLEAN]
Buffer == [status : Status, body : SUBSET Page, cookie : BOOLEAN, sent : BOOLEAN,
           stream : BOOLEAN]
SessionState == [changed : BOOLEAN, saved : BOOLEAN, stored : BOOLEAN]

NoAnswer == [status |-> "none", body |-> {}, cookie |-> FALSE]
NewBuffer == [status |-> "none", body |-> {}, cookie |-> FALSE, sent |-> FALSE,
              stream |-> FALSE]
NewSession == [changed |-> FALSE, saved |-> FALSE, stored |-> FALSE]

Init ==
    /\ sessions \in Sessions
    /\ at = [q \in Request |-> "idle"]
    /\ key = [c \in Controller |-> NoKey]
    /\ asked = [q \in Request |-> NoKey]
    /\ buffer = [q \in Request |-> NewBuffer]
    /\ begun = [q \in Request |-> FALSE]
    /\ session = [q \in Request |-> NewSession]
    /\ held = [q \in Request |-> NoController]
    /\ reported = [q \in Request |-> NoController]
    /\ pool = Controller
    /\ data = [c \in Controller |-> {}]
    /\ cache = EmptyCache
    /\ kept = [k \in Key |-> {}]
    /\ uses = <<>>
    /\ stream = [q \in Request |-> FALSE]
    /\ beat = [q \in Request |-> "off"]
    /\ client = [q \in Request |-> NoAnswer]
    /\ late = [q \in Request |-> 0]
    /\ trouble = [q \in Request |-> {}]

Goto(q, place) == at' = [at EXCEPT ![q] = place]

(***************************************************************************)
(* The response: buffer, saver and tracker                                 *)
(***************************************************************************)

\* BufferedResponseWriter.WriteHeader and Write.
Buffered(b, status, page) ==
    IF b.stream THEN b
    ELSE [b EXCEPT !.status = IF b.sent THEN @ ELSE status,
                   !.body = @ \cup page, !.sent = TRUE]

\* BufferedResponseWriter.Reset.
Reset(b) == IF b.stream THEN b ELSE NewBuffer

\* responseSaver.save succeeds: the first call answers a changed session with
\* its cookie.
SaverDone(q) == ~sessions \/ session[q].saved
Saves(q) ==
    ~SaverDone(q) /\ session[q].changed
Saved(q) ==
    [session EXCEPT ![q].saved = sessions, ![q].stored = @ \/ Saves(q)]
WithCookie(q, b) == [b EXCEPT !.cookie = @ \/ Saves(q)]

\* The status that reaches the buffer: the tracker drops every status but the
\* first of the request, and a Write without a status is an OK.
TrackedStatus(q, status) == IF begun[q] THEN "ok" ELSE status

\* A response written through the tracker and the saver to buffer b.
Answers(q, b, status, page) ==
    /\ begun' = [begun EXCEPT ![q] = sessions]
    /\ session' = Saved(q)
    /\ buffer' = [buffer EXCEPT ![q] =
                    Buffered(WithCookie(q, b), TrackedStatus(q, status), page)]

\* The store fails to save: the saver panics before anything is written.
SaveFails(q, b) ==
    /\ Saves(q)
    /\ begun' = [begun EXCEPT ![q] = TRUE]
    /\ session' = [session EXCEPT ![q].saved = TRUE]
    /\ buffer' = [buffer EXCEPT ![q] = b]

\* A panic that the deferred function of ServeHTTP recovers.
Panics(q) == Goto(q, "failing")

(***************************************************************************)
(* A request is dispatched                                                 *)
(***************************************************************************)

\* DynamicRoute acquires a buffer, the binding a controller from the pool, which
\* BindRequest gives the data of this request.  Bound: a connection asks again
\* when the heartbeat of its last stream has ended.
Dispatch(q) ==
    /\ at[q] = "idle" /\ beat[q] = "off"
    /\ \E c \in pool :
         /\ held' = [held EXCEPT ![q] = c]
         /\ reported' = [reported EXCEPT ![q] = c]
         /\ pool' = pool \ {c}
         /\ data' = [data EXCEPT ![c] = {q}]
         /\ key' = [key EXCEPT ![c] = NoKey]
    /\ asked' = [asked EXCEPT ![q] = NoKey]
    /\ Goto(q, "action")
    /\ buffer' = [buffer EXCEPT ![q] = NewBuffer]
    /\ session' = [session EXCEPT ![q] = NewSession]
    /\ client' = [client EXCEPT ![q] = NoAnswer]
    /\ late' = [late EXCEPT ![q] = 0]
    /\ trouble' = [trouble EXCEPT ![q] = {}]
    /\ UNCHANGED <<sessions, begun, caching, stream, beat>>

(***************************************************************************)
(* The action                                                              *)
(***************************************************************************)

\* SessionSet and the like mark the session dirty.
ChangeSession(q) ==
    /\ at[q] = "action" /\ sessions /\ ~session[q].changed
    /\ session' = [session EXCEPT ![q].changed = TRUE]
    /\ UNCHANGED <<sessions, at, asking, buffer, begun, controllers, caching,
                   streaming, client, trouble>>

\* A page found in the cache moves its entry to the front.
UseCache(k) ==
    /\ cache' = CacheHit(cache, k)
    /\ uses' = MoveToFront(uses, k)
    /\ UNCHANGED kept

\* What is rendered from the data of the controller.
Rendered(q) ==
    {<<"page", o, IF o = Stray THEN NoKey ELSE asked[o]>> : o \in data[held[q]]}

WriteOrPanic(q, page, next) ==
    \/ /\ Answers(q, buffer[q], "ok", page)
       /\ Goto(q, next)
    \/ SaveFails(q, buffer[q]) /\ Panics(q)

\* The action calls CacheKey, which answers with the page if it is cached.  Bound:
\* once per action, before it writes.
CacheKey(q) ==
    /\ at[q] = "action" /\ ~buffer[q].sent /\ asked[q] = NoKey
    /\ \E k \in Key :
         /\ key' = [key EXCEPT ![held[q]] = k]
         /\ asked' = [asked EXCEPT ![q] = k]
         /\ \/ /\ Has(cache, k)
               /\ UseCache(k)
               /\ WriteOrPanic(q, kept[k], "action")
            \/ /\ ~Has(cache, k)
               /\ UNCHANGED <<at, answering, caching>>
    /\ UNCHANGED <<sessions, controllers, streaming, client, trouble>>

\* The action writes to the response by itself.  Bound: once per action.
ActionWrites(q) ==
    /\ at[q] = "action"
    /\ buffer[q].body = {}
    /\ WriteOrPanic(q, Rendered(q), "action")
    /\ UNCHANGED <<sessions, asking, controllers, caching, streaming, client, trouble>>

\* The action returns: a response that was sent, by the tracker's account or by
\* the buffer's, is complete; otherwise the default view is rendered.
ActionReturns(q) ==
    /\ at[q] = "action"
    /\ Goto(q, IF begun[q] \/ buffer[q].sent THEN "release" ELSE "rendering")
    /\ UNCHANGED <<sessions, asking, answering, controllers, caching, streaming,
                   client, trouble>>

\* The action, the view or the function of a stream returns an error or panics.
Fails(q) ==
    /\ at[q] \in {"action", "filling", "streaming"}
    /\ Goto(q, "failing")
    /\ stream' = [stream EXCEPT ![q] = FALSE]
    /\ UNCHANGED <<sessions, asking, answering, controllers, caching, beat, late, client,
                   trouble>>

\* renderCachedView finds the page in the cache.
RenderCached(q) ==
    /\ at[q] = "rendering"
    /\ key[held[q]] # NoKey /\ Has(cache, key[held[q]])
    /\ UseCache(key[held[q]])
    /\ WriteOrPanic(q, kept[key[held[q]]], "release")
    /\ UNCHANGED <<sessions, asking, controllers, streaming, client, trouble>>

\* It does not, or the action gave no key.
RenderMisses(q) ==
    /\ at[q] = "rendering"
    /\ ~Has(cache, key[held[q]])
    /\ Goto(q, "filling")
    /\ UNCHANGED <<sessions, asking, answering, controllers, caching, streaming,
                   client, trouble>>

\* The cache stores a page of some size; what it evicts is gone.
Stores(k, page) ==
    /\ \E s \in Size : cache' = CacheSet(cache, k, s)
    /\ uses' = MoveToFront(uses, k)
    /\ kept' = [j \in Key |-> IF ~Has(cache', j) THEN {} ELSE IF j = k THEN page ELSE kept[j]]

\* The view is rendered, stored under its key, and written.
RenderFills(q) ==
    /\ at[q] = "filling"
    /\ \/ key[held[q]] = NoKey /\ UNCHANGED caching
       \/ key[held[q]] # NoKey /\ Stores(key[held[q]], Rendered(q))
    /\ WriteOrPanic(q, Rendered(q), "release")
    /\ UNCHANGED <<sessions, asking, controllers, streaming, client, trouble>>

(***************************************************************************)
(* A stream of server-sent events                                          *)
(***************************************************************************)

\* Bound: the connections that ask for streams.  lazysse.Start finds the
\* StartStream of the saver, which saves and calls the one of the buffer: header
\* and cookie go to the client at once.
StartStream(q) ==
    /\ q \in Streaming /\ at[q] = "action" /\ ~buffer[q].sent
    /\ \/ /\ session' = Saved(q)
          /\ buffer' = [buffer EXCEPT ![q] =
                          [WithCookie(q, @) EXCEPT !.status = "ok", !.body = {},
                                                   !.sent = TRUE, !.stream = TRUE]]
          /\ client' = [client EXCEPT ![q] =
                          [status |-> "ok", body |-> {<<"stream", q, NoKey>>},
                           cookie |-> buffer'[q].cookie]]
          /\ stream' = [stream EXCEPT ![q] = TRUE]
          /\ beat' \in {[beat EXCEPT ![q] = b] : b \in {"off", "waiting"}}
          /\ Goto(q, "streaming")
          /\ UNCHANGED begun
       \/ /\ Saves(q)
          /\ session' = [session EXCEPT ![q].saved = TRUE]
          /\ Panics(q)
          /\ UNCHANGED <<begun, buffer, client, stream, beat>>
    /\ UNCHANGED <<sessions, asking, controllers, caching, late, trouble>>

\* The function of the stream returns without an error; Serve closes the stream.
StreamEnds(q) ==
    /\ at[q] = "streaming"
    /\ Goto(q, "release")
    /\ stream' = [stream EXCEPT ![q] = FALSE]
    /\ UNCHANGED <<sessions, asking, answering, controllers, caching, beat, late,
                   client, trouble>>

\* The client goes away, which cancels the context of the request.
ClientLeaves(q) ==
    /\ at[q] = "streaming" /\ stream[q]
    /\ stream' = [stream EXCEPT ![q] = FALSE]
    /\ UNCHANGED <<sessions, at, asking, answering, controllers, caching, beat,
                   late, client, trouble>>

\* The ticker of the heartbeat fires and Send finds the stream open.
Tick(q) ==
    /\ beat[q] = "waiting" /\ stream[q]
    /\ beat' = [beat EXCEPT ![q] = "writing"]
    /\ UNCHANGED <<sessions, at, asking, answering, controllers, caching, stream,
                   late, client, trouble>>

\* Send has the mutex and writes the frame to the connection, or fails to and
\* closes the stream.
Beat(q) ==
    /\ beat[q] = "writing"
    /\ \/ /\ beat' = [beat EXCEPT ![q] = "waiting"]
          /\ late' = [late EXCEPT ![q] = IF stream[q] THEN @ ELSE @ + 1]
          /\ UNCHANGED stream
       \/ /\ beat' = [beat EXCEPT ![q] = "off"]
          /\ stream' = [stream EXCEPT ![q] = FALSE]
          /\ UNCHANGED late
    /\ UNCHANGED <<sessions, at, asking, answering, controllers, caching, client, trouble>>

HeartbeatEnds(q) ==
    /\ beat[q] = "waiting" /\ ~stream[q]
    /\ beat' = [beat EXCEPT ![q] = "off"]
    /\ UNCHANGED <<sessions, at, asking, answering, controllers, caching, stream,
                   late, client, trouble>>

(***************************************************************************)
(* Errors of the action                                                    *)
(***************************************************************************)

ErrorPage(owners) == {"error"} \X owners \X {NoKey}

\* Mutant: the body of the error is written before its status.
HandleErrorBodyFirst(q) ==
    /\ at[q] = "failing"
    /\ trouble' = [trouble EXCEPT ![q] = @ \cup (IF begun[q] THEN {"begun"} ELSE {})]
    /\ Answers(q, Reset(buffer[q]), "ok", ErrorPage(data[held[q]]))
    /\ Goto(q, "release")
    /\ UNCHANGED <<sessions, asking, controllers, caching, streaming, client>>

\* handleControllerError resets the response and has the controller render the
\* error.  When that fails, or the session cannot be saved, the answer is a plain
\* error.
HandleError(q) ==
    /\ at[q] = "failing"
    /\ trouble' = [trouble EXCEPT ![q] = @ \cup (IF begun[q] THEN {"begun"} ELSE {})]
    /\ \/ /\ Answers(q, Reset(buffer[q]), "error", ErrorPage(data[held[q]]))
          /\ Goto(q, "release")
       \/ /\ SaveFails(q, Reset(buffer[q]))
          /\ Goto(q, "fallback")
       \/ /\ buffer' = [buffer EXCEPT ![q] = Reset(@)]
          /\ Goto(q, "fallback")
          /\ UNCHANGED <<begun, session>>
    /\ UNCHANGED <<sessions, asking, controllers, caching, streaming, client>>

\* A save that fails here panics: into the deferred function of ServeHTTP if its
\* body handles the error, or, if that function does, to the ErrorHandler, past
\* the release.
Fallback(q) ==
    /\ at[q] = "fallback"
    /\ trouble' = [trouble EXCEPT ![q] = @ \cup (IF begun[q] THEN {"begun"} ELSE {})]
    /\ \/ /\ Answers(q, Reset(buffer[q]), "error", ErrorPage({q}))
          /\ Goto(q, "release")
       \/ /\ SaveFails(q, Reset(buffer[q]))
          /\ \/ Goto(q, "failing")
             \/ Goto(q, "reported")
    /\ UNCHANGED <<sessions, asking, controllers, caching, streaming, client>>

\* ServeHTTP ends: its tracker and the key of its controller with it.
Forget(q) ==
    /\ key' = [c \in Controller |-> IF c = held[q] THEN NoKey ELSE key[c]]
    /\ begun' = [begun EXCEPT ![q] = FALSE]

\* Mutant: the controller goes back before the error is handled.
ReleaseEarly(q) ==
    /\ at[q] \in {"release", "failing"} /\ held[q] \notin pool
    /\ data' = [data EXCEPT ![held[q]] = {}]
    /\ pool' = pool \cup {held[q]}
    /\ UNCHANGED <<sessions, asking, answering, held, reported, caching, streaming,
                   client, trouble>>
    /\ Goto(q, IF at[q] = "failing" THEN "failing" ELSE "returning")

\* The deferred function resets the controller and returns it to the pool.
Release(q) ==
    /\ at[q] = "release"
    /\ Forget(q)
    /\ data' = [data EXCEPT ![held[q]] = {}]
    /\ pool' = pool \cup {held[q]}
    /\ held' = [held EXCEPT ![q] = NoController]
    /\ Goto(q, "returning")
    /\ UNCHANGED <<sessions, asked, buffer, session, reported, caching, streaming, client, trouble>>

(***************************************************************************)
(* The way back                                                            *)
(***************************************************************************)

\* The manager saves when the handler returns, if nothing was written.
ManagerSaves(q) ==
    /\ at[q] = "returning"
    /\ \/ /\ session' = Saved(q)
          /\ buffer' = [buffer EXCEPT ![q] = WithCookie(q, @)]
          /\ Goto(q, "flushing")
       \/ /\ Saves(q)
          /\ session' = [session EXCEPT ![q].saved = TRUE]
          /\ Goto(q, "reported")
          /\ UNCHANGED buffer
    /\ UNCHANGED <<sessions, asking, begun, controllers, caching, streaming, client,
                   trouble>>

\* A middleware of the application panics on the way back.
MiddlewarePanics(q) ==
    /\ at[q] = "returning"
    /\ Goto(q, "reported")
    /\ UNCHANGED <<sessions, asking, answering, controllers, caching, streaming,
                   client, trouble>>

\* handleReportedError resets the buffer and asks the controller that was reported
\* to handle the error, though it may have been released, and bound again, since.
ReportError(q) ==
    /\ at[q] = "reported"
    /\ buffer' = [buffer EXCEPT ![q] = Reset(@)]
    /\ data' = [data EXCEPT ![reported[q]] = @ \cup {Stray}]
    /\ trouble' = [trouble EXCEPT ![q] = @ \cup {"late"}]
    /\ Goto(q, "reporting")
    /\ UNCHANGED <<sessions, asking, begun, session, held, reported, pool, caching,
                   streaming, client>>

\* It renders the error with the data of that controller, or a plain one, straight
\* to the buffer.
AnswerReported(q) ==
    /\ at[q] = "reporting"
    /\ \E owners \in {data[reported[q]], {q}} :
         buffer' = [buffer EXCEPT ![q] = Buffered(Reset(@), "error", ErrorPage(owners))]
    /\ Goto(q, "flushing")
    /\ UNCHANGED <<sessions, asking, begun, session, controllers, caching, streaming,
                   client, trouble>>

\* Mutant: a response with a cookie gets an ETag as well.
EligibleWithCookie(b) ==
    ~b.stream /\ (b.sent \/ b.cookie) /\ b.status \in {"none", "ok"}

\* etagEligible.
Eligible(b) ==
    ~b.stream /\ (b.sent \/ b.cookie) /\ b.status \in {"none", "ok"} /\ ~b.cookie

\* ApplyETag: the client has this page already.
NotModified(b) == [NewBuffer EXCEPT !.status = "not modified", !.sent = TRUE]

\* Flush: nothing for a stream, nothing for a response nobody touched.
Flushed(q, b) ==
    IF b.stream \/ (~b.sent /\ ~b.cookie) THEN client[q]
    ELSE [status |-> IF b.status = "none" THEN "ok" ELSE b.status,
          body |-> b.body, cookie |-> b.cookie]

\* ApplyETag, Flush and the release of the buffer end the request; the error state
\* is released, and a controller that was not put back is left to the collector.
Finish(q) ==
    /\ at[q] = "flushing"
    /\ \/ client' = [client EXCEPT ![q] = Flushed(q, buffer[q])]
       \/ /\ Eligible(buffer[q])
          /\ client' = [client EXCEPT ![q] = Flushed(q, NotModified(buffer[q]))]
    /\ buffer' = [buffer EXCEPT ![q] = NewBuffer]
    /\ reported' = [reported EXCEPT ![q] = NoController]
    /\ held' = [held EXCEPT ![q] = NoController]
    /\ pool' = pool \cup ({held[q]} \ {NoController})
    /\ Forget(q)
    /\ Goto(q, "idle")
    /\ session' = [session EXCEPT ![q].changed = FALSE, ![q].saved = FALSE]
    /\ UNCHANGED <<sessions, asked, data, caching, streaming, trouble>>

Next ==
    \E q \in Request :
      \/ Dispatch(q) \/ ChangeSession(q) \/ CacheKey(q) \/ ActionWrites(q)
      \/ ActionReturns(q) \/ Fails(q)
      \/ RenderCached(q) \/ RenderMisses(q) \/ RenderFills(q)
      \/ StartStream(q) \/ StreamEnds(q) \/ ClientLeaves(q)
      \/ Tick(q) \/ Beat(q) \/ HeartbeatEnds(q)
      \/ HandleError(q) \/ Fallback(q) \/ Release(q)
      \/ ManagerSaves(q) \/ MiddlewarePanics(q) \/ ReportError(q) \/ AnswerReported(q)
      \/ Finish(q)

Spec == Init /\ [][Next]_vars

(***************************************************************************)
(* Properties                                                              *)
(***************************************************************************)

TypeOK ==
    /\ sessions \in BOOLEAN
    /\ at \in [Request -> Place]
    /\ key \in [Controller -> Key \cup {NoKey}]
    /\ asked \in [Request -> Key \cup {NoKey}]
    /\ buffer \in [Request -> Buffer]
    /\ begun \in [Request -> BOOLEAN]
    /\ session \in [Request -> SessionState]
    /\ held \in [Request -> Controller \cup {NoController}]
    /\ reported \in [Request -> Controller \cup {NoController}]
    /\ pool \subseteq Controller
    /\ data \in [Controller -> SUBSET Owner]
    /\ cache \in CacheState
    /\ kept \in [Key -> SUBSET Page]
    /\ uses \in Seq(Key)
    /\ stream \in [Request -> BOOLEAN]
    /\ beat \in [Request -> {"off", "waiting", "writing"}]
    /\ client \in [Request -> Answer]
    /\ late \in [Request -> Nat]
    /\ trouble \in [Request -> SUBSET {"begun", "late"}]

Kinds(answer) == {page[1] : page \in answer.body}

\* A response is of one piece: what an action had written before it failed is
\* never sent with the error, and nothing follows a stream
\* (response_buffer.go, Reset and the stream field).
WholeAnswers == \A q \in Request : Cardinality(Kinds(client[q])) <= 1

\* A session that was stored reaches the client, not even a 304 drops it, unless
\* an error reset the response that was begun or came after the action (Manager,
\* manager.go:125: sessions are saved "before the response is sent").
SessionAnswered ==
    \A q \in Request :
      (at[q] = "idle" /\ session[q].stored) => client[q].cookie \/ trouble[q] # {}

\* Values set for a request end up in answers to it (lazycontroller/doc.go:52: they
\* are "request-local"), and in those to requests that asked the cache for the
\* same key: controllers, their data and their keys are pooled, and what one
\* request renders another gets from the cache.  Excepted are the error page of a
\* request that panicked on the way back, which is rendered with whatever its
\* controller has by then, and the values such a panic leaves there (Stray).  An
\* error page that came in time has its own request's values.
MayShow(q, k, errors, page) ==
    \/ page[2] \in {q, Stray}
    \/ page[3] = k /\ k # NoKey
    \/ page[1] = "error" /\ "late" \in errors

OwnPages ==
    \A q \in Request :
      /\ \A page \in client[q].body : MayShow(q, asked[q], trouble[q], page)
      /\ client[q].status = "error" /\ "late" \notin trouble[q] =>
            <<"error", q, NoKey>> \in client[q].body

\* An error is answered with the status of an error, unless the response had been
\* begun through the tracker, which keeps its first status over a reset
\* (actions.go, responseTracker).
ErrorsKeepStatus ==
    \A q \in Request :
      "error" \in Kinds(client[q]) =>
        client[q].status = "error" \/ (sessions /\ trouble[q] # {})

\* At most one frame of the heartbeat reaches the connection after the stream has
\* closed, even when the request has ended by then.
OneLateFrame == \A q \in Request : late[q] <= 1

\* The cache keeps its limits, and its size is that of its entries, whatever
\* requests render the same page at once.
CacheAccounts ==
    /\ Fits(cache)
    /\ cache.bytes = SizeOf(cache.size, cache.order)

\* What is cached are the keys used last: the least recently used goes first.
RecentlyUsedStay == cache.order = SubSeq(uses, 1, Len(cache.order))

\* Answers are of one piece, and a stream that is closed stays closed but for the
\* one frame its heartbeat may have begun.
AnswersAreWhole == TypeOK /\ WholeAnswers /\ OneLateFrame

\* What reaches the client is whole: one page, and the session it belongs to.
AnswersAreComplete == AnswersAreWhole /\ SessionAnswered

\* The cache keeps its limits by dropping what was used least recently.
CacheKeepsRecent == CacheAccounts /\ RecentlyUsedStay

(***************************************************************************)
(* The inductive invariant                                                 *)
(***************************************************************************)

\* Where the deferred function of ServeHTTP has not run, and where the response
\* has only what the action and its view wrote.
Serving == {"action", "rendering", "filling", "streaming", "failing", "fallback", "release"}
Writing == {"action", "rendering", "filling"}

\* A controller of one request is not in the pool, and nobody else's; its data are
\* those of its request, and of an error that was reported too late, its key the
\* one that was asked for.
OwnController(q) ==
    /\ at[q] \in Serving => held[q] # NoController
    /\ at[q] # "idle" => reported[q] # NoController
    /\ held[q] # NoController =>
          /\ held[q] \notin pool
          /\ q \in data[held[q]] /\ data[held[q]] \subseteq {q, Stray}
          /\ key[held[q]] = asked[q]
          /\ \A r \in Request : held[r] = held[q] => r = q

\* A body of one piece, that shows what it may, with a status that goes with it,
\* when the request asked for key k and met these errors, and s says whether there
\* are sessions.
OnePiece(q, body) ==
    \/ \A page \in body : page[1] = "page"
    \/ \A page \in body : page[1] = "error"
    \/ body = {<<"stream", q, NoKey>>}
OwnBody(q, k, errors, status, body) ==
    /\ \A page \in body : MayShow(q, k, errors, page)
    /\ status = "error" /\ "late" \notin errors => <<"error", q, NoKey>> \in body
StatusFits(s, errors, status, body) ==
    (\E page \in body : page[1] = "error") => status = "error" \/ (s /\ errors # {})

GoodAnswer(q, k, s, errors, status, body) ==
    /\ OnePiece(q, body) /\ OwnBody(q, k, errors, status, body)
    /\ StatusFits(s, errors, status, body)

\* What is buffered, and what was sent; a stream was sent when it began, and has
\* saved the session by then.
GoodBuffer(q) ==
    /\ GoodAnswer(q, asked[q], sessions, trouble[q], buffer[q].status, buffer[q].body)
    /\ GoodAnswer(q, asked[q], sessions, trouble[q], client[q].status, client[q].body)
    /\ buffer[q].stream =>
          /\ buffer[q].body = {} /\ buffer[q].status = "ok"
          /\ client[q].cookie = buffer[q].cookie
          /\ at[q] # "idle" /\ sessions => session[q].saved
    /\ at[q] \in Writing =>
          (\A page \in buffer[q].body : page[1] = "page") /\ buffer[q].status # "error"
    /\ begun[q] => sessions
    /\ at[q] = "reporting" => "late" \in trouble[q]

\* A session that was stored has its cookie on the way, unless something went
\* wrong; what may still be reset was begun, or is a stream, which cannot be.
StoredIsOnItsWay(q) ==
    session[q].stored /\ trouble[q] = {} =>
      IF at[q] = "idle" THEN client[q].cookie
      ELSE /\ buffer[q].cookie
           /\ at[q] \in Serving => begun[q] \/ buffer[q].stream

\* The heartbeat has one frame in its hands at most when its stream closes, and a
\* new action has no heartbeat yet.
OneFrame(q) ==
    /\ late[q] <= 1
    /\ late[q] = 1 => ~stream[q] /\ beat[q] # "writing"
    /\ at[q] = "action" => beat[q] = "off" /\ late[q] = 0

\* The entries of the cache are those in its order, and each is there once.
NoneTwice(s) == \A i, j \in 1..Len(s) : s[i] = s[j] => i = j
CacheIsSound ==
    /\ NoneTwice(cache.order) /\ NoneTwice(uses)
    /\ \A k \in Key : ~Has(cache, k) => cache.size[k] = 0
    /\ Len(cache.order) <= Len(uses)
    /\ CacheKeepsRecent

\* What is cached under a key was rendered for it.
KeptFits ==
    \A k \in Key : \A page \in kept[k] :
      page[1] = "page" /\ (page[2] = Stray \/ page[3] = k)

IndInv ==
    /\ TypeOK /\ CacheIsSound /\ KeptFits
    /\ \A q \in Request :
          OwnController(q) /\ GoodBuffer(q) /\ StoredIsOnItsWay(q) /\ OneFrame(q)

=============================================================================
