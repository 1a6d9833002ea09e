----------------------------- MODULE RequestPath -----------------------------
(***************************************************************************)
(* One request on its way through the router, its middleware and a handler *)
(* to its answer (internal/server/router.go; httpx: CORS, Recoverer,       *)
(* CronAuth, DecodeJSON, Classify, WriteJSON; RequireParticipant and the   *)
(* handlers of watcher, bingo, games, wordle and spotify).  go-chi, the    *)
(* driver, net/http and Spotify's API are external.                        *)
(*                                                                         *)
(* What the services do to their documents is in WatcherSession,           *)
(* SessionCodes and BingoBoard; here a service call is its database calls, *)
(* and what it comes to is one of its returns: the result, a refusal of    *)
(* its own, or an error of the driver.  Routes whose handlers have the     *)
(* same steps are one route.  The event stream is in WatcherEvents.        *)
(***************************************************************************)
EXTENDS Naturals, Sequences

CONSTANTS
    Panics      \* TRUE: a handler may panic

ASSUME RequestAssumption == Panics \in BOOLEAN

VARIABLES
    given,      \* the request, and whether CRON_SECRET is set
    session,    \* the session or board the request is about
    seen,       \* what the handler found of it, "lapsed" if no longer what it read
    at,         \* where the request is
    stored,     \* an update the handler asked for has been applied
    client,     \* the mongo client (closed by ServerLifecycle's CloseClient)
    gone,       \* the caller has hung up
    upstream,   \* what Spotify answered
    header,     \* response headers: "cors", "retryAfter"
    written,    \* the bodies WriteJSON wrote, each with its status
    aborted     \* the connection was aborted by http.ErrAbortHandler

vars == <<given, session, seen, at, stored, client, gone, upstream, header, written, aborted>>
world == <<session, client, gone>>

-----------------------------------------------------------------------------
(* Requests.  "entries" stands for the entries and rematch routes, "state"  *)
(* for those that read a session, "create" for both creations, "static" for *)
(* the index and the liveness probe, "unknown" for preflights and for what  *)
(* matches no route, also by its method.                                    *)

Participant == {"state", "ready", "entries", "swipes"}
WithBody == {"create", "entries", "swipes"}
Boards == {"mint", "board", "toggle"}
About == Participant \cup Boards \cup {"join"}
Writes == {"cron", "create", "ready", "entries", "swipes", "join", "mint", "toggle"}

\* listed: its method, or the method and the headers a preflight asks for, are
\* among AllowedMethods and AllowedHeaders; the routes have no other methods.
\* params: the malformed parameters of its URL.  A body nobody reads is left
\* unread on the connection.
Request(routes, tokens, bodies, params) ==
    [route : routes, preflight : {FALSE}, listed : {TRUE}, origin : {"none", "allowed", "other"},
     token : tokens, secret : {TRUE}, body : bodies, params : SUBSET params]
Bodies == {"valid", "empty", "malformed", "huge", "unreadable", "invalid"}

Requests ==
    Request({"static", "games", "wordle"}, {"none"}, {"none"}, {})
    \cup [route : {"unknown"}, preflight : BOOLEAN, listed : BOOLEAN,
          origin : {"none", "allowed", "other"}, token : {"none"}, secret : {TRUE},
          body : {"none"}, params : {{}}]
    \cup [route : {"cron"}, preflight : {FALSE}, listed : {TRUE},
          origin : {"none", "allowed", "other"}, token : {"none", "wrong", "right"},
          secret : BOOLEAN, body : {"none"}, params : {{}}]
    \cup Request({"state"}, {"none", "wrong", "right"}, {"none"}, {"id"})
    \cup Request({"ready"}, {"none", "wrong", "right"}, {"none", "valid"}, {"id"})
    \cup Request({"entries", "swipes"}, {"none", "wrong", "right"}, Bodies, {"id"})
    \cup Request({"create"}, {"none"}, Bodies, {})
    \cup Request({"join"}, {"none"}, {"none", "valid"}, {"id"})
    \cup Request({"mint", "board", "game"}, {"none"}, {"none"}, {"id"})
    \cup Request({"toggle"}, {"none"}, {"none", "valid"}, {"index", "id"})
    \cup Request({"spotify"}, {"none", "right"}, {"none"}, {"timeRange", "limit", "offset"})

Stages == {"arrived", "cronAuth", "requireParticipant", "authorising", "reading", "params",
           "finding", "updating", "rereading", "replying", "calling", "over"}
NoAnswer == [status |-> 0, page |-> "none", retryAfter |-> "none"]

Init ==
    /\ given \in Requests
    /\ session \in IF given.route \in About THEN {"live", "expired", "missing"} ELSE {"live"}
    /\ seen = "unread" /\ at = "arrived"
    /\ stored = FALSE /\ client = "connected" /\ gone = FALSE
    /\ upstream = NoAnswer
    /\ header = {} /\ written = <<>> /\ aborted = FALSE

-----------------------------------------------------------------------------
(* Errors and the envelope. *)

Refusal(status, code) == [kind |-> "http", status |-> status, code |-> code]
Invalid == [kind |-> "validation"]
Driver(kind) == [kind |-> kind]

Classify_NoStatus(err) ==
    CASE err.kind = "http" -> [status |-> err.status, code |-> err.code]
      [] err.kind = "validation" -> [status |-> 0, code |-> "validation"]
      [] OTHER -> [status |-> 500, code |-> "internal"]
Classify(err) ==
    CASE err.kind = "http" -> [status |-> err.status, code |-> err.code]
      [] err.kind = "validation" -> [status |-> 400, code |-> "validation"]
      [] err.kind = "duplicateKey" -> [status |-> 409, code |-> "duplicateKey"]
      [] err.kind = "documentInvalid" -> [status |-> 400, code |-> "documentInvalid"]
      [] err.kind \in {"server", "disconnected"} -> [status |-> 500, code |-> "database"]
      [] OTHER -> [status |-> 500, code |-> "internal"]

\* Every handler returns once it has written.
Answer(body) == written' = Append(written, body) /\ at' = "over"

\* What cannot be serialised is answered as an internal error.
Marshals_Always(data) == TRUE
Marshals(data) == data \in {"document", "whole"}
WriteJSON(status, code, data) ==
    IF Marshals(data)
    THEN Answer([status |-> status, code |-> code])
    ELSE Answer([status |-> 500, code |-> "internal"])

OK(data) == WriteJSON(200, "ok", data)
Fail(err) == Answer(Classify(err))

Goto(stage) == at' = stage /\ UNCHANGED written

-----------------------------------------------------------------------------
(* Middleware and router. *)

\* A request that is not allowed is served all the same, without the headers.
Cors == IF given.origin = "allowed" /\ given.listed THEN {"cors"} ELSE {}

Dispatch ==
    /\ at = "arrived"
    /\ header' = Cors
    /\ IF given.preflight \/ given.route = "static"
       THEN Answer([status |-> 200, code |-> "bare"])
       ELSE CASE given.route = "unknown" -> Fail(Refusal(404, "notFound"))
              [] given.route = "cron" -> Goto("cronAuth")
              [] given.route \in Participant -> Goto("requireParticipant")
              [] given.route = "create" -> Goto("reading")
              [] given.route \in {"games", "wordle"} -> Goto("finding")
              [] OTHER -> Goto("params")
    /\ UNCHANGED <<given, world, seen, stored, upstream, aborted>>

\* Without its return the answer is no refusal.
CronAuth_GoesOn ==
    /\ at = "cronAuth"
    /\ IF given.secret /\ given.token = "right"
       THEN Goto("updating")
       ELSE /\ written' = Append(written, Classify(Refusal(401, "unauthorizedCron")))
            /\ at' = "updating"
    /\ UNCHANGED <<given, world, seen, stored, upstream, header, aborted>>
CronAuth ==
    /\ at = "cronAuth"
    /\ CASE ~given.secret -> Fail(Refusal(401, "cronNotConfigured"))
         [] given.secret /\ given.token # "right" -> Fail(Refusal(401, "unauthorizedCron"))
         [] OTHER -> Goto("updating")
    /\ UNCHANGED <<given, world, seen, stored, upstream, header, aborted>>

RequireParticipant ==
    /\ at = "requireParticipant"
    /\ CASE given.token = "none" -> Fail(Refusal(401, "missingParticipantToken"))
         [] given.token # "none" /\ "id" \in given.params -> Fail(Refusal(400, "invalidId"))
         [] OTHER -> Goto("authorising")
    /\ UNCHANGED <<given, world, seen, stored, upstream, header, aborted>>

\* The read comes back; the token is looked at last.
TokenFits(token) == token = "right"

AfterParticipant ==
    CASE given.route \in WithBody -> "reading"
      [] given.route \notin WithBody -> "finding"

Authorised ==
    /\ at = "authorising" /\ client = "connected"
    /\ seen' = session
    /\ CASE session = "missing" -> Fail(Refusal(404, "absent"))
         [] session = "expired" -> Fail(Refusal(410, "expired"))
         [] session = "live" /\ ~TokenFits(given.token) ->
               Fail(Refusal(403, "invalidParticipantToken"))
         [] OTHER -> Goto(AfterParticipant)
    /\ UNCHANGED <<given, world, stored, upstream, header, aborted>>

\* Recoverer.  The headers set so far are kept.
Panic ==
    /\ Panics /\ at \notin {"arrived", "over"}
    /\ \/ Answer([status |-> 500, code |-> "internal"]) /\ UNCHANGED aborted
       \/ aborted' = TRUE /\ at' = "over" /\ UNCHANGED written
    /\ UNCHANGED <<given, world, seen, stored, upstream, header>>

-----------------------------------------------------------------------------
(* Handlers: what they check before they call their service. *)

\* An empty body decodes to a request without fields; only the swipes of
\* nobody pass the validation that follows.
Valid(route, body) == body = "valid" \/ (body = "empty" /\ route = "swipes")

DecodeJSON ==
    /\ at = "reading"
    /\ CASE given.body = "huge" -> Fail(Refusal(413, "payloadTooLarge"))
         [] given.body # "huge" /\ ~Valid(given.route, given.body) -> Fail(Invalid)
         [] OTHER -> Goto("updating")
    /\ UNCHANGED <<given, world, seen, stored, upstream, header, aborted>>

\* The parameters of the URL in the order they are looked at.
ParamOrder_IdFirst(route) ==
    CASE route = "toggle" -> <<"id", "index">>
      [] route = "spotify" -> <<"timeRange", "limit", "offset">>
      [] OTHER -> <<"id">>
ParamOrder(route) ==
    CASE route = "toggle" -> <<"index", "id">>
      [] route = "spotify" -> <<"timeRange", "limit", "offset">>
      [] OTHER -> <<"id">>

ParamError(route, param) ==
    CASE param = "index" \/ route = "join" -> Invalid
      [] param = "timeRange" -> Refusal(400, "invalidTimeRange")
      [] param = "limit" -> Refusal(400, "invalidLimit")
      [] param = "offset" -> Refusal(400, "invalidOffset")
      [] OTHER -> Refusal(400, "invalidId")

CheckParams ==
    /\ at = "params"
    /\ LET order == ParamOrder(given.route)
           Bad(i) == order[i] \in given.params
       IN  \/ /\ given.route = "spotify" /\ given.token = "none"
              /\ Fail(Refusal(401, "missingAccessToken"))
           \/ /\ given.route # "spotify" \/ given.token # "none"
              /\ \/ \E i \in DOMAIN order :
                       /\ Bad(i) /\ \A j \in 1 .. (i - 1) : ~Bad(j)
                       /\ Fail(ParamError(given.route, order[i]))
                 \/ /\ \A i \in DOMAIN order : ~Bad(i)
                    /\ Goto(IF given.route = "spotify" THEN "calling" ELSE "finding")
    /\ UNCHANGED <<given, world, seen, stored, upstream, header, aborted>>

-----------------------------------------------------------------------------
(* Service calls, as the database answers them. *)

\* A read that comes back: the result, the next call, or the refusals.  A session
\* counts as expired by the time noted before the read; one that expires in
\* between is one that expires after it.  The services of a session leave its
\* expiry to RequireParticipant.  "refused", with 409, stands for every refusal
\* for the state of things (a full session, no entries yet, nobody's user id, the
\* free space, a full board); BingoBoard and SessionCodes tell theirs apart.
LooksAtExpiry(route) == route \notin Participant

Found ==
    /\ at = "finding" /\ given.route \in About /\ client = "connected"
    /\ seen' = IF session = "expired" /\ ~LooksAtExpiry(given.route) THEN seen ELSE session
    /\ CASE session = "missing" -> Fail(Refusal(404, "absent"))
         [] session = "expired" /\ LooksAtExpiry(given.route) ->
               Fail(Refusal(410, "expired"))
         [] OTHER -> \/ Fail(Refusal(409, "refused"))
                     \/ IF given.route \in Writes THEN Goto("updating") ELSE OK("document")
    /\ UNCHANGED <<given, world, stored, upstream, header, aborted>>

\* The singleton documents of games and wordle: found, or not there; a game may
\* also be missing from its document, or be none.
FoundDocument ==
    /\ at = "finding" /\ given.route \notin About /\ client = "connected"
    /\ seen' = "live" /\ OK("document")
    /\ UNCHANGED <<given, world, stored, upstream, header, aborted>>

NoDocument ==
    /\ at = "finding" /\ given.route \notin About /\ client = "connected"
    /\ seen' = "missing" /\ Fail(Refusal(404, "absent"))
    /\ UNCHANGED <<given, world, stored, upstream, header, aborted>>

\* The update is applied; its reply is yet to come.  The call of transition that
\* MarkReady and SubmitSwipes make next is left out: they answer as if it had not
\* been made when it fails (it is an action of WatcherEvents and WatcherSession).
Updated ==
    /\ at = "updating" /\ client = "connected"
    /\ given.route \in About => session # "missing"
    /\ stored' = TRUE
    /\ Goto("replying")
    /\ UNCHANGED <<given, world, seen, upstream, header, aborted>>

\* The update matches nothing, the service refuses it before, or it is out of
\* codes to try.
UpdateRefused ==
    /\ at = "updating" /\ client = "connected"
    /\ \/ /\ given.route \in Participant /\ session = "missing"
          /\ seen' = session /\ Fail(Refusal(404, "absent"))
       \/ /\ given.route \in {"entries", "join"}
          /\ Fail(Refusal(409, "refused")) /\ UNCHANGED seen
       \/ /\ given.route = "create"
          /\ Fail(Refusal(503, "refused")) /\ UNCHANGED seen
    /\ UNCHANGED <<given, world, stored, upstream, header, aborted>>

\* An update of a board that matches nothing.  A board that is no longer there has
\* expired, as far as a toggle goes; a mint reads it again to say which it is.
BoardRefused ==
    /\ at = "updating" /\ client = "connected"
    /\ \/ /\ given.route = "mint"
          /\ Goto("rereading") /\ UNCHANGED seen
       \/ /\ given.route = "toggle" /\ session = "missing"
          /\ seen' = "lapsed" /\ Fail(Refusal(410, "expired"))
    /\ UNCHANGED <<given, world, stored, upstream, header, aborted>>

\* Still there, and so full: expiry is told by the time noted at the start.
MintReread ==
    /\ at = "rereading" /\ client = "connected"
    /\ IF session = "missing"
       THEN seen' = "lapsed" /\ Fail(Refusal(410, "expired"))
       ELSE UNCHANGED seen /\ Fail(Refusal(409, "refused"))
    /\ UNCHANGED <<given, world, stored, upstream, header, aborted>>

Replied ==
    /\ at = "replying"
    /\ IF given.route = "create" THEN WriteJSON(201, "ok", "document") ELSE OK("document")
    /\ UNCHANGED <<given, world, seen, stored, upstream, header, aborted>>

\* Every error of the driver goes to Classify, but for that of a mint's second
\* read, which counts as an expired board.  An update that has been applied may
\* still fail, in its write concern or on the way back.
DriverErrors(stage) ==
    {"server", "other"}
    \cup (IF stage = "updating" THEN {"duplicateKey", "documentInvalid"} ELSE {})
    \cup (IF client = "closed" THEN {"disconnected"} ELSE {})

AtDatabase == {"authorising", "finding", "updating", "replying"}

DatabaseFails ==
    /\ \/ /\ at \in AtDatabase
          /\ \E kind \in DriverErrors(at) : Fail(Driver(kind))
          /\ UNCHANGED seen
       \/ /\ at = "rereading"
          /\ seen' = "lapsed" /\ Fail(Refusal(410, "expired"))
    /\ UNCHANGED <<given, world, stored, upstream, header, aborted>>

\* net/http watches the connection, and cancels the request's context, once
\* nothing of the body is left to be read.
BodyRead ==
    \/ given.body = "none"
    \/ given.route \in WithBody
       /\ at \notin {"arrived", "requireParticipant", "authorising", "reading"}
Cancelled == gone /\ BodyRead

DatabaseGivesUp == (Cancelled \/ client = "closed") /\ DatabaseFails

-----------------------------------------------------------------------------
(* The Spotify proxy. *)

\* A page may be cut off by maxUpstreamBody, or be no JSON.
SpotifyAnswers ==
    [status : {200, 401, 403, 429, 502}, page : {"whole", "empty", "cut"},
     retryAfter : {"none", "number", "date"}]

\* writeUpstreamError
UpstreamError(status) ==
    CASE status = 401 -> Refusal(401, "spotifyTokenInvalid")
      [] status = 403 -> Refusal(403, "spotifyForbidden")
      [] status = 429 -> Refusal(429, "spotifyRateLimited")
      [] OTHER -> Driver("other")

RetryAfter(a) == a.status = 429 /\ a.retryAfter = "number"

SpotifyResponds ==
    /\ at = "calling"
    /\ \E a \in SpotifyAnswers :
          /\ upstream' = a
          /\ header' = header \cup (IF RetryAfter(a) THEN {"retryAfter"} ELSE {})
          /\ IF a.status = 200 THEN OK(a.page) ELSE Fail(UpstreamError(a.status))
    /\ UNCHANGED <<given, world, seen, stored, aborted>>

\* The client's timeout passes, the context is cancelled, or the call fails.
SpotifyTimesOut_Never == FALSE
SpotifyTimesOut ==
    /\ at = "calling"
    /\ Fail(Driver("other"))
    /\ UNCHANGED <<given, world, seen, stored, upstream, header, aborted>>

-----------------------------------------------------------------------------
(* The world. *)

\* A caller that hangs up before its body is read may leave half of it.
HangUp ==
    /\ ~gone /\ at # "over"
    /\ gone' = TRUE
    /\ \/ UNCHANGED given
       \/ given.route \in WithBody /\ ~BodyRead /\ given' = [given EXCEPT !.body = "unreadable"]
    /\ UNCHANGED <<session, client, seen, at, stored, upstream, header, written, aborted>>

Ages ==
    /\ session' = CASE session = "live" -> "expired" [] OTHER -> "missing"
    /\ session # "missing" /\ given.route \in About /\ at # "over"
    /\ UNCHANGED <<given, client, gone, seen, at, stored, upstream, header, written, aborted>>

CloseClient ==
    /\ client = "connected" /\ at # "over"
    /\ client' = "closed"
    /\ UNCHANGED <<given, session, gone, seen, at, stored, upstream, header, written, aborted>>

Over == at = "over" /\ UNCHANGED vars

\* What needs nobody else: a body is read within ReadTimeout, a call to Spotify
\* has its own, and a call of the driver ends with its context and its client.
Handle ==
    \/ Dispatch \/ CronAuth \/ RequireParticipant \/ DecodeJSON \/ CheckParams
    \/ DatabaseGivesUp \/ SpotifyTimesOut

Next ==
    \/ Handle \/ Panic
    \/ Authorised \/ Found \/ FoundDocument \/ NoDocument \/ Updated \/ UpdateRefused
    \/ BoardRefused \/ MintReread \/ Replied \/ DatabaseFails \/ SpotifyResponds
    \/ HangUp \/ Ages \/ CloseClient
    \/ Over

Spec == Init /\ [][Next]_vars

\* The handler's goroutine runs.  Nothing is assumed of the database, which has
\* no deadline, nor of Spotify.
FairSpec == Spec /\ WF_vars(Handle)

-----------------------------------------------------------------------------
(* Properties. *)

Codes ==
    {"ok", "bare", "notFound", "cronNotConfigured", "unauthorizedCron",
     "missingParticipantToken", "missingAccessToken", "invalidId", "absent", "expired",
     "invalidParticipantToken", "payloadTooLarge", "validation", "invalidTimeRange",
     "invalidLimit", "invalidOffset", "refused", "duplicateKey", "documentInvalid",
     "database", "internal", "spotifyTokenInvalid", "spotifyForbidden", "spotifyRateLimited"}

\* Every variable keeps its type; in particular no status is left unset.
TypeOK ==
    /\ given \in Requests
    /\ session \in {"live", "expired", "missing"}
    /\ seen \in {"unread", "live", "expired", "missing", "lapsed"}
    /\ at \in Stages /\ stored \in BOOLEAN
    /\ client \in {"connected", "closed"} /\ gone \in BOOLEAN
    /\ upstream \in SpotifyAnswers \cup {NoAnswer}
    /\ header \subseteq {"cors", "retryAfter"} /\ aborted \in BOOLEAN
    /\ written \in Seq([status : {200, 201, 400, 401, 403, 404, 409, 410, 413, 429, 500, 503},
                        code : Codes])

\* Who is sent the headers of CORS: the allowed origins, by every route.
CorsFits ==
    /\ "cors" \in header => given.origin = "allowed"
    /\ given.route # "unknown" /\ given.origin = "allowed" => "cors" \in header

\* A request gets one envelope, whose status agrees with it, and a panic takes
\* nothing away from that.  Every answer of a route, those to a panic and to a
\* refusal included, can be read by a page of an allowed origin; one of another
\* origin can read nothing.
AnswerIsWhole ==
    /\ Len(written) = IF at = "over" /\ ~aborted THEN 1 ELSE 0
    /\ \A i \in DOMAIN written :
          written[i].code \in {"ok", "bare"} <=> written[i].status < 300
    /\ at # "arrived" => CorsFits

\* The client can go by the status: a write answered with success has been
\* applied, one that is refused has not, however the driver failed; only a 500
\* leaves it open.  The proxy says 200 just when Spotify sent a whole page,
\* blames the access token just when Spotify did, and passes a Retry-After on
\* just when Spotify sent one in seconds.
IsTrue(a) ==
    /\ a.code = "ok" /\ given.route \in Writes => stored
    /\ a.status # 500 /\ a.code # "ok" => ~stored
    /\ given.route = "spotify" =>
          /\ a.status = 200 <=> upstream.status = 200 /\ upstream.page = "whole"
          /\ a.code = "spotifyTokenInvalid" <=> upstream.status = 401
          /\ "retryAfter" \in header <=>
                 upstream.status = 429 /\ upstream.retryAfter = "number"
AnswerTellsWhatHappened == \A i \in DOMAIN written : IsTrue(written[i])

\* What can be wrong with a request, in the order that decides its answer.
Ladder ==
    <<"route", "secret", "cronToken", "token", "index", "timeRange", "limit", "offset",
      "id", "absent", "expired", "wrongToken", "tooLarge", "body">>

HasFault(fault) ==
    CASE fault = "route" -> given.route = "unknown" /\ ~given.preflight
      [] fault = "secret" -> given.route = "cron" /\ ~given.secret
      [] fault = "cronToken" -> given.route = "cron" /\ given.token # "right"
      [] fault = "token" -> given.route \in Participant \cup {"spotify"} /\ given.token = "none"
      [] fault = "absent" -> seen = "missing"
      [] fault = "expired" -> seen \in {"expired", "lapsed"}
      [] fault = "wrongToken" -> given.route \in Participant /\ given.token = "wrong"
      [] fault = "tooLarge" -> given.route \in WithBody /\ given.body = "huge"
      [] fault = "body" -> /\ given.route \in WithBody
                           /\ \/ given.body \in {"malformed", "unreadable", "invalid"}
                              \/ given.body = "empty" /\ given.route # "swipes"
      [] OTHER -> fault \in given.params

CodesOf(fault) ==
    CASE fault = "route" -> {"notFound"}
      [] fault = "secret" -> {"cronNotConfigured"}
      [] fault = "cronToken" -> {"unauthorizedCron"}
      [] fault = "token" -> {"missingParticipantToken", "missingAccessToken"}
      [] fault \in {"index", "body"} -> {"validation"}
      [] fault = "timeRange" -> {"invalidTimeRange"}
      [] fault = "limit" -> {"invalidLimit"}
      [] fault = "offset" -> {"invalidOffset"}
      [] fault = "id" -> {"invalidId", "validation"}
      [] fault = "wrongToken" -> {"invalidParticipantToken"}
      [] fault = "tooLarge" -> {"payloadTooLarge"}
      [] OTHER -> {fault}

\* Of several faults of a request the first of the ladder is the one it is
\* told, on every route and whatever happens to the session meanwhile; a
\* request that is served, or refused for the state of things, has none.  What
\* counts of the session is what the calls of the handler found: it is absent
\* when a read did not find it, and a board that a read found and a later call
\* did not find, or could not read, has expired.
TellsFirstFault(code) ==
    LET faults == {f \in DOMAIN Ladder : HasFault(Ladder[f])}
    IN  /\ code \in {"ok", "bare", "refused"} => faults = {}
        /\ code \in UNION {CodesOf(Ladder[f]) : f \in DOMAIN Ladder} =>
              \E f \in faults : /\ \A g \in faults : f <= g
                                /\ code \in CodesOf(Ladder[f])
FirstFaultAnswers == \A i \in DOMAIN written : TellsFirstFault(written[i].code)

\* What the stages a request has passed have ruled out: past its last check
\* nothing is wrong with it, and only its service call is left to refuse it.
Faultless == \A f \in DOMAIN Ladder : ~HasFault(Ladder[f])
OnItsWay ==
    /\ at = "cronAuth" => given.route = "cron"
    /\ at \in {"requireParticipant", "authorising"} => given.route \in Participant
    /\ at = "authorising" => given.token # "none" /\ "id" \notin given.params
    /\ at = "reading" =>
          /\ given.route \in WithBody
          /\ given.route \in Participant => given.token = "right" /\ "id" \notin given.params
    /\ at = "params" => given.route \in Boards \cup {"join", "game", "spotify"}
    /\ at \in {"finding", "updating", "rereading", "replying", "calling"} => Faultless
    /\ at = "finding" => given.route \notin {"cron", "create", "spotify"}
    /\ at \in {"updating", "replying"} => given.route \in Writes
    /\ at = "rereading" => given.route = "mint"
    /\ at = "calling" => given.route = "spotify"

\* Until it is answered, nothing says how it will be; an update is only applied
\* when nothing but its reply is left.
Unanswered ==
    /\ at # "over" => /\ ~aborted /\ upstream = NoAnswer /\ "retryAfter" \notin header
                      /\ seen \in {"unread", "live"}
    /\ stored => at \in {"replying", "over"}
    /\ at = "replying" => stored

\* The inductive invariant of the above.
IInv ==
    /\ TypeOK /\ AnswerIsWhole /\ AnswerTellsWhatHappened /\ FirstFaultAnswers
    /\ OnItsWay /\ Unanswered

\* A request of the proxy is answered whatever Spotify does.  One that waits
\* for the database ends once the mongo client is closed, or its caller has
\* hung up and nothing of its body is left unread.
RequestsEnd ==
    (given.route = "spotify" \/ Cancelled \/ client = "closed") ~> at = "over"
=============================================================================
