-------------------------- MODULE RequestPath_proofs --------------------------
(***************************************************************************)
(* Theorems about RequestPath: whatever the request, the order in which    *)
(* the database, Spotify and the caller act, and whether handlers panic,   *)
(* the one answer is whole, true, and tells the first fault.               *)
(***************************************************************************)
EXTENDS RequestPath, SequenceTheorems, TLAPS

-----------------------------------------------------------------------------
(* Requests and the ladder. *)

\* What a request of a route looks like.
LEMMA RequestShape ==
    ASSUME given \in Requests
    PROVE  /\ given.route \in {"unknown", "static", "games", "wordle", "cron", "create", "spotify",
                               "game"} \cup About
           /\ given.preflight \in BOOLEAN
           /\ given.preflight => given.route = "unknown"
           /\ given.route # "unknown" => given.listed
           /\ given.route \in Participant => given.token \in {"none", "wrong", "right"}
           /\ given.route \in WithBody => given.body \in Bodies
<1> USE DEF Requests, Request, About, Participant, Boards, WithBody, Bodies
<1> QED
  OBVIOUS

\* Which parameters a route has.
LEMMA RequestParams ==
    ASSUME given \in Requests
    PROVE  /\ given.route \in {"unknown", "static", "games", "wordle", "cron", "create"} =>
                  given.params = {}
           /\ given.route \in Participant \cup {"join", "mint", "board", "game"} =>
                  given.params \subseteq {"id"}
           /\ given.route = "toggle" => given.params \subseteq {"index", "id"}
           /\ given.route = "spotify" => given.params \subseteq {"timeRange", "limit", "offset"}
BY DEF Requests, Request, Participant

\* The rungs of the ladder.
LEMMA Rungs ==
    /\ DOMAIN Ladder = 1..14
    /\ Ladder[1] = "route" /\ Ladder[2] = "secret" /\ Ladder[3] = "cronToken"
    /\ Ladder[4] = "token" /\ Ladder[5] = "index" /\ Ladder[6] = "timeRange"
    /\ Ladder[7] = "limit" /\ Ladder[8] = "offset" /\ Ladder[9] = "id"
    /\ Ladder[10] = "absent" /\ Ladder[11] = "expired" /\ Ladder[12] = "wrongToken"
    /\ Ladder[13] = "tooLarge" /\ Ladder[14] = "body"
BY DEF Ladder

\* The faults of the request as it stands, one by one.
LEMMA Faults ==
    /\ HasFault("route") <=> given.route = "unknown" /\ ~given.preflight
    /\ HasFault("secret") <=> given.route = "cron" /\ ~given.secret
    /\ HasFault("cronToken") <=> given.route = "cron" /\ given.token # "right"
    /\ HasFault("token") <=> given.route \in Participant \cup {"spotify"} /\ given.token = "none"
    /\ HasFault("index") <=> "index" \in given.params
    /\ HasFault("timeRange") <=> "timeRange" \in given.params
    /\ HasFault("limit") <=> "limit" \in given.params
    /\ HasFault("offset") <=> "offset" \in given.params
    /\ HasFault("id") <=> "id" \in given.params
    /\ HasFault("absent") <=> seen = "missing"
    /\ HasFault("expired") <=> seen \in {"expired", "lapsed"}
    /\ HasFault("wrongToken") <=> given.route \in Participant /\ given.token = "wrong"
    /\ HasFault("tooLarge") <=> given.route \in WithBody /\ given.body = "huge"
    /\ HasFault("body") <=> /\ given.route \in WithBody
                            /\ \/ given.body \in {"malformed", "unreadable", "invalid"}
                               \/ given.body = "empty" /\ given.route # "swipes"
BY DEF HasFault

\* And as the next state has them.
LEMMA FaultsNext ==
    /\ HasFault("route")' <=> given'.route = "unknown" /\ ~given'.preflight
    /\ HasFault("secret")' <=> given'.route = "cron" /\ ~given'.secret
    /\ HasFault("cronToken")' <=> given'.route = "cron" /\ given'.token # "right"
    /\ HasFault("token")' <=>
           given'.route \in Participant \cup {"spotify"} /\ given'.token = "none"
    /\ HasFault("index")' <=> "index" \in given'.params
    /\ HasFault("timeRange")' <=> "timeRange" \in given'.params
    /\ HasFault("limit")' <=> "limit" \in given'.params
    /\ HasFault("offset")' <=> "offset" \in given'.params
    /\ HasFault("id")' <=> "id" \in given'.params
    /\ HasFault("absent")' <=> seen' = "missing"
    /\ HasFault("expired")' <=> seen' \in {"expired", "lapsed"}
    /\ HasFault("wrongToken")' <=> given'.route \in Participant /\ given'.token = "wrong"
    /\ HasFault("tooLarge")' <=> given'.route \in WithBody /\ given'.body = "huge"
    /\ HasFault("body")' <=>
           /\ given'.route \in WithBody
           /\ \/ given'.body \in {"malformed", "unreadable", "invalid"}
              \/ given'.body = "empty" /\ given'.route # "swipes"
BY DEF HasFault

\* The codes of each.
LEMMA CodesOfFaults ==
    /\ CodesOf("route") = {"notFound"}
    /\ CodesOf("secret") = {"cronNotConfigured"}
    /\ CodesOf("cronToken") = {"unauthorizedCron"}
    /\ CodesOf("token") = {"missingParticipantToken", "missingAccessToken"}
    /\ CodesOf("index") = {"validation"} /\ CodesOf("body") = {"validation"}
    /\ CodesOf("timeRange") = {"invalidTimeRange"}
    /\ CodesOf("limit") = {"invalidLimit"}
    /\ CodesOf("offset") = {"invalidOffset"}
    /\ CodesOf("id") = {"invalidId", "validation"}
    /\ CodesOf("absent") = {"absent"} /\ CodesOf("expired") = {"expired"}
    /\ CodesOf("wrongToken") = {"invalidParticipantToken"}
    /\ CodesOf("tooLarge") = {"payloadTooLarge"}
BY DEF CodesOf

\* Nothing is wrong with a request exactly if no rung has a fault.
LEMMA FaultlessRungs ==
    ASSUME given \in Requests, seen \notin {"missing", "expired", "lapsed"}, given.params = {},
           given.route = "unknown" => given.preflight,
           given.route = "cron" => given.secret /\ given.token = "right",
           given.route \in Participant => given.token = "right",
           given.route = "spotify" => given.token # "none",
           given.route \in WithBody => Valid(given.route, given.body)
    PROVE  Faultless
<1> SUFFICES ASSUME NEW f \in 1..14 PROVE ~HasFault(Ladder[f])
  BY Rungs DEF Faultless
<1>1. \A fault \in {"route", "secret", "cronToken", "token", "index", "timeRange", "limit",
                    "offset", "id", "absent", "expired", "wrongToken", "tooLarge", "body"} :
         ~HasFault(fault)
  BY Faults DEF Valid
<1>2. \/ f = 1 \/ f = 2 \/ f = 3 \/ f = 4 \/ f = 5 \/ f = 6 \/ f = 7 \/ f = 8 \/ f = 9
      \/ f = 10 \/ f = 11 \/ f = 12 \/ f = 13 \/ f = 14
  OBVIOUS
<1> QED
  BY <1>1, <1>2, Rungs

\* What does not depend on the session stays while the request does.
LEMMA FaultKept ==
    ASSUME given' = given, NEW f \in 1..14, f # 10, f # 11
    PROVE  HasFault(Ladder[f])' <=> HasFault(Ladder[f])
<1>1. \A fault \in {"route", "secret", "cronToken", "token", "index", "timeRange", "limit",
                    "offset", "id", "wrongToken", "tooLarge", "body"} :
         HasFault(fault)' <=> HasFault(fault)
  BY Faults, FaultsNext
<1>2. \/ f = 1 \/ f = 2 \/ f = 3 \/ f = 4 \/ f = 5 \/ f = 6 \/ f = 7 \/ f = 8 \/ f = 9
      \/ f = 12 \/ f = 13 \/ f = 14
  OBVIOUS
<1> QED
  BY <1>1, <1>2, Rungs

\* So a request stays without faults while its session is found.
LEMMA FaultlessKept ==
    ASSUME Faultless, given' = given, seen' \notin {"missing", "expired", "lapsed"}
    PROVE  Faultless'
<1> SUFFICES ASSUME NEW f \in 1..14 PROVE ~HasFault(Ladder[f])'
  BY Rungs DEF Faultless
<1>1. ~HasFault(Ladder[f])
  BY Rungs DEF Faultless
<1>2. ~HasFault(Ladder[10])' /\ ~HasFault(Ladder[11])'
  BY FaultsNext, Rungs
<1>3. CASE f = 10 \/ f = 11
  BY <1>2, <1>3
<1>4. CASE f # 10 /\ f # 11
  BY <1>1, <1>4, FaultKept
<1> QED
  BY <1>3, <1>4

\* No fault has a code of success, of the state of things, or of the driver.
LEMMA CodesOfNone ==
    ASSUME NEW f \in DOMAIN Ladder
    PROVE  CodesOf(Ladder[f]) \cap
               {"ok", "bare", "refused", "duplicateKey", "documentInvalid", "database",
                "internal", "spotifyTokenInvalid", "spotifyForbidden", "spotifyRateLimited"} = {}
<1>1. \/ f = 1 \/ f = 2 \/ f = 3 \/ f = 4 \/ f = 5 \/ f = 6 \/ f = 7 \/ f = 8 \/ f = 9
      \/ f = 10 \/ f = 11 \/ f = 12 \/ f = 13 \/ f = 14
  BY Rungs
<1> QED
  BY <1>1, Rungs, CodesOfFaults

\* Who is told a code of the driver or of Spotify is told no fault.
LEMMA ToldNoFault ==
    ASSUME NEW code \in {"duplicateKey", "documentInvalid", "database", "internal",
                         "spotifyTokenInvalid", "spotifyForbidden", "spotifyRateLimited"}
    PROVE  TellsFirstFault(code)'
BY CodesOfNone DEF TellsFirstFault

\* Who is served, or refused for the state of things, has none.
LEMMA ToldFaultless ==
    ASSUME NEW code \in {"ok", "bare", "refused"}, Faultless'
    PROVE  TellsFirstFault(code)'
BY CodesOfNone DEF TellsFirstFault, Faultless

\* Who is told a fault is told the first, when no rung before it has one.
LEMMA ToldFirst ==
    ASSUME NEW k \in 1..14, HasFault(Ladder[k])', \A j \in 1..(k - 1) : ~HasFault(Ladder[j])',
           NEW code \in CodesOf(Ladder[k])
    PROVE  TellsFirstFault(code)'
<1>1. DOMAIN Ladder = 1..14
  BY Rungs
<1>2. code \notin {"ok", "bare", "refused"}
  BY <1>1, CodesOfNone
<1>3. \A g \in {f \in DOMAIN Ladder : HasFault(Ladder[f])'} : k <= g
  BY <1>1
<1> QED
  BY <1>1, <1>2, <1>3 DEF TellsFirstFault

-----------------------------------------------------------------------------
(* The two ways a handler goes on: to its answer, or to its next stage. *)

Envelopes ==
    [status : {200, 201, 400, 401, 403, 404, 409, 410, 413, 429, 500, 503}, code : Codes]

\* Before it is answered nothing is written.
LEMMA NothingWritten ==
    ASSUME IInv, at # "over"
    PROVE  written = <<>>
<1>1. written \in Seq(Envelopes) /\ Len(written) = 0
  BY DEF IInv, TypeOK, AnswerIsWhole, Envelopes
<1> QED
  BY <1>1, EmptySeq

\* An answer keeps the invariant when it is whole, true, and tells the first fault.
LEMMA AnswerKeeps ==
    ASSUME IInv, at # "over", NEW b \in Envelopes, Answer(b),
           given' = given, session' = session, client' = client, gone' = gone,
           stored' = stored, aborted' = aborted,
           seen' \in {"unread", "live", "expired", "missing", "lapsed"},
           upstream' \in SpotifyAnswers \cup {NoAnswer},
           header' \subseteq {"cors", "retryAfter"},
           CorsFits',
           b.code \in {"ok", "bare"} <=> b.status < 300,
           IsTrue(b)', TellsFirstFault(b.code)'
    PROVE  IInv'
<1>1. written' = <<b>> /\ at' = "over" /\ ~aborted'
  <2>1. written = <<>>
    BY NothingWritten
  <2>2. written' = Append(written, b) /\ at' = "over"
    BY DEF Answer
  <2>3. ~aborted
    BY DEF IInv, Unanswered
  <2> QED
    BY <2>1, <2>2, <2>3
<1>2. written' \in Seq(Envelopes) /\ Len(written') = 1 /\ DOMAIN written' = {1} /\ written'[1] = b
  BY <1>1
<1>3. TypeOK'
  BY <1>1, <1>2 DEF IInv, TypeOK, Envelopes, Stages
<1>4. AnswerIsWhole'
  BY <1>1, <1>2 DEF AnswerIsWhole
<1>5. AnswerTellsWhatHappened'
  BY <1>2 DEF AnswerTellsWhatHappened
<1>6. FirstFaultAnswers'
  BY <1>2 DEF FirstFaultAnswers
<1>7. OnItsWay'
  BY <1>1 DEF OnItsWay
<1>8. Unanswered'
  BY <1>1 DEF Unanswered
<1> QED
  BY <1>3, <1>4, <1>5, <1>6, <1>7, <1>8 DEF IInv

\* An answer that is not Spotify's, past the arrival.
LEMMA AnswerOfHandler ==
    ASSUME IInv, at \notin {"arrived", "over"}, NEW b \in Envelopes, Answer(b),
           given' = given, session' = session, client' = client, gone' = gone,
           stored' = stored, aborted' = aborted, upstream' = upstream, header' = header,
           seen' \in {"unread", "live", "expired", "missing", "lapsed"},
           b.code \in {"ok", "bare"} <=> b.status < 300,
           b.code = "ok" /\ given.route \in Writes => stored,
           b.status # 500 /\ b.code # "ok" => ~stored,
           given.route = "spotify" => b.status # 200 /\ b.code # "spotifyTokenInvalid",
           TellsFirstFault(b.code)'
    PROVE  IInv'
<1>1. /\ header \subseteq {"cors", "retryAfter"} /\ "retryAfter" \notin header
      /\ upstream = NoAnswer
      /\ CorsFits
  BY DEF IInv, TypeOK, AnswerIsWhole, Unanswered
<1>2. IsTrue(b)'
  BY <1>1 DEF IsTrue, NoAnswer
<1> QED
  BY <1>1, <1>2, AnswerKeeps DEF CorsFits

\* Going on keeps it when what the next stage relies on has been looked at.
LEMMA GotoKeeps ==
    ASSUME IInv, at # "over", at' \in Stages \ {"arrived", "over"}, written' = written,
           given' = given, session' = session, client' = client, gone' = gone,
           aborted' = aborted, upstream' = upstream,
           header' \subseteq {"cors"}, CorsFits',
           seen' \in {"unread", "live"},
           stored' \in BOOLEAN, stored' <=> at' = "replying",
           OnItsWay'
    PROVE  IInv'
<1>1. written = <<>> /\ ~aborted /\ upstream = NoAnswer
  BY NothingWritten DEF IInv, Unanswered
<1>2. TypeOK'
  BY DEF IInv, TypeOK
<1>3. Len(written') = 0 /\ DOMAIN written' = {}
  BY <1>1
<1>4. AnswerIsWhole' /\ AnswerTellsWhatHappened' /\ FirstFaultAnswers'
  BY <1>3 DEF AnswerIsWhole, AnswerTellsWhatHappened, FirstFaultAnswers
<1>5. Unanswered'
  BY <1>1 DEF Unanswered
<1> QED
  BY <1>2, <1>4, <1>5 DEF IInv

\* And in particular past the arrival, when nothing is stored on the way.
LEMMA GotoInHandler ==
    ASSUME IInv, at \notin {"arrived", "replying", "over"},
           at' \in Stages \ {"arrived", "replying", "over"}, written' = written,
           given' = given, session' = session, client' = client, gone' = gone,
           stored' = stored, aborted' = aborted, upstream' = upstream, header' = header,
           seen' \in {"unread", "live"},
           OnItsWay'
    PROVE  IInv'
<1>1. /\ header \subseteq {"cors"}
      /\ CorsFits
  BY DEF IInv, TypeOK, AnswerIsWhole, Unanswered
<1>2. stored = FALSE
  BY DEF IInv, TypeOK, Unanswered
<1>3. stored' \in BOOLEAN /\ (stored' <=> at' = "replying")
  BY <1>2
<1>4. /\ header' \subseteq {"cors"}
      /\ CorsFits'
      /\ at # "over" /\ at' \in Stages \ {"arrived", "over"}
  BY <1>1 DEF CorsFits
<1> QED
  BY <1>3, <1>4, GotoKeeps

-----------------------------------------------------------------------------
(* The steps. *)

\* The envelope of every error.
LEMMA Classified ==
    /\ \A status, code : Classify(Refusal(status, code)) = [status |-> status, code |-> code]
    /\ Classify(Invalid) = [status |-> 400, code |-> "validation"]
    /\ Classify(Driver("duplicateKey")) = [status |-> 409, code |-> "duplicateKey"]
    /\ Classify(Driver("documentInvalid")) = [status |-> 400, code |-> "documentInvalid"]
    /\ Classify(Driver("server")) = [status |-> 500, code |-> "database"]
    /\ Classify(Driver("disconnected")) = [status |-> 500, code |-> "database"]
    /\ Classify(Driver("other")) = [status |-> 500, code |-> "internal"]
<1>1. \A status, code : Classify(Refusal(status, code)) = [status |-> status, code |-> code]
  BY DEF Classify, Refusal
<1>2. Classify(Invalid) = [status |-> 400, code |-> "validation"]
  BY DEF Classify, Invalid
<1>3. Classify(Driver("duplicateKey")) = [status |-> 409, code |-> "duplicateKey"]
  BY DEF Classify, Driver
<1>4. Classify(Driver("documentInvalid")) = [status |-> 400, code |-> "documentInvalid"]
  BY DEF Classify, Driver
<1>5. /\ Classify(Driver("server")) = [status |-> 500, code |-> "database"]
      /\ Classify(Driver("disconnected")) = [status |-> 500, code |-> "database"]
  BY DEF Classify, Driver
<1>6. Classify(Driver("other")) = [status |-> 500, code |-> "internal"]
  BY DEF Classify, Driver
<1> QED
  BY <1>1, <1>2, <1>3, <1>4, <1>5, <1>6

\* Dispatch looks at the route first, which is the first rung.
LEMMA DispatchKeeps == IInv /\ Dispatch => IInv'
<1> SUFFICES ASSUME IInv, Dispatch PROVE IInv'
  OBVIOUS
<1>1. /\ at = "arrived" /\ header' = Cors /\ given' = given /\ session' = session
      /\ client' = client /\ gone' = gone /\ seen' = seen /\ stored' = stored
      /\ upstream' = upstream /\ aborted' = aborted
  BY DEF Dispatch, world
<1>2. /\ header' \subseteq {"cors"} /\ "retryAfter" \notin header'
      /\ CorsFits'
  <2>1. given \in Requests
    BY DEF IInv, TypeOK
  <2>2. given.route # "unknown" => given.listed
    BY <2>1, RequestShape
  <2>3. header' = IF given.origin = "allowed" /\ given.listed THEN {"cors"} ELSE {}
    BY <1>1 DEF Cors
  <2> QED
    BY <1>1, <2>2, <2>3 DEF CorsFits
<1>3. /\ given \in Requests /\ seen \in {"unread", "live"} /\ stored = FALSE
      /\ upstream = NoAnswer
  BY <1>1 DEF IInv, TypeOK, Unanswered
<1>4. CASE given.preflight \/ given.route = "static"
  <2> DEFINE b == [status |-> 200, code |-> "bare"]
  <2>1. Answer(b) /\ b \in Envelopes
    BY <1>4 DEF Dispatch, Envelopes, Codes
  <2>2. given.route \in {"unknown", "static"} /\ (given.route = "unknown" => given.preflight)
    BY <1>3, <1>4, RequestShape
  <2>3. Faultless'
    <3>1. Faultless
      BY <1>3, <2>2, RequestParams, FaultlessRungs DEF Participant, WithBody
    <3> QED
      BY <1>1, <1>3, <3>1, FaultlessKept
  <2>4. IsTrue(b)'
    BY <1>1, <1>3, <2>2 DEF IsTrue
  <2>5. TellsFirstFault(b.code)'
    BY <2>3, ToldFaultless
  <2> HIDE DEF b
  <2>6. b.code = "bare" /\ b.status = 200
    BY DEF b
  <2> QED
    BY <1>1, <1>2, <1>3, <2>1, <2>4, <2>5, <2>6, AnswerKeeps
<1>5. CASE ~(given.preflight \/ given.route = "static") /\ given.route = "unknown"
  <2> DEFINE b == [status |-> 404, code |-> "notFound"]
  <2>1. Answer(b) /\ b \in Envelopes
    <3>1. Fail(Refusal(404, "notFound"))
      <4>1. given.route \notin Participant \cup {"cron", "create", "games", "wordle"}
        BY <1>5 DEF Participant
      <4> QED
        BY <1>5, <4>1 DEF Dispatch
    <3> QED
      BY <3>1, Classified DEF Fail, Envelopes, Codes
  <2>2. HasFault(Ladder[1])' /\ b.code \in CodesOf(Ladder[1])
    BY <1>1, <1>5, Rungs, FaultsNext, CodesOfFaults
  <2>3. IsTrue(b)'
    BY <1>1, <1>3, <1>5 DEF IsTrue
  <2>4. TellsFirstFault(b.code)'
    BY <2>2, ToldFirst
  <2> HIDE DEF b
  <2>5. b.code = "notFound" /\ b.status = 404
    BY DEF b
  <2> QED
    BY <1>1, <1>2, <1>3, <2>1, <2>3, <2>4, <2>5, AnswerKeeps
<1>6. CASE ~(given.preflight \/ given.route = "static") /\ given.route # "unknown"
  <2>1. written' = written /\ stored' \in BOOLEAN /\ at' \in Stages \ {"arrived", "over"}
        /\ ~stored' /\ at' # "replying"
    BY <1>3, <1>6, <1>1 DEF Dispatch, Goto, Stages
  <2>2. OnItsWay'
    <3>1. CASE given.route = "cron"
      BY <1>1, <1>6, <3>1 DEF Dispatch, Goto, OnItsWay
    <3>2. CASE given.route \in Participant
      BY <1>1, <1>6, <3>2 DEF Dispatch, Goto, OnItsWay, Participant
    <3>3. CASE given.route = "create"
      BY <1>1, <1>6, <3>3 DEF Dispatch, Goto, OnItsWay, Participant, WithBody
    <3>4. CASE given.route \in {"games", "wordle"}
      <4>1. Faultless
        BY <1>3, <3>4, RequestParams, FaultlessRungs DEF Participant, WithBody
      <4>2. Faultless'
        BY <1>1, <1>3, <4>1, FaultlessKept
      <4>3. at' = "finding"
        BY <1>6, <3>4 DEF Dispatch, Goto, Participant
      <4> QED
        BY <1>1, <3>4, <4>2, <4>3 DEF OnItsWay
    <3>5. CASE given.route \in Boards \cup {"join", "game", "spotify"}
      BY <1>1, <1>6, <3>5 DEF Dispatch, Goto, OnItsWay, Participant, Boards
    <3>6. given.route \in {"cron", "create", "games", "wordle", "game", "spotify"} \cup About
      BY <1>3, <1>6, RequestShape
    <3> QED
      BY <3>1, <3>2, <3>3, <3>4, <3>5, <3>6 DEF About
  <2> QED
    BY <1>1, <1>2, <1>3, <2>1, <2>2, GotoKeeps
<1> QED
  BY <1>4, <1>5, <1>6

\* What a step of a handler leaves alone.
Undisturbed ==
    /\ given' = given /\ session' = session /\ client' = client /\ gone' = gone
    /\ stored' = stored /\ upstream' = upstream /\ header' = header /\ aborted' = aborted

\* A refusal keeps the invariant when it tells the first fault.
LEMMA RefusalKeeps ==
    ASSUME IInv, at \notin {"arrived", "replying", "over"}, Undisturbed,
           NEW status \in {400, 401, 403, 404, 409, 410, 413, 429, 503},
           NEW code \in Codes \ {"ok", "bare", "spotifyTokenInvalid"},
           Fail(Refusal(status, code)),
           seen' \in {"unread", "live", "expired", "missing", "lapsed"},
           TellsFirstFault(code)'
    PROVE  IInv'
<1> DEFINE b == [status |-> status, code |-> code]
<1>1. Answer(b)
  BY Classified DEF Fail
<1>2. b \in Envelopes /\ b.code = code /\ b.status = status
  BY DEF Envelopes
<1>3. ~stored
  BY DEF IInv, Unanswered
<1> HIDE DEF b
<1> QED
  BY <1>1, <1>2, <1>3, AnswerOfHandler DEF Undisturbed

\* A validation error is a refusal.
LEMMA InvalidIsRefusal == Fail(Invalid) => Fail(Refusal(400, "validation"))
BY Classified DEF Fail

\* So is an error of the driver kept, which tells no fault.
LEMMA DriverErrorKeeps ==
    ASSUME IInv, at \notin {"arrived", "over"}, Undisturbed, seen' = seen,
           NEW kind \in {"server", "disconnected", "other", "duplicateKey", "documentInvalid"},
           kind \in {"duplicateKey", "documentInvalid"} => at = "updating",
           Fail(Driver(kind))
    PROVE  IInv'
<1> DEFINE b == Classify(Driver(kind))
<1>1. Answer(b)
  BY DEF Fail
<1>2. /\ b \in Envelopes
      /\ b.code \in {"duplicateKey", "documentInvalid", "database", "internal"}
      /\ b.status \in {400, 409, 500} /\ (b.status # 500 => at = "updating")
  BY Classified DEF Envelopes, Codes
<1>3. at = "updating" => ~stored
  BY DEF IInv, Unanswered
<1>4. seen \in {"unread", "live", "expired", "missing", "lapsed"}
  BY DEF IInv, TypeOK
<1> HIDE DEF b
<1>5. TellsFirstFault(b.code)'
  BY <1>2, ToldNoFault
<1> QED
  BY <1>1, <1>2, <1>3, <1>4, <1>5, AnswerOfHandler DEF Undisturbed

\* CronAuth asks for the secret before it compares the token, as the ladder does.
LEMMA CronAuthKeeps == IInv /\ CronAuth => IInv'
<1> SUFFICES ASSUME IInv, CronAuth PROVE IInv'
  OBVIOUS
<1>1. at = "cronAuth" /\ Undisturbed /\ seen' = seen
  BY DEF CronAuth, world, Undisturbed
<1>2. given \in Requests /\ given.route = "cron" /\ seen \in {"unread", "live"}
  BY <1>1 DEF IInv, TypeOK, Unanswered, OnItsWay
<1>3. CASE ~given.secret
  <2>1. Fail(Refusal(401, "cronNotConfigured"))
    BY <1>3 DEF CronAuth
  <2>2. HasFault(Ladder[2])' /\ "cronNotConfigured" \in CodesOf(Ladder[2])
    BY <1>1, <1>2, <1>3, Rungs, FaultsNext, CodesOfFaults DEF Undisturbed
  <2>3. \A j \in 1..(2 - 1) : ~HasFault(Ladder[j])'
    BY <1>1, <1>2, Rungs, FaultsNext DEF Undisturbed
  <2>4. TellsFirstFault("cronNotConfigured")'
    BY <2>2, <2>3, ToldFirst
  <2> QED
    BY <1>1, <1>2, <2>1, <2>4, RefusalKeeps DEF Codes
<1>4. CASE given.secret /\ given.token # "right"
  <2>1. Fail(Refusal(401, "unauthorizedCron"))
    BY <1>4 DEF CronAuth
  <2>2. HasFault(Ladder[3])' /\ "unauthorizedCron" \in CodesOf(Ladder[3])
    BY <1>1, <1>2, <1>4, Rungs, FaultsNext, CodesOfFaults DEF Undisturbed
  <2>3. \A j \in 1..(3 - 1) : ~HasFault(Ladder[j])'
    <3>1. ~HasFault(Ladder[1])' /\ ~HasFault(Ladder[2])'
      BY <1>1, <1>2, <1>4, Rungs, FaultsNext DEF Undisturbed
    <3> QED
      BY <3>1
  <2>4. TellsFirstFault("unauthorizedCron")'
    BY <2>2, <2>3, ToldFirst
  <2> QED
    BY <1>1, <1>2, <2>1, <2>4, RefusalKeeps DEF Codes
<1>5. CASE given.secret /\ given.token = "right"
  <2>1. at' = "updating" /\ written' = written
    BY <1>5 DEF CronAuth, Goto
  <2>2. Faultless
    BY <1>2, <1>5, RequestParams, FaultlessRungs DEF Participant, WithBody
  <2>3. Faultless'
    BY <1>1, <1>2, <2>2, FaultlessKept DEF Undisturbed
  <2>4. OnItsWay'
    BY <1>1, <1>2, <2>1, <2>3 DEF OnItsWay, Writes, Undisturbed
  <2> QED
    BY <1>1, <1>2, <2>1, <2>4, GotoInHandler DEF Stages, Undisturbed
<1> QED
  BY <1>3, <1>4, <1>5

\* The token's presence comes before the id, and nothing but the route before both.
LEMMA RequireParticipantKeeps == IInv /\ RequireParticipant => IInv'
<1> SUFFICES ASSUME IInv, RequireParticipant PROVE IInv'
  OBVIOUS
<1>1. at = "requireParticipant" /\ Undisturbed /\ seen' = seen
  BY DEF RequireParticipant, world, Undisturbed
<1>2. given \in Requests /\ given.route \in Participant /\ seen \in {"unread", "live"}
  BY <1>1 DEF IInv, TypeOK, Unanswered, OnItsWay
<1>3. given.route \notin {"unknown", "cron", "spotify"} /\ given.params \subseteq {"id"}
  BY <1>2, RequestParams DEF Participant
<1>4. CASE given.token = "none"
  <2>1. Fail(Refusal(401, "missingParticipantToken"))
    BY <1>4 DEF RequireParticipant
  <2>2. HasFault(Ladder[4])' /\ "missingParticipantToken" \in CodesOf(Ladder[4])
    BY <1>1, <1>2, <1>4, Rungs, FaultsNext, CodesOfFaults DEF Undisturbed
  <2>3. \A j \in 1..(4 - 1) : ~HasFault(Ladder[j])'
    <3>1. ~HasFault(Ladder[1])' /\ ~HasFault(Ladder[2])' /\ ~HasFault(Ladder[3])'
      BY <1>1, <1>3, Rungs, FaultsNext DEF Undisturbed
    <3> QED
      BY <3>1
  <2>4. TellsFirstFault("missingParticipantToken")'
    BY <2>2, <2>3, ToldFirst
  <2> QED
    BY <1>1, <1>2, <2>1, <2>4, RefusalKeeps DEF Codes
<1>5. CASE given.token # "none" /\ "id" \in given.params
  <2>1. Fail(Refusal(400, "invalidId"))
    BY <1>5 DEF RequireParticipant
  <2>2. HasFault(Ladder[9])' /\ "invalidId" \in CodesOf(Ladder[9])
    BY <1>1, <1>5, Rungs, FaultsNext, CodesOfFaults DEF Undisturbed
  <2>3. \A j \in 1..(9 - 1) : ~HasFault(Ladder[j])'
    <3>1. /\ ~HasFault(Ladder[1])' /\ ~HasFault(Ladder[2])' /\ ~HasFault(Ladder[3])'
          /\ ~HasFault(Ladder[4])' /\ ~HasFault(Ladder[5])' /\ ~HasFault(Ladder[6])'
          /\ ~HasFault(Ladder[7])' /\ ~HasFault(Ladder[8])'
      BY <1>1, <1>3, <1>5, Rungs, FaultsNext DEF Undisturbed
    <3> QED
      BY <3>1
  <2>4. TellsFirstFault("invalidId")'
    BY <2>2, <2>3, ToldFirst
  <2> QED
    BY <1>1, <1>2, <2>1, <2>4, RefusalKeeps DEF Codes
<1>6. CASE given.token # "none" /\ "id" \notin given.params
  <2>1. at' = "authorising" /\ written' = written
    BY <1>6 DEF RequireParticipant, Goto
  <2>2. OnItsWay'
    BY <1>1, <1>2, <1>6, <2>1 DEF OnItsWay, Undisturbed
  <2> QED
    BY <1>1, <1>2, <2>1, <2>2, GotoInHandler DEF Stages, Undisturbed
<1> QED
  BY <1>4, <1>5, <1>6

\* Past RequireParticipant the token and the id are in order.
LEMMA AuthorisedKeeps == IInv /\ Authorised => IInv'
<1> SUFFICES ASSUME IInv, Authorised PROVE IInv'
  OBVIOUS
<1>1. at = "authorising" /\ Undisturbed /\ seen' = session
  BY DEF Authorised, world, Undisturbed
<1>2. /\ given \in Requests /\ given.route \in Participant /\ given.token # "none"
      /\ "id" \notin given.params /\ session \in {"live", "expired", "missing"}
  BY <1>1 DEF IInv, TypeOK, OnItsWay
<1>3. /\ given.route \notin {"unknown", "cron", "spotify"} /\ given.params = {}
      /\ given.token \in {"wrong", "right"}
  BY <1>2, RequestParams, RequestShape DEF Participant
<1>4. /\ ~HasFault(Ladder[1])' /\ ~HasFault(Ladder[2])' /\ ~HasFault(Ladder[3])'
      /\ ~HasFault(Ladder[4])' /\ ~HasFault(Ladder[5])' /\ ~HasFault(Ladder[6])'
      /\ ~HasFault(Ladder[7])' /\ ~HasFault(Ladder[8])' /\ ~HasFault(Ladder[9])'
  BY <1>1, <1>3, Rungs, FaultsNext DEF Undisturbed
<1>5. CASE session = "missing"
  <2>1. Fail(Refusal(404, "absent"))
    BY <1>5 DEF Authorised
  <2>2. HasFault(Ladder[10])' /\ "absent" \in CodesOf(Ladder[10])
    BY <1>1, <1>5, Rungs, FaultsNext, CodesOfFaults
  <2>3. \A j \in 1..(10 - 1) : ~HasFault(Ladder[j])'
    BY <1>4
  <2>4. TellsFirstFault("absent")'
    BY <2>2, <2>3, ToldFirst
  <2> QED
    BY <1>1, <1>2, <2>1, <2>4, RefusalKeeps DEF Codes
<1>6. CASE session = "expired"
  <2>1. Fail(Refusal(410, "expired"))
    BY <1>6 DEF Authorised
  <2>2. HasFault(Ladder[11])' /\ "expired" \in CodesOf(Ladder[11])
    BY <1>1, <1>6, Rungs, FaultsNext, CodesOfFaults
  <2>3. \A j \in 1..(11 - 1) : ~HasFault(Ladder[j])'
    <3>1. ~HasFault(Ladder[10])'
      BY <1>1, <1>6, Rungs, FaultsNext
    <3> QED
      BY <1>4, <3>1
  <2>4. TellsFirstFault("expired")'
    BY <2>2, <2>3, ToldFirst
  <2> QED
    BY <1>1, <1>2, <2>1, <2>4, RefusalKeeps DEF Codes
<1>7. CASE session = "live" /\ given.token = "wrong"
  <2>1. Fail(Refusal(403, "invalidParticipantToken"))
    BY <1>7 DEF Authorised, TokenFits
  <2>2. HasFault(Ladder[12])' /\ "invalidParticipantToken" \in CodesOf(Ladder[12])
    BY <1>1, <1>2, <1>7, Rungs, FaultsNext, CodesOfFaults DEF Undisturbed
  <2>3. \A j \in 1..(12 - 1) : ~HasFault(Ladder[j])'
    <3>1. ~HasFault(Ladder[10])' /\ ~HasFault(Ladder[11])'
      BY <1>1, <1>7, Rungs, FaultsNext
    <3> QED
      BY <1>4, <3>1
  <2>4. TellsFirstFault("invalidParticipantToken")'
    BY <2>2, <2>3, ToldFirst
  <2> QED
    BY <1>1, <1>2, <2>1, <2>4, RefusalKeeps DEF Codes
<1>8. CASE session = "live" /\ given.token = "right"
  <2>1. at' = AfterParticipant /\ written' = written
    BY <1>8 DEF Authorised, TokenFits, Goto
  <2>2. CASE given.route \in WithBody
    <3>1. at' = "reading"
      BY <2>1, <2>2 DEF AfterParticipant
    <3>2. OnItsWay'
      BY <1>1, <1>2, <1>8, <2>2, <3>1 DEF OnItsWay, Undisturbed
    <3> QED
      BY <1>1, <1>8, <2>1, <3>1, <3>2, GotoInHandler DEF Stages, Undisturbed
  <2>3. CASE given.route \notin WithBody
    <3>1. at' = "finding"
      BY <2>1, <2>3 DEF AfterParticipant
    <3>2. seen \in {"unread", "live"}
      BY <1>1 DEF IInv, Unanswered
    <3>3. Faultless
      BY <1>2, <1>3, <1>8, <2>3, <3>2, FaultlessRungs
    <3>4. Faultless'
      BY <1>1, <1>8, <3>3, FaultlessKept DEF Undisturbed
    <3>5. given.route \notin {"cron", "create", "spotify"}
      BY <1>2 DEF Participant
    <3>6. OnItsWay'
      BY <1>1, <3>1, <3>4, <3>5 DEF OnItsWay, Undisturbed
    <3> QED
      BY <1>1, <1>8, <2>1, <3>1, <3>6, GotoInHandler DEF Stages, Undisturbed
  <2> QED
    BY <2>2, <2>3
<1> QED
  BY <1>2, <1>3, <1>5, <1>6, <1>7, <1>8

\* A panic is an internal error, or ends without an answer.
LEMMA PanicKeeps == IInv /\ Panic => IInv'
<1> SUFFICES ASSUME IInv, Panic PROVE IInv'
  OBVIOUS
<1>1. /\ at \notin {"arrived", "over"} /\ at' = "over"
      /\ given' = given /\ session' = session /\ client' = client /\ gone' = gone
      /\ stored' = stored /\ upstream' = upstream /\ header' = header /\ seen' = seen
  BY DEF Panic, Answer, world
<1>2. seen \in {"unread", "live", "expired", "missing", "lapsed"}
  BY DEF IInv, TypeOK
<1>3. ASSUME Answer([status |-> 500, code |-> "internal"]), aborted' = aborted
      PROVE  IInv'
  <2> DEFINE b == [status |-> 500, code |-> "internal"]
  <2>1. b \in Envelopes /\ b.code = "internal" /\ b.status = 500 /\ Answer(b)
    BY <1>3 DEF Envelopes, Codes
  <2> HIDE DEF b
  <2>2. TellsFirstFault(b.code)'
    BY <2>1, ToldNoFault
  <2> QED
    BY <1>1, <1>2, <1>3, <2>1, <2>2, AnswerOfHandler
<1>4. ASSUME aborted' = TRUE, written' = written
      PROVE  IInv'
  <2>1. written = <<>>
    BY <1>1, NothingWritten
  <2>2. TypeOK'
    BY <1>1, <1>4 DEF IInv, TypeOK, Stages
  <2>3. Len(written') = 0 /\ DOMAIN written' = {}
    BY <1>4, <2>1
  <2>4. CorsFits
    BY <1>1 DEF IInv, AnswerIsWhole
  <2>5. AnswerIsWhole' /\ AnswerTellsWhatHappened' /\ FirstFaultAnswers'
    BY <1>1, <1>4, <2>3, <2>4 DEF CorsFits, AnswerIsWhole,
       AnswerTellsWhatHappened, FirstFaultAnswers
  <2>6. OnItsWay' /\ Unanswered'
    BY <1>1 DEF OnItsWay, Unanswered
  <2> QED
    BY <2>2, <2>5, <2>6 DEF IInv
<1> QED
  BY <1>3, <1>4 DEF Panic

\* The body is the last thing looked at: too large before malformed.
LEMMA DecodeJSONKeeps == IInv /\ DecodeJSON => IInv'
<1> SUFFICES ASSUME IInv, DecodeJSON PROVE IInv'
  OBVIOUS
<1>1. at = "reading" /\ Undisturbed /\ seen' = seen
  BY DEF DecodeJSON, world, Undisturbed
<1>2. /\ given \in Requests /\ given.route \in WithBody /\ seen \in {"unread", "live"}
      /\ given.route \in Participant => given.token = "right" /\ "id" \notin given.params
  BY <1>1 DEF IInv, TypeOK, Unanswered, OnItsWay
<1>3. /\ given.route \notin {"unknown", "cron", "spotify"} /\ given.params = {}
      /\ given.body \in Bodies
  BY <1>2, RequestParams, RequestShape DEF Participant, WithBody
<1>4. /\ ~HasFault(Ladder[1])' /\ ~HasFault(Ladder[2])' /\ ~HasFault(Ladder[3])'
      /\ ~HasFault(Ladder[4])' /\ ~HasFault(Ladder[5])' /\ ~HasFault(Ladder[6])'
      /\ ~HasFault(Ladder[7])' /\ ~HasFault(Ladder[8])' /\ ~HasFault(Ladder[9])'
      /\ ~HasFault(Ladder[10])' /\ ~HasFault(Ladder[11])' /\ ~HasFault(Ladder[12])'
  BY <1>1, <1>2, <1>3, Rungs, FaultsNext DEF Undisturbed
<1>5. CASE given.body = "huge"
  <2>1. Fail(Refusal(413, "payloadTooLarge"))
    BY <1>5 DEF DecodeJSON
  <2>2. HasFault(Ladder[13])' /\ "payloadTooLarge" \in CodesOf(Ladder[13])
    BY <1>1, <1>2, <1>5, Rungs, FaultsNext, CodesOfFaults DEF Undisturbed
  <2>3. \A j \in 1..(13 - 1) : ~HasFault(Ladder[j])'
    BY <1>4
  <2>4. TellsFirstFault("payloadTooLarge")'
    BY <2>2, <2>3, ToldFirst
  <2> QED
    BY <1>1, <1>2, <2>1, <2>4, RefusalKeeps DEF Codes
<1>6. CASE given.body # "huge" /\ ~Valid(given.route, given.body)
  <2>1. Fail(Refusal(400, "validation"))
    <3>1. Fail(Invalid)
      BY <1>6 DEF DecodeJSON
    <3> QED
      BY <3>1, InvalidIsRefusal
  <2>2. HasFault(Ladder[14])' /\ "validation" \in CodesOf(Ladder[14])
    <3>1. /\ given.body \in {"malformed", "unreadable", "invalid", "empty"}
          /\ given.body = "empty" => given.route # "swipes"
      BY <1>3, <1>6 DEF Valid, Bodies
    <3> QED
      BY <1>1, <1>2, <3>1, Rungs, FaultsNext, CodesOfFaults DEF Undisturbed
  <2>3. \A j \in 1..(14 - 1) : ~HasFault(Ladder[j])'
    <3>1. ~HasFault(Ladder[13])'
      BY <1>1, <1>6, Rungs, FaultsNext DEF Undisturbed
    <3> QED
      BY <1>4, <3>1
  <2>4. TellsFirstFault("validation")'
    BY <2>2, <2>3, ToldFirst
  <2> QED
    BY <1>1, <1>2, <2>1, <2>4, RefusalKeeps DEF Codes
<1>7. CASE given.body # "huge" /\ Valid(given.route, given.body)
  <2>1. at' = "updating" /\ written' = written
    BY <1>7 DEF DecodeJSON, Goto
  <2>2. Faultless
    BY <1>2, <1>3, <1>7, FaultlessRungs
  <2>3. Faultless'
    BY <1>1, <1>2, <2>2, FaultlessKept DEF Undisturbed
  <2>4. given.route \in Writes
    BY <1>2 DEF WithBody, Writes
  <2>5. OnItsWay'
    BY <1>1, <2>1, <2>3, <2>4 DEF OnItsWay, Undisturbed
  <2> QED
    BY <1>1, <1>2, <2>1, <2>5, GotoInHandler DEF Stages, Undisturbed
<1> QED
  BY <1>5, <1>6, <1>7

\* In which order a route looks at its parameters, and what it says of each.
LEMMA ParamOrders ==
    /\ ParamOrder("toggle") = <<"index", "id">>
    /\ ParamOrder("spotify") = <<"timeRange", "limit", "offset">>
    /\ \A route \in {"mint", "board", "join", "game"} : ParamOrder(route) = <<"id">>
<1>1. ParamOrder("toggle") = <<"index", "id">>
  BY DEF ParamOrder
<1>2. ParamOrder("spotify") = <<"timeRange", "limit", "offset">>
  BY DEF ParamOrder
<1>3. \A route \in {"mint", "board", "join", "game"} : ParamOrder(route) = <<"id">>
  BY DEF ParamOrder
<1> QED
  BY <1>1, <1>2, <1>3

\* What is answered to a bad parameter.
LEMMA ParamErrors ==
    /\ ParamError("toggle", "index") = Invalid
    /\ ParamError("toggle", "id") = Refusal(400, "invalidId")
    /\ ParamError("join", "id") = Invalid
    /\ \A route \in {"mint", "board", "game"} : ParamError(route, "id") = Refusal(400, "invalidId")
    /\ ParamError("spotify", "timeRange") = Refusal(400, "invalidTimeRange")
    /\ ParamError("spotify", "limit") = Refusal(400, "invalidLimit")
    /\ ParamError("spotify", "offset") = Refusal(400, "invalidOffset")
<1>1. ParamError("toggle", "index") = Invalid /\ ParamError("join", "id") = Invalid
  BY DEF ParamError
<1>2. \A route \in {"toggle", "mint", "board", "game"} :
         ParamError(route, "id") = Refusal(400, "invalidId")
  BY DEF ParamError
<1>3. ParamError("spotify", "timeRange") = Refusal(400, "invalidTimeRange")
  BY DEF ParamError
<1>4. ParamError("spotify", "limit") = Refusal(400, "invalidLimit")
  BY DEF ParamError
<1>5. ParamError("spotify", "offset") = Refusal(400, "invalidOffset")
  BY DEF ParamError
<1> QED
  BY <1>1, <1>2, <1>3, <1>4, <1>5

\* The first bad parameter is refused as its own fault.
LEMMA BadParamKeeps ==
    ASSUME IInv, at = "params", Undisturbed, seen' = seen,
           NEW k \in {5, 6, 7, 8, 9}, NEW code \in CodesOf(Ladder[k]),
           given.route = "spotify" => given.token # "none",
           Ladder[k] \in given.params, \A j \in 5..(k - 1) : Ladder[j] \notin given.params,
           Fail(Refusal(400, code))
    PROVE  IInv'
<1>1. given \in Requests /\ seen \in {"unread", "live"}
      /\ given.route \in Boards \cup {"join", "game", "spotify"}
  BY DEF IInv, TypeOK, Unanswered, OnItsWay
<1>2. given.route \notin {"unknown", "cron"} \cup Participant
  BY <1>1 DEF Boards, Participant
<1>3. HasFault(Ladder[k])'
  BY Rungs, FaultsNext DEF Undisturbed
<1>4. \A j \in 1..(k - 1) : ~HasFault(Ladder[j])'
  <2>1. ~HasFault(Ladder[1])' /\ ~HasFault(Ladder[2])' /\ ~HasFault(Ladder[3])'
        /\ ~HasFault(Ladder[4])'
    BY <1>2, Rungs, FaultsNext DEF Undisturbed
  <2>2. ASSUME NEW j \in 5..(k - 1)
        PROVE  ~HasFault(Ladder[j])'
    <3>1. j \in {5, 6, 7, 8} /\ Ladder[j] \notin given.params
      OBVIOUS
    <3> QED
      BY <3>1, Rungs, FaultsNext DEF Undisturbed
  <2>3. \A j \in 1..(k - 1) : j \in {1, 2, 3, 4} \/ j \in 5..(k - 1)
    OBVIOUS
  <2> QED
    BY <2>1, <2>2, <2>3
<1>5. k \in 1..14
  OBVIOUS
<1>6. TellsFirstFault(code)'
  BY <1>3, <1>4, <1>5, ToldFirst
<1>7. code \in {"validation", "invalidId", "invalidTimeRange", "invalidLimit", "invalidOffset"}
  BY Rungs, CodesOfFaults
<1> QED
  BY <1>1, <1>6, <1>7, RefusalKeeps DEF Codes

\* Parameters are looked at in the order of the ladder.
LEMMA CheckParamsKeeps == IInv /\ CheckParams => IInv'
<1> SUFFICES ASSUME IInv, CheckParams PROVE IInv'
  OBVIOUS
<1> DEFINE order == ParamOrder(given.route)
           Bad(i) == order[i] \in given.params
<1>1. at = "params" /\ Undisturbed /\ seen' = seen
  BY DEF CheckParams, world, Undisturbed
<1>2. given \in Requests /\ given.route \in Boards \cup {"join", "game", "spotify"}
      /\ seen \in {"unread", "live"}
  BY <1>1 DEF IInv, TypeOK, Unanswered, OnItsWay
<1>3. given.route \notin {"unknown", "cron", "create"} \cup Participant \cup WithBody
  BY <1>2 DEF Boards, Participant, WithBody
<1>4. given.route \in {"mint", "board", "toggle", "join", "game", "spotify"}
  BY <1>2 DEF Boards
<1>5. ASSUME given.route = "spotify", given.token = "none",
             Fail(Refusal(401, "missingAccessToken"))
      PROVE  IInv'
  <2>1. HasFault(Ladder[4])' /\ "missingAccessToken" \in CodesOf(Ladder[4])
    BY <1>1, <1>5, Rungs, FaultsNext, CodesOfFaults DEF Undisturbed
  <2>2. \A j \in 1..(4 - 1) : ~HasFault(Ladder[j])'
    <3>1. ~HasFault(Ladder[1])' /\ ~HasFault(Ladder[2])' /\ ~HasFault(Ladder[3])'
      BY <1>1, <1>5, Rungs, FaultsNext DEF Undisturbed
    <3> QED
      BY <3>1
  <2>3. TellsFirstFault("missingAccessToken")'
    BY <2>1, <2>2, ToldFirst
  <2> QED
    BY <1>1, <1>2, <1>5, <2>3, RefusalKeeps DEF Codes
<1>6. ASSUME given.route # "spotify" \/ given.token # "none",
             NEW i \in DOMAIN order, Bad(i), \A j \in 1..(i - 1) : ~Bad(j),
             Fail(ParamError(given.route, order[i]))
      PROVE  IInv'
  <2>1. CASE given.route = "toggle"
    <3>1. order = <<"index", "id">> /\ given.params \subseteq {"index", "id"}
      BY <1>2, <2>1, ParamOrders, RequestParams
    <3>2. CASE i = 1
      <4>1. Fail(Refusal(400, "validation"))
        BY <1>6, <2>1, <3>1, <3>2, ParamErrors, InvalidIsRefusal
      <4>2. "validation" \in CodesOf(Ladder[5]) /\ Ladder[5] \in given.params
        BY <1>6, <3>1, <3>2, Rungs, CodesOfFaults
      <4> QED
        BY <1>1, <1>6, <2>1, <4>1, <4>2, BadParamKeeps
    <3>3. CASE i = 2
      <4>1. Fail(Refusal(400, "invalidId"))
        BY <1>6, <2>1, <3>1, <3>3, ParamErrors
      <4>2. "invalidId" \in CodesOf(Ladder[9]) /\ Ladder[9] \in given.params
        BY <1>6, <3>1, <3>3, Rungs, CodesOfFaults
      <4>3. given.params \subseteq {"id"}
        BY <1>6, <3>1, <3>3
      <4>4. \A j \in 5..(9 - 1) : Ladder[j] \notin given.params
        <5>1. ASSUME NEW j \in 5..(9 - 1) PROVE j = 5 \/ j = 6 \/ j = 7 \/ j = 8
          OBVIOUS
        <5> QED
          BY <4>3, <5>1, Rungs
      <4> QED
        BY <1>1, <1>6, <2>1, <4>1, <4>2, <4>4, BadParamKeeps
    <3> QED
      BY <1>6, <3>1, <3>2, <3>3
  <2>2. CASE given.route = "spotify"
    <3>1. order = <<"timeRange", "limit", "offset">>
          /\ given.params \subseteq {"timeRange", "limit", "offset"}
      BY <1>2, <2>2, ParamOrders, RequestParams
    <3>2. CASE i = 1
      <4>1. Fail(Refusal(400, "invalidTimeRange"))
        BY <1>6, <2>2, <3>1, <3>2, ParamErrors
      <4>2. "invalidTimeRange" \in CodesOf(Ladder[6]) /\ Ladder[6] \in given.params
        BY <1>6, <3>1, <3>2, Rungs, CodesOfFaults
      <4>3. \A j \in 5..(6 - 1) : Ladder[j] \notin given.params
        <5>1. ASSUME NEW j \in 5..(6 - 1) PROVE j = 5
          OBVIOUS
        <5> QED
          BY <3>1, <5>1, Rungs
      <4> QED
        BY <1>1, <1>6, <2>2, <4>1, <4>2, <4>3, BadParamKeeps
    <3>3. CASE i = 2
      <4>1. Fail(Refusal(400, "invalidLimit"))
        BY <1>6, <2>2, <3>1, <3>3, ParamErrors
      <4>2. "invalidLimit" \in CodesOf(Ladder[7]) /\ Ladder[7] \in given.params
        BY <1>6, <3>1, <3>3, Rungs, CodesOfFaults
      <4>3. "timeRange" \notin given.params
        BY <1>6, <3>1, <3>3
      <4>4. \A j \in 5..(7 - 1) : Ladder[j] \notin given.params
        <5>1. ASSUME NEW j \in 5..(7 - 1) PROVE j = 5 \/ j = 6
          OBVIOUS
        <5> QED
          BY <3>1, <4>3, <5>1, Rungs
      <4> QED
        BY <1>1, <1>6, <2>2, <4>1, <4>2, <4>4, BadParamKeeps
    <3>4. CASE i = 3
      <4>1. Fail(Refusal(400, "invalidOffset"))
        BY <1>6, <2>2, <3>1, <3>4, ParamErrors
      <4>2. "invalidOffset" \in CodesOf(Ladder[8]) /\ Ladder[8] \in given.params
        BY <1>6, <3>1, <3>4, Rungs, CodesOfFaults
      <4>3. "timeRange" \notin given.params /\ "limit" \notin given.params
        BY <1>6, <3>1, <3>4
      <4>4. \A j \in 5..(8 - 1) : Ladder[j] \notin given.params
        <5>1. ASSUME NEW j \in 5..(8 - 1) PROVE j = 5 \/ j = 6 \/ j = 7
          OBVIOUS
        <5> QED
          BY <3>1, <4>3, <5>1, Rungs
      <4> QED
        BY <1>1, <1>6, <2>2, <4>1, <4>2, <4>4, BadParamKeeps
    <3> QED
      BY <1>6, <3>1, <3>2, <3>3, <3>4
  <2>3. CASE given.route \in {"mint", "board", "join", "game"}
    <3>1. order = <<"id">> /\ given.params \subseteq {"id"}
      BY <1>2, <2>3, ParamOrders, RequestParams
    <3>2. i = 1 /\ Ladder[9] \in given.params
      BY <1>6, <3>1, Rungs
    <3>3. PICK code \in CodesOf(Ladder[9]) : Fail(Refusal(400, code))
      <4>1. "invalidId" \in CodesOf(Ladder[9]) /\ "validation" \in CodesOf(Ladder[9])
        BY Rungs, CodesOfFaults
      <4>2. Fail(ParamError(given.route, "id"))
        BY <1>6, <3>1, <3>2
      <4>3. CASE given.route = "join"
        BY <4>1, <4>2, <4>3, ParamErrors, InvalidIsRefusal
      <4>4. CASE given.route \in {"mint", "board", "game"}
        BY <4>1, <4>2, <4>4, ParamErrors
      <4> QED
        BY <2>3, <4>3, <4>4
    <3>4. \A j \in 5..(9 - 1) : Ladder[j] \notin given.params
      <4>1. ASSUME NEW j \in 5..(9 - 1) PROVE j = 5 \/ j = 6 \/ j = 7 \/ j = 8
        OBVIOUS
      <4> QED
        BY <3>1, <4>1, Rungs
    <3> QED
      BY <1>1, <2>3, <3>2, <3>3, <3>4, BadParamKeeps
  <2> QED
    BY <1>4, <2>1, <2>2, <2>3
<1>7. ASSUME given.route # "spotify" \/ given.token # "none",
             \A i \in DOMAIN order : ~Bad(i),
             Goto(IF given.route = "spotify" THEN "calling" ELSE "finding")
      PROVE  IInv'
  <2>1. given.params = {}
    <3>1. CASE given.route = "toggle"
      <4>1. order = <<"index", "id">> /\ given.params \subseteq {"index", "id"}
        BY <1>2, <3>1, ParamOrders, RequestParams
      <4>2. ~Bad(1) /\ ~Bad(2)
        BY <1>7, <4>1
      <4> QED
        BY <4>1, <4>2
    <3>2. CASE given.route = "spotify"
      <4>1. order = <<"timeRange", "limit", "offset">>
            /\ given.params \subseteq {"timeRange", "limit", "offset"}
        BY <1>2, <3>2, ParamOrders, RequestParams
      <4>2. ~Bad(1) /\ ~Bad(2) /\ ~Bad(3)
        BY <1>7, <4>1
      <4> QED
        BY <4>1, <4>2
    <3>3. CASE given.route \in {"mint", "board", "join", "game"}
      <4>1. order = <<"id">> /\ given.params \subseteq {"id"}
        BY <1>2, <3>3, ParamOrders, RequestParams
      <4>2. ~Bad(1)
        BY <1>7, <4>1
      <4> QED
        BY <4>1, <4>2
    <3> QED
      BY <1>4, <3>1, <3>2, <3>3
  <2>2. Faultless
    BY <1>2, <1>3, <1>7, <2>1, FaultlessRungs
  <2>3. Faultless'
    BY <1>1, <1>2, <2>2, FaultlessKept DEF Undisturbed
  <2>4. written' = written /\ at' = IF given.route = "spotify" THEN "calling" ELSE "finding"
    BY <1>7 DEF Goto
  <2>5. OnItsWay'
    BY <1>1, <1>3, <2>3, <2>4 DEF OnItsWay, Undisturbed
  <2> QED
    BY <1>1, <1>2, <2>4, <2>5, GotoInHandler DEF Stages, Undisturbed
<1> QED
  BY <1>5, <1>6, <1>7 DEF CheckParams

\* A request without faults whose session is gone is told so.
LEMMA ToldAbsent ==
    ASSUME Faultless, given' = given, seen' = "missing"
    PROVE  TellsFirstFault("absent")'
<1>1. HasFault(Ladder[10])' /\ "absent" \in CodesOf(Ladder[10])
  BY Rungs, FaultsNext, CodesOfFaults
<1>2. ASSUME NEW j \in 1..(10 - 1)
      PROVE  ~HasFault(Ladder[j])'
  <2>1. j \in 1..14 /\ j # 10 /\ j # 11 /\ ~HasFault(Ladder[j])
    BY Rungs DEF Faultless
  <2> QED
    BY <2>1, FaultKept
<1> QED
  BY <1>1, <1>2, ToldFirst

\* Who is told that it has expired has read it so, or has not found again what
\* was read.
LEMMA ToldExpired ==
    ASSUME Faultless, given' = given, seen' \in {"expired", "lapsed"}
    PROVE  TellsFirstFault("expired")'
<1>1. HasFault(Ladder[11])' /\ "expired" \in CodesOf(Ladder[11]) /\ ~HasFault(Ladder[10])'
  BY Rungs, FaultsNext, CodesOfFaults
<1>2. ASSUME NEW j \in 1..(11 - 1)
      PROVE  ~HasFault(Ladder[j])'
  <2>1. CASE j = 10
    BY <1>1, <2>1
  <2>2. CASE j # 10
    <3>1. j \in 1..14 /\ j # 11 /\ ~HasFault(Ladder[j])
      BY Rungs DEF Faultless
    <3> QED
      BY <2>2, <3>1, FaultKept
  <2> QED
    BY <2>1, <2>2
<1> QED
  BY <1>1, <1>2, ToldFirst

\* A result keeps the invariant when the request has no fault and what it asked
\* for has been done.
LEMMA ResultKeeps ==
    ASSUME IInv, at \notin {"arrived", "over"}, Undisturbed, NEW status \in {200, 201},
           Answer([status |-> status, code |-> "ok"]),
           seen' \in {"unread", "live"}, Faultless,
           given.route # "spotify", given.route \in Writes => stored
    PROVE  IInv'
<1> DEFINE b == [status |-> status, code |-> "ok"]
<1>1. b \in Envelopes /\ b.code = "ok" /\ b.status < 300 /\ Answer(b)
  BY DEF Envelopes, Codes
<1>2. Faultless'
  BY FaultlessKept DEF Undisturbed
<1> HIDE DEF b
<1>3. TellsFirstFault(b.code)'
  BY <1>1, <1>2, ToldFaultless
<1> QED
  BY <1>1, <1>3, AnswerOfHandler DEF Undisturbed

\* Documents can be serialised.
LEMMA DocumentAnswered ==
    ASSUME NEW status, NEW code
    PROVE  WriteJSON(status, code, "document") => Answer([status |-> status, code |-> code])
BY DEF WriteJSON, Marshals

\* The read of a session or board: what it finds is all the answer is about.
LEMMA FoundKeeps == IInv /\ Found => IInv'
<1> SUFFICES ASSUME IInv, Found PROVE IInv'
  OBVIOUS
<1>1. /\ at = "finding" /\ given.route \in About /\ Undisturbed
      /\ seen' = IF session = "expired" /\ ~LooksAtExpiry(given.route) THEN seen ELSE session
  BY DEF Found, world, Undisturbed
<1>2. /\ Faultless /\ given.route # "spotify" /\ seen \in {"unread", "live"}
      /\ session \in {"live", "expired", "missing"}
  BY <1>1 DEF IInv, TypeOK, OnItsWay, Unanswered
<1>3. CASE session = "missing"
  <2>1. Fail(Refusal(404, "absent")) /\ seen' = "missing"
    BY <1>1, <1>3 DEF Found
  <2>2. TellsFirstFault("absent")'
    BY <1>1, <1>2, <2>1, ToldAbsent DEF Undisturbed
  <2> QED
    BY <1>1, <2>1, <2>2, RefusalKeeps DEF Codes
<1>4. CASE session = "expired" /\ LooksAtExpiry(given.route)
  <2>1. Fail(Refusal(410, "expired")) /\ seen' = "expired"
    BY <1>1, <1>4 DEF Found
  <2>2. TellsFirstFault("expired")'
    BY <1>1, <1>2, <2>1, ToldExpired DEF Undisturbed
  <2> QED
    BY <1>1, <2>1, <2>2, RefusalKeeps DEF Codes
<1>5. CASE session # "missing" /\ ~(session = "expired" /\ LooksAtExpiry(given.route))
  <2>1. seen' \in {"unread", "live"}
    BY <1>1, <1>2, <1>5
  <2>2. Faultless'
    BY <1>1, <1>2, <2>1, FaultlessKept DEF Undisturbed
  <2>3. ASSUME Fail(Refusal(409, "refused"))
        PROVE  IInv'
    <3>1. TellsFirstFault("refused")'
      BY <2>2, ToldFaultless
    <3> QED
      BY <1>1, <2>1, <2>3, <3>1, RefusalKeeps DEF Codes
  <2>4. ASSUME given.route \in Writes, Goto("updating")
        PROVE  IInv'
    <3>1. at' = "updating" /\ written' = written
      BY <2>4 DEF Goto
    <3>2. OnItsWay'
      BY <1>1, <2>2, <2>4, <3>1 DEF OnItsWay, Undisturbed
    <3> QED
      BY <1>1, <2>1, <3>1, <3>2, GotoInHandler DEF Stages, Undisturbed
  <2>5. ASSUME given.route \notin Writes, OK("document")
        PROVE  IInv'
    <3>1. Answer([status |-> 200, code |-> "ok"])
      BY <2>5, DocumentAnswered DEF OK
    <3> QED
      BY <1>1, <1>2, <2>1, <2>5, <3>1, ResultKeeps
  <2>6. \/ Fail(Refusal(409, "refused"))
        \/ IF given.route \in Writes THEN Goto("updating") ELSE OK("document")
    BY <1>5 DEF Found
  <2> QED
    BY <2>3, <2>4, <2>5, <2>6
<1> QED
  BY <1>3, <1>4, <1>5

\* The read of a singleton document of games or wordle,
LEMMA FoundDocumentKeeps == IInv /\ FoundDocument => IInv'
<1> SUFFICES ASSUME IInv, FoundDocument PROVE IInv'
  OBVIOUS
<1>1. /\ at = "finding" /\ given.route \notin About /\ Undisturbed /\ seen' = "live"
      /\ OK("document")
  BY DEF FoundDocument, world, Undisturbed
<1>2. Faultless /\ given.route \notin {"cron", "create", "spotify"}
  BY <1>1 DEF IInv, OnItsWay
<1>3. given.route \notin Writes
  BY <1>1, <1>2 DEF Writes, About, Participant, Boards
<1>4. Answer([status |-> 200, code |-> "ok"])
  BY <1>1, DocumentAnswered DEF OK
<1> QED
  BY <1>1, <1>2, <1>3, <1>4, ResultKeeps

\* and one that finds none.
LEMMA NoDocumentKeeps == IInv /\ NoDocument => IInv'
<1> SUFFICES ASSUME IInv, NoDocument PROVE IInv'
  OBVIOUS
<1>1. /\ at = "finding" /\ Undisturbed /\ seen' = "missing"
      /\ Fail(Refusal(404, "absent"))
  BY DEF NoDocument, world, Undisturbed
<1>2. Faultless
  BY <1>1 DEF IInv, OnItsWay
<1>3. TellsFirstFault("absent")'
  BY <1>1, <1>2, ToldAbsent DEF Undisturbed
<1> QED
  BY <1>1, <1>3, RefusalKeeps DEF Codes

\* An update is applied while only its reply is left to come.
LEMMA UpdatedKeeps == IInv /\ Updated => IInv'
<1> SUFFICES ASSUME IInv, Updated PROVE IInv'
  OBVIOUS
<1>1. /\ at = "updating" /\ at' = "replying" /\ written' = written /\ stored' = TRUE
      /\ given' = given /\ session' = session /\ client' = client /\ gone' = gone
      /\ aborted' = aborted /\ upstream' = upstream /\ header' = header /\ seen' = seen
  BY DEF Updated, Goto, world
<1>2. /\ Faultless /\ given.route \in Writes /\ seen \in {"unread", "live"}
      /\ header \subseteq {"cors"} /\ CorsFits
  BY <1>1 DEF IInv, TypeOK, AnswerIsWhole, OnItsWay, Unanswered
<1>3. Faultless'
  BY <1>1, <1>2, FaultlessKept
<1>4. OnItsWay'
  BY <1>1, <1>2, <1>3 DEF OnItsWay
<1> QED
  <2>1. /\ at # "over" /\ at' \in Stages \ {"arrived", "over"}
        /\ stored' \in BOOLEAN /\ (stored' <=> at' = "replying")
    BY <1>1 DEF Stages
  <2>2. /\ header' \subseteq {"cors"} /\ seen' \in {"unread", "live"}
        /\ CorsFits'
    BY <1>1, <1>2 DEF CorsFits
  <2> QED
    BY <1>1, <1>4, <2>1, <2>2, GotoKeeps

\* An update that matches nothing has not been applied.
LEMMA UpdateRefusedKeeps == IInv /\ UpdateRefused => IInv'
<1> SUFFICES ASSUME IInv, UpdateRefused PROVE IInv'
  OBVIOUS
<1>1. at = "updating" /\ Undisturbed
  BY DEF UpdateRefused, world, Undisturbed
<1>2. Faultless /\ seen \in {"unread", "live"}
  BY <1>1 DEF IInv, OnItsWay, Unanswered
<1>3. ASSUME session = "missing", seen' = session, Fail(Refusal(404, "absent"))
      PROVE  IInv'
  <2>1. TellsFirstFault("absent")'
    BY <1>1, <1>2, <1>3, ToldAbsent DEF Undisturbed
  <2> QED
    BY <1>1, <1>3, <2>1, RefusalKeeps DEF Codes
<1>4. ASSUME NEW status \in {409, 503}, seen' = seen, Fail(Refusal(status, "refused"))
      PROVE  IInv'
  <2>1. Faultless'
    BY <1>1, <1>2, <1>4, FaultlessKept DEF Undisturbed
  <2>2. TellsFirstFault("refused")'
    BY <2>1, ToldFaultless
  <2> QED
    BY <1>1, <1>2, <1>4, <2>2, RefusalKeeps DEF Codes
<1> QED
  BY <1>3, <1>4 DEF UpdateRefused

\* A board that has gone since it was read is told as an expired one,
LEMMA LapsedKeeps ==
    ASSUME IInv, at \in {"updating", "rereading"}, Undisturbed, seen' = "lapsed",
           Fail(Refusal(410, "expired"))
    PROVE  IInv'
<1>1. Faultless
  BY DEF IInv, OnItsWay
<1>2. TellsFirstFault("expired")'
  BY <1>1, ToldExpired DEF Undisturbed
<1> QED
  BY <1>2, RefusalKeeps DEF Codes

\* by the toggle, while the mint goes on to read it again:
LEMMA BoardRefusedKeeps == IInv /\ BoardRefused => IInv'
<1> SUFFICES ASSUME IInv, BoardRefused PROVE IInv'
  OBVIOUS
<1>1. at = "updating" /\ Undisturbed
  BY DEF BoardRefused, world, Undisturbed
<1>2. Faultless /\ seen \in {"unread", "live"}
  BY <1>1 DEF IInv, OnItsWay, Unanswered
<1>3. ASSUME given.route = "mint", Goto("rereading"), seen' = seen
      PROVE  IInv'
  <2>1. at' = "rereading" /\ written' = written
    BY <1>3 DEF Goto
  <2>2. Faultless'
    BY <1>1, <1>2, <1>3, FaultlessKept DEF Undisturbed
  <2>3. OnItsWay'
    BY <1>1, <1>3, <2>1, <2>2 DEF OnItsWay, Undisturbed
  <2> QED
    BY <1>1, <1>2, <1>3, <2>1, <2>3, GotoInHandler DEF Stages, Undisturbed
<1> QED
  BY <1>1, <1>3, LapsedKeeps DEF BoardRefused

\* gone, or still there and full, which is no fault of the request.
LEMMA MintRereadKeeps == IInv /\ MintReread => IInv'
<1> SUFFICES ASSUME IInv, MintReread PROVE IInv'
  OBVIOUS
<1>1. at = "rereading" /\ Undisturbed
  BY DEF MintReread, world, Undisturbed
<1>2. Faultless /\ seen \in {"unread", "live"}
  BY <1>1 DEF IInv, OnItsWay, Unanswered
<1>3. ASSUME seen' = seen, Fail(Refusal(409, "refused"))
      PROVE  IInv'
  <2>1. Faultless'
    BY <1>1, <1>2, <1>3, FaultlessKept DEF Undisturbed
  <2>2. TellsFirstFault("refused")'
    BY <2>1, ToldFaultless
  <2> QED
    BY <1>1, <1>2, <1>3, <2>2, RefusalKeeps DEF Codes
<1> QED
  BY <1>1, <1>3, LapsedKeeps DEF MintReread

\* A reply is only left to be made once the update has been applied.
LEMMA RepliedKeeps == IInv /\ Replied => IInv'
<1> SUFFICES ASSUME IInv, Replied PROVE IInv'
  OBVIOUS
<1>1. at = "replying" /\ Undisturbed /\ seen' = seen
  BY DEF Replied, world, Undisturbed
<1>2. /\ Faultless /\ seen \in {"unread", "live"} /\ stored /\ given.route \in Writes
  BY <1>1 DEF IInv, OnItsWay, Unanswered
<1>3. given.route # "spotify"
  BY <1>2 DEF Writes
<1>4. PICK status \in {200, 201} : Answer([status |-> status, code |-> "ok"])
  BY DocumentAnswered DEF Replied, OK
<1> QED
  BY <1>1, <1>2, <1>3, <1>4, ResultKeeps

\* A failing call is answered with a code of the driver, which tells no fault, but
\* for the second read of a mint, which is taken for one that finds no board.
LEMMA DatabaseFailsKeeps == IInv /\ DatabaseFails => IInv'
<1> SUFFICES ASSUME IInv, DatabaseFails PROVE IInv'
  OBVIOUS
<1>1. Undisturbed
  BY DEF DatabaseFails, world, Undisturbed
<1>2. ASSUME at \in AtDatabase, NEW kind \in DriverErrors(at), Fail(Driver(kind)), seen' = seen
      PROVE  IInv'
  <2>1. /\ kind \in {"server", "disconnected", "other", "duplicateKey", "documentInvalid"}
        /\ kind \in {"duplicateKey", "documentInvalid"} => at = "updating"
    BY <1>2 DEF DriverErrors
  <2> QED
    BY <1>1, <1>2, <2>1, DriverErrorKeeps DEF AtDatabase
<1>3. ASSUME at = "rereading", seen' = "lapsed", Fail(Refusal(410, "expired"))
      PROVE  IInv'
  BY <1>1, <1>3, LapsedKeeps
<1> QED
  BY <1>2, <1>3 DEF DatabaseFails

\* What writeUpstreamError makes of Spotify's status.
LEMMA UpstreamErrors ==
    /\ UpstreamError(401) = Refusal(401, "spotifyTokenInvalid")
    /\ UpstreamError(403) = Refusal(403, "spotifyForbidden")
    /\ UpstreamError(429) = Refusal(429, "spotifyRateLimited")
    /\ UpstreamError(502) = Driver("other")
BY DEF UpstreamError

\* Spotify's answer is passed on as it is.
LEMMA SpotifyRespondsKeeps == IInv /\ SpotifyResponds => IInv'
<1> SUFFICES ASSUME IInv, SpotifyResponds PROVE IInv'
  OBVIOUS
<1>1. /\ at = "calling" /\ given' = given /\ session' = session /\ client' = client
      /\ gone' = gone /\ stored' = stored /\ aborted' = aborted /\ seen' = seen
  BY DEF SpotifyResponds, world
<1>2. PICK a \in SpotifyAnswers :
        /\ upstream' = a
        /\ header' = header \cup (IF RetryAfter(a) THEN {"retryAfter"} ELSE {})
        /\ IF a.status = 200 THEN OK(a.page) ELSE Fail(UpstreamError(a.status))
  BY DEF SpotifyResponds
<1>3. /\ Faultless /\ given.route = "spotify" /\ seen \in {"unread", "live"} /\ stored = FALSE
      /\ header \subseteq {"cors"} /\ CorsFits
  BY <1>1 DEF IInv, TypeOK, AnswerIsWhole, OnItsWay, Unanswered
<1>4. given.route \notin Writes
  BY <1>3 DEF Writes
<1>5. /\ header' \subseteq {"cors", "retryAfter"}
      /\ CorsFits'
      /\ "retryAfter" \in header' <=> a.status = 429 /\ a.retryAfter = "number"
  <2>1. CASE RetryAfter(a)
    <3>1. header' = header \cup {"retryAfter"} /\ a.status = 429 /\ a.retryAfter = "number"
      BY <1>2, <2>1 DEF RetryAfter
    <3> QED
      BY <1>1, <1>3, <3>1 DEF CorsFits
  <2>2. CASE ~RetryAfter(a)
    <3>1. header' = header /\ ~(a.status = 429 /\ a.retryAfter = "number")
      BY <1>2, <2>2 DEF RetryAfter
    <3> QED
      BY <1>1, <1>3, <3>1 DEF CorsFits
  <2> QED
    BY <2>1, <2>2
<1>6. a.status \in {200, 401, 403, 429, 502} /\ a.page \in {"whole", "empty", "cut"}
  BY DEF SpotifyAnswers
<1>7. Faultless'
  BY <1>1, <1>3, FaultlessKept
<1>8. ASSUME NEW b \in Envelopes, Answer(b),
             b.code \in {"ok", "internal", "spotifyTokenInvalid", "spotifyForbidden",
                         "spotifyRateLimited"},
             b.code = "ok" <=> b.status = 200,
             b.status = 200 \/ b.status >= 400,
             b.status = 200 <=> a.status = 200 /\ a.page = "whole",
             b.code = "spotifyTokenInvalid" <=> a.status = 401
      PROVE  IInv'
  <2>1. IsTrue(b)'
    BY <1>1, <1>2, <1>3, <1>4, <1>5, <1>8 DEF IsTrue
  <2>2. TellsFirstFault(b.code)'
    BY <1>7, <1>8, ToldFaultless, ToldNoFault
  <2>3. b.code \in {"ok", "bare"} <=> b.status < 300
    BY <1>8 DEF Envelopes
  <2> QED
    BY <1>1, <1>2, <1>3, <1>5, <1>8, <2>1, <2>2, <2>3, AnswerKeeps
<1>9. CASE a.status = 200 /\ a.page = "whole"
  <2> DEFINE b == [status |-> 200, code |-> "ok"]
  <2>1. Answer(b)
    BY <1>2, <1>9 DEF OK, WriteJSON, Marshals
  <2>2. b \in Envelopes /\ b.code = "ok" /\ b.status = 200
    BY DEF Envelopes, Codes
  <2> HIDE DEF b
  <2> QED
    BY <1>8, <1>9, <2>1, <2>2
<1>10. CASE a.status = 200 /\ a.page # "whole"
  <2> DEFINE b == [status |-> 500, code |-> "internal"]
  <2>1. Answer(b)
    BY <1>2, <1>6, <1>10 DEF OK, WriteJSON, Marshals
  <2>2. b \in Envelopes /\ b.code = "internal" /\ b.status = 500
    BY DEF Envelopes, Codes
  <2> HIDE DEF b
  <2> QED
    BY <1>8, <1>10, <2>1, <2>2
<1>11. CASE a.status # 200
  <2> DEFINE b == Classify(UpstreamError(a.status))
  <2>1. Answer(b)
    BY <1>2, <1>11 DEF Fail
  <2>2. \/ a.status = 401 /\ b = [status |-> 401, code |-> "spotifyTokenInvalid"]
        \/ a.status = 403 /\ b = [status |-> 403, code |-> "spotifyForbidden"]
        \/ a.status = 429 /\ b = [status |-> 429, code |-> "spotifyRateLimited"]
        \/ a.status = 502 /\ b = [status |-> 500, code |-> "internal"]
    BY <1>6, <1>11, UpstreamErrors, Classified
  <2> HIDE DEF b
  <2>3. b \in Envelopes
    BY <2>2 DEF Envelopes, Codes
  <2> QED
    BY <1>8, <1>11, <2>1, <2>2, <2>3
<1> QED
  BY <1>9, <1>10, <1>11

\* A timeout is answered without anything from Spotify.
LEMMA SpotifyTimesOutKeeps == IInv /\ SpotifyTimesOut => IInv'
<1> SUFFICES ASSUME IInv, SpotifyTimesOut PROVE IInv'
  OBVIOUS
<1>1. at = "calling" /\ Undisturbed /\ seen' = seen /\ Fail(Driver("other"))
  BY DEF SpotifyTimesOut, world, Undisturbed
<1> QED
  BY <1>1, DriverErrorKeeps

\* What the world does touches no answer: until there is one, only the body of
\* a request that has not been read changes, or what the session has become.
LEMMA WorldKeeps == IInv /\ (HangUp \/ Ages \/ CloseClient) => IInv'
<1> SUFFICES ASSUME IInv, HangUp \/ Ages \/ CloseClient PROVE IInv'
  OBVIOUS
<1>1. /\ at # "over" /\ at' = at /\ seen' = seen /\ stored' = stored /\ upstream' = upstream
      /\ header' = header /\ written' = written /\ aborted' = aborted
  BY DEF HangUp, Ages, CloseClient
<1>2. \/ given' = given
      \/ /\ given.route \in WithBody /\ ~BodyRead
         /\ given' = [given EXCEPT !.body = "unreadable"]
  BY DEF HangUp, Ages, CloseClient
<1>3. given \in Requests
  BY DEF IInv, TypeOK
<1>4. /\ given' \in Requests /\ given'.route = given.route /\ given'.token = given.token
      /\ given'.params = given.params /\ given'.origin = given.origin
  <2>1. CASE given' = given
    BY <1>3, <2>1
  <2>2. CASE given.route \in WithBody /\ given' = [given EXCEPT !.body = "unreadable"]
    BY <1>3, <2>2 DEF Requests, Request, WithBody, Bodies
  <2> QED
    BY <1>2, <2>1, <2>2
<1>5. /\ session' \in {"live", "expired", "missing"} /\ client' \in {"connected", "closed"}
      /\ gone' \in BOOLEAN
  <2>1. CASE HangUp
    BY <2>1 DEF HangUp, IInv, TypeOK
  <2>2. CASE Ages
    BY <2>2 DEF Ages, IInv, TypeOK
  <2>3. CASE CloseClient
    BY <2>3 DEF CloseClient, IInv, TypeOK
  <2> QED
    BY <2>1, <2>2, <2>3
<1>6. TypeOK'
  BY <1>1, <1>4, <1>5 DEF IInv, TypeOK
<1>7. DOMAIN written' = {}
  BY <1>1, NothingWritten
<1>8. AnswerIsWhole' /\ AnswerTellsWhatHappened' /\ FirstFaultAnswers'
  BY <1>1, <1>4, <1>7 DEF IInv, CorsFits, AnswerIsWhole,
     AnswerTellsWhatHappened, FirstFaultAnswers
<1>9. Unanswered'
  BY <1>1 DEF IInv, Unanswered
<1>10. ASSUME at \in {"finding", "updating", "rereading", "replying", "calling"}
       PROVE  Faultless'
  <2>1. given' = given
    BY <1>2, <1>10 DEF BodyRead
  <2>2. Faultless /\ seen \in {"unread", "live"}
    BY <1>10 DEF IInv, OnItsWay, Unanswered
  <2> QED
    BY <1>1, <2>1, <2>2, FaultlessKept
<1>11. OnItsWay'
  BY <1>1, <1>4, <1>10 DEF IInv, OnItsWay
<1> QED
  BY <1>6, <1>8, <1>9, <1>11 DEF IInv

-----------------------------------------------------------------------------
(* The theorems. *)

\* A request that has arrived satisfies the invariant.
LEMMA InitIInv == Init => IInv
<1> SUFFICES ASSUME Init PROVE IInv
  OBVIOUS
<1>1. at = "arrived" /\ written = <<>> /\ aborted = FALSE /\ stored = FALSE /\ header = {}
  BY DEF Init
<1>2. session \in {"live", "expired", "missing"}
  BY DEF Init
<1>3. written \in Seq(Envelopes) /\ Len(written) = 0 /\ DOMAIN written = {}
  BY <1>1
<1>4. TypeOK
  BY <1>2, <1>3 DEF Init, TypeOK, Envelopes, Stages
<1>5. AnswerIsWhole /\ AnswerTellsWhatHappened /\ FirstFaultAnswers
  BY <1>1, <1>3 DEF AnswerIsWhole, AnswerTellsWhatHappened, FirstFaultAnswers
<1>6. OnItsWay /\ Unanswered
  BY <1>1 DEF Init, OnItsWay, Unanswered
<1> QED
  BY <1>4, <1>5, <1>6 DEF IInv

\* A step that changes nothing keeps it.
LEMMA StutterKeeps == IInv /\ UNCHANGED vars => IInv'
<1> SUFFICES ASSUME IInv, UNCHANGED vars PROVE IInv'
  OBVIOUS
<1>1. TypeOK'
  BY DEF IInv, TypeOK, vars
<1>2. AnswerIsWhole'
  BY DEF CorsFits, IInv, AnswerIsWhole, vars
<1>3. AnswerTellsWhatHappened'
  BY DEF IInv, AnswerTellsWhatHappened, IsTrue, vars
<1>4. FirstFaultAnswers'
  <2>1. \A fault : HasFault(fault)' <=> HasFault(fault)
    BY DEF HasFault, vars
  <2>2. \A code : TellsFirstFault(code) => TellsFirstFault(code)'
    BY <2>1 DEF TellsFirstFault
  <2> QED
    BY <2>2 DEF IInv, FirstFaultAnswers, vars
<1>5. OnItsWay'
  BY DEF IInv, OnItsWay, Faultless, HasFault, vars
<1>6. Unanswered'
  BY DEF IInv, Unanswered, vars
<1> QED
  BY <1>1, <1>2, <1>3, <1>4, <1>5, <1>6 DEF IInv

\* Every step keeps it.
LEMMA NextIInv == IInv /\ [Next]_vars => IInv'
<1> SUFFICES ASSUME IInv, [Next]_vars PROVE IInv'
  OBVIOUS
<1>1. CASE Dispatch
  BY <1>1, DispatchKeeps
<1>2. CASE CronAuth
  BY <1>2, CronAuthKeeps
<1>3. CASE RequireParticipant
  BY <1>3, RequireParticipantKeeps
<1>4. CASE DecodeJSON
  BY <1>4, DecodeJSONKeeps
<1>5. CASE CheckParams
  BY <1>5, CheckParamsKeeps
<1>6. CASE DatabaseGivesUp \/ DatabaseFails
  BY <1>6, DatabaseFailsKeeps DEF DatabaseGivesUp
<1>7. CASE SpotifyTimesOut
  BY <1>7, SpotifyTimesOutKeeps
<1>8. CASE Panic
  BY <1>8, PanicKeeps
<1>9. CASE Authorised
  BY <1>9, AuthorisedKeeps
<1>10. CASE Found
  BY <1>10, FoundKeeps
<1>11. CASE FoundDocument
  BY <1>11, FoundDocumentKeeps
<1>12. CASE NoDocument
  BY <1>12, NoDocumentKeeps
<1>13. CASE Updated
  BY <1>13, UpdatedKeeps
<1>14. CASE UpdateRefused
  BY <1>14, UpdateRefusedKeeps
<1>15. CASE Replied
  BY <1>15, RepliedKeeps
<1>16. CASE SpotifyResponds
  BY <1>16, SpotifyRespondsKeeps
<1>17. CASE HangUp \/ Ages \/ CloseClient
  BY <1>17, WorldKeeps
<1>18. CASE Over \/ UNCHANGED vars
  BY <1>18, StutterKeeps DEF Over
<1>19. CASE BoardRefused
  BY <1>19, BoardRefusedKeeps
<1>20. CASE MintReread
  BY <1>20, MintRereadKeeps
<1> QED
  BY <1>1, <1>2, <1>3, <1>4, <1>5, <1>6, <1>7, <1>8, <1>9, <1>10, <1>11, <1>12, <1>13,
     <1>14, <1>15, <1>16, <1>17, <1>18, <1>19, <1>20 DEF Next, Handle

\* The invariant holds of every execution, whether handlers panic or not.
THEOREM PathInductive == Spec => []IInv
BY InitIInv, NextIInv, PTL DEF Spec

\* No status is ever left unset, and every variable keeps its type.
THEOREM PathTyped == Spec => []TypeOK
<1>1. IInv => TypeOK
  BY DEF IInv
<1> QED
  BY <1>1, PathInductive, PTL

\* Every request gets one envelope, or its connection is aborted.
THEOREM AnswersAreWhole == Spec => []AnswerIsWhole
<1>1. IInv => AnswerIsWhole
  BY DEF IInv
<1> QED
  BY <1>1, PathInductive, PTL

\* The status of an answer says whether the update was applied, and what
\* Spotify did.
THEOREM AnswersAreTrue == Spec => []AnswerTellsWhatHappened
<1>1. IInv => AnswerTellsWhatHappened
  BY DEF IInv
<1> QED
  BY <1>1, PathInductive, PTL

\* Of several faults of a request the first in the order of the checks answers.
THEOREM FirstFaultIsTold == Spec => []FirstFaultAnswers
<1>1. IInv => FirstFaultAnswers
  BY DEF IInv
<1> QED
  BY <1>1, PathInductive, PTL
=============================================================================
