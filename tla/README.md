# Verification of bored-backend-go

TLA+ models of the Go backend (`src/`), model-checked with TLC on small
instances, and theorems about them proved with TLAPS for every value of the
constants. Paths below are relative to the repository; `watcher.go` is
`internal/watcher/watcher.go`, and so on.

The backend is a stateless HTTP server over MongoDB. It takes no locks across
two database calls and runs no multi-document transactions: whatever two
requests may do to each other is decided by which conditions each single update
repeats of what an earlier read saw. That, the in-memory hub that fans state out
to event streams, the order in which the process starts and shuts down, and the
order of the checks a request passes on its way to an answer are where it can
go wrong without a unit test noticing, and they are what is modelled.

## 1. Inventory

| Component | State | Operations | What makes it correct |
|---|---|---|---|
| Watcher session service (`watcher.go`, `handler.go`, `auth.go`) | one document per session in `watcher_sessions`: mode, status, participants (token, entries, formReady, swipes, swipesDone), activeDeck, rounds, expiresAt | join, PUT entries, POST ready, POST swipes, POST rematch, the cleanup; reads: state, deck, matches | one partner per session; the status agrees with who is there and what they have done; ready forms have valid lists; the flow waiting, form, matching, results, next round never skips or sticks; expiry ends it |
| Join codes (`watcher.go`, unique index from `mongox/client.go`) | `code` of every stored session | CreateSession with retries, JoinSession by code, the cleanup freeing codes | a code leads to one session; a join lands where its code pointed; creation ends |
| Event streams (`sse.go`, `publish` in `watcher.go`) | `Hub.subs`: session to listener channels; a channel of `subscriberBuffer` frames per stream; a mutex | Subscribe, Unsubscribe, Broadcast; the events handler: authorise, subscribe, first frame, loop, end | no send on a closed channel; no listener left behind; streams are current and end; no stream holds up a request |
| Bingo boards (`bingo.go`, `handler.go`) | one document per board in `bingo_boards`: entries, flag, `userBoards` with marks, expiresAt | CreateBoard, MintUserBoard, ToggleMark, the cleanup | the cap on players; no toggle lost; the free space stays marked; refusals are true |
| Bingo shuffle (`bingo.go`) | the board being built | normalizeEntries, shuffle, buildUserBoard | a fair rearrangement with the free space at the centre |
| Server process (`cmd/server/main.go`) | how far `run` has got, listener, in-flight requests, Mongo client, cleanup goroutine, signal | run, runCleanup | nothing is served before the indexes are there; a signal ends the process at any moment; a clean exit has answered everybody; whatever fails, the client is closed |
| Mongo client and indexes (`mongox/client.go`, `cmd/ensureindexes`) | connection, index definitions | Connect, Close, EnsureIndexes | the unique index on `code` and the TTL indexes exist; a failed Connect leaves nothing behind |
| Router and middleware (`server`, `httpx`, `auth.go`) | none between requests | dispatch, CORS, CronAuth, RequireParticipant, Recoverer | one answer per request, of the first fault, also when a handler panics |
| Envelope, errors, decoding (`httpx`) | none | Classify, WriteJSON, DecodeJSON | the status tells the client whether its write took effect |
| Configuration (`config`) | none after start | read `.env` and the environment once | required values present |
| Games, wordle (`games`, `wordle`) | none of their own | read-only queries of singleton documents | absent and malformed documents are a 404 |
| Spotify proxy (`spotify`) | none | one proxied request with a timeout | relays whole pages only, translates what Spotify refuses, never waits forever |

How they interact:

- Every request is served by a goroutine of its own. A handler reads the
  document, decides, and updates it: one or two reads (RequireParticipant is the
  first, for participants' requests), one update, and for ready and swipes a
  `transition` as a further update. Others run between any two of these calls.
- After its last successful update a session handler calls `publish`, which
  hands the document to `Hub.Broadcast` in the handler's own goroutine, under
  the hub's read lock. A stream subscribes and unsubscribes under the write lock.
- Expiry is a matter of comparing times when a request comes in; documents are
  deleted later, by the in-process ticker, the cron route or Mongo's TTL monitor,
  whichever is first, and at no moment that a handler can rely on.
- On SIGINT or SIGTERM `run` calls `http.Server.Shutdown` with a deadline and
  then its deferred calls: the Mongo client is closed and the signal context,
  which stops the ticker, cancelled.

What is hard: handlers that interleave between their calls (stale decisions,
checks and writes apart), handlers that die between two calls, answers lost
after an update took effect, broadcasts in another order than the updates they
announce, full buffers, streams that end while they are being sent to, codes
that are reused, clients that repeat a request or ask for things out of order,
a drain held up by streams, a startup that fails or is signalled half-way, and
requests with several faults whose session, database and caller change meanwhile. `PROJECT.json` lists each under `hazards`, at
its line, with the properties that watch it.

## 2. Modules

| Module | Models |
|---|---|
| `WatcherSession` | one session: its document and all handlers that change it |
| `SessionCodes` | many sessions, of each only its code and guest: creating, joining by code, deleting |
| `WatcherEvents` | one session's listeners in the hub, the streams, and the handlers that broadcast |
| `BingoBoard` | one board: its players, their marks, minting and toggling |
| `BingoShuffle` | how a player board gets its texts, draw by draw |
| `ServerLifecycle` | the process from the first statement of `run` to its exit |
| `RequestPath` | one request from the router through middleware and handler to its answer |
| `SeatClaim` | the abstract bounded claim both `WatcherSession` and `BingoBoard` implement |
| `MC*` | constants for TLC |
| `*_proofs` | the theorems of the module they are named after; `WatcherFlow_proofs` those of `WatcherSession` about the flow from one status to the next |

### Conventions

A worker is a goroutine serving one request. In the database modules `todo[w]`
is the next call worker `w` has to make, together with the local variables that
survive from its earlier calls (the status a join computed, the deck and round
number a rematch computed, the marks a toggle read). Each database call is one
action, named after the handler and the call: `JoinSession` takes the request up,
`JoinFind` is its FindOne, `JoinClaim` its FindOneAndUpdate. `Abort` stands for a
cancelled request, a failing call and the death of the process alike: the calls
left are not made. `Expire` is the clock reaching `expiresAt`. A handler that
compares with a time it noted on entry (`late`) keeps comparing with that.

### WatcherSession

`doc` has the fields of `SessionDocument` that any check reads. Titles are ids:
their text is never compared, except by the validation whose outcome is that ids
are distinct. Dislikes are stored and never read. `activeDeck` is the set of ids
the rematch filters by. `RequireParticipant` guards every participant's request
and the rest of the handler runs after it without a second look at the expiry,
as in the code. The updates of the participants' handlers filter on the id only
and are modelled with no guard but the document's existence; those of JoinSession
and `transition` have their filters. Operators ending in an underscore and a word
(`ClaimFilter_SeatUnchecked`) are wrong variants kept next to the right one:
substituting them shows that a property notices.

`Disciplined` distinguishes two kinds of client. With FALSE, clients ask for
anything at any time, in parallel with themselves. With TRUE a participant
waits for the answer to the last request and asks only for what the current
state invites (`Invited`): entries and ready while the form is open, swipes on the deck
while matching, a rematch in results. It likes cards it was dealt, each at most
once (`LikesCards`); a title both participants entered makes two cards, so a
title may still be liked twice, and counts as two matches. The server does not enforce this, so
properties that need it say so below.

### SessionCodes

`Insert` draws a code and collides if a stored session has it (the unique
index); `left` counts the retries. `JoinFind` looks a session up by code,
`JoinClaim` claims by the id found, in a collection from which the cleanup may
have removed that session and in which the code may lead to another by then. A
worker's `answer` stays once given, so that properties can compare what clients
were told with what is stored.

### WatcherEvents

Documents are reduced to how many updates they have seen (`version`). A handler
updates, perhaps transitions, and broadcasts the last version it got back, which
is not the last one stored when `transition` took effect and its call errored:
MarkReady and SubmitSwipes then publish the state they had (`behind`). The
listeners a broadcast has yet to serve are `left`; a send to a full channel is
skipped. A stream is authorised with the version RequireParticipant read, then
subscribes, then writes that version, then whatever its channel holds.
`missed` is a history variable: the clients past which a newer version went
without being put in their channel. Each place that sets it is a way the code
can leave a stream behind: an update or a transition whose answer was lost, a
broadcast before the stream subscribed, a full buffer. `misled` are the clients
that a handler sent a state while it was behind: one that opened its stream
after the transition has already seen a newer one. `OrderInv` says what the order of
frames rests on: what any other stream was sent, has in hand and has in its channel
is `Ordered`.

### BingoBoard and BingoShuffle

A board's document is its flag, its players and each player's marks. Minting is
read, conditional update, and if that matched nothing a re-read for the reason.
Toggling is read and an update pipeline that flips what is stored. `odd` is the
history of toggles. `BingoShuffle` has the texts: `Init` is CreateBoard with any
entries, `Draw` one iteration of the Fisher-Yates loop with any outcome of
`rand.Int`, `Centre` the move of the first free space. `drawn` is the history of
the draws; `After(d)` and `LayoutFor(d)` are the reference: where a run of draws
`d` leads to, computed from the draws alone.

### ServerLifecycle

`phase` follows `run`: `loading` (before NotifyContext, where a signal simply
kills), `connecting`, `indexing`, `starting`, `serving`, `draining`, `closing`
(an error or the end, with the client's deferred Close still to run) and
`leaving` (nothing left to undo). A step of the startup may fail
(`StartFaults`), and does when the signal has cancelled its context; an index may
have been created although the call failed. `interval` is what
CLEANUP_INTERVAL says: `unreadable` makes `ParseDuration` fail, `nonpositive`
makes `time.NewTicker` panic in the sweeper's goroutine, which ends the process
past all deferred calls. The goroutine of the listener starts on its own: the
signal may come before it listens. `Finish` may happen to any request at any
time before the exit; the drain ends without error when none is left, and with
one when `shutdownTimeout` passes, which can happen only if a stream or
(`SlowCalls`) a slow call is still there.

### RequestPath

One request and what surrounds it. `given` is the request with its faults: the
route, the token, the body, the malformed parameters, the origin. `at` is how
far it has got, one stage per check or call; `written` are the bodies that
WriteJSON wrote, so that none and two can be told from one. Meanwhile the session
or board ages (`Ages`), the caller hangs up, the client is closed, Spotify
answers anything, and a database call returns its result, a refusal or an error
of the driver; an update that was applied may still return an error
(`Updated`, then `DatabaseFails`). `seen` is what the handler found of the session,
which is what its answer can be about: `lapsed` is a board that a read found and
whose update then matched nothing because it was gone, which a toggle answers as
expired, and a mint after reading it again (`BoardRefused`, `MintReread`), also when
that read fails.
`listed` says whether the method, or the method and headers a preflight asks for, are in
AllowedMethods and AllowedHeaders (`middleware.go:61-68`); go-chi/cors gives an
allowed origin no headers otherwise. The methods of all routes are listed, so that
concerns only preflights and requests that match no route (HEAD, PATCH).
MarkReady and SubmitSwipes make one more call, `transition`, which is left out
here because they answer 200 whether it fails or not; `stored` is about their first
update, and the other call is an action of `WatcherEvents` and `WatcherSession`.

Routes whose handlers take the same steps are one: `entries` is PUT entries and
POST rematch, `state` the reads of a session, `create` POST sessions and POST
bingo, `static` the index and the liveness probe. A refusal for the state of
things is one code, `refused`; which it is matters in `BingoBoard` and
`SessionCodes`. `IsTrue` and `TellsFirstFault` say of one answer what the
invariants say of all; `OnItsWay` is what the stages a request has passed have
ruled out (`Faultless` past the last check), `Unanswered` what cannot have
happened before the answer. net/http notices a caller that hangs up once the body is read
(its background read starts then), which `BodyRead` says: handlers that never
read the body of a request that has one are not cancelled. `WriteTimeout` (60 s)
only makes a late answer fail to be sent and is left out. A panic is recovered
(`Answer` with 500, headers kept) or, with http.ErrAbortHandler, propagated.

### SeatClaim

The two places where several requests compete for a bounded number of places
promise the same thing, stated once: while there is room seats are taken one at
a time, a taken seat is kept, and a deleted document seats nobody. The mapping
is `seated <- {doc.guest} \ {NoGuest}, open <- exists` for a session and
`seated <- players, open <- exists` for a board.

## 3. What the runs check

| Run | Instance | Distinct states |
|---|---|---|
| `session_any` | 2 workers, 2 tokens, 2 titles, both modes, valid and invalid lists, 2 rounds, faults, undisciplined | 624 000 |
| `session_flow` | 2 workers, 2 tokens, 2 titles, both modes, 3 rounds, disciplined, no faults, fair | 272 000 |
| `codes` | 3 workers, 2 sessions, 2 codes, 2 retries, faults, fair | 1 320 000 |
| `events` | 1 worker, 2 clients of which one may stall and leave, buffer 2, 3 updates, faults, fair | 167 000 |
| `bingo_board` | 2 workers, 4 ids, 2 cells of which one free, cap 2, faults | 34 000 |
| `bingo_shuffle` | 4 cells, 4 texts of which 2 spell the free space | 8 600 |
| `lifecycle` | 3 connections, calls and streams, slow calls, listener and startup faults, every interval, fair | 1 900 |
| `request` | every request the routes tell apart, panics, fair | 29 000 |
| `solo_join_races_ready`, `concurrent_rematch`, `broadcasts_out_of_order`, `stream_blocks_drain` | as small as shows the disagreement (section 6) | |

What each shows:

- `session_any`. Whatever clients ask for, in whatever order, with handlers dying
  anywhere and the session deleted under them: a session is waiting exactly
  while nobody holds p2 (`WaitingIffAlone`: the status a join computes and the
  transitions of late handlers never contradict the seat); a form marked ready
  has a valid list although check and mark are separate calls
  (`ReadyHasEntries`); JoinSession implements the one-seat claim
  (`PartnerSlotIsOneSeat`); and once what began before expiry has ended, nothing
  writes the document (`ExpiredIsFrozen`).
- `session_flow`. For disciplined clients the documented flow holds: results mean
  that both have swiped this round (`ResultsMeanSwiped`); a deck in play
  has at least two cards, narrowed or not, also when both entered the same title
  and matches are counted by card (`DeckPlayable`); results are left only for the next
  round (`ResultsOpenNewRound`); and two participants finishing at the same time
  always move the session on, in swipes (`SwipesAdvance`) and in dual-entry forms
  (`DualFormsAdvance`), since whichever update comes second sees both.
- `codes`. A code leads its creator's partner to that session only
  (`CodeLeadsToSession`); a joiner told he joined sits in the session whose code
  he gave, although codes are reused between his two calls
  (`JoinedByItsCode`); one told that the session is full could not have had its
  seat, which is taken or gone with the session (`FullMeansTaken`: the claim
  that matches nothing is answered "taken" without looking why); creation ends however its draws collide (`CreationEnds`).
- `events`. Streams that come, go and stop reading while a handler broadcasts: no
  send on a closed channel (`NoSendOnClosed`), and the hub lists exactly the
  streams being served and forgets the session with the last
  (`HubMatchesStreams`). With one writer at a time, a stream on which all has
  settled shows the current state unless one of the named misses happened
  (`CurrentUnlessMissed`); streams end with their session
  (`StreamsEndAtExpiry`) or their client (`DisconnectedStreamsEnd`); no stream
  holds up the request that broadcasts (`BroadcastsEnd`), not even one whose
  client stopped reading. `OrderInv` adds that with one writer the states a stream
  was sent and has coming are in order, unless it was misled by a handler that lost
  the answer of its transition.
  Overlapping broadcasts are in `broadcasts_out_of_order`, and the safety
  properties of the hub are proved for any number of workers.
- `bingo_board`. Minting as a bounded claim, and with it the cap
  (`MintIsBoundedClaim`), marks as the parity of toggles (`MarksAreParity`), the
  free space (`FreeSpaceAlwaysMarked`), and that "limit reached" is only said
  of a full board (`LimitAnswerIsTrue`).
- `bingo_shuffle`. Every run of draws of every four-cell board: a rearrangement
  (`IsRearrangement`, a part of `IInv`), centred (`FreeSpaceCentred`), and each
  layout reached by exactly one run of draws, so that the shuffle is as fair as
  its random source (`EveryLayoutOnce`, against the reference definition
  `LayoutFor`). The move to the centre could still have spoilt that; with one free
  space it does not, since every layout that has it there is reached by as many
  runs of draws as the board has cells (`CentredAsOften`). Of a board with
  several free spaces only the first in board order moves, and nothing is claimed
  of where the others end up.
- `lifecycle`. A clean exit has answered every request (`CleanExitLosesNothing`);
  wherever the startup fails or is signalled, the client is closed before the
  process is gone, unless the ticker panics (`ExitClosesClient`); a signal ends
  the process in its startup as well as later, whatever clients and the database
  do (`SignalEndsProcess`).
- `request`. A request gets exactly one body, and the CORS headers go to allowed
  origins only, and with every answer of a route, also when it is refused or its
  handler panics (`AnswerIsWhole`). Success means that the write was applied and a refusal that
  it was not, however the driver failed; only a 500 leaves it open; the proxy
  says 200 just for a whole page (`AnswerTellsWhatHappened`). Of several faults
  the answer names the first in the order `Ladder` lists, although the session may
  expire or vanish between two calls: what counts is what the handler's calls found
  of it, and a board found by a read and gone at a later call is told as expired,
  not as absent (`FirstFaultAnswers`). A request of the
  proxy ends, and one that waits for the database does when its caller hangs up
  or the client is closed (`RequestsEnd`).

`IInv` in six of the runs, and `OrderInv` in `events`, is the inductive invariant
the proofs use, checked on reachable states; it contains the type invariant.

### Bounds, and why they are enough

- Two workers: each handler is a straight line of calls, and what is at stake
  between two of its calls is what one other request does; a worker takes the
  next request when it has ended one, so a long sequence of other requests can
  fall between two calls of a handler. `codes` has three: a creator, a joiner, and
  the creator who takes over the code.
- Two tokens: one joins, one loses; a token not in the document and not in use
  may be drawn again, which stands for fresh ones.
- Two titles and lists of one and two: the limits of the modes are set to 2..2
  for solo and 1..1 or 1..2 for dual, so that the lists include too short, too
  long, doubled and valid ones, and matches of none, one and two. The code's
  limits are larger, the comparisons the same. Lists of likes name no
  title, one, both, or one twice, which a disciplined client does when both
  participants entered it.
- `MaxRounds`: no rematch is asked for after it; rounds are only compared for
  being next, and a late rematch of the round before needs two rematches. `MaxVersion` bounds updates; with buffer 2 two announced
  updates fill a channel, in an order that can be wrong, and the third is the one
  skipped. One client of `events` never leaves and never stalls (`Leaving`,
  `Stalling`); what the other does is open to any.
- `SessionCodes`: a client with an answer asks no more, and ids are not reused;
  two sessions on one code already reuse it.
- `RequestPath` has no bound: its requests are all combinations of the faults a
  route looks at, and one request is all there is to look at, since requests
  meet only in documents and in the hub, which the other modules have. Panics
  are the only constant.
- Startup: the steps are taken once; the two index calls stand for themselves.
- Bingo: two cells, one free; cap 2 leaves one seat for two minters, and four ids
  allow a refused minter to come back.

No cfg replaces a definition, and every run checks for deadlock. Where the system may
stop for good the model says so with a stuttering action (`Over`, `Exited`),
and any other state without successor is an error.

### Fairness

- `WatcherSession`: weak fairness of `Proceed(w)`. Go runs every goroutine, and a
  database call is taken to return in the end, with an answer or an error
  (`mongox/client.go` bounds the selection of a server, the driver reports a lost
  connection). Requests are never assumed.
  `session_flow` has no failing calls, since a handler that dies before its
  transition does leave the session where it is (section 6).
- `WatcherEvents`: weak fairness of a worker's own steps and of the stream's
  select and failing writes; of a write that succeeds only for clients not in
  `Stalling`. Strong fairness of Subscribe and Unsubscribe: they wait for the
  write lock, which is free again and again, and `sync.RWMutex` holds up new
  readers once a writer waits.
- `ServerLifecycle`: weak fairness of `Run`; the ping, Shutdown and Disconnect
  have deadlines. The creation of the indexes has none, and only its
  cancellation is fair. Nothing is assumed of clients.
- `RequestPath`: weak fairness of `Handle`, the steps that need nobody else: the
  handler's own, the end of a call whose context is cancelled or whose client is
  closed, and the timeout of the Spotify client. That a body is read or given up
  follows from `ReadTimeout`. Of the database and of Spotify nothing is assumed.
- `SessionCodes`: weak fairness of `Insert`.

## 4. What is proved

All theorems hold for every value of the constants that satisfies the
assumptions in the modules: any number of workers, clients, users, ids, codes,
any deck limits, cap, buffer size, board size, with or without faults and
discipline. Those of `WatcherFlow_proofs`, the last four of `WatcherEvents_proofs`
and `QuickCallsAreDrained` state the further assumptions they make. Every safety
property a passing run checks, invariant or action property, is a theorem.

| Module | Theorems | Argument |
|---|---|---|
| `WatcherSession_proofs` | `TypeCorrect`, `Inductive`, `WaitsIffAlone`, `ReadyFormsHaveEntries`, `JoinIsOneSeat`, `ExpiredSessionIsFrozen` | below |
| `WatcherFlow_proofs` | `FlowInductive`, `ResultsFollowSwipes`, `ResultsLeadToNextRound`, `DeckInductive`, `DecksArePlayable` | for disciplined clients (`Disciplined`); the last for `soloMin` of two or more; below |
| | `SwipesAreMovedOn`, `DualFormsAreMovedOn`, `FormsStuckOnlyByStaleJoin`, `SwipesLostOnlyToOverlap` | of these only the first needs disciplined clients; all but the last that no handler dies; below |
| `SessionCodes_proofs` | `Inductive`, `CodesLeadToSessions`, `JoinsAreByCode`, `FullSessionsAreTaken` | codes of stored sessions differ; an id about to be inserted is nobody else's and new; a claim under way is for the session that had the code |
| `WatcherEvents_proofs` | `TypeCorrect`, `HubInductive`, `HubIsExact`, `NoPanicOnSend`, `SettledStreamsAreCurrent`, `OrderInductive`, `OneWriterKeepsOrder`, `NoFaultsKeepOrder` | who is listed has an open channel; what a broadcast has left is listed; for the last four, below |
| `BingoBoard_proofs` | `TypeCorrect`, `Inductive`, `CapHolds`, `TogglesAreParity`, `FreeSpaceStaysMarked`, `LimitAnswersAreTrue`, `MintImplementsClaim` | an id being minted is new, so its marks start from nothing toggled; a toggle past its check is of a player and never of the free space; players are never removed, so a full board stays full |
| `BingoShuffle_proofs` | `Inductive`, `BoardsAreRearranged`, `FreeSpaceIsCentred`, `ShuffleIsFair`, `CentringIsFair` | a swap composed with a permutation is one; what is stored spells the free space one way; for fairness, below |
| `RequestPath_proofs` | `PathInductive`, `PathTyped`, `AnswersAreWhole`, `AnswersAreTrue`, `FirstFaultIsTold` | below |
| `ServerLifecycle_proofs` | `Inductive`, `CleanExitIsClean`, `ClientIsClosed`, `IndexesComeFirst`, `QuickCallsAreDrained` | where run() is tells what is set up and what is still to be undone (`Progress`); nothing is accepted once run() has left its select; a closing with status 0 has nothing in flight |

The safety properties are not inductive by themselves. In `WatcherSession`,
`WaitingIffAlone` would be broken by a handler of p2 that is under way while
there is no p2, or by a transition or rematch pending in a session that still waits, and
`ReadyHasEntries` by an invalid list about to be stored or a mark about to be set
on a form without entries; none of these is reachable, which `NothingBeforeGuest` and
`ListsValidated` say. `IInv` adds them, `InitIInv` and `NextIInv` prove it
inductive with one step per action, and each property follows from it. That the
mode of a document never changes carries the validation made before the update
over to it.

`WatcherFlow_proofs` is about clients that ask only for what the state invites.
What makes their flow safe is not a guard of the server but what a pending call
implies about the document (`CallAgrees`): while a participant's swipes are on
their way the round is still open and his flag not set; a pending transition
finds the status it was decided on, with both flags set; a participant whose
rematch is still pending in a round that somebody else opened has not swiped in
it. A slot has one request under way (`OneRequestEach`) and at most one handler is
about to move the status (`OneTransition`), because it was the second of two
flags that made it decide to. `FlowInv` collects these, and the results follow
for any number of workers and rounds, with handlers that may die at any call.
`DeckInv` adds why a narrowed deck is playable (`NarrowInv`): entries are final
once the deck is in play, likes are cards of the combined entries even when they
were sent for the deck of another round, and two matched cards of p2 are in
every deck made of their titles.

The two refinements (`JoinIsOneSeat`, `MintImplementsClaim`) map the claiming
update to `Claim`, the cleanup to `Close` and every other step to a stutter;
the invariant supplies what the mapping needs (the claimant is not yet seated,
the joiner's token is a token). `ExpiredSessionIsFrozen` needs that a late join
never passes its filter and that no call is left to anybody else.

`SettledStreamsAreCurrent` assumes one writer (`OneWriter`), which is the case the
property is about: two broadcasts may overtake each other
(`broadcasts_out_of_order`). A property of
settled streams says nothing of the steps before they settle, so `CurrentInv` is
about what a stream has coming (`Newest`: the last state in its channel, or the
one in its hands, or the one it showed): once no update is on its way to the
stream (`Heard`), that is the stored version, or the stream is in `missed`. Every
step of a stream passes `Newest` on from the channel to its hands and from there
to the client. A send makes it the version stored, which the writer has unless the
answer of its transition was lost (`HasNewest`); such a writer announces nothing
new, so `Heard` does not wait for it, and whom it reaches is in `missed`.

`QuickCallsAreDrained` is conditional: without streams, slow calls and listener
errors the drain does what the comment in `main.go` says. It is the positive
side of the run `stream_blocks_drain`.

`OneWriterKeepsOrder` makes the same assumption and is about every step. A frame
is not older than the one before because everything on its way to the client is
in order (`InOrder`): the writer appends the version stored, which nothing in the
channel exceeds (`OrderedAppend`), the stream takes the oldest
(`OrderedTail`), and a subscription starts with an empty channel. Streams that a
writer which is behind has sent to are excepted until they end (`misled`); without
lost answers there are none, which is `NoFaultsKeepOrder`. With
`broadcasts_out_of_order`, which has two writers and no faults, this says that
two writers racing and a transition that took effect and errored are the only
ways to a frame out of order.

Two theorems do the same for the other races of section 6.
`SwipesLostOnlyToOverlap` supposes that no two rematches are between their check
and their update at the same time (`OneRematch`): then what a rematch has checked
still holds when it resets the round (`RematchIsCurrent`), since nothing else
clears a flag. `FormsStuckOnlyByStaleJoin` supposes that the join that is let in
writes a status that still fits the form of p1 (`JoinsAreCurrent`): then ready
forms have been moved on or a handler is about to (`FormsMoveOn`). Neither
supposes anything of the clients.

Why sessions do move on is half safety, and that half is proved: when the flags
are complete and the status is not, a handler with the transition still to make
exists (`SwipesAreMovedOn`, `DualFormsAreMovedOn`), because the update that set the
second flag saw both. That this handler gets its turn is the fairness TLC uses
in `SwipesAdvance` and `DualFormsAdvance`.

`ShuffleIsFair` counts, for a board of any size, the runs of draws that reach a
layout. The draws are determined by the layout they lead to (`DrawsDetermined`): a
cell that has been drawn for is never moved again (`StaysPut`), so the layout tells
what was drawn for the last cell, and so on downwards. And every layout is reached
(`LayoutReached`), by drawing for each cell what the layout has there, which is
still among the cells left. Both are inductions over the board. The library's
induction theorems cannot be used here, so `Downwards` derives what is
needed, an induction for a set of numbers, from the pigeonhole principle of finite
sets, and `AfterUnfolds` proves that the recursive function `After` satisfies its
equation. `DrawnSoFar` ties that to the states: the board under way is the one the
draws so far lead to. `CentringIsFair` maps each cell the free space may have been
shuffled to onto the one run of draws that leads there, for a fixed
centred layout (`CentredFrom`, `CentredTo`), which gives as many runs as cells.

`RequestPath` has one parameter, `Panics`, and its proofs are by cases on the steps
of a request. An answer is written by one of a few operators, and
`FirstFaultAnswers` would be broken at each by a fault of an earlier check, so
`OnItsWay` keeps which are ruled out at every stage; a write that is answered must
not have been applied to a request that is then refused, so `Unanswered` says that
an applied update has nothing left but its reply. The lemmas for the ladder say
of each check that the fault it answers is the first. A board that lapses after its
read is below all faults the request passed, so `expired` is still the first
(`LapsedKeeps`). `CorsFits` needs that only requests without a route are not `listed`.

Only model-checked: every temporal property of the form `~>`, since liveness under
fairness and ENABLED are out of the proof system's reach.

## 5. How the flags are used

`Faults`, `Disciplined`, `Leaving`, `Stalling`, `SlowCalls`, `ListenFaults`, `StartFaults`,
`Intervals`, `Panics` are constants,
so that one module serves the runs with and without them and the theorems cover
both values. They only ever add behaviour when set (`Disciplined` when
not set). A property is checked with the most behaviour under which the code promises it.

## 6. Where code and documentation disagree

Each has a run that finds the violation.

1. `solo_join_races_ready`. JoinSession computes the next status from its first
   read (`watcher.go:353`) and writes it with its second call. If p1 of a
   solo-entry session gets ready in between, MarkReady sees no p2 and does not
   transition, and the join writes `form`. Both sides are done, the session
   stays in `form`, against the comment at `watcher.go:449-450`. Only another
   POST ready from p1 moves it.
2. `concurrent_rematch`. Rematch checks `swipesDone` in one call and resets the
   round in another that filters on the id only. Two participants pressing
   rematch both pass; the second reset wipes swipes made in the round the first
   opened.
3. `broadcasts_out_of_order`. Update and broadcast are not ordered across
   handlers; a stream's last frame can be the older state.
4. `stream_blocks_drain`. Streams do not see the signal, so with one open
   Shutdown times out and Mongo is disconnected with the request in flight,
   against "Drain in-flight requests before disconnecting Mongo"
   (`cmd/server/main.go:111`). The process then exits with status 1.

Seen while modelling, without a run:

- Undisciplined clients can get a session out of the documented flow: ready in
  results leads to matching without a new round, a late transition to results can
  follow a rematch, p2 may store entries in a solo session.
- A transition that fails is swallowed (`watcher.go:493`); the participant has to
  repeat the request. If it took effect and only its answer was lost, the handler
  broadcasts the state before it as the newest: streams stay a version behind, and
  one that opened in between goes back, although nobody else writes.
- A board deleted between the read and the update of a mint or toggle is answered
  as expired, one deleted before the read as not found (`bingo.go:275`, `370`).
- A subscriber with a full buffer is skipped and stays listed; the comment
  (`sse.go:15-17`) says it is dropped.
- The first frame is what RequireParticipant read and may be older than the
  subscription (`sse.go:121-125`).
- A stream has no write deadline; one whose client neither reads nor disconnects
  is not ended by the expiry timer (`sse.go:131`).
- A mint whose re-read fails is answered as expired (`bingo.go:270`); a claim of a
  session deleted meanwhile as taken (`watcher.go:372-374`).
- A session deleted between the two calls of a join is answered SESSION_FULL
  (`watcher.go:372-374`), which `FullMeansTaken` allows.
- `CLEANUP_INTERVAL` is not validated and `time.NewTicker` panics on zero or less
  (`cmd/server/main.go:130`), after the startup has succeeded.
- The comment at `errors.go:86-87` calls timeouts and decode errors database
  errors; the condition below it only takes two sentinel errors, and the rest are
  answered INTERNAL_ERROR.
- The comment at `middleware.go:91-93` says that an unrecovered panic of a handler
  ends the process; net/http recovers it and drops the connection. The ticker's
  goroutine is where a panic does end it.
- No handler gives its database calls a deadline; they end with the driver, the
  caller or the client.
- A page of Spotify that is empty or cut at `maxUpstreamBody` is answered as an
  internal error, by WriteJSON's fallback.

## 7. Not modelled

- How a line of `.env` or a query string is parsed, texts, details and timestamps
  of answers, the request log, the order of the list of games: pure functions of
  their input, and nothing that is modelled looks at what they return.
- Pool sizes and idle times of the driver; the one-shot `cmd/ensureindexes`, which
  makes the calls of the startup and exits.
- Access tokens are never guessed: a request carries the token of a slot.
- `BingoBoard` leaves out the texts and `BingoShuffle` the storage, since neither
  reads the other's part after minting.
- What narrowing makes of a client that likes one card twice (`watcher.go:613`):
  the handler accepts it, and the deck may then have one card.

## 8. Plan

Done, in this order: `WatcherSession` (the core), `SeatClaim`, `BingoBoard`,
`WatcherEvents`, `SessionCodes`, `BingoShuffle`, `ServerLifecycle` from listening
on; then its startup, `FullMeansTaken`, and `RequestPath`; each with its runs and
its theorems; the proofs of the properties of disciplined clients and of settled
streams; last, those of `RequestPath`, the fairness of the shuffle, the order of
frames, and the positive sides of the races in section 6.

What could follow:

1. A module composing `WatcherSession` with `WatcherEvents`: documents instead of
   versions in the frames, so that what a stream shows can be compared with the
   deck and the matches its client may then ask for.
2. That a stream which missed a version is still in order when several handlers
   write one after the other, with `OneWriter` weakened to handlers that do not
   overlap.
