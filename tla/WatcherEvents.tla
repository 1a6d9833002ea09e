---------------------------- MODULE WatcherEvents ----------------------------
(***************************************************************************)
(* How the state of one watcher session reaches its SSE streams:           *)
(* Service.publish, the Hub and the events handler                         *)
(* (internal/watcher/watcher.go, sse.go).                                  *)
(*                                                                         *)
(* What a frame says is abstracted to the version of the document it was   *)
(* made from: version counts the updates that took effect.  A worker       *)
(* updates the document (once, or twice when it also moves the status) and *)
(* broadcasts the version its last successful call returned, in a step of  *)
(* its own.  A stream reads the document in RequireParticipant, subscribes *)
(* to the hub, writes that version as its first frame and then writes what *)
(* comes out of its channel.                                               *)
(***************************************************************************)
EXTENDS Naturals, Sequences

CONSTANTS
    Workers,        \* goroutines serving requests that change the session
    Clients,        \* clients that open an event stream, one at a time each
    Buffer,         \* subscriberBuffer
    MaxVersion,     \* bound: updates of the session
    Faults,         \* TRUE: an update may take effect and its answer be lost
    Leaving,        \* clients that may disconnect
    Stalling        \* clients that may stop reading without disconnecting

ASSUME EventsAssumption == /\ Buffer \in Nat \ {0} /\ MaxVersion \in Nat
                           /\ Faults \in BOOLEAN /\ Leaving \subseteq Clients
                           /\ Stalling \subseteq Clients

VARIABLES
    version,    \* updates of the document so far
    expired,    \* the clock has reached expiresAt
    worker,     \* where each worker is, the version it will publish and to whom
    subs,       \* Hub.subs of the session: clients whose channel is listed
    listed,     \* Hub.subs has an entry for the session
    chan,       \* what each client's channel holds
    closed,     \* clients whose channel has been closed
    stream,     \* where each events handler is, and the version it is to write
    gone,       \* clients that have disconnected
    shown,      \* last version a client was sent on its present stream
    missed,     \* history: clients a newer version was not announced to
    misled      \* history: clients sent a state older than the sender's last update

vars == <<version, expired, worker, subs, listed, chan, closed, stream, gone, shown, missed, misled>>

Versions == 0 .. MaxVersion

WorkerState ==
    [at : {"idle", "admitted", "updated", "announcing", "broadcasting"},
     state : Versions, behind : BOOLEAN, left : SUBSET Clients]
StreamState ==
    [at : {"off", "authorised", "writing", "loop", "ending"}, state : Versions]

Resting == [at |-> "idle", state |-> 0, behind |-> FALSE, left |-> {}]
Off == [at |-> "off", state |-> 0]

Init ==
    /\ version = 0
    /\ expired = FALSE
    /\ worker = [w \in Workers |-> Resting]
    /\ subs = {} /\ listed = FALSE
    /\ chan = [c \in Clients |-> <<>>]
    /\ closed = {}
    /\ stream = [c \in Clients |-> Off]
    /\ gone = {}
    /\ shown = [c \in Clients |-> 0]
    /\ missed = {} /\ misled = {}

-----------------------------------------------------------------------------
(* The handlers that change the session. *)

\* RequireParticipant lets the request through.
Begin(w) ==
    /\ worker[w].at = "idle" /\ ~expired
    /\ worker' = [worker EXCEPT ![w].at = "admitted"]
    /\ UNCHANGED <<version, expired, subs, listed, chan, closed, stream, gone, shown, missed,
                   misled>>

\* A check fails or the session is gone: nothing is published.
Refuse(w) ==
    /\ worker[w].at = "admitted"
    /\ worker' = [worker EXCEPT ![w] = Resting]
    /\ UNCHANGED <<version, expired, subs, listed, chan, closed, stream, gone, shown, missed,
                   misled>>

Update_ReturnsBefore(w) ==
    /\ worker[w].at = "admitted" /\ version < MaxVersion
    /\ version' = version + 1
    /\ worker' = [worker EXCEPT ![w].at = "updated", ![w].state = version]
    /\ UNCHANGED <<expired, subs, listed, chan, closed, stream, gone, shown, missed, misled>>
Update(w) ==
    /\ worker[w].at = "admitted" /\ version < MaxVersion
    /\ version' = version + 1
    /\ worker' = [worker EXCEPT ![w].at = "updated", ![w].state = version + 1]
    /\ UNCHANGED <<expired, subs, listed, chan, closed, stream, gone, shown, missed, misled>>

\* The update takes effect but the handler gets an error (its request was
\* cancelled, the reply was lost) and returns without publishing.
UnannouncedUpdate(w) ==
    /\ Faults
    /\ worker[w].at = "admitted" /\ version < MaxVersion
    /\ version' = version + 1
    /\ worker' = [worker EXCEPT ![w] = Resting]
    /\ missed' = missed \cup {c \in Clients : stream[c].at # "off"}
    /\ UNCHANGED <<expired, subs, listed, chan, closed, stream, gone, shown, misled>>

\* The version a handler publishes: the one transition returned if it applied.
Announced_BeforeTransition(first, second) == first
Announced(first, second) == second

\* MarkReady and SubmitSwipes move the status too, unless there is nothing to
\* move or transition fails: then they publish what they already have, which is
\* no longer what is stored if transition took effect and its answer was lost.
Transition(w) ==
    /\ worker[w].at = "updated"
    /\ \/ /\ version < MaxVersion
          /\ version' = version + 1
          /\ worker' = [worker EXCEPT ![w].at = "announcing",
                                      ![w].state = Announced(@, version + 1)]
          /\ UNCHANGED missed
       \/ /\ worker' = [worker EXCEPT ![w].at = "announcing"]
          /\ UNCHANGED <<version, missed>>
       \/ /\ Faults /\ version < MaxVersion
          /\ version' = version + 1
          /\ worker' = [worker EXCEPT ![w].at = "announcing", ![w].behind = TRUE]
          /\ missed' = missed \cup {c \in Clients : stream[c].at # "off"}
    /\ UNCHANGED <<expired, subs, listed, chan, closed, stream, gone, shown, misled>>

-----------------------------------------------------------------------------
(* Hub.  Broadcast holds the read lock: broadcasts overlap each other, but  *)
(* not Subscribe and Unsubscribe, which hold the write lock.                *)

Readers == {w \in Workers : worker[w].at = "broadcasting"}
WriteLockFree_Always == TRUE
WriteLockFree == Readers = {}

BroadcastStart(w) ==
    /\ worker[w].at = "announcing"
    /\ worker' = [worker EXCEPT ![w].at = "broadcasting", ![w].left = subs]
    /\ missed' = missed \cup {c \in Clients : /\ stream[c].at = "authorised"
                                              /\ stream[c].state < worker[w].state}
    /\ UNCHANGED <<version, expired, subs, listed, chan, closed, stream, gone, shown, misled>>

\* A listener whose buffer is full is skipped.
BroadcastSend_Blocking(w) ==
    /\ worker[w].at = "broadcasting"
    /\ \E c \in worker[w].left :
          /\ worker' = [worker EXCEPT ![w].left = @ \ {c}]
          /\ Len(chan[c]) < Buffer
          /\ chan' = [chan EXCEPT ![c] = Append(@, worker[w].state)]
          /\ missed' = missed \ {c}
    /\ UNCHANGED <<version, expired, subs, listed, closed, stream, gone, shown, misled>>
BroadcastSend(w) ==
    /\ worker[w].at = "broadcasting"
    /\ \E c \in worker[w].left :
          /\ worker' = [worker EXCEPT ![w].left = @ \ {c}]
          /\ IF Len(chan[c]) < Buffer
             THEN /\ chan' = [chan EXCEPT ![c] = Append(@, worker[w].state)]
                  /\ missed' = IF worker[w].behind THEN missed \cup {c} ELSE missed \ {c}
                  /\ misled' = IF worker[w].behind THEN misled \cup {c} ELSE misled
             ELSE /\ missed' = missed \cup {c}
                  /\ UNCHANGED <<chan, misled>>
    /\ UNCHANGED <<version, expired, subs, listed, closed, stream, gone, shown>>

BroadcastEnd(w) ==
    /\ worker[w].at = "broadcasting" /\ worker[w].left = {}
    /\ worker' = [worker EXCEPT ![w] = Resting]
    /\ UNCHANGED <<version, expired, subs, listed, chan, closed, stream, gone, shown, missed,
                   misled>>

Subscribe(c) ==
    /\ stream[c].at = "authorised" /\ WriteLockFree
    /\ subs' = subs \cup {c} /\ listed' = TRUE
    /\ chan' = [chan EXCEPT ![c] = <<>>]
    /\ closed' = closed \ {c}
    /\ stream' = [stream EXCEPT ![c].at = "writing"]
    /\ UNCHANGED <<version, expired, worker, gone, shown, missed, misled>>

EntryKept_Always(listeners) == TRUE
EntryKept(listeners) == listeners # {}

Unsubscribe(c) ==
    /\ stream[c].at = "ending" /\ WriteLockFree
    /\ IF c \in subs
       THEN /\ subs' = subs \ {c}
            /\ listed' = EntryKept(subs \ {c})
            /\ closed' = closed \cup {c}
       ELSE UNCHANGED <<subs, listed, closed>>
    /\ chan' = [chan EXCEPT ![c] = <<>>]
    /\ stream' = [stream EXCEPT ![c] = Off]
    /\ gone' = gone \ {c}
    /\ shown' = [shown EXCEPT ![c] = 0]
    /\ missed' = missed \ {c} /\ misled' = misled \ {c}
    /\ UNCHANGED <<version, expired, worker>>

-----------------------------------------------------------------------------
(* GET events *)

\* RequireParticipant reads the document the first frame will show.
Open(c) ==
    /\ stream[c].at = "off" /\ ~expired
    /\ stream' = [stream EXCEPT ![c] = [at |-> "authorised", state |-> version]]
    /\ UNCHANGED <<version, expired, worker, subs, listed, chan, closed, gone, shown, missed,
                   misled>>

\* writeEvent: a failed write is dropped; a write to a client that has stopped
\* reading does not return, since the stream has no write deadline.
Write(c) ==
    /\ stream[c].at = "writing" /\ c \notin gone
    /\ shown' = [shown EXCEPT ![c] = stream[c].state]
    /\ stream' = [stream EXCEPT ![c] = [at |-> "loop", state |-> 0]]
    /\ UNCHANGED <<version, expired, worker, subs, listed, chan, closed, gone, missed, misled>>

WriteFails(c) ==
    /\ stream[c].at = "writing" /\ c \in gone
    /\ stream' = [stream EXCEPT ![c] = [at |-> "loop", state |-> 0]]
    /\ UNCHANGED <<version, expired, worker, subs, listed, chan, closed, gone, shown, missed,
                   misled>>

Receive(c) ==
    /\ stream[c].at = "loop" /\ chan[c] # <<>>
    /\ chan' = [chan EXCEPT ![c] = Tail(@)]
    /\ stream' = [stream EXCEPT ![c] = [at |-> "writing", state |-> Head(chan[c])]]
    /\ UNCHANGED <<version, expired, worker, subs, listed, closed, gone, shown, missed, misled>>

\* The request's context is done or a keepalive cannot be written, or the
\* expiry timer fires.
MustEnd_OnDisconnect(c) == c \in gone
MustEnd_OnExpiry(c) == expired
MustEnd(c) == c \in gone \/ expired

Finish(c) ==
    /\ stream[c].at = "loop" /\ MustEnd(c)
    /\ stream' = [stream EXCEPT ![c].at = "ending"]
    /\ UNCHANGED <<version, expired, worker, subs, listed, chan, closed, gone, shown, missed,
                   misled>>

-----------------------------------------------------------------------------
(* The world. *)

Disconnect(c) ==
    /\ c \in Leaving \ gone /\ stream[c].at # "off"
    /\ gone' = gone \cup {c}
    /\ UNCHANGED <<version, expired, worker, subs, listed, chan, closed, stream, shown, missed,
                   misled>>

Expire ==
    /\ ~expired
    /\ expired' = TRUE
    /\ UNCHANGED <<version, worker, subs, listed, chan, closed, stream, gone, shown, missed,
                   misled>>

\* Nothing is left to happen to an expired session; any other state without
\* a successor is a deadlock.
Over ==
    /\ expired
    /\ \A w \in Workers : worker[w].at = "idle"
    /\ \A c \in Clients : stream[c].at = "off"
    /\ UNCHANGED vars

Working(w) ==
    \/ Refuse(w) \/ Update(w) \/ UnannouncedUpdate(w) \/ Transition(w)
    \/ BroadcastStart(w) \/ BroadcastSend(w) \/ BroadcastEnd(w)

Next ==
    \/ \E w \in Workers : Begin(w) \/ Working(w)
    \/ \E c \in Clients :
          \/ Open(c) \/ Subscribe(c) \/ Write(c) \/ WriteFails(c)
          \/ Receive(c) \/ Finish(c) \/ Unsubscribe(c) \/ Disconnect(c)
    \/ Expire
    \/ Over

Spec == Init /\ [][Next]_vars

\* What the goroutine of a stream does when it has not to wait for the lock.  A
\* client that reads lets a write return; one that has disconnected makes it fail.
Serving(c) ==
    WriteFails(c) \/ Receive(c) \/ Finish(c) \/ (c \notin Stalling /\ Write(c))

\* Goroutines are scheduled and database calls return.  Subscribe and Unsubscribe
\* wait for the write lock, which sync.RWMutex grants although readers keep coming
\* (a waiting writer holds up new readers).
FairSpec ==
    /\ Spec
    /\ \A w \in Workers : WF_vars(Working(w))
    /\ \A c \in Clients : SF_vars(Subscribe(c) \/ Unsubscribe(c)) /\ WF_vars(Serving(c))

-----------------------------------------------------------------------------
(* Properties. *)

\* Every variable keeps its type, and no channel holds more than its buffer.
TypeOK ==
    /\ version \in Versions /\ expired \in BOOLEAN
    /\ worker \in [Workers -> WorkerState]
    /\ subs \subseteq Clients /\ listed \in BOOLEAN
    /\ chan \in [Clients -> Seq(Versions)]
    /\ \A c \in Clients : Len(chan[c]) <= Buffer
    /\ closed \subseteq Clients
    /\ stream \in [Clients -> StreamState]
    /\ gone \subseteq Clients /\ missed \subseteq Clients /\ misled \subseteq Clients
    /\ shown \in [Clients -> Versions]

\* A broadcast never sends on a closed channel, which would panic: a listener
\* it has yet to serve cannot unsubscribe meanwhile.
NoSendOnClosed ==
    \A w \in Readers : worker[w].left \cap closed = {}

\* The hub lists exactly the streams being served, and forgets the session
\* when the last one ends, so entries of dead sessions do not pile up.
HubMatchesStreams ==
    /\ subs = {c \in Clients : stream[c].at \in {"writing", "loop", "ending"}}
    /\ listed <=> subs # {}

\* The inductive invariant behind the two: who is listed has an open channel,
\* and a broadcast only has listed channels left to serve.
HubInv ==
    /\ TypeOK /\ HubMatchesStreams
    /\ subs \cap closed = {}
    /\ \A w \in Readers : worker[w].left \subseteq subs

Settled(c) ==
    /\ \A w \in Workers : worker[w].at \in {"idle", "admitted"}
    /\ stream[c].at = "loop" /\ chan[c] = <<>> /\ c \notin gone

\* With one writer at a time, a stream on which everything has settled shows
\* the current version, unless the newest was announced between its read and
\* its Subscribe, met a full buffer, or was never announced: the answer of the
\* update was lost, or that of the transition, and then it is the state before
\* the transition that is announced.
CurrentUnlessMissed ==
    \A c \in Clients : Settled(c) /\ c \notin missed => shown[c] = version

\* The newest version a stream has been sent or has coming.
Newest(c) ==
    CASE stream[c].at # "authorised" /\ chan[c] # <<>> -> chan[c][Len(chan[c])]
      [] stream[c].at = "loop" /\ chan[c] = <<>> -> shown[c]
      [] OTHER -> stream[c].state

\* No update is on its way to a client: none is to be announced by one who knows
\* of it, and a broadcast has been at its channel.
Heard(c) ==
    \A w \in Workers :
        \/ worker[w].at \in {"idle", "admitted"} \/ worker[w].behind
        \/ worker[w].at = "broadcasting" /\ c \notin worker[w].left

OneWriter == \A v, w \in Workers : v = w

\* A writer has the version that is stored, unless the answer of its transition
\* was lost.
HasNewest(w) ==
    /\ worker[w].at \in {"updated", "announcing", "broadcasting"} =>
          worker[w].state = version \/ worker[w].behind
    /\ worker[w].behind => Faults /\ worker[w].at \in {"announcing", "broadcasting"}

\* The inductive invariant behind it: the writer announces the version that is
\* stored unless it is behind, and nothing newer than what a stream has coming is
\* on its way to nobody.
CurrentInv ==
    /\ HubInv
    /\ \A w \in Workers : HasNewest(w)
    /\ \A c \in Clients : stream[c].at = "authorised" => stream[c].state <= version
    /\ \A c \in Clients \ (missed \cup gone) :
          stream[c].at \in {"authorised", "writing", "loop"} /\ Heard(c) => Newest(c) = version
    /\ ~Faults => misled = {}

\* The stream of a client that reads ends once its session has expired: the
\* stream must not outlive the session.  One whose write does not return has
\* nobody to look at the timer.
StreamsEndAtExpiry ==
    \A c \in Clients \ Stalling : (expired /\ stream[c].at # "off") ~> stream[c].at = "off"

\* A stream whose client has gone is cleaned up.
DisconnectedStreamsEnd ==
    \A c \in Leaving : c \in gone ~> c \notin gone

\* No stream, however slow, holds up the request that broadcasts.
BroadcastsEnd ==
    \A w \in Workers : worker[w].at = "announcing" ~> worker[w].at = "idle"

\* A stream never goes back to an older version.
FramesInOrder ==
    [][\A c \in Clients : stream'[c].at # "off" => shown'[c] >= shown[c]]_vars

\* Nor does it, with one writer at a time, before a handler that is behind has
\* announced to it a state older than the one it may have opened with.
FramesInOrderUnlessMisled ==
    [][\A c \in Clients : stream'[c].at # "off" /\ c \notin misled' => shown'[c] >= shown[c]]_vars

\* States on their way, oldest first, none older than what was sent before and
\* none newer than what is stored.
Ordered(q, low, high) ==
    \A k \in DOMAIN q : q[k] \in low .. high /\ \A m \in k .. Len(q) : q[k] <= q[m]
InOrder(c) ==
    /\ shown[c] <= version
    /\ stream[c].at \in {"off", "authorised"} => shown[c] = 0
    /\ stream[c].at \in {"authorised", "writing"} => stream[c].state \in shown[c] .. version
    /\ stream[c].at = "writing" => Ordered(chan[c], stream[c].state, version)
    /\ stream[c].at = "loop" => Ordered(chan[c], shown[c], version)

\* The inductive invariant behind the order of frames when there is one writer:
\* what a stream that was not misled has been sent, has in hand and has in its
\* channel is in the order of the updates and never ahead of them.
OrderInv == CurrentInv /\ \A c \in Clients \ misled : InOrder(c)
=============================================================================
