------------------------ MODULE WatcherEvents_proofs ------------------------
(***************************************************************************)
(* Theorems about WatcherEvents, for any number of workers, clients and    *)
(* updates and any buffer size.                                            *)
(***************************************************************************)
EXTENDS WatcherEvents, TLAPS

-----------------------------------------------------------------------------
(* Type correctness. *)

\* A broadcast appends to a buffer only while it has room, a stream takes from
\* it only what is there.
LEMMA QueueTyped ==
    ASSUME NEW q \in Seq(Versions), NEW v \in Versions
    PROVE  /\ Append(q, v) \in Seq(Versions) /\ Len(Append(q, v)) = Len(q) + 1
           /\ Len(q) \in Nat
           /\ q # <<>> => /\ Head(q) \in Versions /\ Tail(q) \in Seq(Versions)
                         /\ Len(Tail(q)) = Len(q) - 1
OBVIOUS

\* The empty hub is of the type.
LEMMA InitTyped == Init => TypeOK
<1> SUFFICES ASSUME Init PROVE TypeOK
  OBVIOUS
<1>1. 0 \in Versions
  BY EventsAssumption DEF Versions
<1>2. chan \in [Clients -> Seq(Versions)] /\ \A c \in Clients : Len(chan[c]) <= Buffer
  BY EventsAssumption DEF Init
<1> QED
  BY <1>1, <1>2 DEF Init, TypeOK, WorkerState, Resting, StreamState, Off

\* The steps that leave every buffer as it is.
LEMMA QuietTyped ==
    ASSUME TypeOK, chan' = chan, worker' \in [Workers -> WorkerState],
           stream' \in [Clients -> StreamState], version' \in Versions,
           expired' \in BOOLEAN, subs' \subseteq Clients, listed' \in BOOLEAN,
           closed' \subseteq Clients, gone' \subseteq Clients, missed' \subseteq Clients,
           misled' \subseteq Clients, shown' \in [Clients -> Versions]
    PROVE  TypeOK'
BY DEF TypeOK

\* The steps of a worker that touch no channel keep the types.
LEMMA WorkerTyped ==
    ASSUME TypeOK, NEW w \in Workers,
           \/ Begin(w) \/ Refuse(w) \/ Update(w) \/ UnannouncedUpdate(w)
           \/ Transition(w) \/ BroadcastStart(w) \/ BroadcastEnd(w)
    PROVE  TypeOK'
<1>1. version' \in Versions /\ (version < MaxVersion => version + 1 \in Versions)
  BY EventsAssumption DEF TypeOK, Versions, Begin, Refuse, Update, UnannouncedUpdate,
     Transition, BroadcastStart, BroadcastEnd
<1>2. 0 \in Versions
  BY EventsAssumption DEF Versions
<1>3. worker' \in [Workers -> WorkerState]
  <2>1. CASE Begin(w)
    BY <2>1 DEF TypeOK, WorkerState, Begin
  <2>2. CASE Refuse(w) \/ UnannouncedUpdate(w) \/ BroadcastEnd(w)
    <3>1. Resting \in WorkerState /\ worker' = [worker EXCEPT ![w] = Resting]
      BY <1>2, <2>2 DEF WorkerState, Resting, Refuse, UnannouncedUpdate, BroadcastEnd
    <3> QED
      BY <3>1 DEF TypeOK
  <2>3. CASE Update(w)
    <3>1. /\ version + 1 \in Versions
          /\ worker' = [worker EXCEPT ![w].at = "updated", ![w].state = version + 1]
      BY <1>1, <2>3 DEF Update
    <3> QED
      BY <3>1 DEF TypeOK, WorkerState
  <2>4. CASE Transition(w)
    <3>1. CASE /\ version < MaxVersion
               /\ worker' = [worker EXCEPT ![w].at = "announcing",
                                           ![w].state = Announced(@, version + 1)]
      <4>1. /\ version + 1 \in Versions
            /\ worker' = [worker EXCEPT ![w].at = "announcing", ![w].state = version + 1]
        BY <1>1, <3>1 DEF Announced
      <4> QED
        BY <4>1 DEF TypeOK, WorkerState
    <3>2. CASE worker' = [worker EXCEPT ![w].at = "announcing"]
      BY <3>2 DEF TypeOK, WorkerState
    <3>3. CASE worker' = [worker EXCEPT ![w].at = "announcing", ![w].behind = TRUE]
      BY <3>3 DEF TypeOK, WorkerState
    <3> QED
      BY <2>4, <3>1, <3>2, <3>3 DEF Transition
  <2>5. CASE BroadcastStart(w)
    BY <2>5 DEF TypeOK, WorkerState, BroadcastStart
  <2> QED
    BY <2>1, <2>2, <2>3, <2>4, <2>5
<1>4. missed' \subseteq Clients
  BY DEF TypeOK, Begin, Refuse, Update, UnannouncedUpdate,
     Transition, BroadcastStart, BroadcastEnd
<1> QED
  BY <1>1, <1>3, <1>4, QuietTyped
     DEF TypeOK, Begin, Refuse, Update, UnannouncedUpdate, Transition, BroadcastStart,
         BroadcastEnd

\* A broadcast that sends or skips keeps the types and the bound of the buffer.
LEMMA SendTyped ==
    ASSUME TypeOK, NEW w \in Workers, BroadcastSend(w)
    PROVE  TypeOK'
<1>1. PICK c \in worker[w].left :
        /\ worker' = [worker EXCEPT ![w].left = @ \ {c}]
        /\ IF Len(chan[c]) < Buffer
           THEN /\ chan' = [chan EXCEPT ![c] = Append(@, worker[w].state)]
                /\ missed' \subseteq missed \cup {c} /\ misled' \subseteq misled \cup {c}
           ELSE /\ missed' = missed \cup {c}
                /\ UNCHANGED <<chan, misled>>
  BY DEF BroadcastSend
<1>2. c \in Clients /\ worker[w].state \in Versions
  BY DEF TypeOK, WorkerState
<1>3. /\ worker' \in [Workers -> WorkerState]
      /\ missed' \subseteq Clients /\ misled' \subseteq Clients
  BY <1>1, <1>2 DEF TypeOK, WorkerState
<1>4. chan' \in [Clients -> Seq(Versions)] /\ \A d \in Clients : Len(chan'[d]) <= Buffer
  <2>1. CASE Len(chan[c]) < Buffer
    <3>1. chan[c] \in Seq(Versions) /\ Len(chan[c]) \in Nat
      BY <1>2 DEF TypeOK
    <3>2. /\ Append(chan[c], worker[w].state) \in Seq(Versions)
          /\ Len(Append(chan[c], worker[w].state)) <= Buffer
      BY <1>2, <2>1, <3>1, QueueTyped, EventsAssumption
    <3>3. chan' = [chan EXCEPT ![c] = Append(chan[c], worker[w].state)]
      BY <1>1, <2>1
    <3> QED
      BY <1>2, <3>2, <3>3 DEF TypeOK
  <2>2. CASE ~(Len(chan[c]) < Buffer)
    BY <1>1, <2>2 DEF TypeOK
  <2> QED
    BY <2>1, <2>2
<1> QED
  BY <1>3, <1>4 DEF TypeOK, BroadcastSend

\* The steps of a stream that touch no channel keep the types.
LEMMA StreamTyped ==
    ASSUME TypeOK, NEW c \in Clients,
           \/ Open(c) \/ Write(c) \/ WriteFails(c) \/ Finish(c) \/ Disconnect(c)
    PROVE  TypeOK'
<1>1. 0 \in Versions
  BY EventsAssumption DEF Versions
<1>2. stream' \in [Clients -> StreamState]
  <2>1. CASE Open(c)
    BY <2>1 DEF TypeOK, StreamState, Open
  <2>2. CASE Write(c) \/ WriteFails(c)
    <3>1. stream' = [stream EXCEPT ![c] = [at |-> "loop", state |-> 0]]
      BY <2>2 DEF Write, WriteFails
    <3>2. [at |-> "loop", state |-> 0] \in StreamState
      BY <1>1 DEF StreamState
    <3> QED
      BY <3>1, <3>2 DEF TypeOK
  <2>3. CASE Finish(c)
    BY <2>3 DEF TypeOK, StreamState, Finish
  <2>4. CASE Disconnect(c)
    BY <2>4 DEF TypeOK, Disconnect
  <2> QED
    BY <2>1, <2>2, <2>3, <2>4
<1>3. shown' \in [Clients -> Versions] /\ gone' \subseteq Clients
  BY DEF TypeOK, StreamState, Open, Write, WriteFails, Finish, Disconnect
<1> QED
  BY <1>2, <1>3, QuietTyped DEF TypeOK, Open, Write, WriteFails, Finish, Disconnect

\* Subscribe, Unsubscribe and Receive keep the types.
LEMMA ChannelTyped ==
    ASSUME TypeOK, NEW c \in Clients, Subscribe(c) \/ Receive(c) \/ Unsubscribe(c)
    PROVE  TypeOK'
<1>1. 0 \in Versions
  BY EventsAssumption DEF Versions
<1>2. CASE Subscribe(c)
  <2>1. stream' \in [Clients -> StreamState]
    BY <1>2 DEF TypeOK, StreamState, Subscribe
  <2>2. chan' \in [Clients -> Seq(Versions)] /\ \A d \in Clients : Len(chan'[d]) <= Buffer
    BY <1>2, EventsAssumption DEF TypeOK, Subscribe
  <2> QED
    BY <1>2, <2>1, <2>2 DEF TypeOK, Subscribe
<1>3. CASE Receive(c)
  <2>1. stream' \in [Clients -> StreamState]
    BY <1>3, QueueTyped DEF TypeOK, StreamState, Receive
  <2>2. chan' \in [Clients -> Seq(Versions)] /\ \A d \in Clients : Len(chan'[d]) <= Buffer
    BY <1>1, <1>3, QueueTyped, EventsAssumption DEF TypeOK, Receive
  <2> QED
    BY <1>3, <2>1, <2>2 DEF TypeOK, Receive
<1>4. CASE Unsubscribe(c)
  <2>1. stream' \in [Clients -> StreamState] /\ shown' \in [Clients -> Versions]
    BY <1>1, <1>4 DEF TypeOK, StreamState, Off, Unsubscribe
  <2>2. chan' \in [Clients -> Seq(Versions)] /\ \A d \in Clients : Len(chan'[d]) <= Buffer
    BY <1>4, EventsAssumption DEF TypeOK, Unsubscribe
  <2>3. subs' \subseteq Clients /\ listed' \in BOOLEAN /\ closed' \subseteq Clients
    BY <1>4 DEF TypeOK, Unsubscribe, EntryKept
  <2> QED
    BY <1>4, <2>1, <2>2, <2>3 DEF TypeOK, Unsubscribe
<1> QED
  BY <1>2, <1>3, <1>4

\* Every step keeps the types.
LEMMA NextTyped == TypeOK /\ [Next]_vars => TypeOK'
<1> SUFFICES ASSUME TypeOK, [Next]_vars PROVE TypeOK'
  OBVIOUS
<1>1. CASE Expire
  BY <1>1, QuietTyped DEF Expire, TypeOK
<1>2. CASE Over \/ UNCHANGED vars
  BY <1>2, QuietTyped DEF Over, vars, TypeOK
<1> QED
  BY <1>1, <1>2, WorkerTyped, SendTyped, StreamTyped, ChannelTyped DEF Next, Working

\* Type correctness; no channel ever holds more than subscriberBuffer states.
THEOREM TypeCorrect == Spec => []TypeOK
BY InitTyped, NextTyped, PTL DEF Spec

-----------------------------------------------------------------------------
(* The hub. *)

\* The empty hub satisfies its invariant.
LEMMA InitHubInv == Init => HubInv
<1> SUFFICES ASSUME Init PROVE HubInv
  OBVIOUS
<1>1. Readers = {}
  BY DEF Init, Readers, Resting
<1> QED
  BY <1>1, InitTyped DEF Init, HubInv, HubMatchesStreams, Off

\* A step of a worker other than taking the read lock or sending.
LEMMA WorkerKeepsHub ==
    ASSUME HubInv, TypeOK', NEW w \in Workers,
           subs' = subs, listed' = listed, closed' = closed, stream' = stream,
           \A v \in Workers \ {w} : worker'[v] = worker[v],
           \/ worker'[w].at # "broadcasting"
           \/ worker'[w].left \subseteq subs
    PROVE  HubInv'
<1>1. HubMatchesStreams' /\ (subs \cap closed = {})'
  BY DEF HubInv, HubMatchesStreams
<1>2. \A v \in Readers' : worker'[v].left \subseteq subs'
  BY DEF HubInv, Readers
<1> QED
  BY <1>1, <1>2 DEF HubInv

\* A step of a stream that does not touch the hub.
LEMMA StreamKeepsHub ==
    ASSUME HubInv, TypeOK', NEW c \in Clients,
           subs' = subs, listed' = listed, closed' = closed, worker' = worker,
           \A d \in Clients \ {c} : stream'[d] = stream[d],
           stream[c].at \in {"writing", "loop", "ending"}
             <=> stream'[c].at \in {"writing", "loop", "ending"}
    PROVE  HubInv'
<1>1. HubMatchesStreams'
  BY DEF HubInv, HubMatchesStreams
<1> QED
  BY <1>1 DEF HubInv, Readers

\* Every step keeps the invariant of the hub: one step per action.
LEMMA NextHubInv == HubInv /\ [Next]_vars => HubInv'
<1> SUFFICES ASSUME HubInv, [Next]_vars PROVE HubInv'
  OBVIOUS
<1>1. TypeOK /\ TypeOK'
  BY NextTyped DEF HubInv
<1>2. ASSUME NEW w \in Workers, Begin(w) \/ Refuse(w) \/ Update(w)
                \/ UnannouncedUpdate(w) \/ BroadcastEnd(w)
      PROVE  HubInv'
  <2>1. worker'[w].at # "broadcasting" /\ \A v \in Workers \ {w} : worker'[v] = worker[v]
    BY <1>1, <1>2 DEF TypeOK, WorkerState, Begin, Refuse, Update, UnannouncedUpdate,
                      BroadcastEnd, Resting
  <2> QED
    BY <1>1, <1>2, <2>1, WorkerKeepsHub
       DEF Begin, Refuse, Update, UnannouncedUpdate, BroadcastEnd
<1>3. ASSUME NEW w \in Workers, Transition(w)
      PROVE  HubInv'
  <2>1. worker'[w].at # "broadcasting" /\ \A v \in Workers \ {w} : worker'[v] = worker[v]
    BY <1>1, <1>3 DEF TypeOK, WorkerState, Transition
  <2> QED
    BY <1>1, <1>3, <2>1, WorkerKeepsHub DEF Transition
<1>4. ASSUME NEW w \in Workers, BroadcastStart(w)
      PROVE  HubInv'
  <2>1. worker'[w].left = subs /\ \A v \in Workers \ {w} : worker'[v] = worker[v]
    BY <1>1, <1>4 DEF TypeOK, WorkerState, BroadcastStart
  <2> QED
    BY <1>1, <1>4, <2>1, WorkerKeepsHub DEF BroadcastStart
<1>5. ASSUME NEW w \in Workers, BroadcastSend(w)
      PROVE  HubInv'
  <2>1. /\ worker'[w].left \subseteq worker[w].left
        /\ \A v \in Workers \ {w} : worker'[v] = worker[v]
    BY <1>1, <1>5 DEF TypeOK, WorkerState, BroadcastSend
  <2>2. worker[w].left \subseteq subs
    BY <1>5 DEF HubInv, Readers, BroadcastSend
  <2> QED
    BY <1>1, <1>5, <2>1, <2>2, WorkerKeepsHub DEF BroadcastSend
<1>6. ASSUME NEW c \in Clients, Open(c) \/ Write(c) \/ WriteFails(c) \/ Receive(c)
                \/ Finish(c)
      PROVE  HubInv'
  <2>1. \A d \in Clients \ {c} : stream'[d] = stream[d]
    BY <1>1, <1>6 DEF TypeOK, Open, Write, WriteFails, Receive, Finish
  <2>2. stream[c].at \in {"writing", "loop", "ending"}
          <=> stream'[c].at \in {"writing", "loop", "ending"}
    BY <1>1, <1>6 DEF TypeOK, StreamState, Open, Write, WriteFails, Receive, Finish
  <2> QED
    BY <1>1, <1>6, <2>1, <2>2, StreamKeepsHub DEF Open, Write, WriteFails, Receive, Finish
<1>7. ASSUME NEW c \in Clients, Subscribe(c)
      PROVE  HubInv'
  <2>1. stream'[c].at = "writing" /\ \A d \in Clients \ {c} : stream'[d] = stream[d]
    BY <1>1, <1>7 DEF TypeOK, StreamState, Subscribe
  <2>2. HubMatchesStreams'
    BY <1>7, <2>1 DEF HubInv, HubMatchesStreams, Subscribe
  <2>3. (subs \cap closed = {})' /\ \A w \in Readers' : worker'[w].left \subseteq subs'
    BY <1>7 DEF HubInv, Readers, Subscribe
  <2> QED
    BY <1>1, <2>2, <2>3 DEF HubInv
<1>8. ASSUME NEW c \in Clients, Unsubscribe(c)
      PROVE  HubInv'
  <2>1. stream'[c].at = "off" /\ \A d \in Clients \ {c} : stream'[d] = stream[d]
    BY <1>1, <1>8 DEF TypeOK, StreamState, Unsubscribe, Off
  <2>2. c \in subs
    BY <1>8 DEF HubInv, HubMatchesStreams, Unsubscribe
  <2>3. HubMatchesStreams'
    BY <1>8, <2>1, <2>2 DEF HubInv, HubMatchesStreams, Unsubscribe, EntryKept
  <2>4. (subs \cap closed = {})' /\ Readers' = {}
    BY <1>8, <2>2 DEF HubInv, Readers, Unsubscribe, WriteLockFree
  <2> QED
    BY <1>1, <2>3, <2>4 DEF HubInv
<1>9. CASE Expire \/ Over \/ UNCHANGED vars \/ \E c \in Clients : Disconnect(c)
  BY <1>1, <1>9 DEF Expire, Over, vars, Disconnect, HubInv, HubMatchesStreams, Readers
<1> QED
  BY <1>2, <1>3, <1>4, <1>5, <1>6, <1>7, <1>8, <1>9 DEF Next, Working

\* The inductive invariant of the hub.
THEOREM HubInductive == Spec => []HubInv
BY InitHubInv, NextHubInv, PTL DEF Spec

\* The hub lists exactly the streams being served and keeps no entry for a
\* session without any.
THEOREM HubIsExact == Spec => []HubMatchesStreams
<1>1. HubInv => HubMatchesStreams
  BY DEF HubInv
<1> QED
  BY <1>1, HubInductive, PTL

\* However many broadcasts overlap with streams coming and going, none sends
\* on a closed channel.
THEOREM NoPanicOnSend == Spec => []NoSendOnClosed
<1>1. HubInv => NoSendOnClosed
  BY DEF HubInv, NoSendOnClosed
<1> QED
  BY <1>1, HubInductive, PTL

-----------------------------------------------------------------------------
(* What a settled stream shows. *)

\* Putting a state into a channel makes it the newest; taking one out leaves
\* the newest where it was, in the channel or in the hands of the stream.
LEMMA NewestOfQueue ==
    ASSUME NEW q \in Seq(Versions), NEW v \in Versions
    PROVE  /\ Append(q, v) # <<>> /\ Append(q, v)[Len(Append(q, v))] = v
           /\ (q # <<>> /\ Tail(q) = <<>>) => Head(q) = q[Len(q)]
           /\ (q # <<>> /\ Tail(q) # <<>>) => Tail(q)[Len(Tail(q))] = q[Len(q)]
<1>1. Append(q, v) # <<>> /\ Append(q, v)[Len(Append(q, v))] = v
  OBVIOUS
<1>2. ASSUME q # <<>>
      PROVE  /\ Len(q) \in Nat \ {0} /\ Tail(q) \in Seq(Versions)
             /\ Len(Tail(q)) = Len(q) - 1
             /\ \A i \in 1 .. Len(q) - 1 : Tail(q)[i] = q[i + 1]
  BY <1>2
<1>3. ASSUME q # <<>>, Tail(q) = <<>>
      PROVE  Head(q) = q[Len(q)]
  <2>1. Len(<<>>) = 0
    OBVIOUS
  <2>2. Len(Tail(q)) = 0
    BY <1>3, <2>1
  <2>3. Len(q) = 1
    BY <1>2, <1>3, <2>2
  <2> QED
    BY <1>3, <2>3
<1>4. ASSUME q # <<>>, Tail(q) # <<>>
      PROVE  Tail(q)[Len(Tail(q))] = q[Len(q)]
  <2>1. Len(Tail(q)) # 0
    BY <1>2, <1>4
  <2>2. Len(q) - 1 \in 1 .. Len(q) - 1
    BY <1>2, <1>4, <2>1
  <2> QED
    BY <1>2, <1>4, <2>2
<1> QED
  BY <1>1, <1>3, <1>4

\* Nothing has been stored and nobody listens.
LEMMA InitCurrentInv == Init => CurrentInv
<1> SUFFICES ASSUME Init PROVE CurrentInv
  OBVIOUS
<1>1. HubInv
  BY InitHubInv
<1>2. \A w \in Workers : worker[w].at = "idle"
  BY DEF Init, Resting
<1>3. \A c \in Clients : stream[c].at = "off"
  BY DEF Init, Off
<1>4. \A w \in Workers : HasNewest(w)
  BY DEF Init, Resting, HasNewest
<1>5. misled = {}
  BY DEF Init
<1> QED
  BY <1>1, <1>3, <1>4, <1>5 DEF CurrentInv

\* A step of the writer that stores nothing and sends nothing.
LEMMA WriterKeepsCurrent ==
    ASSUME CurrentInv, HubInv', OneWriter, NEW w \in Workers,
           version' = version, chan' = chan, stream' = stream, shown' = shown, gone' = gone,
           missed \subseteq missed', misled' = misled, HasNewest(w)',
           \A c \in Clients \ (missed' \cup gone) :
               stream[c].at \in {"authorised", "writing", "loop"} /\ Heard(c)' =>
                   Heard(c) \/ Newest(c) = version
    PROVE  CurrentInv'
<1>1. \A v \in Workers : HasNewest(v)'
  BY DEF OneWriter
<1>2. \A c \in Clients : Newest(c)' = Newest(c)
  BY DEF Newest
<1>3. \A c \in Clients \ (missed' \cup gone') :
          stream'[c].at \in {"authorised", "writing", "loop"} /\ Heard(c)' =>
              Newest(c)' = version'
  BY <1>2 DEF CurrentInv
<1> QED
  BY <1>1, <1>3 DEF CurrentInv

\* A step of a stream that keeps what it has coming.
LEMMA StreamKeepsCurrent ==
    ASSUME CurrentInv, HubInv', NEW c \in Clients,
           version' = version, worker' = worker, missed \ {c} \subseteq missed',
           misled' \subseteq misled, gone \ {c} \subseteq gone',
           \A d \in Clients \ {c} :
               stream'[d] = stream[d] /\ chan'[d] = chan[d] /\ shown'[d] = shown[d],
           stream'[c].at = "authorised" => stream'[c].state <= version,
           \/ stream'[c].at \notin {"authorised", "writing", "loop"}
           \/ c \in gone'
           \/ Newest(c)' = version
           \/ /\ stream[c].at \in {"authorised", "writing", "loop"} /\ Newest(c)' = Newest(c)
              /\ c \in missed => c \in missed'
              /\ c \in gone => c \in gone'
    PROVE  CurrentInv'
<1>1. \A d \in Clients \ {c} : Newest(d)' = Newest(d)
  BY DEF Newest
<1>2. \A d \in Clients : Heard(d)' = Heard(d)
  BY DEF Heard
<1>3. ASSUME NEW d \in Clients \ (missed' \cup gone'),
             stream'[d].at \in {"authorised", "writing", "loop"}, Heard(d)'
      PROVE  Newest(d)' = version'
  <2>1. CASE d = c
    BY <1>2, <1>3, <2>1 DEF CurrentInv
  <2>2. CASE d # c
    BY <1>1, <1>2, <1>3, <2>2 DEF CurrentInv
  <2> QED
    BY <2>1, <2>2
<1>4. \A d \in Clients : stream'[d].at = "authorised" => stream'[d].state <= version'
  BY DEF CurrentInv
<1>5. \A w \in Workers : HasNewest(w)'
  BY DEF CurrentInv, HasNewest
<1> QED
  BY <1>3, <1>4, <1>5 DEF CurrentInv

\* Every step keeps the invariant while there is one writer: one step per action.
LEMMA NextCurrentInv == OneWriter /\ CurrentInv /\ [Next]_vars => CurrentInv'
<1> SUFFICES ASSUME OneWriter, CurrentInv, [Next]_vars PROVE CurrentInv'
  OBVIOUS
<1>0. HubInv /\ HubInv' /\ TypeOK /\ TypeOK'
  BY NextHubInv DEF CurrentInv, HubInv
<1>1. ASSUME NEW w \in Workers, Begin(w) \/ Refuse(w)
      PROVE  CurrentInv'
  <2>1. worker[w].at \in {"idle", "admitted"} /\ worker'[w].at \in {"idle", "admitted"}
    BY <1>0, <1>1 DEF TypeOK, WorkerState, Begin, Refuse, Resting
  <2>2. \A c \in Clients : Heard(c)
    BY <2>1 DEF Heard, OneWriter
  <2>3. HasNewest(w)'
    BY <1>0, <1>1, <2>1 DEF TypeOK, WorkerState, CurrentInv, HasNewest, Begin, Refuse, Resting
  <2> QED
    BY <1>0, <1>1, <2>2, <2>3, WriterKeepsCurrent DEF Begin, Refuse
<1>2. ASSUME NEW w \in Workers, Update(w)
      PROVE  CurrentInv'
  <2>1. worker'[w].at = "updated" /\ worker'[w].state = version' /\ ~worker'[w].behind
    BY <1>0, <1>2 DEF TypeOK, WorkerState, Update, CurrentInv, HasNewest
  <2>2. (\A c \in Clients : ~Heard(c)') /\ \A v \in Workers : HasNewest(v)'
    BY <2>1 DEF Heard, HasNewest, OneWriter
  <2>3. version \in Nat /\ version' = version + 1 /\ stream' = stream
    BY <1>0, <1>2, EventsAssumption DEF TypeOK, Versions, Update
  <2>4. \A c \in Clients : stream[c].state \in Nat
    BY <1>0, EventsAssumption DEF TypeOK, StreamState, Versions
  <2>5. \A c \in Clients : stream'[c].at = "authorised" => stream'[c].state <= version'
    BY <2>3, <2>4 DEF CurrentInv
  <2> QED
    BY <1>0, <1>2, <2>2, <2>5 DEF CurrentInv, Update
<1>3. ASSUME NEW w \in Workers, UnannouncedUpdate(w)
      PROVE  CurrentInv'
  <2>1. \A v \in Workers : HasNewest(v)'
    BY <1>0, <1>3 DEF TypeOK, UnannouncedUpdate, Resting, HasNewest, OneWriter
  <2>2. \A c \in Clients \ missed' : stream'[c].at = "off"
    BY <1>3 DEF UnannouncedUpdate
  <2>3. version \in Nat /\ version' = version + 1 /\ stream' = stream
    BY <1>0, <1>3, EventsAssumption DEF TypeOK, Versions, UnannouncedUpdate
  <2>4. \A c \in Clients : stream[c].state \in Nat
    BY <1>0, EventsAssumption DEF TypeOK, StreamState, Versions
  <2>5. \A c \in Clients : stream'[c].at = "authorised" => stream'[c].state <= version'
    BY <2>3, <2>4 DEF CurrentInv
  <2> QED
    BY <1>0, <1>3, <2>1, <2>2, <2>5 DEF CurrentInv, UnannouncedUpdate
<1>4. ASSUME NEW w \in Workers, Transition(w)
      PROVE  CurrentInv'
  <2>1. /\ worker[w].at = "updated" /\ worker[w].state = version /\ ~worker[w].behind
        /\ worker'[w].at = "announcing"
    BY <1>0, <1>4 DEF TypeOK, WorkerState, Transition, CurrentInv, HasNewest
  <2>2. \/ worker'[w].state = version' /\ ~worker'[w].behind
        \/ /\ Faults /\ worker'[w].behind
           /\ \A c \in Clients \ missed' : stream'[c].at = "off"
    BY <1>0, <1>4, <2>1 DEF TypeOK, WorkerState, Transition, Announced
  <2>3. \A v \in Workers : HasNewest(v)'
    BY <2>1, <2>2 DEF HasNewest, OneWriter
  <2>4. \A c \in Clients \ missed' : ~Heard(c)' \/ stream'[c].at = "off"
    BY <2>1, <2>2 DEF Heard
  <2>5. version \in Nat /\ version' \in {version, version + 1} /\ stream' = stream
    BY <1>0, <1>4, EventsAssumption DEF TypeOK, Versions, Transition
  <2>6. \A c \in Clients : stream[c].state \in Nat
    BY <1>0, EventsAssumption DEF TypeOK, StreamState, Versions
  <2>7. \A c \in Clients : stream'[c].at = "authorised" => stream'[c].state <= version'
    BY <2>5, <2>6 DEF CurrentInv
  <2>8. misled' = misled
    BY <1>4 DEF Transition
  <2> QED
    BY <1>0, <2>3, <2>4, <2>7, <2>8 DEF CurrentInv
<1>5. ASSUME NEW w \in Workers, BroadcastStart(w)
      PROVE  CurrentInv'
  <2>1. /\ worker'[w].at = "broadcasting" /\ worker'[w].left = subs
        /\ worker'[w].state = worker[w].state /\ worker'[w].behind = worker[w].behind
        /\ worker[w].state = version \/ worker[w].behind
    BY <1>0, <1>5 DEF TypeOK, WorkerState, BroadcastStart, CurrentInv, HasNewest
  <2>2. ASSUME NEW c \in Clients \ (missed' \cup gone), Heard(c)',
               stream[c].at \in {"authorised", "writing", "loop"}, ~Heard(c)
        PROVE  Newest(c) = version
    <3>0. ~worker[w].behind
      BY <2>2 DEF Heard, OneWriter
    <3>1. c \notin subs
      BY <2>1, <2>2, <3>0 DEF Heard
    <3>2. stream[c].at = "authorised"
      BY <1>0, <2>2, <3>1 DEF HubInv, HubMatchesStreams
    <3>3. ~(stream[c].state < version)
      BY <1>5, <2>1, <2>2, <3>0, <3>2 DEF BroadcastStart
    <3>4. stream[c].state <= version /\ stream[c].state \in Nat /\ version \in Nat
      BY <1>0, <3>2, EventsAssumption DEF CurrentInv, TypeOK, StreamState, Versions
    <3> QED
      BY <3>2, <3>3, <3>4 DEF Newest
  <2>3. HasNewest(w)'
    BY <1>5, <2>1 DEF CurrentInv, HasNewest, BroadcastStart
  <2> QED
    BY <1>0, <1>5, <2>2, <2>3, WriterKeepsCurrent DEF BroadcastStart
<1>6. ASSUME NEW w \in Workers, BroadcastSend(w)
      PROVE  CurrentInv'
  <2>1. PICK c \in worker[w].left :
          /\ worker' = [worker EXCEPT ![w].left = @ \ {c}]
          /\ IF Len(chan[c]) < Buffer
             THEN /\ chan' = [chan EXCEPT ![c] = Append(@, worker[w].state)]
                  /\ missed' = IF worker[w].behind THEN missed \cup {c} ELSE missed \ {c}
             ELSE /\ missed' = missed \cup {c}
                  /\ UNCHANGED chan
    BY <1>6 DEF BroadcastSend
  <2>2. /\ worker'[w].at = "broadcasting" /\ worker[w].at = "broadcasting"
        /\ worker'[w].left = worker[w].left \ {c}
        /\ worker'[w].state = worker[w].state /\ worker'[w].behind = worker[w].behind
        /\ worker[w].state = version \/ worker[w].behind
        /\ version \in Versions
    BY <1>0, <1>6, <2>1 DEF TypeOK, WorkerState, BroadcastSend, CurrentInv, HasNewest
  <2>3. c \in Clients /\ c \in subs /\ stream[c].at # "authorised"
    BY <1>0, <2>1, <2>2 DEF HubInv, HubMatchesStreams, Readers, TypeOK
  <2>4. \A d \in Clients \ {c} : Heard(d)' => Heard(d)
    BY <2>2 DEF Heard, OneWriter
  <2>5. \A d \in Clients \ {c} : Newest(d)' = Newest(d)
    <3>1. \A d \in Clients \ {c} : chan'[d] = chan[d]
      BY <1>0, <2>1 DEF TypeOK
    <3>2. stream' = stream /\ shown' = shown
      BY <1>6 DEF BroadcastSend
    <3> QED
      BY <3>1, <3>2 DEF Newest
  <2>6. c \in missed' \/ Newest(c)' = version
    <3>1. CASE Len(chan[c]) < Buffer /\ ~worker[w].behind
      <4>1. chan'[c] = Append(chan[c], version) /\ chan[c] \in Seq(Versions)
        BY <1>0, <2>1, <2>2, <2>3, <3>1 DEF TypeOK
      <4>2. chan'[c] # <<>> /\ chan'[c][Len(chan'[c])] = version
        BY <2>2, <4>1, NewestOfQueue
      <4>3. stream'[c].at # "authorised"
        BY <1>6, <2>3 DEF BroadcastSend
      <4> QED
        BY <4>2, <4>3 DEF Newest
    <3>2. CASE ~(Len(chan[c]) < Buffer) \/ worker[w].behind
      BY <2>1, <3>2
    <3> QED
      BY <3>1, <3>2
  <2>7. ASSUME NEW d \in Clients \ (missed' \cup gone'),
               stream'[d].at \in {"authorised", "writing", "loop"}, Heard(d)'
        PROVE  Newest(d)' = version'
    <3>1. version' = version /\ stream' = stream /\ gone' = gone
      BY <1>6 DEF BroadcastSend
    <3>2. CASE d = c
      BY <2>6, <2>7, <3>1, <3>2
    <3>3. CASE d # c
      <4>1. d \notin missed
        BY <2>1, <2>7, <3>3
      <4> QED
        BY <2>4, <2>5, <2>7, <3>1, <3>3, <4>1 DEF CurrentInv
    <3> QED
      BY <3>2, <3>3
  <2>8. \A v \in Workers : HasNewest(v)'
    BY <1>6, <2>2 DEF OneWriter, BroadcastSend, CurrentInv, HasNewest
  <2>9. \A d \in Clients : stream'[d].at = "authorised" => stream'[d].state <= version'
    BY <1>6 DEF BroadcastSend, CurrentInv
  <2>10. ~Faults => misled' = misled
    BY <1>6 DEF BroadcastSend, CurrentInv, HasNewest
  <2> QED
    BY <1>0, <2>7, <2>8, <2>9, <2>10 DEF CurrentInv
<1>7. ASSUME NEW w \in Workers, BroadcastEnd(w)
      PROVE  CurrentInv'
  <2>1. worker[w].left = {} /\ worker[w].at = "broadcasting" /\ worker'[w].at = "idle"
    BY <1>0, <1>7 DEF TypeOK, BroadcastEnd, Resting
  <2>2. \A c \in Clients : Heard(c)
    BY <2>1 DEF Heard, OneWriter
  <2>3. HasNewest(w)'
    BY <1>0, <1>7 DEF TypeOK, BroadcastEnd, Resting, HasNewest
  <2> QED
    BY <1>0, <1>7, <2>2, <2>3, WriterKeepsCurrent DEF BroadcastEnd
<1>8. ASSUME NEW c \in Clients, Open(c)
      PROVE  CurrentInv'
  <2>1. /\ stream'[c] = [at |-> "authorised", state |-> version]
        /\ \A d \in Clients \ {c} : stream'[d] = stream[d]
    BY <1>0, <1>8 DEF TypeOK, Open
  <2>2. Newest(c)' = version /\ stream'[c].state <= version
    BY <1>0, <2>1, EventsAssumption DEF Newest, TypeOK, Versions
  <2> QED
    BY <1>0, <1>8, <2>1, <2>2, StreamKeepsCurrent DEF Open
<1>9. ASSUME NEW c \in Clients, Subscribe(c)
      PROVE  CurrentInv'
  <2>1. /\ stream[c].at = "authorised" /\ stream'[c].at = "writing"
        /\ stream'[c].state = stream[c].state /\ chan'[c] = <<>>
        /\ \A d \in Clients \ {c} : stream'[d] = stream[d] /\ chan'[d] = chan[d]
    BY <1>0, <1>9 DEF TypeOK, StreamState, Subscribe
  <2>2. Newest(c)' = Newest(c)
    BY <2>1 DEF Newest
  <2> QED
    BY <1>0, <1>9, <2>1, <2>2, StreamKeepsCurrent DEF Subscribe
<1>10. ASSUME NEW c \in Clients, Write(c)
      PROVE  CurrentInv'
  <2>1. /\ stream[c].at = "writing" /\ stream'[c].at = "loop" /\ shown'[c] = stream[c].state
        /\ \A d \in Clients \ {c} : stream'[d] = stream[d] /\ shown'[d] = shown[d]
    BY <1>0, <1>10 DEF TypeOK, Write
  <2>2. Newest(c)' = Newest(c)
    BY <1>10, <2>1 DEF Newest, Write
  <2> QED
    BY <1>0, <1>10, <2>1, <2>2, StreamKeepsCurrent DEF Write
<1>11. ASSUME NEW c \in Clients, WriteFails(c)
      PROVE  CurrentInv'
  <2>1. /\ stream'[c].at = "loop" /\ c \in gone'
        /\ \A d \in Clients \ {c} : stream'[d] = stream[d]
    BY <1>0, <1>11 DEF TypeOK, WriteFails
  <2> QED
    BY <1>0, <1>11, <2>1, StreamKeepsCurrent DEF WriteFails
<1>12. ASSUME NEW c \in Clients, Receive(c)
      PROVE  CurrentInv'
  <2>1. /\ stream[c].at = "loop" /\ chan[c] # <<>> /\ chan'[c] = Tail(chan[c])
        /\ stream'[c].at = "writing" /\ stream'[c].state = Head(chan[c])
        /\ chan[c] \in Seq(Versions) /\ version \in Versions
        /\ \A d \in Clients \ {c} : stream'[d] = stream[d] /\ chan'[d] = chan[d]
    BY <1>0, <1>12 DEF TypeOK, Receive
  <2>2. Newest(c) = chan[c][Len(chan[c])]
    BY <2>1 DEF Newest
  <2>3. Newest(c)' = Newest(c)
    <3>1. CASE Tail(chan[c]) = <<>>
      <4>1. Newest(c)' = Head(chan[c])
        BY <2>1, <3>1 DEF Newest
      <4> QED
        BY <2>1, <2>2, <3>1, <4>1, NewestOfQueue
    <3>2. CASE Tail(chan[c]) # <<>>
      <4>1. Newest(c)' = Tail(chan[c])[Len(Tail(chan[c]))]
        BY <2>1, <3>2 DEF Newest
      <4> QED
        BY <2>1, <2>2, <3>2, <4>1, NewestOfQueue
    <3> QED
      BY <3>1, <3>2
  <2> QED
    BY <1>0, <1>12, <2>1, <2>3, StreamKeepsCurrent DEF Receive
<1>13. ASSUME NEW c \in Clients, Finish(c) \/ Unsubscribe(c)
      PROVE  CurrentInv'
  <2>1. /\ stream'[c].at \in {"ending", "off"}
        /\ \A d \in Clients \ {c} :
              stream'[d] = stream[d] /\ chan'[d] = chan[d] /\ shown'[d] = shown[d]
    BY <1>0, <1>13 DEF TypeOK, StreamState, Finish, Unsubscribe, Off
  <2> QED
    BY <1>0, <1>13, <2>1, StreamKeepsCurrent DEF Finish, Unsubscribe
<1>14. ASSUME NEW c \in Clients, Disconnect(c)
      PROVE  CurrentInv'
  <2>1. c \in gone' /\ stream'[c] = stream[c]
    BY <1>14 DEF Disconnect
  <2>2. stream'[c].at = "authorised" => stream'[c].state <= version
    BY <2>1 DEF CurrentInv
  <2> QED
    BY <1>0, <1>14, <2>1, <2>2, StreamKeepsCurrent DEF Disconnect
<1>15. CASE Expire \/ Over \/ UNCHANGED vars
  <2>1. /\ version' = version /\ worker' = worker /\ chan' = chan /\ stream' = stream
        /\ shown' = shown /\ gone' = gone /\ missed' = missed
        /\ misled' = misled
    BY <1>15 DEF Expire, Over, vars
  <2> QED
    BY <1>0, <2>1 DEF CurrentInv, Newest, Heard, HasNewest
<1> QED
  BY <1>1, <1>2, <1>3, <1>4, <1>5, <1>6, <1>7, <1>8, <1>9, <1>10, <1>11, <1>12, <1>13,
     <1>14, <1>15 DEF Next, Working

\* With one handler writing at a time, a settled stream shows the stored state
\* unless it is one of the named misses, for any number of streams, any buffer
\* and any number of updates.
THEOREM SettledStreamsAreCurrent ==
    ASSUME OneWriter
    PROVE  Spec => []CurrentUnlessMissed
<1>1. CurrentInv => CurrentUnlessMissed
  <2> SUFFICES ASSUME CurrentInv, NEW c \in Clients, Settled(c), c \notin missed
               PROVE  shown[c] = version
    BY DEF CurrentUnlessMissed
  <2>1. Heard(c) /\ stream[c].at = "loop" /\ chan[c] = <<>> /\ c \notin gone
    BY DEF Settled, Heard
  <2>2. Newest(c) = shown[c]
    BY <2>1 DEF Newest
  <2> QED
    BY <2>1, <2>2 DEF CurrentInv
<1>2. CurrentInv /\ [Next]_vars => CurrentInv'
  BY NextCurrentInv
<1> QED
  BY <1>1, <1>2, InitCurrentInv, PTL DEF Spec

-----------------------------------------------------------------------------
(* The order of frames. *)

\* What a channel holds stays in order when the state that is stored is put in,
LEMMA OrderedAppend ==
    ASSUME NEW q \in Seq(Versions), NEW low \in Versions, NEW high \in Versions,
           low <= high, Ordered(q, low, high)
    PROVE  Ordered(Append(q, high), low, high)
<1> DEFINE r == Append(q, high)
<1>1. /\ Len(q) \in Nat /\ Len(r) = Len(q) + 1 /\ DOMAIN r = 1 .. Len(q) + 1
      /\ DOMAIN q = 1 .. Len(q)
      /\ \A k \in 1 .. Len(q) : r[k] = q[k] /\ q[k] \in Versions
      /\ r[Len(q) + 1] = high
  OBVIOUS
<1>2. Versions \subseteq Nat
  BY DEF Versions
<1>3. \A k \in DOMAIN q : q[k] \in low .. high /\ \A m \in k .. Len(q) : q[k] <= q[m]
  BY DEF Ordered
<1> HIDE DEF r
<1>4. ASSUME NEW k \in DOMAIN r
      PROVE  r[k] \in low .. high /\ \A m \in k .. Len(r) : r[k] <= r[m]
  <2>1. CASE k \in DOMAIN q
    <3>1. r[k] = q[k] /\ q[k] \in low .. high
      BY <1>1, <1>3, <2>1
    <3>2. ASSUME NEW m \in k .. Len(r)
          PROVE  r[k] <= r[m]
      <4>1. CASE m = Len(q) + 1
        BY <1>1, <1>2, <3>1, <4>1
      <4>2. CASE m # Len(q) + 1
        <5>1. m \in k .. Len(q) /\ m \in 1 .. Len(q)
          BY <1>1, <2>1, <3>2, <4>2
        <5> QED
          BY <1>1, <1>3, <2>1, <3>1, <5>1
      <4> QED
        BY <4>1, <4>2
    <3> QED
      BY <3>1, <3>2
  <2>2. CASE k \notin DOMAIN q
    <3>1. k = Len(q) + 1
      BY <1>1, <1>4, <2>2
    <3>2. \A m \in k .. Len(r) : m = k
      BY <1>1, <3>1
    <3>3. r[k] = high /\ high \in Nat /\ low \in Nat
      BY <1>1, <1>2, <3>1
    <3> QED
      BY <3>2, <3>3
  <2> QED
    BY <2>1, <2>2
<1> QED
  BY <1>4 DEF Ordered, r

\* when the oldest is taken out,
LEMMA OrderedTail ==
    ASSUME NEW q \in Seq(Versions), NEW low \in Versions, NEW high \in Versions,
           q # <<>>, Ordered(q, low, high)
    PROVE  Head(q) \in low .. high /\ Ordered(Tail(q), Head(q), high)
<1>1. /\ Len(q) \in Nat \ {0} /\ DOMAIN q = 1 .. Len(q)
      /\ Len(Tail(q)) = Len(q) - 1 /\ DOMAIN Tail(q) = 1 .. Len(q) - 1
      /\ \A k \in 1 .. Len(q) - 1 : Tail(q)[k] = q[k + 1]
      /\ Head(q) = q[1]
      /\ \A k \in 1 .. Len(q) : q[k] \in Versions
  OBVIOUS
<1>2. Versions \subseteq Nat
  BY DEF Versions
<1>3. \A k \in 1 .. Len(q) : q[k] \in low .. high /\ \A m \in k .. Len(q) : q[k] <= q[m]
  BY <1>1 DEF Ordered
<1>4. Head(q) \in low .. high /\ \A m \in 1 .. Len(q) : Head(q) <= q[m]
  BY <1>1, <1>3
<1>5. ASSUME NEW k \in DOMAIN Tail(q)
      PROVE  /\ Tail(q)[k] \in Head(q) .. high
             /\ \A m \in k .. Len(Tail(q)) : Tail(q)[k] <= Tail(q)[m]
  <2>1. k \in 1 .. Len(q) - 1 /\ k + 1 \in 1 .. Len(q) /\ Tail(q)[k] = q[k + 1]
    BY <1>1, <1>5
  <2>2. q[k + 1] \in low .. high /\ Head(q) <= q[k + 1]
    BY <1>3, <1>4, <2>1
  <2>3. ASSUME NEW m \in k .. Len(Tail(q))
        PROVE  Tail(q)[k] <= Tail(q)[m]
    <3>1. m \in 1 .. Len(q) - 1 /\ m + 1 \in k + 1 .. Len(q)
      BY <1>1, <2>1, <2>3
    <3>2. Tail(q)[m] = q[m + 1]
      BY <1>1, <3>1
    <3> QED
      BY <1>3, <2>1, <3>1, <3>2
  <2>4. Tail(q)[k] \in Head(q) .. high
    BY <1>2, <1>4, <2>1, <2>2
  <2> QED
    BY <2>3, <2>4
<1> QED
  BY <1>4, <1>5 DEF Ordered

\* and when the bounds are loosened.
LEMMA OrderedBetween ==
    ASSUME NEW q, NEW low \in Versions, NEW high \in Versions,
           NEW lower \in Versions, NEW higher \in Versions,
           lower <= low, high <= higher, Ordered(q, low, high)
    PROVE  Ordered(q, lower, higher)
BY DEF Ordered, Versions

\* Before anything is stored nothing is out of order.
LEMMA InitOrderInv == Init => OrderInv
<1> SUFFICES ASSUME Init PROVE OrderInv
  OBVIOUS
<1>1. CurrentInv
  BY InitCurrentInv
<1>2. \A c \in Clients \ misled : InOrder(c)
  BY DEF Init, Off, InOrder
<1> QED
  BY <1>1, <1>2 DEF OrderInv

\* The steps that leave a stream, its channel and what it was sent alone.
LEMMA AloneInOrder ==
    ASSUME TypeOK, TypeOK', NEW c \in Clients, InOrder(c), version <= version',
           stream'[c] = stream[c], chan'[c] = chan[c], shown'[c] = shown[c]
    PROVE  InOrder(c)'
<1>1. /\ version \in Versions /\ version' \in Versions /\ shown[c] \in Versions
      /\ stream[c].state \in Versions /\ Versions \subseteq Nat
  BY DEF TypeOK, StreamState, Versions
<1>2. ASSUME NEW low \in Versions, Ordered(chan[c], low, version)
      PROVE  Ordered(chan'[c], low, version')
  <2>1. low <= low
    BY <1>1
  <2> QED
    BY <1>1, <1>2, <2>1, OrderedBetween
<1>3. shown[c] <= version' /\ \A v \in shown[c] .. version : v \in shown[c] .. version'
  <2>1. shown[c] <= version
    BY DEF InOrder
  <2>2. version \in Nat /\ version' \in Nat /\ shown[c] \in Nat
    BY <1>1
  <2> QED
    BY <2>1, <2>2
<1>4. stream'[c].at \in {"off", "authorised"} => shown'[c] = 0
  BY DEF InOrder
<1>5. stream'[c].at \in {"authorised", "writing"} =>
          stream'[c].state \in shown'[c] .. version'
  BY <1>3 DEF InOrder
<1>6. stream'[c].at = "writing" => Ordered(chan'[c], stream'[c].state, version')
  BY <1>1, <1>2 DEF InOrder
<1>7. stream'[c].at = "loop" => Ordered(chan'[c], shown'[c], version')
  BY <1>1, <1>2 DEF InOrder
<1> QED
  BY <1>3, <1>4, <1>5, <1>6, <1>7 DEF InOrder

\* Every step keeps the order while there is one writer: one step per action.
LEMMA NextOrderInv == OneWriter /\ OrderInv /\ [Next]_vars => OrderInv'
<1> SUFFICES ASSUME OneWriter, OrderInv, [Next]_vars PROVE OrderInv'
  OBVIOUS
<1>0. CurrentInv /\ CurrentInv'
  BY NextCurrentInv DEF OrderInv
<1>1. TypeOK /\ TypeOK' /\ \A c \in Clients \ misled : InOrder(c)
  BY <1>0 DEF CurrentInv, HubInv, OrderInv
<1>2. /\ version \in Nat /\ version \in Versions /\ Versions \subseteq Nat
      /\ stream \in [Clients -> StreamState] /\ shown \in [Clients -> Versions]
      /\ chan \in [Clients -> Seq(Versions)]
      /\ \A c \in Clients : stream[c].state \in Versions
  BY <1>1 DEF TypeOK, StreamState, Versions
<1>3. ASSUME NEW w \in Workers,
             \/ Begin(w) \/ Refuse(w) \/ Update(w) \/ UnannouncedUpdate(w)
             \/ Transition(w) \/ BroadcastStart(w) \/ BroadcastEnd(w)
      PROVE  \A c \in Clients \ misled' : InOrder(c)'
  <2>1. stream' = stream /\ chan' = chan /\ shown' = shown /\ misled' = misled
    BY <1>3 DEF Begin, Refuse, Update, UnannouncedUpdate, Transition, BroadcastStart,
       BroadcastEnd
  <2>2. version' \in {version, version + 1}
    BY <1>3 DEF Begin, Refuse, Update, UnannouncedUpdate, Transition, BroadcastStart,
       BroadcastEnd
  <2>3. version <= version'
    BY <1>2, <2>2
  <2> QED
    BY <1>1, <2>1, <2>3, AloneInOrder
<1>4. ASSUME NEW w \in Workers, BroadcastSend(w)
      PROVE  \A c \in Clients \ misled' : InOrder(c)'
  <2>1. /\ version' = version /\ stream' = stream /\ shown' = shown
        /\ worker[w].at = "broadcasting"
    BY <1>4 DEF BroadcastSend
  <2>2. PICK d \in worker[w].left :
          \/ /\ chan' = [chan EXCEPT ![d] = Append(@, worker[w].state)]
             /\ misled' = IF worker[w].behind THEN misled \cup {d} ELSE misled
          \/ chan' = chan /\ misled' = misled
    BY <1>4 DEF BroadcastSend
  <2>3. worker[w].state = version \/ worker[w].behind
    BY <1>0, <2>1 DEF CurrentInv, HasNewest
  <2>4. ASSUME NEW c \in Clients \ misled, chan'[c] = Append(chan[c], version)
        PROVE  InOrder(c)'
    <3>1. ASSUME NEW low \in Versions, low <= version, Ordered(chan[c], low, version)
          PROVE  Ordered(chan'[c], low, version)
      BY <1>2, <2>4, <3>1, OrderedAppend
    <3>2. stream[c].at = "writing" => stream[c].state <= version
      BY <1>1, <1>2 DEF InOrder
    <3> QED
      BY <1>1, <1>2, <2>1, <3>1, <3>2 DEF InOrder
  <2>5. ASSUME NEW c \in Clients \ misled, chan'[c] = chan[c]
        PROVE  InOrder(c)'
    BY <1>1, <1>2, <2>1, <2>5, AloneInOrder
  <2>6. \A c \in Clients \ misled' :
            c \notin misled /\ (chan'[c] = Append(chan[c], version) \/ chan'[c] = chan[c])
    BY <1>2, <2>2, <2>3
  <2> QED
    BY <2>4, <2>5, <2>6
<1>5. ASSUME NEW c \in Clients,
             \/ Open(c) \/ Subscribe(c) \/ Write(c) \/ WriteFails(c)
             \/ Receive(c) \/ Finish(c) \/ Unsubscribe(c) \/ Disconnect(c)
      PROVE  \A d \in Clients \ misled' : InOrder(d)'
  <2>1. /\ version' = version
        /\ \A d \in Clients \ {c} :
              stream'[d] = stream[d] /\ chan'[d] = chan[d] /\ shown'[d] = shown[d]
    BY <1>2, <1>5 DEF Open, Subscribe, Write, WriteFails, Receive, Finish, Unsubscribe,
       Disconnect
  <2>2. \A d \in Clients \ ({c} \cup misled) : InOrder(d)'
    BY <1>1, <1>2, <2>1, AloneInOrder
  <2>3. c \notin misled => InOrder(c)
    BY <1>1
  <2>4. ASSUME Open(c), c \notin misled
        PROVE  InOrder(c)'
    <3>1. /\ stream[c].at = "off" /\ shown'[c] = shown[c]
          /\ stream'[c] = [at |-> "authorised", state |-> version]
      BY <1>2, <2>4 DEF Open
    <3> QED
      BY <1>2, <2>1, <2>3, <2>4, <3>1 DEF InOrder
  <2>5. ASSUME Subscribe(c), c \notin misled
        PROVE  InOrder(c)'
    <3>1. /\ stream[c].at = "authorised" /\ stream'[c].at = "writing" /\ chan'[c] = <<>>
          /\ stream'[c].state = stream[c].state /\ shown'[c] = shown[c]
      BY <1>2, <2>5 DEF Subscribe, StreamState
    <3>2. Ordered(chan'[c], stream'[c].state, version')
      BY <3>1 DEF Ordered
    <3> QED
      BY <2>1, <2>3, <2>5, <3>1, <3>2 DEF InOrder
  <2>6. ASSUME Write(c) \/ WriteFails(c), c \notin misled
        PROVE  InOrder(c)'
    <3>1. /\ stream[c].at = "writing" /\ stream'[c].at = "loop" /\ chan'[c] = chan[c]
          /\ shown'[c] \in {stream[c].state, shown[c]}
      BY <1>2, <2>6 DEF Write, WriteFails
    <3>2. /\ stream[c].state \in shown[c] .. version
          /\ Ordered(chan[c], stream[c].state, version)
      BY <2>3, <2>6, <3>1 DEF InOrder
    <3>3. /\ shown'[c] \in Versions /\ shown'[c] <= stream[c].state
          /\ shown'[c] <= version /\ version <= version
      <4>1. shown[c] \in Nat /\ shown[c] \in Versions /\ stream[c].state \in Versions
        BY <1>2
      <4> QED
        BY <1>2, <3>1, <3>2, <4>1
    <3>4. Ordered(chan[c], shown'[c], version)
      <4>1. stream[c].state \in Versions
        BY <1>2
      <4> QED
        BY <1>2, <3>2, <3>3, <4>1, OrderedBetween
    <3> QED
      BY <2>1, <3>1, <3>3, <3>4 DEF InOrder
  <2>7. ASSUME Receive(c), c \notin misled
        PROVE  InOrder(c)'
    <3>1. /\ stream[c].at = "loop" /\ stream'[c].at = "writing" /\ chan[c] # <<>>
          /\ stream'[c].state = Head(chan[c]) /\ chan'[c] = Tail(chan[c])
          /\ shown'[c] = shown[c]
      BY <1>2, <2>7 DEF Receive
    <3>2. Ordered(chan[c], shown[c], version) /\ shown[c] <= version
      BY <2>3, <2>7, <3>1 DEF InOrder
    <3>3. /\ Head(chan[c]) \in shown[c] .. version
          /\ Ordered(Tail(chan[c]), Head(chan[c]), version)
      BY <1>2, <3>1, <3>2, OrderedTail
    <3> QED
      BY <2>1, <3>1, <3>2, <3>3 DEF InOrder
  <2>8. ASSUME Finish(c), c \notin misled
        PROVE  InOrder(c)'
    <3>1. stream'[c].at = "ending" /\ shown'[c] = shown[c]
      BY <1>2, <2>8 DEF Finish, StreamState
    <3> QED
      BY <2>1, <2>3, <2>8, <3>1 DEF InOrder
  <2>9. ASSUME Unsubscribe(c)
        PROVE  InOrder(c)'
    <3>1. stream'[c].at = "off" /\ shown'[c] = 0
      BY <1>2, <2>9 DEF Unsubscribe, Off
    <3> QED
      BY <1>2, <2>1, <3>1 DEF InOrder
  <2>10. ASSUME Disconnect(c), c \notin misled
        PROVE  InOrder(c)'
    <3>1. stream'[c] = stream[c] /\ chan'[c] = chan[c] /\ shown'[c] = shown[c]
      BY <2>10 DEF Disconnect
    <3> QED
      BY <1>1, <1>2, <2>1, <2>10, <3>1, AloneInOrder
  <2>11. misled \ {c} \subseteq misled' /\ (~Unsubscribe(c) => misled' = misled)
    BY <1>5 DEF Open, Subscribe, Write, WriteFails, Receive, Finish, Unsubscribe, Disconnect
  <2>12. c \notin misled' => InOrder(c)'
    BY <1>5, <2>4, <2>5, <2>6, <2>7, <2>8, <2>9, <2>10, <2>11
  <2> QED
    BY <2>2, <2>11, <2>12
<1>6. ASSUME Expire \/ Over \/ UNCHANGED vars
      PROVE  \A c \in Clients \ misled' : InOrder(c)'
  <2>1. /\ version' = version /\ stream' = stream /\ chan' = chan /\ shown' = shown
        /\ misled' = misled
    BY <1>6 DEF Expire, Over, vars
  <2> QED
    BY <1>1, <1>2, <2>1, AloneInOrder
<1>7. \A c \in Clients \ misled' : InOrder(c)'
  BY <1>3, <1>4, <1>5, <1>6 DEF Next, Working
<1> QED
  BY <1>0, <1>7 DEF OrderInv

\* What a step sends is not older than what was sent before.
LEMMA OrderedStep ==
    OrderInv /\ [Next]_vars =>
        \A c \in Clients : stream'[c].at # "off" /\ c \notin misled' => shown'[c] >= shown[c]
<1> SUFFICES ASSUME OrderInv, [Next]_vars, NEW c \in Clients, stream'[c].at # "off",
                    c \notin misled'
             PROVE  shown'[c] >= shown[c]
  OBVIOUS
<1>1. /\ shown \in [Clients -> Versions] /\ Versions \subseteq Nat
      /\ stream \in [Clients -> StreamState] /\ stream[c].state \in Nat
  BY DEF OrderInv, CurrentInv, HubInv, TypeOK, StreamState, Versions
<1>2. \/ shown'[c] = shown[c]
      \/ Write(c)
  <2>1. ASSUME NEW d \in Clients, Write(d) \/ Unsubscribe(d), shown'[c] # shown[c]
        PROVE  Write(c)
    <3>1. d = c
      BY <1>1, <2>1 DEF Write, Unsubscribe
    <3>2. ~Unsubscribe(c)
      BY <1>1 DEF Unsubscribe, Off
    <3> QED
      BY <2>1, <3>1, <3>2
  <2>2. ASSUME ~ \E d \in Clients : Write(d) \/ Unsubscribe(d)
        PROVE  shown' = shown
    BY <2>2 DEF Next, Working, vars, Begin, Refuse, Update, UnannouncedUpdate, Transition,
       BroadcastStart, BroadcastSend, BroadcastEnd, Open, Subscribe, WriteFails, Receive,
       Finish, Disconnect, Expire, Over
  <2> QED
    BY <2>1, <2>2
<1>3. Write(c) => shown'[c] = stream[c].state /\ shown[c] <= stream[c].state
  <2>1. Write(c) => InOrder(c)
    BY DEF Write, OrderInv
  <2> QED
    BY <1>1, <2>1 DEF Write, InOrder
<1>4. shown[c] \in Nat
  BY <1>1
<1> QED
  BY <1>1, <1>2, <1>3, <1>4

\* With one handler writing at a time what a stream that was not misled has been
\* sent and has coming is in the order of the updates.
THEOREM OrderInductive ==
    ASSUME OneWriter
    PROVE  Spec => []OrderInv
<1>1. OrderInv /\ [Next]_vars => OrderInv'
  BY NextOrderInv
<1> QED
  BY <1>1, InitOrderInv, PTL DEF Spec

\* So no stream goes back to an older state before a handler whose transition took
\* effect and errored has announced to it the state before that transition, for
\* any number of streams, any buffer and any number of updates.
THEOREM OneWriterKeepsOrder ==
    ASSUME OneWriter
    PROVE  Spec => FramesInOrderUnlessMisled
<1>1. OrderInv /\ [Next]_vars =>
          [\A c \in Clients : stream'[c].at # "off" /\ c \notin misled' =>
              shown'[c] >= shown[c]]_vars
  BY OrderedStep
<1> QED
  BY <1>1, OrderInductive, PTL DEF Spec, FramesInOrderUnlessMisled

\* When no answer of the database is lost, no stream goes back at all: two
\* broadcasts that overtake each other and a lost answer are the only ways to that.
THEOREM NoFaultsKeepOrder ==
    ASSUME OneWriter, ~Faults
    PROVE  Spec => FramesInOrder
<1>1. OrderInv /\ OrderInv' /\ [Next]_vars =>
          [\A c \in Clients : stream'[c].at # "off" => shown'[c] >= shown[c]]_vars
  BY OrderedStep DEF OrderInv, CurrentInv
<1> QED
  BY <1>1, OrderInductive, PTL DEF Spec, FramesInOrder
=============================================================================
