--------------------------- MODULE WatcherSession ---------------------------
(***************************************************************************)
(* One watcher session: its document in the watcher_sessions collection    *)
(* and the HTTP handlers that read and update it                           *)
(* (internal/watcher/watcher.go, handler.go, auth.go).                     *)
(*                                                                         *)
(* A handler is a short sequence of single-document MongoDB calls.  Each   *)
(* call is atomic and nothing holds a lock across two of them, so a worker *)
(* (one goroutine serving one request) is between two calls when another   *)
(* worker runs.  todo[w] is what worker w still has to do: the next call   *)
(* and the values its earlier calls left in local variables.               *)
(*                                                                         *)
(* The document starts as CreateSession inserts it.  Titles are ids; their *)
(* text, the dislikes (stored, never read) and the answers sent to clients *)
(* are left out.  Broadcasting is the subject of WatcherEvents.            *)
(***************************************************************************)
EXTENDS Naturals, Sequences, FiniteSets

CONSTANTS
    Workers,        \* goroutines serving requests
    Guests,         \* tokens JoinSession may generate (uuid.NewString)
    NoGuest,        \* participants.p2.token absent
    Ids,            \* ids of the titles
    EntryLists,     \* bodies of PUT entries
    LikeLists,      \* likes of POST swipes
    SoloMin, SoloMax, DualMin, DualMax,   \* deck limits of the two modes
    ModesUsed,      \* modes p1 may create the session with
    MaxRounds,      \* bound: no rematch is asked for after this round
    Faults,         \* TRUE: a handler may die between two database calls
    Disciplined     \* TRUE: clients only ask for what the session is ready for

Modes == {"solo-entry", "dual-entry"}
Statuses == {"waiting-for-partner", "form", "matching", "results"}
Slots == {"p1", "p2"}

ASSUME TokenAssumption == NoGuest \notin Guests
ASSUME InputAssumption == /\ EntryLists \subseteq Seq(Ids)
                          /\ LikeLists \subseteq Seq(Ids)
ASSUME LimitAssumption == /\ {SoloMin, SoloMax, DualMin, DualMax} \subseteq Nat
                          /\ SoloMin > 0 /\ DualMin > 0
ASSUME BoundAssumption == /\ ModesUsed \subseteq Modes
                          /\ MaxRounds \in Nat
                          /\ {Faults, Disciplined} \subseteq BOOLEAN

VARIABLES
    doc,        \* the session document
    exists,     \* FALSE once the cleanup has deleted it
    expired,    \* the clock has reached expiresAt
    todo        \* what each worker has left to do

vars == <<doc, exists, expired, todo>>

-----------------------------------------------------------------------------
(* The document and the checks the handlers make on it. *)

Session ==
    [mode : Modes, status : Statuses, guest : Guests \cup {NoGuest},
     entries : [Slots -> Seq(Ids)], formReady : [Slots -> BOOLEAN],
     likes : [Slots -> Seq(Ids)], swipesDone : [Slots -> BOOLEAN],
     activeDeck : SUBSET Ids, rounds : Nat]

NewSession(mode) ==
    [mode |-> mode, status |-> "waiting-for-partner", guest |-> NoGuest,
     entries |-> [s \in Slots |-> <<>>], formReady |-> [s \in Slots |-> FALSE],
     likes |-> [s \in Slots |-> <<>>], swipesDone |-> [s \in Slots |-> FALSE],
     activeDeck |-> {}, rounds |-> 1]

MinEntries(mode) == IF mode = "solo-entry" THEN SoloMin ELSE DualMin
MaxEntries(mode) == IF mode = "solo-entry" THEN SoloMax ELSE DualMax

HasRequiredEntries_Any(list, mode) == TRUE
HasRequiredEntries(list, mode) ==
    Len(list) >= MinEntries(mode) /\ Len(list) <= MaxEntries(mode)

\* validateEntries: the count of the mode, and no id twice.
ValidEntries(list, mode) ==
    /\ Len(list) >= MinEntries(mode) /\ Len(list) <= MaxEntries(mode)
    /\ \A i, j \in 1 .. Len(list) : list[i] = list[j] => i = j

BothFormsReady_GuestUnchecked(d) ==
    d.formReady["p1"] /\ (d.mode = "dual-entry" => d.formReady["p2"])
BothFormsReady(d) ==
    /\ d.formReady["p1"]
    /\ IF d.mode = "solo-entry" THEN d.guest # NoGuest ELSE d.formReady["p2"]

BothSwiped_EitherDone(d) == d.swipesDone["p1"] \/ d.swipesDone["p2"]
BothSwiped(d) == d.swipesDone["p1"] /\ d.swipesDone["p2"]

\* intersectLikes keeps the likes of p2 that p1 shares, one for each time p2
\* gives it.  GetMatches answers with them; a narrowed deck is the set of them.
MatchedPositions(d) ==
    {i \in 1 .. Len(d.likes["p2"]) :
        \E j \in 1 .. Len(d.likes["p1"]) : d.likes["p1"][j] = d.likes["p2"][i]}
Matches(d) == {d.likes["p2"][i] : i \in MatchedPositions(d)}

\* What GetDeck answers once both forms are ready: the entries of both, or those
\* of the titles the deck was narrowed to.  A card is a place in one of the two
\* lists, since both participants may have entered the same title; the order of
\* the answer is left out.
Combined(entries) == UNION {{s} \X (1 .. Len(entries[s])) : s \in Slots}
Title(card, entries) == entries[card[1]][card[2]]
Deck(d) ==
    IF d.activeDeck = {}
    THEN Combined(d.entries)
    ELSE {card \in Combined(d.entries) : Title(card, d.entries) \in d.activeDeck}

\* FindOneAndUpdate with ReturnDocument(After) answers with the document after
\* the update; the driver's default is the one before it.
Returned_Before(before, after) == before
Returned(before, after) == after

-----------------------------------------------------------------------------
(* The calls a worker can have left. *)

Idle == [step |-> "idle"]

Call ==
    {Idle}
    \cup [step : {"join.find"}, token : Guests, late : BOOLEAN]
    \cup [step : {"join.claim"}, token : Guests, late : BOOLEAN,
          next : {"form", "matching"}]
    \cup [step : {"entries.update"}, slot : Slots, entries : Seq(Ids)]
    \cup [step : {"ready.find", "ready.update"}, slot : Slots]
    \cup [step : {"swipes.update"}, slot : Slots, likes : Seq(Ids)]
    \cup [step : {"transition"}, slot : Slots, to : {"matching", "results"}]
    \cup [step : {"rematch.find"}, slot : Slots, narrow : BOOLEAN]
    \cup [step : {"rematch.update"}, slot : Slots, rounds : Nat, deck : SUBSET Ids]

JoinSteps == {"join.find", "join.claim"}
Joining(w) == todo[w].step \in JoinSteps
\* w serves a request that passed RequireParticipant.
Admitted(w) == ~Joining(w) /\ todo[w] # Idle

Goto(w, call) == todo' = [todo EXCEPT ![w] = call]
Return(w) == Goto(w, Idle)

Init ==
    /\ \E mode \in ModesUsed : doc = NewSession(mode)
    /\ exists = TRUE
    /\ expired = FALSE
    /\ todo = [w \in Workers |-> Idle]

-----------------------------------------------------------------------------
(* POST sessions/join: JoinSession *)

\* The handler notes the time and generates p2's token, nobody else's, before
\* its first call.
JoinSession(w) ==
    /\ todo[w] = Idle
    /\ \E token \in Guests :
          /\ token # doc.guest /\ \A v \in Workers : Joining(v) => todo[v].token # token
          /\ Goto(w, [step |-> "join.find", token |-> token, late |-> expired])
    /\ UNCHANGED <<doc, exists, expired>>

NextStatusOnJoin_StillWaiting(d) == "waiting-for-partner"
NextStatusOnJoin(d) ==
    IF d.mode = "solo-entry" /\ d.formReady["p1"] THEN "matching" ELSE "form"

JoinFind(w) ==
    LET c == todo[w] IN
    /\ c.step = "join.find"
    /\ IF exists /\ ~c.late /\ doc.guest = NoGuest
       THEN Goto(w, [step |-> "join.claim", token |-> c.token, late |-> c.late,
                     next |-> NextStatusOnJoin(doc)])
       ELSE Return(w)
    /\ UNCHANGED <<doc, exists, expired>>

\* The filter of the conditional update that claims the slot.
ClaimFilter_SeatUnchecked(d, late) == ~late
ClaimFilter(d, late) == d.guest = NoGuest /\ ~late

JoinClaim(w) ==
    LET c == todo[w] IN
    /\ c.step = "join.claim"
    /\ doc' = IF exists /\ ClaimFilter(doc, c.late)
              THEN [doc EXCEPT !.guest = c.token, !.status = c.next]
              ELSE doc
    /\ Return(w)
    /\ UNCHANGED <<exists, expired>>

-----------------------------------------------------------------------------
(* RequireParticipant, and what a disciplined client asks for. *)

\* The token names a slot of a session that exists and has not expired.
RequireParticipant_ExpiryUnchecked(slot) ==
    exists /\ (slot = "p2" => doc.guest # NoGuest)
RequireParticipant(slot) ==
    exists /\ ~expired /\ (slot = "p2" => doc.guest # NoGuest)

\* A disciplined client waits for its last answer, looks at the current
\* state, and only makes a request that state invites.
Invited(slot, request) ==
    /\ \A v \in Workers : Admitted(v) => todo[v].slot # slot
    /\ CASE request \in {"entries", "ready"} ->
              /\ doc.status \in {"waiting-for-partner", "form"}
              /\ ~doc.formReady[slot]
              /\ doc.mode = "solo-entry" => slot = "p1"
         [] request = "swipes" -> doc.status = "matching" /\ ~doc.swipesDone[slot]
         [] request = "rematch" -> doc.status = "results"

\* It likes cards it was dealt, each at most once, and sends their titles.
LikesCards(list, cards, entries) ==
    \E card \in [1 .. Len(list) -> cards] :
        /\ \A i \in 1 .. Len(list) : Title(card[i], entries) = list[i]
        /\ \A i, j \in 1 .. Len(list) : card[i] = card[j] => i = j

\* Worker w takes a participant's request through RequireParticipant.
Admit(w, slot, request, call) ==
    /\ todo[w] = Idle
    /\ RequireParticipant(slot)
    /\ Disciplined => Invited(slot, request)
    /\ Goto(w, call)
    /\ UNCHANGED <<doc, exists, expired>>

-----------------------------------------------------------------------------
(* PUT entries: putEntries, PutEntries *)

\* validateEntries takes the mode from the document the middleware read; the
\* mode never changes.
PutEntries(w) ==
    \E slot \in Slots, list \in EntryLists :
        /\ ValidEntries(list, doc.mode)
        /\ Admit(w, slot, "entries",
                 [step |-> "entries.update", slot |-> slot, entries |-> list])

PutEntriesUpdate(w) ==
    LET c == todo[w] IN
    /\ c.step = "entries.update"
    /\ doc' = IF exists THEN [doc EXCEPT !.entries[c.slot] = c.entries] ELSE doc
    /\ Return(w)
    /\ UNCHANGED <<exists, expired>>

-----------------------------------------------------------------------------
(* POST ready: MarkReady *)

MarkReady(w) ==
    \E slot \in Slots :
        Admit(w, slot, "ready", [step |-> "ready.find", slot |-> slot])

MarkReadyFind(w) ==
    LET c == todo[w] IN
    /\ c.step = "ready.find"
    /\ IF /\ exists
          /\ ~(doc.mode = "solo-entry" /\ c.slot = "p2")
          /\ HasRequiredEntries(doc.entries[c.slot], doc.mode)
       THEN Goto(w, [step |-> "ready.update", slot |-> c.slot])
       ELSE Return(w)
    /\ UNCHANGED <<doc, exists, expired>>

\* The handler decides on the document its update returned.
MarkReadyUpdate(w) ==
    LET c == todo[w]
        after == [doc EXCEPT !.formReady[c.slot] = TRUE]
        updated == Returned(doc, after)
    IN
    /\ c.step = "ready.update"
    /\ doc' = IF exists THEN after ELSE doc
    /\ IF exists /\ BothFormsReady(updated) /\ updated.status # "matching"
       THEN Goto(w, [step |-> "transition", slot |-> c.slot, to |-> "matching"])
       ELSE Return(w)
    /\ UNCHANGED <<exists, expired>>

-----------------------------------------------------------------------------
(* POST swipes: submitSwipes, SubmitSwipes *)

SubmitSwipes(w) ==
    \E slot \in Slots, list \in LikeLists :
        /\ Disciplined => LikesCards(list, Deck(doc), doc.entries)
        /\ Admit(w, slot, "swipes",
                 [step |-> "swipes.update", slot |-> slot, likes |-> list])

SubmitSwipesUpdate(w) ==
    LET c == todo[w]
        after == [doc EXCEPT !.likes[c.slot] = c.likes,
                             !.swipesDone[c.slot] = TRUE]
        updated == Returned(doc, after)
    IN
    /\ c.step = "swipes.update"
    /\ doc' = IF exists THEN after ELSE doc
    /\ IF exists /\ BothSwiped(updated) /\ updated.status # "results"
       THEN Goto(w, [step |-> "transition", slot |-> c.slot, to |-> "results"])
       ELSE Return(w)
    /\ UNCHANGED <<exists, expired>>

\* transition: the last call of MarkReady and of SubmitSwipes.
Transition(w) ==
    LET c == todo[w] IN
    /\ c.step = "transition"
    /\ doc' = IF exists /\ doc.status # c.to
              THEN [doc EXCEPT !.status = c.to]
              ELSE doc
    /\ Return(w)
    /\ UNCHANGED <<exists, expired>>

-----------------------------------------------------------------------------
(* POST rematch: rematch, Rematch *)

Rematch(w) ==
    \E slot \in Slots, narrow \in BOOLEAN :
        /\ doc.rounds < MaxRounds
        /\ Admit(w, slot, "rematch",
                 [step |-> "rematch.find", slot |-> slot, narrow |-> narrow])

CanNarrow_OneMatch(d) == Cardinality(MatchedPositions(d)) >= 1
CanNarrow(d) == Cardinality(MatchedPositions(d)) >= 2

RematchFind(w) ==
    LET c == todo[w] IN
    /\ c.step = "rematch.find"
    /\ IF exists /\ BothSwiped(doc) /\ (c.narrow => CanNarrow(doc))
       THEN Goto(w, [step |-> "rematch.update", slot |-> c.slot,
                     rounds |-> doc.rounds + 1,
                     deck |-> IF c.narrow THEN Matches(doc) ELSE {}])
       ELSE Return(w)
    /\ UNCHANGED <<doc, exists, expired>>

NewRound_Restarted(d, rounds, deck) ==
    [d EXCEPT !.likes = [s \in Slots |-> <<>>],
              !.swipesDone = [s \in Slots |-> FALSE],
              !.status = "matching", !.rounds = 1, !.activeDeck = deck]
NewRound(d, rounds, deck) ==
    [d EXCEPT !.likes = [s \in Slots |-> <<>>],
              !.swipesDone = [s \in Slots |-> FALSE],
              !.status = "matching", !.rounds = rounds, !.activeDeck = deck]

RematchUpdate(w) ==
    LET c == todo[w] IN
    /\ c.step = "rematch.update"
    /\ doc' = IF exists THEN NewRound(doc, c.rounds, c.deck) ELSE doc
    /\ Return(w)
    /\ UNCHANGED <<exists, expired>>

-----------------------------------------------------------------------------
(* Time, the cleanup, and failures. *)

Expire ==
    /\ ~expired
    /\ expired' = TRUE
    /\ UNCHANGED <<doc, exists, todo>>

\* DeleteMany of the in-process ticker, the cron route or the TTL index.
CleanupExpired ==
    /\ exists /\ expired
    /\ exists' = FALSE
    /\ UNCHANGED <<doc, expired, todo>>

\* The request's context is cancelled, its database call fails, or the
\* process dies: the calls the handler has left are never made.
Abort(w) ==
    /\ Faults /\ todo[w] # Idle
    /\ Return(w)
    /\ UNCHANGED <<doc, exists, expired>>

Request(w) ==
    JoinSession(w) \/ PutEntries(w) \/ MarkReady(w) \/ SubmitSwipes(w) \/ Rematch(w)

Proceed(w) ==
    \/ JoinFind(w) \/ JoinClaim(w) \/ PutEntriesUpdate(w)
    \/ MarkReadyFind(w) \/ MarkReadyUpdate(w) \/ SubmitSwipesUpdate(w)
    \/ Transition(w) \/ RematchFind(w) \/ RematchUpdate(w)

Next ==
    \/ \E w \in Workers : Request(w) \/ Proceed(w) \/ Abort(w)
    \/ Expire
    \/ CleanupExpired

Spec == Init /\ [][Next]_vars

\* Go keeps running a goroutine and every database call returns, so a request
\* that was taken up is carried on.  Nothing makes clients ask.
FairSpec == Spec /\ \A w \in Workers : WF_vars(Proceed(w))

-----------------------------------------------------------------------------
(* What must hold whatever the clients ask for. *)

\* Every variable keeps its type.
TypeOK ==
    /\ doc \in Session
    /\ exists \in BOOLEAN
    /\ expired \in BOOLEAN
    /\ todo \in [Workers -> Call]

\* A session waits for a partner exactly as long as nobody holds the p2 slot:
\* neither p1 working alone nor a handler finishing late moves it out of
\* waiting-for-partner or back into it.
WaitingIffAlone ==
    doc.status = "waiting-for-partner" <=> doc.guest = NoGuest

\* A form that is ready has a valid list, although MarkReady checks the list
\* in one call and sets the flag in another, and entries may be replaced in
\* between or afterwards.
ReadyHasEntries ==
    \A s \in Slots : doc.formReady[s] => ValidEntries(doc.entries[s], doc.mode)

\* The partner slot is one seat: the first join to claim it keeps it for as
\* long as the session exists, and every other is refused, because the second
\* call of JoinSession re-checks what its first call read.
Partner == IF doc.guest = NoGuest THEN {} ELSE {doc.guest}
SlotIsFree(seated) == seated = {}
Seat == INSTANCE SeatClaim WITH
    Claimants <- Guests, First <- {}, HasRoom <- SlotIsFree,
    seated <- Partner, open <- exists
PartnerSlotIsOneSeat == Seat!Spec

\* Nobody has written on behalf of p2, or is about to, before p2 exists.
NothingBeforeGuest ==
    doc.guest = NoGuest =>
        /\ ~doc.formReady["p2"] /\ ~doc.swipesDone["p2"]
        /\ \A w \in Workers :
              Admitted(w) => /\ todo[w].slot = "p1"
                             /\ todo[w].step \notin {"transition", "rematch.update"}

\* Every list stored, or about to be, passed validateEntries; a form about to
\* be marked ready has one.
ListsValidated ==
    /\ \A s \in Slots : doc.entries[s] = <<>> \/ ValidEntries(doc.entries[s], doc.mode)
    /\ \A w \in Workers :
          /\ todo[w].step = "entries.update" => ValidEntries(todo[w].entries, doc.mode)
          /\ todo[w].step = "ready.update"
                => ValidEntries(doc.entries[todo[w].slot], doc.mode)

\* The inductive invariant behind WaitingIffAlone and ReadyHasEntries.
IInv ==
    TypeOK /\ WaitingIffAlone /\ ReadyHasEntries /\ NothingBeforeGuest /\ ListsValidated

\* A request begun while the session had not expired.
BegunInTime(w) == todo[w] # Idle /\ (Joining(w) => ~todo[w].late)

\* Once the session has expired and the requests begun before are over, the
\* document is never written again and no participant's request is taken up,
\* although the updates themselves do not filter on expiresAt.
ExpiredIsFrozen ==
    [][expired /\ (\A w \in Workers : ~BegunInTime(w))
        => doc' = doc /\ \A w \in Workers : ~BegunInTime(w)']_vars

-----------------------------------------------------------------------------
(* What holds when clients only ask for what the session is ready for. *)

\* Results are shown only when both participants have finished swiping this
\* round, although the move to results is a call of its own.
ResultsMeanSwiped ==
    doc.status = "results" => \A s \in Slots : doc.swipesDone[s]

\* Participants who are swiping, or looking at results, have a deck that
\* GetDeck hands out and that holds at least two cards, narrowed or not.
DeckPlayable ==
    doc.status \in {"matching", "results"}
        => BothFormsReady(doc) /\ Cardinality(Deck(doc)) >= 2

\* A session leaves results only into the next round, with nobody's swipes.
ResultsOpenNewRound ==
    [][doc.status = "results" /\ doc'.status # "results"
        => /\ doc'.status = "matching"
           /\ doc'.rounds = doc.rounds + 1
           /\ \A s \in Slots : ~doc'.swipesDone[s]]_vars

\* A participant's swipes are thrown away only when both had finished.
SwipesKeptUntilBothDone ==
    [][(\E s \in Slots : doc.swipesDone[s] /\ ~doc'.swipesDone[s])
        => BothSwiped(doc)]_vars

\* When both have finished swiping the session gets to results.
SwipesAdvance ==
    (exists /\ \A s \in Slots : doc.swipesDone[s])
        ~> (~exists \/ doc.status = "results" \/ \E s \in Slots : ~doc.swipesDone[s])

\* When the deck can be assembled the session gets to matching.
Advanced == ~exists \/ doc.status \in {"matching", "results"}
FormsAdvance == (exists /\ BothFormsReady(doc)) ~> Advanced

\* In dual-entry mode it does: of two participants who get ready at the same
\* time, the one whose update comes second sees both forms ready.
DualFormsAdvance ==
    (exists /\ doc.mode = "dual-entry" /\ BothFormsReady(doc)) ~> Advanced

\* What makes these two happen without anybody asking again: while no handler
\* dies, the one that is to move the status is on its way until it has moved.
Moving(to) == \E w \in Workers : todo[w].step = "transition" /\ todo[w].to = to
SwipesMoveOn ==
    (exists /\ \A s \in Slots : doc.swipesDone[s])
        => doc.status = "results" \/ Moving("results")
FormsMoveOn == (exists /\ BothFormsReady(doc)) => Advanced \/ Moving("matching")
DualFormsMoveOn == doc.mode = "dual-entry" => FormsMoveOn

\* No join that will be let in is about to write a status that was computed
\* before p1 got ready.
JoinsAreCurrent ==
    \A w \in Workers :
        todo[w].step = "join.claim" /\ ClaimFilter(doc, todo[w].late)
            => todo[w].next = NextStatusOnJoin(doc)

\* At most one rematch is between its check and its update.
OneRematch ==
    \A v, w \in Workers :
        todo[v].step = "rematch.update" /\ todo[w].step = "rematch.update" => v = w

\* What its check found is still so when it updates.
RematchIsCurrent ==
    \A w \in Workers : todo[w].step = "rematch.update" => BothSwiped(doc)

-----------------------------------------------------------------------------
(* Why it holds. *)

\* A disciplined client has one request under way, and one handler moves the
\* status on.
OneRequestEach ==
    \A v, w \in Workers :
        Admitted(v) /\ Admitted(w) /\ todo[v].slot = todo[w].slot => v = w
OneTransition ==
    \A v, w \in Workers : todo[v].step = "transition" /\ todo[w].step = "transition" => v = w

\* The status tells how far the forms and the swipes are.
RoundAgrees(d) ==
    /\ d.status \in {"matching", "results"} => BothFormsReady(d)
    /\ d.status \notin {"matching", "results"} => \A s \in Slots : ~d.swipesDone[s]
    /\ d.status = "results" => BothSwiped(d)

\* What a call still to be made says about the document: in particular that
\* the other participant's calls have left this one's flag and the status alone.
CallAgrees(c, d) ==
    /\ c.step = "join.claim" /\ c.next = "matching" => d.mode = "solo-entry" /\ d.formReady["p1"]
    /\ c.step \in {"entries.update", "ready.find", "ready.update"}
          => ~d.formReady[c.slot] /\ (d.mode = "solo-entry" => c.slot = "p1")
    /\ c.step = "swipes.update" => d.status = "matching" /\ ~d.swipesDone[c.slot]
    /\ c.step = "transition" /\ c.to = "matching" => d.status = "form" /\ BothFormsReady(d)
    /\ c.step = "transition" /\ c.to = "results" => d.status = "matching" /\ BothSwiped(d)
    /\ c.step \in {"rematch.find", "rematch.update"}
          => d.status = "results" \/ (d.status = "matching" /\ ~d.swipesDone[c.slot])
    /\ c.step = "rematch.update" /\ d.status = "results" => c.rounds = d.rounds + 1

\* The inductive invariant behind ResultsMeanSwiped and ResultsOpenNewRound.
FlowInv ==
    /\ IInv /\ OneRequestEach /\ OneTransition
    /\ RoundAgrees(doc)
    /\ \A w \in Workers : CallAgrees(todo[w], doc)

\* Two cards of a deck narrowed to these titles.
TwoCards(titles, entries) ==
    \E x, y \in Combined(entries) :
        x # y /\ Title(x, entries) \in titles /\ Title(y, entries) \in titles

\* What narrowing makes of likes, some of which may have been given in another
\* round: they are cards of the combined entries, which are final by then.
NarrowInv ==
    /\ \/ doc.status \in {"matching", "results"}
       \/ doc.likes["p2"] = <<>> /\ doc.activeDeck = {}
    /\ LikesCards(doc.likes["p2"], Combined(doc.entries), doc.entries)
    /\ doc.activeDeck # {} => TwoCards(doc.activeDeck, doc.entries)
    /\ \A w \in Workers :
          /\ todo[w].step = "swipes.update"
                => LikesCards(todo[w].likes, Combined(doc.entries), doc.entries)
          /\ todo[w].step = "rematch.update" /\ todo[w].deck # {}
                => TwoCards(todo[w].deck, doc.entries)

\* The inductive invariant behind DeckPlayable.
DeckInv == FlowInv /\ NarrowInv
=============================================================================
