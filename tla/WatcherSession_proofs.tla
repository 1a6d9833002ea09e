------------------------ MODULE WatcherSession_proofs ------------------------
(***************************************************************************)
(* Theorems about WatcherSession, for every number of workers, every set   *)
(* of tokens and titles, any limits and any clients.                       *)
(***************************************************************************)
EXTENDS WatcherSession, TLAPS

\* What the step of a pending call says about its other fields.
LEMMA CallFields ==
    ASSUME NEW c \in Call
    PROVE  /\ c.step = "join.find" => c.token \in Guests /\ c.late \in BOOLEAN
           /\ c.step = "join.claim" => /\ c.token \in Guests
                                       /\ c.late \in BOOLEAN
                                       /\ c.next \in {"form", "matching"}
           /\ c.step = "entries.update" => c.slot \in Slots /\ c.entries \in Seq(Ids)
           /\ c.step \in {"ready.find", "ready.update"} => c.slot \in Slots
           /\ c.step = "swipes.update" => c.slot \in Slots /\ c.likes \in Seq(Ids)
           /\ c.step = "transition" => c.slot \in Slots /\ c.to \in {"matching", "results"}
           /\ c.step = "rematch.find" => c.slot \in Slots /\ c.narrow \in BOOLEAN
           /\ c.step = "rematch.update" => /\ c.slot \in Slots
                                           /\ c.rounds \in Nat
                                           /\ c.deck \in SUBSET Ids
BY DEF Call, Idle

\* The document CreateSession inserts is one of the documents of the type.
LEMMA NewSessionTyped ==
    ASSUME NEW mode \in Modes
    PROVE  NewSession(mode) \in Session
<1>1. <<>> \in Seq(Ids) /\ {} \in SUBSET Ids /\ 1 \in Nat
  OBVIOUS
<1>2. [s \in Slots |-> <<>>] \in [Slots -> Seq(Ids)]
  BY <1>1
<1>3. [s \in Slots |-> FALSE] \in [Slots -> BOOLEAN]
  OBVIOUS
<1> QED
  BY <1>1, <1>2, <1>3 DEF NewSession, Session, Statuses

\* CreateSession stores a document of the type.
LEMMA InitTyped == Init => TypeOK
<1> SUFFICES ASSUME Init PROVE TypeOK
  OBVIOUS
<1>1. doc \in Session
  BY NewSessionTyped, BoundAssumption DEF Init
<1>2. todo \in [Workers -> Call]
  BY DEF Init, Call
<1> QED
  BY <1>1, <1>2 DEF Init, TypeOK

-----------------------------------------------------------------------------
(* Every update of the document keeps its type. *)

\* The update of JoinSession keeps the type of the document.
LEMMA ClaimTyped ==
    ASSUME NEW d \in Session, NEW token \in Guests, NEW status \in Statuses
    PROVE  [d EXCEPT !.guest = token, !.status = status] \in Session
BY DEF Session

\* So does the update of PutEntries,
LEMMA EntriesTyped ==
    ASSUME NEW d \in Session, NEW slot \in Slots, NEW list \in Seq(Ids)
    PROVE  [d EXCEPT !.entries[slot] = list] \in Session
BY DEF Session

\* that of MarkReady,
LEMMA FormReadyTyped ==
    ASSUME NEW d \in Session, NEW slot \in Slots
    PROVE  [d EXCEPT !.formReady[slot] = TRUE] \in Session
BY DEF Session

\* that of SubmitSwipes,
LEMMA SwipesTyped ==
    ASSUME NEW d \in Session, NEW slot \in Slots, NEW list \in Seq(Ids)
    PROVE  [d EXCEPT !.likes[slot] = list, !.swipesDone[slot] = TRUE] \in Session
BY DEF Session

\* that of transition
LEMMA StatusTyped ==
    ASSUME NEW d \in Session, NEW status \in Statuses
    PROVE  [d EXCEPT !.status = status] \in Session
BY DEF Session

\* and that of Rematch.
LEMMA NewRoundTyped ==
    ASSUME NEW d \in Session, NEW rounds \in Nat, NEW deck \in SUBSET Ids
    PROVE  NewRound(d, rounds, deck) \in Session
<1>1. [s \in Slots |-> <<>>] \in [Slots -> Seq(Ids)]
  OBVIOUS
<1>2. [s \in Slots |-> FALSE] \in [Slots -> BOOLEAN]
  OBVIOUS
<1> QED
  BY <1>1, <1>2 DEF NewRound, Session, Statuses

\* The ids a narrowed deck is made of are titles.
LEMMA MatchesTyped ==
    ASSUME NEW d \in Session
    PROVE  Matches(d) \in SUBSET Ids
<1>1. d.likes["p2"] \in Seq(Ids)
  BY DEF Session, Slots
<1> QED
  BY <1>1 DEF Matches, MatchedPositions

-----------------------------------------------------------------------------
(* Type correctness. *)

\* Every database call and every request keeps the types.
LEMMA NextTyped == TypeOK /\ [Next]_vars => TypeOK'
<1> SUFFICES ASSUME TypeOK, [Next]_vars
             PROVE  TypeOK'
  OBVIOUS
<1> USE DEF TypeOK
<1>1. ASSUME NEW w \in Workers, JoinSession(w)
      PROVE  TypeOK'
  BY <1>1 DEF JoinSession, Goto, Call
<1>2. ASSUME NEW w \in Workers, JoinFind(w)
      PROVE  TypeOK'
  <2>1. todo[w].token \in Guests /\ todo[w].late \in BOOLEAN
    BY <1>2, CallFields DEF JoinFind
  <2>2. NextStatusOnJoin(doc) \in {"form", "matching"}
    BY DEF NextStatusOnJoin
  <2> QED
    BY <1>2, <2>1, <2>2 DEF JoinFind, Goto, Return, Call
<1>3. ASSUME NEW w \in Workers, JoinClaim(w)
      PROVE  TypeOK'
  <2>1. todo[w].token \in Guests /\ todo[w].next \in Statuses
    BY <1>3, CallFields DEF JoinClaim, Statuses
  <2>2. doc' \in Session
    BY <1>3, <2>1, ClaimTyped DEF JoinClaim
  <2> QED
    BY <1>3, <2>2 DEF JoinClaim, Goto, Return, Call
<1>4. ASSUME NEW w \in Workers, PutEntries(w)
      PROVE  TypeOK'
  BY <1>4, InputAssumption DEF PutEntries, Admit, Goto, Call
<1>5. ASSUME NEW w \in Workers, PutEntriesUpdate(w)
      PROVE  TypeOK'
  <2>1. todo[w].slot \in Slots /\ todo[w].entries \in Seq(Ids)
    BY <1>5, CallFields DEF PutEntriesUpdate
  <2>2. doc' \in Session
    BY <1>5, <2>1, EntriesTyped DEF PutEntriesUpdate
  <2> QED
    BY <1>5, <2>2 DEF PutEntriesUpdate, Goto, Return, Call
<1>6. ASSUME NEW w \in Workers, MarkReady(w)
      PROVE  TypeOK'
  BY <1>6 DEF MarkReady, Admit, Goto, Call
<1>7. ASSUME NEW w \in Workers, MarkReadyFind(w)
      PROVE  TypeOK'
  <2>1. todo[w].slot \in Slots
    BY <1>7, CallFields DEF MarkReadyFind
  <2> QED
    BY <1>7, <2>1 DEF MarkReadyFind, Goto, Return, Call
<1>8. ASSUME NEW w \in Workers, MarkReadyUpdate(w)
      PROVE  TypeOK'
  <2>1. todo[w].slot \in Slots
    BY <1>8, CallFields DEF MarkReadyUpdate
  <2>2. doc' \in Session
    BY <1>8, <2>1, FormReadyTyped DEF MarkReadyUpdate
  <2> QED
    BY <1>8, <2>1, <2>2 DEF MarkReadyUpdate, Goto, Return, Call
<1>9. ASSUME NEW w \in Workers, SubmitSwipes(w)
      PROVE  TypeOK'
  BY <1>9, InputAssumption DEF SubmitSwipes, Admit, Goto, Call
<1>10. ASSUME NEW w \in Workers, SubmitSwipesUpdate(w)
       PROVE  TypeOK'
  <2>1. todo[w].slot \in Slots /\ todo[w].likes \in Seq(Ids)
    BY <1>10, CallFields DEF SubmitSwipesUpdate
  <2>2. doc' \in Session
    BY <1>10, <2>1, SwipesTyped DEF SubmitSwipesUpdate
  <2> QED
    BY <1>10, <2>1, <2>2 DEF SubmitSwipesUpdate, Goto, Return, Call
<1>11. ASSUME NEW w \in Workers, Transition(w)
       PROVE  TypeOK'
  <2>1. todo[w].to \in Statuses
    BY <1>11, CallFields DEF Transition, Statuses
  <2>2. doc' \in Session
    BY <1>11, <2>1, StatusTyped DEF Transition
  <2> QED
    BY <1>11, <2>2 DEF Transition, Goto, Return, Call
<1>12. ASSUME NEW w \in Workers, Rematch(w)
       PROVE  TypeOK'
  BY <1>12 DEF Rematch, Admit, Goto, Call
<1>13. ASSUME NEW w \in Workers, RematchFind(w)
       PROVE  TypeOK'
  <2>1. todo[w].slot \in Slots
    BY <1>13, CallFields DEF RematchFind
  <2>2. doc.rounds + 1 \in Nat
    BY DEF Session
  <2>3. (IF todo[w].narrow THEN Matches(doc) ELSE {}) \in SUBSET Ids
    BY MatchesTyped
  <2> QED
    BY <1>13, <2>1, <2>2, <2>3 DEF RematchFind, Goto, Return, Call
<1>14. ASSUME NEW w \in Workers, RematchUpdate(w)
       PROVE  TypeOK'
  <2>1. todo[w].rounds \in Nat /\ todo[w].deck \in SUBSET Ids
    BY <1>14, CallFields DEF RematchUpdate
  <2>2. doc' \in Session
    BY <1>14, <2>1, NewRoundTyped DEF RematchUpdate
  <2> QED
    BY <1>14, <2>2 DEF RematchUpdate, Goto, Return, Call
<1>15. ASSUME NEW w \in Workers, Abort(w)
       PROVE  TypeOK'
  BY <1>15 DEF Abort, Goto, Return, Call
<1>16. CASE Expire
  BY <1>16 DEF Expire
<1>17. CASE CleanupExpired
  BY <1>17 DEF CleanupExpired
<1>18. CASE UNCHANGED vars
  BY <1>18 DEF vars
<1> QED
  BY <1>1, <1>2, <1>3, <1>4, <1>5, <1>6, <1>7, <1>8, <1>9, <1>10, <1>11,
     <1>12, <1>13, <1>14, <1>15, <1>16, <1>17, <1>18
     DEF Next, Request, Proceed

\* Type correctness, for every value of the constants.
THEOREM TypeCorrect == Spec => []TypeOK
BY InitTyped, NextTyped, PTL DEF Spec

-----------------------------------------------------------------------------
(* The inductive invariant. *)

\* A list that passed validateEntries passes MarkReady's check too, and of the
\* lists a participant can have stored MarkReady lets only those through.
LEMMA RequiredIsValid ==
    ASSUME NEW mode \in Modes, NEW list \in Seq(Ids),
           list = <<>> \/ ValidEntries(list, mode),
           HasRequiredEntries(list, mode)
    PROVE  ValidEntries(list, mode)
<1>1. MinEntries(mode) > 0
  BY LimitAssumption DEF MinEntries
<1>2. list # <<>>
  BY <1>1, LimitAssumption DEF HasRequiredEntries, MinEntries
<1> QED
  BY <1>2

\* A session nobody has joined satisfies the invariant.
LEMMA InitIInv == Init => IInv
<1> SUFFICES ASSUME Init PROVE IInv
  OBVIOUS
<1>1. TypeOK
  BY InitTyped
<1>2. PICK mode \in Modes : doc = NewSession(mode)
  BY BoundAssumption DEF Init
<1>3. /\ doc.guest = NoGuest /\ doc.status = "waiting-for-partner"
      /\ \A s \in Slots : /\ doc.entries[s] = <<>> /\ ~doc.formReady[s]
                          /\ ~doc.swipesDone[s]
  BY <1>2 DEF NewSession
<1>4. \A w \in Workers : todo[w] = Idle
  BY DEF Init
<1> QED
  BY <1>1, <1>3, <1>4
     DEF IInv, WaitingIffAlone, ReadyHasEntries, NothingBeforeGuest,
         ListsValidated, Admitted, Idle, Slots

\* A request taken up for p2 has a p2 behind it.
LEMMA AdmitKeepsIInv ==
    ASSUME IInv, NEW w \in Workers, NEW slot \in Slots, NEW request,
           NEW call \in Call,
           call.slot = slot,
           call.step \in {"entries.update", "ready.find", "swipes.update", "rematch.find"},
           call.step = "entries.update" => ValidEntries(call.entries, doc.mode),
           Admit(w, slot, request, call)
    PROVE  IInv'
<1> USE DEF IInv
<1>1. TypeOK'
  BY DEF Admit, Goto, TypeOK
<1>2. doc' = doc /\ todo' = [todo EXCEPT ![w] = call]
  BY DEF Admit, Goto
<1>3. todo'[w] = call /\ \A v \in Workers \ {w} : todo'[v] = todo[v]
  BY <1>2 DEF TypeOK
<1>4. WaitingIffAlone' /\ ReadyHasEntries'
  BY <1>2 DEF WaitingIffAlone, ReadyHasEntries, Slots, ValidEntries, MinEntries, MaxEntries
<1>5. doc.guest = NoGuest => slot = "p1"
  BY DEF Admit, RequireParticipant, Slots
<1>6. NothingBeforeGuest'
  BY <1>2, <1>3, <1>5 DEF NothingBeforeGuest, Admitted, Joining
<1>7. ListsValidated'
  <2>1. ASSUME NEW v \in Workers
        PROVE  /\ todo'[v].step = "entries.update" => ValidEntries(todo'[v].entries, doc.mode)
               /\ todo'[v].step = "ready.update"
                    => ValidEntries(doc.entries[todo'[v].slot], doc.mode)
    BY <1>3 DEF ListsValidated
  <2> QED
    BY <1>2, <2>1 DEF ListsValidated
<1> QED
  BY <1>1, <1>4, <1>6, <1>7

\* A worker that only moves on, with the document as it was, keeps the
\* invariant if its next call respects it.
LEMMA MoveKeepsIInv ==
    ASSUME IInv, NEW w \in Workers, NEW call \in Call,
           todo' = [todo EXCEPT ![w] = call],
           doc' = doc, exists' = exists, expired' = expired,
           \/ call.step \in {"idle", "join.find", "join.claim"}
           \/ /\ call.step = "ready.update"
              /\ doc.guest = NoGuest => call.slot = "p1"
              /\ ValidEntries(doc.entries[call.slot], doc.mode)
           \/ call.step = "rematch.update" /\ doc.guest # NoGuest
    PROVE  IInv'
<1> USE DEF IInv
<1>1. TypeOK'
  BY DEF TypeOK
<1>2. todo'[w] = call /\ \A v \in Workers \ {w} : todo'[v] = todo[v]
  BY DEF TypeOK
<1>3. call.step = "idle" => call = Idle
  BY DEF Call, Idle
<1>4. WaitingIffAlone' /\ ReadyHasEntries'
  BY DEF WaitingIffAlone, ReadyHasEntries, Slots, ValidEntries, MinEntries, MaxEntries
<1>5. NothingBeforeGuest'
  BY <1>2, <1>3 DEF NothingBeforeGuest, Admitted, Joining, JoinSteps
<1>6. ListsValidated'
  <2>1. ASSUME NEW v \in Workers
        PROVE  /\ todo'[v].step = "entries.update" => ValidEntries(todo'[v].entries, doc.mode)
               /\ todo'[v].step = "ready.update"
                    => ValidEntries(doc.entries[todo'[v].slot], doc.mode)
    BY <1>2 DEF ListsValidated
  <2> QED
    BY <2>1 DEF ListsValidated
<1> QED
  BY <1>1, <1>4, <1>5, <1>6

\* The claim gives the session its p2 and takes it out of waiting.
LEMMA ClaimKeepsIInv ==
    ASSUME IInv, NEW w \in Workers, JoinClaim(w)
    PROVE  IInv'
<1> USE DEF IInv
<1>1. TypeOK'
  BY NextTyped DEF Next, Proceed
<1>2. todo[w].token \in Guests /\ todo[w].next \in {"form", "matching"}
  BY CallFields DEF JoinClaim, TypeOK
<1>3. todo'[w] = Idle /\ \A v \in Workers \ {w} : todo'[v] = todo[v]
  BY DEF JoinClaim, Return, Goto, TypeOK
<1>4. CASE exists /\ ClaimFilter(doc, todo[w].late)
  <2>1. /\ doc'.guest # NoGuest /\ doc'.status # "waiting-for-partner"
        /\ doc'.mode = doc.mode /\ doc'.entries = doc.entries
        /\ doc'.formReady = doc.formReady
    BY <1>2, <1>4, TokenAssumption DEF JoinClaim, TypeOK, Session
  <2>2. ListsValidated'
    BY <1>3, <2>1 DEF ListsValidated, Idle
  <2>3. ReadyHasEntries'
    BY <2>1 DEF ReadyHasEntries
  <2> QED
    BY <1>1, <2>1, <2>2, <2>3 DEF WaitingIffAlone, NothingBeforeGuest
<1>5. CASE ~(exists /\ ClaimFilter(doc, todo[w].late))
  <2>1. /\ doc' = doc /\ exists' = exists /\ expired' = expired
        /\ todo' = [todo EXCEPT ![w] = Idle] /\ Idle \in Call
    BY <1>5 DEF JoinClaim, Return, Goto, Call
  <2> QED
    BY <2>1, MoveKeepsIInv DEF Idle
<1> QED
  BY <1>4, <1>5

\* A handler that finds the session deleted returns without a trace.
LEMMA ReturnKeepsIInv ==
    ASSUME IInv, NEW w \in Workers, Return(w),
           doc' = doc, exists' = exists, expired' = expired
    PROVE  IInv'
<1>1. todo' = [todo EXCEPT ![w] = Idle] /\ Idle \in Call /\ Idle.step = "idle"
  BY DEF Return, Goto, Call, Idle
<1> QED
  BY <1>1, MoveKeepsIInv

\* Entries are replaced by a list that was validated for the session's mode.
LEMMA EntriesKeepIInv ==
    ASSUME IInv, NEW w \in Workers, PutEntriesUpdate(w), exists
    PROVE  IInv'
<1> USE DEF IInv
<1> DEFINE c == todo[w]
<1>1. TypeOK'
  BY NextTyped DEF Next, Proceed
<1>2. c.slot \in Slots /\ c.entries \in Seq(Ids) /\ ValidEntries(c.entries, doc.mode)
  BY CallFields DEF PutEntriesUpdate, TypeOK, ListsValidated
<1>3. todo'[w] = Idle /\ \A v \in Workers \ {w} : todo'[v] = todo[v]
  BY DEF PutEntriesUpdate, Return, Goto, TypeOK
<1>4. /\ \A s \in Slots : doc'.entries[s] = IF s = c.slot THEN c.entries ELSE doc.entries[s]
      /\ doc'.mode = doc.mode /\ doc'.guest = doc.guest /\ doc'.status = doc.status
      /\ doc'.formReady = doc.formReady /\ doc'.swipesDone = doc.swipesDone
  BY <1>2 DEF PutEntriesUpdate, TypeOK, Session
<1>5. WaitingIffAlone' /\ ReadyHasEntries'
  BY <1>2, <1>4 DEF WaitingIffAlone, ReadyHasEntries
<1>6. NothingBeforeGuest'
  BY <1>3, <1>4 DEF NothingBeforeGuest, Admitted, Joining, JoinSteps
<1>7. ListsValidated'
  <2>1. ASSUME NEW v \in Workers, todo'[v].step = "entries.update"
        PROVE  ValidEntries(todo'[v].entries, doc'.mode)
    BY <1>3, <1>4, <2>1 DEF ListsValidated, Idle
  <2>2. ASSUME NEW v \in Workers, todo'[v].step = "ready.update"
        PROVE  ValidEntries(doc'.entries[todo'[v].slot], doc'.mode)
    <3>1. v # w /\ todo'[v] = todo[v]
      BY <1>3, <2>2 DEF Idle
    <3>2. todo[v].slot \in Slots
      BY <2>2, <3>1, CallFields DEF TypeOK
    <3> QED
      BY <1>2, <1>4, <2>2, <3>1, <3>2 DEF ListsValidated
  <2> QED
    BY <1>2, <1>4, <2>1, <2>2 DEF ListsValidated
<1> QED
  BY <1>1, <1>5, <1>6, <1>7

\* A form is marked ready with a valid list; the deck that makes the handler
\* move on to matching takes a p2.
LEMMA ReadyKeepsIInv ==
    ASSUME IInv, NEW w \in Workers, MarkReadyUpdate(w), exists
    PROVE  IInv'
<1> USE DEF IInv
<1> DEFINE c == todo[w]
           after == [doc EXCEPT !.formReady[c.slot] = TRUE]
<1>1. TypeOK'
  BY NextTyped DEF Next, Proceed
<1>2. /\ c.slot \in Slots /\ ValidEntries(doc.entries[c.slot], doc.mode)
      /\ doc.guest = NoGuest => c.slot = "p1"
  BY CallFields DEF MarkReadyUpdate, TypeOK, ListsValidated, NothingBeforeGuest,
                    Admitted, Joining, JoinSteps, Idle
<1>3. /\ \A s \in Slots : after.formReady[s] = IF s = c.slot THEN TRUE ELSE doc.formReady[s]
      /\ after.mode = doc.mode /\ after.guest = doc.guest /\ after.status = doc.status
      /\ after.entries = doc.entries /\ after.swipesDone = doc.swipesDone
  BY <1>2 DEF TypeOK, Session
<1>4. doc' = after
  BY DEF MarkReadyUpdate
<1>5. doc.guest = NoGuest => ~BothFormsReady(after)
  BY <1>2, <1>3 DEF BothFormsReady, NothingBeforeGuest, Slots
<1>6. /\ \A v \in Workers \ {w} : todo'[v] = todo[v]
      /\ \/ todo'[w] = Idle
         \/ todo'[w].step = "transition" /\ doc.guest # NoGuest
  BY <1>5 DEF MarkReadyUpdate, Returned, Return, Goto, TypeOK
<1>7. WaitingIffAlone' /\ ReadyHasEntries'
  BY <1>2, <1>3, <1>4 DEF WaitingIffAlone, ReadyHasEntries
<1>8. NothingBeforeGuest'
  BY <1>2, <1>3, <1>4, <1>6
     DEF NothingBeforeGuest, Admitted, Joining, JoinSteps, Idle, Slots
<1>9. ListsValidated'
  <2>1. ASSUME NEW v \in Workers
        PROVE  /\ todo'[v].step = "entries.update" => ValidEntries(todo'[v].entries, doc.mode)
               /\ todo'[v].step = "ready.update"
                    => ValidEntries(doc.entries[todo'[v].slot], doc.mode)
    BY <1>6 DEF ListsValidated, Idle
  <2> QED
    BY <1>3, <1>4, <2>1 DEF ListsValidated
<1> QED
  BY <1>1, <1>7, <1>8, <1>9

\* Both have finished swiping only if there is a p2.
LEMMA SwipesKeepIInv ==
    ASSUME IInv, NEW w \in Workers, SubmitSwipesUpdate(w), exists
    PROVE  IInv'
<1> USE DEF IInv
<1> DEFINE c == todo[w]
           after == [doc EXCEPT !.likes[c.slot] = c.likes, !.swipesDone[c.slot] = TRUE]
<1>1. TypeOK'
  BY NextTyped DEF Next, Proceed
<1>2. c.slot \in Slots /\ (doc.guest = NoGuest => c.slot = "p1")
  BY CallFields DEF SubmitSwipesUpdate, TypeOK, NothingBeforeGuest,
                    Admitted, Joining, JoinSteps, Idle
<1>3. /\ \A s \in Slots : after.swipesDone[s] = IF s = c.slot THEN TRUE ELSE doc.swipesDone[s]
      /\ after.mode = doc.mode /\ after.guest = doc.guest /\ after.status = doc.status
      /\ after.entries = doc.entries /\ after.formReady = doc.formReady
  BY <1>2 DEF TypeOK, Session
<1>4. doc' = after
  BY DEF SubmitSwipesUpdate
<1>5. doc.guest = NoGuest => ~BothSwiped(after)
  BY <1>2, <1>3 DEF BothSwiped, NothingBeforeGuest, Slots
<1>6. /\ \A v \in Workers \ {w} : todo'[v] = todo[v]
      /\ \/ todo'[w] = Idle
         \/ todo'[w].step = "transition" /\ doc.guest # NoGuest
  BY <1>5 DEF SubmitSwipesUpdate, Returned, Return, Goto, TypeOK
<1>7. WaitingIffAlone' /\ ReadyHasEntries'
  BY <1>3, <1>4 DEF WaitingIffAlone, ReadyHasEntries
<1>8. NothingBeforeGuest'
  BY <1>2, <1>3, <1>4, <1>6
     DEF NothingBeforeGuest, Admitted, Joining, JoinSteps, Idle, Slots
<1>9. ListsValidated'
  <2>1. ASSUME NEW v \in Workers
        PROVE  /\ todo'[v].step = "entries.update" => ValidEntries(todo'[v].entries, doc.mode)
               /\ todo'[v].step = "ready.update"
                    => ValidEntries(doc.entries[todo'[v].slot], doc.mode)
    BY <1>6 DEF ListsValidated, Idle
  <2> QED
    BY <1>3, <1>4, <2>1 DEF ListsValidated
<1> QED
  BY <1>1, <1>7, <1>8, <1>9

\* A late transition and a new round both belong to a session that has a p2.
LEMMA LateStatusKeepsIInv ==
    ASSUME IInv, NEW w \in Workers, Transition(w) \/ RematchUpdate(w), exists
    PROVE  IInv'
<1> USE DEF IInv
<1>1. TypeOK'
  BY NextTyped DEF Next, Proceed
<1>2. doc.guest # NoGuest /\ doc.status # "waiting-for-partner"
  <2>1. todo[w] # Idle /\ ~Joining(w) /\ todo[w].step \in {"transition", "rematch.update"}
    <3>1. todo[w].step \in {"transition", "rematch.update"}
      BY DEF Transition, RematchUpdate
    <3> QED
      BY <3>1 DEF Joining, JoinSteps, Idle
  <2> QED
    BY <2>1 DEF NothingBeforeGuest, Admitted, WaitingIffAlone
<1>3. todo'[w] = Idle /\ \A v \in Workers \ {w} : todo'[v] = todo[v]
  BY DEF Transition, RematchUpdate, Return, Goto, TypeOK
<1>4. /\ doc'.mode = doc.mode /\ doc'.guest = doc.guest /\ doc'.entries = doc.entries
      /\ doc'.formReady = doc.formReady /\ doc'.status # "waiting-for-partner"
  <2>1. CASE Transition(w)
    <3>1. todo[w].to \in {"matching", "results"}
      BY <2>1, CallFields DEF Transition, TypeOK
    <3> QED
      BY <1>2, <2>1, <3>1 DEF Transition, TypeOK, Session
  <2>2. CASE RematchUpdate(w)
    BY <2>2 DEF RematchUpdate, NewRound, TypeOK, Session
  <2> QED
    BY <2>1, <2>2
<1>5. WaitingIffAlone' /\ ReadyHasEntries' /\ NothingBeforeGuest'
  BY <1>2, <1>4 DEF WaitingIffAlone, ReadyHasEntries, NothingBeforeGuest
<1>6. ListsValidated'
  <2>1. ASSUME NEW v \in Workers
        PROVE  /\ todo'[v].step = "entries.update" => ValidEntries(todo'[v].entries, doc.mode)
               /\ todo'[v].step = "ready.update"
                    => ValidEntries(doc.entries[todo'[v].slot], doc.mode)
    BY <1>3 DEF ListsValidated, Idle
  <2> QED
    BY <1>4, <2>1 DEF ListsValidated
<1> QED
  BY <1>1, <1>5, <1>6

-----------------------------------------------------------------------------
(* Every step keeps the inductive invariant: one step per action. *)

\* One step per action of the handlers.
LEMMA NextIInv == IInv /\ [Next]_vars => IInv'
<1> SUFFICES ASSUME IInv, [Next]_vars
             PROVE  IInv'
  OBVIOUS
<1>1. TypeOK
  BY DEF IInv
<1>2. ASSUME NEW w \in Workers, JoinSession(w)
      PROVE  IInv'
  <2>1. PICK token \in Guests :
          todo' = [todo EXCEPT ![w] =
                     [step |-> "join.find", token |-> token, late |-> expired]]
    BY <1>2 DEF JoinSession, Goto
  <2>2. [step |-> "join.find", token |-> token, late |-> expired] \in Call
    BY <1>1 DEF Call, TypeOK
  <2> QED
    BY <1>2, <2>1, <2>2, MoveKeepsIInv DEF JoinSession
<1>3. ASSUME NEW w \in Workers, JoinFind(w)
      PROVE  IInv'
  <2> DEFINE claim == [step |-> "join.claim", token |-> todo[w].token,
                       late |-> todo[w].late, next |-> NextStatusOnJoin(doc)]
  <2>1. claim \in Call
    <3>1. /\ todo[w].token \in Guests /\ todo[w].late \in BOOLEAN
          /\ NextStatusOnJoin(doc) \in {"form", "matching"}
      BY <1>1, <1>3, CallFields DEF JoinFind, NextStatusOnJoin, TypeOK
    <3> QED
      BY <3>1 DEF Call
  <2>2. CASE todo' = [todo EXCEPT ![w] = claim]
    BY <1>3, <2>1, <2>2, MoveKeepsIInv DEF JoinFind
  <2>3. CASE Return(w)
    BY <1>3, <2>3, ReturnKeepsIInv DEF JoinFind
  <2> QED
    BY <1>3, <2>2, <2>3 DEF JoinFind, Goto
<1>4. ASSUME NEW w \in Workers, JoinClaim(w)
      PROVE  IInv'
  BY <1>4, ClaimKeepsIInv
<1>5. ASSUME NEW w \in Workers, PutEntries(w)
      PROVE  IInv'
  <2>1. PICK slot \in Slots, list \in EntryLists :
          /\ ValidEntries(list, doc.mode)
          /\ Admit(w, slot, "entries",
                   [step |-> "entries.update", slot |-> slot, entries |-> list])
    BY <1>5 DEF PutEntries
  <2>2. [step |-> "entries.update", slot |-> slot, entries |-> list] \in Call
    BY InputAssumption DEF Call
  <2> QED
    BY <2>1, <2>2, AdmitKeepsIInv
<1>6. ASSUME NEW w \in Workers, PutEntriesUpdate(w)
      PROVE  IInv'
  BY <1>6, EntriesKeepIInv, ReturnKeepsIInv DEF PutEntriesUpdate
<1>7. ASSUME NEW w \in Workers, MarkReady(w)
      PROVE  IInv'
  <2>1. PICK slot \in Slots :
          Admit(w, slot, "ready", [step |-> "ready.find", slot |-> slot])
    BY <1>7 DEF MarkReady
  <2>2. [step |-> "ready.find", slot |-> slot] \in Call
    BY DEF Call
  <2> QED
    BY <2>1, <2>2, AdmitKeepsIInv
<1>8. ASSUME NEW w \in Workers, MarkReadyFind(w)
      PROVE  IInv'
  <2> DEFINE update == [step |-> "ready.update", slot |-> todo[w].slot]
  <2>1. todo[w].slot \in Slots /\ update \in Call
    BY <1>1, <1>8, CallFields DEF MarkReadyFind, Call, TypeOK
  <2>2. CASE /\ HasRequiredEntries(doc.entries[todo[w].slot], doc.mode)
             /\ todo' = [todo EXCEPT ![w] = update]
    <3>1. doc.guest = NoGuest => todo[w].slot = "p1"
      BY <1>8 DEF IInv, NothingBeforeGuest, Admitted, Joining, JoinSteps, MarkReadyFind, Idle
    <3>2. ValidEntries(doc.entries[todo[w].slot], doc.mode)
      BY <1>1, <2>1, <2>2, RequiredIsValid DEF IInv, ListsValidated, TypeOK, Session
    <3> QED
      BY <1>8, <2>1, <2>2, <3>1, <3>2, MoveKeepsIInv DEF MarkReadyFind
  <2>3. CASE Return(w)
    BY <1>8, <2>3, ReturnKeepsIInv DEF MarkReadyFind
  <2> QED
    BY <1>8, <2>2, <2>3 DEF MarkReadyFind, Goto
<1>9. ASSUME NEW w \in Workers, MarkReadyUpdate(w)
      PROVE  IInv'
  BY <1>9, ReadyKeepsIInv, ReturnKeepsIInv DEF MarkReadyUpdate
<1>10. ASSUME NEW w \in Workers, SubmitSwipes(w)
       PROVE  IInv'
  <2>1. PICK slot \in Slots, list \in LikeLists :
          Admit(w, slot, "swipes",
                [step |-> "swipes.update", slot |-> slot, likes |-> list])
    BY <1>10 DEF SubmitSwipes
  <2>2. [step |-> "swipes.update", slot |-> slot, likes |-> list] \in Call
    BY InputAssumption DEF Call
  <2> QED
    BY <2>1, <2>2, AdmitKeepsIInv
<1>11. ASSUME NEW w \in Workers, SubmitSwipesUpdate(w)
       PROVE  IInv'
  BY <1>11, SwipesKeepIInv, ReturnKeepsIInv DEF SubmitSwipesUpdate
<1>12. ASSUME NEW w \in Workers, Transition(w)
       PROVE  IInv'
  BY <1>12, LateStatusKeepsIInv, ReturnKeepsIInv DEF Transition
<1>13. ASSUME NEW w \in Workers, Rematch(w)
       PROVE  IInv'
  <2>1. PICK slot \in Slots, narrow \in BOOLEAN :
          Admit(w, slot, "rematch",
                [step |-> "rematch.find", slot |-> slot, narrow |-> narrow])
    BY <1>13 DEF Rematch
  <2>2. [step |-> "rematch.find", slot |-> slot, narrow |-> narrow] \in Call
    BY DEF Call
  <2> QED
    BY <2>1, <2>2, AdmitKeepsIInv
<1>14. ASSUME NEW w \in Workers, RematchFind(w)
       PROVE  IInv'
  <2> DEFINE deck == IF todo[w].narrow THEN Matches(doc) ELSE {}
             update == [step |-> "rematch.update", slot |-> todo[w].slot,
                        rounds |-> doc.rounds + 1, deck |-> deck]
  <2>1. deck \in SUBSET Ids
    BY <1>1, MatchesTyped DEF TypeOK
  <2>2. update \in Call
    <3>1. todo[w].slot \in Slots /\ doc.rounds + 1 \in Nat
      BY <1>1, <1>14, CallFields DEF RematchFind, TypeOK, Session
    <3> QED
      BY <2>1, <3>1 DEF Call
  <2>3. CASE BothSwiped(doc) /\ todo' = [todo EXCEPT ![w] = update]
    <3>1. doc.guest # NoGuest
      BY <2>3 DEF BothSwiped, IInv, NothingBeforeGuest
    <3> QED
      BY <1>14, <2>2, <2>3, <3>1, MoveKeepsIInv DEF RematchFind
  <2>4. CASE Return(w)
    BY <1>14, <2>4, ReturnKeepsIInv DEF RematchFind
  <2> QED
    BY <1>14, <2>3, <2>4 DEF RematchFind, Goto
<1>15. ASSUME NEW w \in Workers, RematchUpdate(w)
       PROVE  IInv'
  BY <1>15, LateStatusKeepsIInv, ReturnKeepsIInv DEF RematchUpdate
<1>16. ASSUME NEW w \in Workers, Abort(w)
       PROVE  IInv'
  BY <1>16, ReturnKeepsIInv DEF Abort
<1>17. CASE Expire \/ CleanupExpired \/ UNCHANGED vars
  <2>1. doc' = doc /\ todo' = todo
    BY <1>17 DEF Expire, CleanupExpired, vars
  <2>2. TypeOK'
    BY <1>1, NextTyped
  <2> QED
    BY <2>1, <2>2
       DEF IInv, WaitingIffAlone, ReadyHasEntries, NothingBeforeGuest, ListsValidated,
           Admitted, Joining, ValidEntries, MinEntries, MaxEntries
<1> QED
  BY <1>2, <1>3, <1>4, <1>5, <1>6, <1>7, <1>8, <1>9, <1>10, <1>11, <1>12,
     <1>13, <1>14, <1>15, <1>16, <1>17
     DEF Next, Request, Proceed

\* The inductive invariant holds in every reachable state.
THEOREM Inductive == Spec => []IInv
BY InitIInv, NextIInv, PTL DEF Spec

\* A session waits for a partner exactly as long as the p2 slot is free.
THEOREM WaitsIffAlone == Spec => []WaitingIffAlone
<1>1. IInv => WaitingIffAlone
  BY DEF IInv
<1> QED
  BY <1>1, Inductive, PTL

\* A form marked ready has a list that passed validation, for any number of
\* workers racing to replace it.
THEOREM ReadyFormsHaveEntries == Spec => []ReadyHasEntries
<1>1. IInv => ReadyHasEntries
  BY DEF IInv
<1> QED
  BY <1>1, Inductive, PTL

-----------------------------------------------------------------------------
(* The partner slot is one seat. *)

\* A new session has its partner slot free.
LEMMA InitSeat == Init => Seat!Init
BY DEF Init, NewSession, Partner, Seat!Init

\* A claim takes a free seat; every other step leaves the seat to its holder.
LEMMA NextSeat ==
    ASSUME TypeOK, [Next]_vars
    PROVE  [Seat!Next]_<<Partner, exists>>
<1> DEFINE Stutter == doc'.guest = doc.guest /\ exists' = exists
<1>1. ASSUME NEW w \in Workers, JoinClaim(w), ClaimFilter(doc, todo[w].late), exists
      PROVE  Seat!Claim
  <2>1. todo[w].token \in Guests
    BY <1>1, CallFields DEF JoinClaim, TypeOK
  <2>2. doc.guest = NoGuest /\ doc'.guest = todo[w].token /\ exists' = exists
    BY <1>1 DEF JoinClaim, ClaimFilter, TypeOK, Session
  <2> QED
    BY <1>1, <2>1, <2>2, TokenAssumption DEF Seat!Claim, SlotIsFree, Partner
<1>2. ASSUME NEW w \in Workers, JoinClaim(w), ~(exists /\ ClaimFilter(doc, todo[w].late))
      PROVE  Stutter
  BY <1>2 DEF JoinClaim
<1>3. ASSUME NEW w \in Workers, PutEntriesUpdate(w) \/ MarkReadyUpdate(w)
                \/ SubmitSwipesUpdate(w) \/ Transition(w) \/ RematchUpdate(w)
      PROVE  Stutter
  BY <1>3 DEF PutEntriesUpdate, MarkReadyUpdate, SubmitSwipesUpdate, Transition,
              RematchUpdate, NewRound, TypeOK, Session
<1>4. ASSUME NEW w \in Workers, Request(w) \/ JoinFind(w) \/ MarkReadyFind(w)
                \/ RematchFind(w) \/ Abort(w)
      PROVE  Stutter
  BY <1>4 DEF Request, JoinSession, PutEntries, MarkReady, SubmitSwipes, Rematch,
              Admit, JoinFind, MarkReadyFind, RematchFind, Abort
<1>5. CASE Expire \/ UNCHANGED vars
  BY <1>5 DEF Expire, vars, Partner
<1>6. CASE CleanupExpired
  BY <1>6 DEF CleanupExpired, Seat!Next, Seat!Close, Partner
<1> QED
  BY <1>1, <1>2, <1>3, <1>4, <1>5, <1>6 DEF Next, Proceed, Seat!Next, Partner

\* JoinSession implements the one-seat claim: of any number of joins racing on
\* a code exactly one gets the partner slot, and keeps it.
THEOREM JoinIsOneSeat == Spec => PartnerSlotIsOneSeat
<1>1. TypeOK /\ [Next]_vars => [Seat!Next]_<<Partner, exists>>
  BY NextSeat
<1> QED
  BY <1>1, InitSeat, TypeCorrect, PTL DEF Spec, PartnerSlotIsOneSeat, Seat!Spec

-----------------------------------------------------------------------------
(* Nothing begun after expiry writes. *)

\* After expiry no step begins a request that passes, and none begun later
\* writes.
LEMMA NextFrozen ==
    ASSUME TypeOK, [Next]_vars, expired, \A w \in Workers : ~BegunInTime(w)
    PROVE  doc' = doc /\ \A w \in Workers : ~BegunInTime(w)'
<1>1. ASSUME NEW w \in Workers, todo[w] # Idle
      PROVE  Joining(w) /\ todo[w].late
  BY <1>1, Zenon DEF BegunInTime
<1>2. ASSUME NEW w \in Workers,
             \/ PutEntriesUpdate(w) \/ MarkReadyFind(w) \/ MarkReadyUpdate(w)
             \/ SubmitSwipesUpdate(w) \/ Transition(w) \/ RematchFind(w)
             \/ RematchUpdate(w)
      PROVE  FALSE
  <2>1. todo[w].step \notin {"idle", "join.find", "join.claim"}
    BY <1>2 DEF PutEntriesUpdate, MarkReadyFind, MarkReadyUpdate, SubmitSwipesUpdate,
                Transition, RematchFind, RematchUpdate
  <2> QED
    BY <1>1, <2>1 DEF Joining, JoinSteps, Idle
<1>3. ASSUME NEW w \in Workers,
             PutEntries(w) \/ MarkReady(w) \/ SubmitSwipes(w) \/ Rematch(w)
      PROVE  FALSE
  BY <1>3 DEF PutEntries, MarkReady, SubmitSwipes, Rematch, Admit, RequireParticipant
<1>4. ASSUME NEW w \in Workers, JoinSession(w)
      PROVE  doc' = doc /\ \A v \in Workers : ~BegunInTime(v)'
  <2>1. todo'[w].step = "join.find" /\ todo'[w].late = TRUE
    BY <1>4 DEF JoinSession, Goto, TypeOK
  <2>2. \A v \in Workers \ {w} : todo'[v] = todo[v]
    BY <1>4 DEF JoinSession, Goto, TypeOK
  <2> QED
    BY <1>1, <1>4, <2>1, <2>2 DEF JoinSession, BegunInTime, Joining, JoinSteps
<1>5. ASSUME NEW w \in Workers, JoinFind(w) \/ JoinClaim(w) \/ Abort(w)
      PROVE  doc' = doc /\ \A v \in Workers : ~BegunInTime(v)'
  <2>1. todo[w] # Idle
    <3>1. CASE JoinFind(w) \/ JoinClaim(w)
      <4>1. todo[w].step \in {"join.find", "join.claim"}
        BY <3>1 DEF JoinFind, JoinClaim
      <4> QED
        BY <4>1 DEF Idle
    <3>2. CASE Abort(w)
      BY <3>2 DEF Abort
    <3> QED
      BY <1>5, <3>1, <3>2
  <2> todo[w].late
    BY <1>1, <2>1
  <2>2. doc' = doc /\ Return(w)
    BY <1>5 DEF JoinFind, JoinClaim, ClaimFilter, Abort
  <2>3. todo'[w] = Idle /\ \A v \in Workers \ {w} : todo'[v] = todo[v]
    BY <2>2 DEF Return, Goto, TypeOK
  <2> QED
    BY <1>1, <2>2, <2>3 DEF BegunInTime, Joining
<1>6. CASE Expire \/ CleanupExpired \/ UNCHANGED vars
  <2>1. doc' = doc /\ todo' = todo
    BY <1>6 DEF Expire, CleanupExpired, vars
  <2> QED
    BY <2>1 DEF BegunInTime, Joining
<1> QED
  BY <1>2, <1>3, <1>4, <1>5, <1>6 DEF Next, Request, Proceed

\* Once the session has expired and the requests begun before are over, it is
\* never written again.
THEOREM ExpiredSessionIsFrozen == Spec => ExpiredIsFrozen
<1>1. TypeOK /\ [Next]_vars
        => [expired /\ (\A w \in Workers : ~BegunInTime(w))
              => doc' = doc /\ \A w \in Workers : ~BegunInTime(w)']_vars
  BY NextFrozen
<1> QED
  BY <1>1, TypeCorrect, PTL DEF Spec, ExpiredIsFrozen
=============================================================================
