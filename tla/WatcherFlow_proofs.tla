------------------------- MODULE WatcherFlow_proofs -------------------------
(***************************************************************************)
(* Theorems about the flow of WatcherSession from one status to the next,  *)
(* for any number of workers, tokens, titles and rounds and any limits:    *)
(* most of them when clients only ask for what the session is ready for    *)
(* (Disciplined), and each with handlers that may die unless it says not.  *)
(***************************************************************************)
EXTENDS WatcherSession_proofs, FiniteSetTheorems

\* What ready forms and pending calls say depends on a few fields only.
LEMMA FieldsThatMatter ==
    ASSUME NEW d, NEW e, NEW c,
           e.mode = d.mode, e.guest = d.guest, e.formReady = d.formReady,
           e.status = d.status, e.swipesDone = d.swipesDone, e.rounds = d.rounds
    PROVE  /\ BothFormsReady(e) <=> BothFormsReady(d)
           /\ RoundAgrees(d) => RoundAgrees(e)
           /\ CallAgrees(c, d) => CallAgrees(c, e)
<1>1. BothFormsReady(e) <=> BothFormsReady(d)
  BY DEF BothFormsReady
<1>2. BothSwiped(e) <=> BothSwiped(d)
  BY DEF BothSwiped
<1>3. RoundAgrees(d) => RoundAgrees(e)
  BY <1>1, <1>2 DEF RoundAgrees
<1>4. CallAgrees(c, d) => CallAgrees(c, e)
  BY <1>1, <1>2 DEF CallAgrees
<1> QED
  BY <1>1, <1>3, <1>4

\* A worker's step keeps the invariant if its next call is idle, a join's, or
\* for the slot it serves already, and agrees with the new document, and if
\* the calls of the others do.
LEMMA StepKeepsFlow ==
    ASSUME FlowInv, IInv', NEW w \in Workers, NEW call \in Call,
           todo' = [todo EXCEPT ![w] = call],
           \/ call.step \in {"idle", "join.find", "join.claim"}
           \/ Admitted(w) /\ call.slot = todo[w].slot
           \/ \A v \in Workers : Admitted(v) => todo[v].slot # call.slot,
           call.step = "transition" =>
               \A v \in Workers \ {w} : todo[v].step # "transition",
           RoundAgrees(doc'), CallAgrees(call, doc'),
           \A v \in Workers \ {w} : CallAgrees(todo[v], doc')
    PROVE  FlowInv'
<1>1. todo'[w] = call /\ \A v \in Workers \ {w} : todo'[v] = todo[v]
  BY DEF FlowInv, IInv, TypeOK
<1>2. call.step = "idle" => call = Idle
  BY DEF Call, Idle
<1>3. \A v \in Workers \ {w} : Admitted(v)' <=> Admitted(v)
  BY <1>1 DEF Admitted, Joining
<1>4. Admitted(w)' => \A v \in Workers \ {w} : Admitted(v) => todo[v].slot # call.slot
  <2>1. CASE call.step \in {"idle", "join.find", "join.claim"}
    BY <1>1, <1>2, <2>1 DEF Admitted, Joining, JoinSteps
  <2>2. CASE Admitted(w) /\ call.slot = todo[w].slot
    BY <2>2 DEF FlowInv, OneRequestEach
  <2> QED
    BY <2>1, <2>2
<1>5. OneRequestEach'
  <2> SUFFICES ASSUME NEW v \in Workers, NEW u \in Workers,
                      Admitted(v)', Admitted(u)', todo'[v].slot = todo'[u].slot
               PROVE  v = u
    BY DEF OneRequestEach
  <2>1. CASE v # w /\ u # w
    BY <1>1, <1>3, <2>1 DEF FlowInv, OneRequestEach
  <2>2. CASE v = w \/ u = w
    BY <1>1, <1>3, <1>4, <2>2
  <2> QED
    BY <2>1, <2>2
<1>6. OneTransition'
  BY <1>1 DEF FlowInv, OneTransition
<1>7. \A v \in Workers : CallAgrees(todo'[v], doc')
  BY <1>1
<1> QED
  BY <1>5, <1>6, <1>7 DEF FlowInv

\* A worker that returns leaves nothing to agree with.
LEMMA IdleAgrees ==
    ASSUME NEW d
    PROVE  CallAgrees(Idle, d) /\ Idle \in Call /\ Idle.step = "idle"
BY DEF CallAgrees, Idle, Call

\* A handler that returns without a trace keeps the invariant.
LEMMA ReturnKeepsFlow ==
    ASSUME FlowInv, IInv', NEW w \in Workers, Return(w), doc' = doc
    PROVE  FlowInv'
<1>1. todo' = [todo EXCEPT ![w] = Idle]
  BY DEF Return, Goto
<1>2. RoundAgrees(doc') /\ \A v \in Workers \ {w} : CallAgrees(todo[v], doc')
  BY DEF FlowInv
<1> QED
  BY <1>1, <1>2, IdleAgrees, StepKeepsFlow

\* A request a disciplined client makes finds its slot free of other requests,
\* and the flag it is about to set not set.
LEMMA AdmitKeepsFlow ==
    ASSUME Disciplined, FlowInv, IInv', NEW w \in Workers, NEW slot \in Slots,
           NEW request \in {"entries", "ready", "swipes", "rematch"}, NEW call \in Call,
           call.slot = slot,
           \/ request = "entries" /\ call.step = "entries.update"
           \/ request = "ready" /\ call.step = "ready.find"
           \/ request = "swipes" /\ call.step = "swipes.update"
           \/ request = "rematch" /\ call.step = "rematch.find",
           Admit(w, slot, request, call)
    PROVE  FlowInv'
<1>1. Invited(slot, request) /\ doc' = doc /\ todo' = [todo EXCEPT ![w] = call]
  BY DEF Admit, Goto
<1>2. \A v \in Workers : Admitted(v) => todo[v].slot # call.slot
  BY <1>1 DEF Invited
<1>3. CallAgrees(call, doc)
  BY <1>1 DEF Invited, CallAgrees
<1>4. RoundAgrees(doc') /\ \A v \in Workers : CallAgrees(todo[v], doc')
  BY <1>1 DEF FlowInv
<1>5. call.step # "transition"
  OBVIOUS
<1> QED
  BY <1>1, <1>2, <1>3, <1>4, <1>5, StepKeepsFlow

-----------------------------------------------------------------------------
(* The updates. *)

\* The claim finds the session waiting, where nothing but p1's form can be
\* under way.
LEMMA ClaimKeepsFlow ==
    ASSUME FlowInv, IInv', NEW w \in Workers, JoinClaim(w), exists,
           ClaimFilter(doc, todo[w].late)
    PROVE  FlowInv'
<1>1. /\ todo[w].token \in Guests /\ todo[w].next \in {"form", "matching"}
      /\ todo[w].step = "join.claim"
  BY CallFields DEF JoinClaim, FlowInv, IInv, TypeOK
<1>2. /\ doc'.guest = todo[w].token /\ doc'.status = todo[w].next
      /\ doc'.mode = doc.mode /\ doc'.formReady = doc.formReady
      /\ doc'.swipesDone = doc.swipesDone /\ doc'.rounds = doc.rounds
  BY DEF JoinClaim, FlowInv, IInv, TypeOK, Session
<1>3. doc.guest = NoGuest /\ doc.status = "waiting-for-partner" /\ doc'.guest # NoGuest
  BY <1>1, <1>2, TokenAssumption DEF ClaimFilter, FlowInv, IInv, WaitingIffAlone
<1>4. \A s \in Slots : ~doc.swipesDone[s]
  BY <1>3 DEF FlowInv, RoundAgrees
<1>5. todo[w].next = "matching" => doc.mode = "solo-entry" /\ doc.formReady["p1"]
  BY <1>1 DEF FlowInv, CallAgrees
<1>6. RoundAgrees(doc')
  BY <1>1, <1>2, <1>3, <1>4, <1>5 DEF RoundAgrees, BothFormsReady
<1>7. ASSUME NEW v \in Workers
      PROVE  CallAgrees(todo[v], doc')
  <2>1. CallAgrees(todo[v], doc)
    BY DEF FlowInv
  <2> QED
    BY <1>2, <1>3, <2>1 DEF CallAgrees
<1>8. todo' = [todo EXCEPT ![w] = Idle]
  BY DEF JoinClaim, Return, Goto
<1> QED
  BY <1>6, <1>7, <1>8, IdleAgrees, StepKeepsFlow

\* Entries are none of the round's business.
LEMMA EntriesKeepFlow ==
    ASSUME FlowInv, IInv', NEW w \in Workers, PutEntriesUpdate(w), exists
    PROVE  FlowInv'
<1>1. /\ doc'.mode = doc.mode /\ doc'.guest = doc.guest /\ doc'.status = doc.status
      /\ doc'.formReady = doc.formReady /\ doc'.swipesDone = doc.swipesDone
      /\ doc'.rounds = doc.rounds
  BY DEF PutEntriesUpdate, FlowInv, IInv, TypeOK, Session
<1>2. RoundAgrees(doc') /\ \A v \in Workers : CallAgrees(todo[v], doc')
  BY <1>1, FieldsThatMatter DEF FlowInv
<1>3. todo' = [todo EXCEPT ![w] = Idle]
  BY DEF PutEntriesUpdate, Return, Goto
<1> QED
  BY <1>2, <1>3, IdleAgrees, StepKeepsFlow

\* The second of two forms to become ready is the one whose handler moves on:
\* until then no status was pending, because one form was not ready.
LEMMA ReadyKeepsFlow ==
    ASSUME FlowInv, IInv', NEW w \in Workers, MarkReadyUpdate(w), exists
    PROVE  FlowInv'
<1> DEFINE slot == todo[w].slot
           after == [doc EXCEPT !.formReady[slot] = TRUE]
           move == [step |-> "transition", slot |-> slot, to |-> "matching"]
<1>1. /\ slot \in Slots /\ todo[w].step = "ready.update" /\ Admitted(w)
      /\ ~doc.formReady[slot] /\ (doc.mode = "solo-entry" => slot = "p1")
  <2>1. slot \in Slots /\ todo[w].step = "ready.update"
    BY CallFields DEF MarkReadyUpdate, FlowInv, IInv, TypeOK
  <2>2. CallAgrees(todo[w], doc)
    BY DEF FlowInv
  <2> QED
    BY <2>1, <2>2 DEF CallAgrees, Admitted, Joining, JoinSteps, Idle
<1>2. /\ \A s \in Slots : after.formReady[s] = IF s = slot THEN TRUE ELSE doc.formReady[s]
      /\ after.mode = doc.mode /\ after.guest = doc.guest /\ after.status = doc.status
      /\ after.swipesDone = doc.swipesDone /\ after.rounds = doc.rounds
      /\ doc' = after
  BY <1>1 DEF MarkReadyUpdate, FlowInv, IInv, TypeOK, Session
<1>3. doc.mode \in Modes /\ doc.status \in Statuses
  BY DEF FlowInv, IInv, TypeOK, Session
<1>4. ~BothFormsReady(doc)
  BY <1>1, <1>3 DEF BothFormsReady, Modes, Slots
<1>5. /\ doc.status \in {"waiting-for-partner", "form"}
      /\ \A s \in Slots : ~doc.swipesDone[s]
  BY <1>3, <1>4 DEF FlowInv, RoundAgrees, Statuses
<1>6. RoundAgrees(doc')
  BY <1>2, <1>5 DEF RoundAgrees
<1>7. ASSUME NEW v \in Workers \ {w}
      PROVE  CallAgrees(todo[v], doc') /\ todo[v].step # "transition"
  <2>1. CallAgrees(todo[v], doc) /\ todo[v] \in Call
    BY DEF FlowInv, IInv, TypeOK
  <2>2. todo[v].step = "transition" => todo[v].to \in {"matching", "results"}
    BY <2>1, CallFields
  <2>3. todo[v].step # "transition"
    BY <1>4, <1>5, <2>1, <2>2 DEF CallAgrees
  <2>4. todo[v].step \in {"entries.update", "ready.find", "ready.update"}
          => todo[v].slot \in Slots \ {slot}
    <3>1. todo[v].step \in {"entries.update", "ready.find", "ready.update"}
            => Admitted(v) /\ todo[v].slot \in Slots
      BY <2>1, CallFields DEF Admitted, Joining, JoinSteps, Idle
    <3> QED
      BY <1>1, <3>1 DEF FlowInv, OneRequestEach
  <2> QED
    BY <1>1, <1>2, <1>5, <2>1, <2>3, <2>4 DEF CallAgrees, Slots
<1>8. CASE BothFormsReady(after) /\ after.status # "matching"
  <2>1. todo' = [todo EXCEPT ![w] = move] /\ move \in Call
    BY <1>1, <1>2, <1>8 DEF MarkReadyUpdate, Returned, Goto, Call
  <2>2. doc.status = "form"
    BY <1>2, <1>5, <1>8 DEF BothFormsReady, FlowInv, IInv, WaitingIffAlone, NothingBeforeGuest,
                           Slots
  <2>3. CallAgrees(move, doc')
    BY <1>2, <1>8, <2>2 DEF CallAgrees
  <2> QED
    BY <1>1, <1>6, <1>7, <2>1, <2>3, StepKeepsFlow
<1>9. CASE ~(BothFormsReady(after) /\ after.status # "matching")
  <2>1. todo' = [todo EXCEPT ![w] = Idle]
    BY <1>9 DEF MarkReadyUpdate, Returned, Return, Goto
  <2> QED
    BY <1>6, <1>7, <2>1, IdleAgrees, StepKeepsFlow
<1> QED
  BY <1>8, <1>9

\* The second to finish swiping is the one whose handler moves on to results:
\* no other request of this round is under way then.
LEMMA SwipesKeepFlow ==
    ASSUME FlowInv, IInv', NEW w \in Workers, SubmitSwipesUpdate(w), exists
    PROVE  FlowInv'
<1> DEFINE slot == todo[w].slot
           after == [doc EXCEPT !.likes[slot] = todo[w].likes, !.swipesDone[slot] = TRUE]
           move == [step |-> "transition", slot |-> slot, to |-> "results"]
<1>1. /\ slot \in Slots /\ todo[w].step = "swipes.update" /\ Admitted(w)
      /\ doc.status = "matching" /\ ~doc.swipesDone[slot]
  <2>1. slot \in Slots /\ todo[w].step = "swipes.update"
    BY CallFields DEF SubmitSwipesUpdate, FlowInv, IInv, TypeOK
  <2>2. CallAgrees(todo[w], doc)
    BY DEF FlowInv
  <2> QED
    BY <2>1, <2>2 DEF CallAgrees, Admitted, Joining, JoinSteps, Idle
<1>2. /\ \A s \in Slots : after.swipesDone[s] = IF s = slot THEN TRUE ELSE doc.swipesDone[s]
      /\ after.mode = doc.mode /\ after.guest = doc.guest /\ after.status = doc.status
      /\ after.formReady = doc.formReady /\ after.rounds = doc.rounds
      /\ doc' = after
  BY <1>1 DEF SubmitSwipesUpdate, FlowInv, IInv, TypeOK, Session
<1>3. ~BothSwiped(doc)
  BY <1>1 DEF BothSwiped, Slots
<1>4. BothFormsReady(doc') <=> BothFormsReady(doc)
  BY <1>2 DEF BothFormsReady
<1>5. RoundAgrees(doc')
  BY <1>1, <1>2, <1>4 DEF RoundAgrees, FlowInv
<1>6. ASSUME NEW v \in Workers \ {w}
      PROVE  CallAgrees(todo[v], doc') /\ todo[v].step # "transition"
  <2>1. CallAgrees(todo[v], doc) /\ todo[v] \in Call
    BY DEF FlowInv, IInv, TypeOK
  <2>2. todo[v].step = "transition" => todo[v].to \in {"matching", "results"}
    BY <2>1, CallFields
  <2>3. todo[v].step # "transition"
    BY <1>1, <1>3, <2>1, <2>2 DEF CallAgrees
  <2>4. todo[v].step \in {"swipes.update", "rematch.find", "rematch.update"}
          => todo[v].slot \in Slots \ {slot}
    <3>1. todo[v].step \in {"swipes.update", "rematch.find", "rematch.update"}
            => Admitted(v) /\ todo[v].slot \in Slots
      BY <2>1, CallFields DEF Admitted, Joining, JoinSteps, Idle
    <3> QED
      BY <1>1, <3>1 DEF FlowInv, OneRequestEach
  <2> QED
    BY <1>1, <1>2, <2>1, <2>3, <2>4 DEF CallAgrees, Slots
<1>7. CASE BothSwiped(after) /\ after.status # "results"
  <2>1. todo' = [todo EXCEPT ![w] = move] /\ move \in Call
    BY <1>1, <1>2, <1>7 DEF SubmitSwipesUpdate, Returned, Goto, Call
  <2>2. CallAgrees(move, doc')
    BY <1>1, <1>2, <1>7 DEF CallAgrees
  <2> QED
    BY <1>1, <1>5, <1>6, <2>1, <2>2, StepKeepsFlow
<1>8. CASE ~(BothSwiped(after) /\ after.status # "results")
  <2>1. todo' = [todo EXCEPT ![w] = Idle]
    BY <1>8 DEF SubmitSwipesUpdate, Returned, Return, Goto
  <2> QED
    BY <1>5, <1>6, <2>1, IdleAgrees, StepKeepsFlow
<1> QED
  BY <1>7, <1>8

\* A late call to transition still finds the status it was to move on from,
\* and nobody whose call counts on that status.
LEMMA TransitionKeepsFlow ==
    ASSUME FlowInv, IInv', NEW w \in Workers, Transition(w), exists
    PROVE  FlowInv'
<1> DEFINE to == todo[w].to
<1>1. /\ to \in {"matching", "results"} /\ todo[w].step = "transition"
      /\ to = "matching" => doc.status = "form" /\ BothFormsReady(doc)
      /\ to = "results" => doc.status = "matching" /\ BothSwiped(doc)
  <2>1. to \in {"matching", "results"} /\ todo[w].step = "transition"
    BY CallFields DEF Transition, FlowInv, IInv, TypeOK
  <2>2. CallAgrees(todo[w], doc)
    BY DEF FlowInv
  <2> QED
    BY <2>1, <2>2 DEF CallAgrees
<1>2. /\ doc'.mode = doc.mode /\ doc'.guest = doc.guest /\ doc'.status = to
      /\ doc'.formReady = doc.formReady /\ doc'.swipesDone = doc.swipesDone
      /\ doc'.rounds = doc.rounds
  BY <1>1 DEF Transition, FlowInv, IInv, TypeOK, Session
<1>3. (BothFormsReady(doc') <=> BothFormsReady(doc)) /\ (BothSwiped(doc') <=> BothSwiped(doc))
  BY <1>2 DEF BothFormsReady, BothSwiped
<1>4. BothFormsReady(doc)
  BY <1>1 DEF FlowInv, RoundAgrees
<1>5. RoundAgrees(doc')
  BY <1>1, <1>2, <1>3, <1>4 DEF RoundAgrees
<1>6. ASSUME NEW v \in Workers \ {w}
      PROVE  CallAgrees(todo[v], doc')
  <2>1. CallAgrees(todo[v], doc) /\ todo[v] \in Call /\ todo[v].step # "transition"
    BY <1>1 DEF FlowInv, IInv, TypeOK, OneTransition
  <2>2. ASSUME to = "matching"
        PROVE  todo[v].step \notin {"swipes.update", "rematch.find", "rematch.update"}
    BY <1>1, <2>1, <2>2 DEF CallAgrees
  <2>3. ASSUME to = "results"
        PROVE  todo[v].step \notin {"swipes.update", "rematch.find", "rematch.update"}
    <3>1. todo[v].step \in {"swipes.update", "rematch.find", "rematch.update"}
            => todo[v].slot \in Slots
      BY <2>1, CallFields
    <3> QED
      BY <1>1, <2>1, <2>3, <3>1 DEF CallAgrees, BothSwiped, Slots
  <2> QED
    BY <1>1, <1>2, <2>1, <2>2, <2>3 DEF CallAgrees
<1>7. todo' = [todo EXCEPT ![w] = Idle]
  BY DEF Transition, Return, Goto
<1> QED
  BY <1>5, <1>6, <1>7, IdleAgrees, StepKeepsFlow

\* A rematch that finds both swiped finds the results.
LEMMA RematchFindKeepsFlow ==
    ASSUME FlowInv, IInv', NEW w \in Workers, RematchFind(w), BothSwiped(doc),
           NEW call \in Call, todo' = [todo EXCEPT ![w] = call],
           call.step = "rematch.update", call.slot = todo[w].slot,
           call.rounds = doc.rounds + 1
    PROVE  FlowInv'
<1>1. todo[w].slot \in Slots /\ todo[w].step = "rematch.find" /\ doc' = doc
  BY CallFields DEF RematchFind, FlowInv, IInv, TypeOK
<1>2. Admitted(w)
  BY <1>1 DEF Admitted, Joining, JoinSteps, Idle
<1>3. CallAgrees(todo[w], doc)
  BY DEF FlowInv
<1>4. CallAgrees(call, doc)
  BY <1>1, <1>3 DEF CallAgrees
<1>5. RoundAgrees(doc') /\ \A v \in Workers : CallAgrees(todo[v], doc')
  BY <1>1 DEF FlowInv
<1> QED
  BY <1>1, <1>2, <1>4, <1>5, StepKeepsFlow

\* A new round finds the session in results, or in a round of which its own
\* participant has yet to finish swiping, so that nobody is about to end it.
LEMMA RematchKeepsFlow ==
    ASSUME FlowInv, IInv', NEW w \in Workers, RematchUpdate(w), exists
    PROVE  FlowInv'
<1>1. /\ doc.status \in {"matching", "results"}
      /\ doc.status = "matching" => ~BothSwiped(doc)
  <2>1. todo[w].slot \in Slots /\ todo[w].step = "rematch.update"
    BY CallFields DEF RematchUpdate, FlowInv, IInv, TypeOK
  <2>2. CallAgrees(todo[w], doc)
    BY DEF FlowInv
  <2> QED
    BY <2>1, <2>2 DEF CallAgrees, BothSwiped, Slots
<1>2. /\ doc'.mode = doc.mode /\ doc'.guest = doc.guest /\ doc'.status = "matching"
      /\ doc'.formReady = doc.formReady /\ \A s \in Slots : ~doc'.swipesDone[s]
  BY DEF RematchUpdate, NewRound, FlowInv, IInv, TypeOK, Session
<1>3. BothFormsReady(doc') <=> BothFormsReady(doc)
  BY <1>2 DEF BothFormsReady
<1>4. RoundAgrees(doc')
  BY <1>1, <1>2, <1>3 DEF RoundAgrees, FlowInv
<1>5. ASSUME NEW v \in Workers \ {w}
      PROVE  CallAgrees(todo[v], doc')
  <2>1. CallAgrees(todo[v], doc) /\ todo[v] \in Call
    BY DEF FlowInv, IInv, TypeOK
  <2>2. todo[v].step # "transition"
    <3>1. todo[v].step = "transition" => todo[v].to \in {"matching", "results"}
      BY <2>1, CallFields
    <3> QED
      BY <1>1, <2>1, <3>1 DEF CallAgrees
  <2>3. todo[v].step \in {"swipes.update", "rematch.find", "rematch.update"}
          => todo[v].slot \in Slots
    BY <2>1, CallFields
  <2> QED
    BY <1>2, <2>1, <2>2, <2>3 DEF CallAgrees
<1>6. todo' = [todo EXCEPT ![w] = Idle]
  BY DEF RematchUpdate, Return, Goto
<1> QED
  BY <1>4, <1>5, <1>6, IdleAgrees, StepKeepsFlow

-----------------------------------------------------------------------------
(* Every step keeps the invariant: one step per action. *)

\* A session nobody has joined satisfies the invariant.
LEMMA InitFlow == Init => FlowInv
<1> SUFFICES ASSUME Init PROVE FlowInv
  OBVIOUS
<1>1. IInv /\ \A w \in Workers : todo[w] = Idle
  BY InitIInv DEF Init
<1>2. doc.status = "waiting-for-partner" /\ \A s \in Slots : ~doc.swipesDone[s]
  BY DEF Init, NewSession
<1>3. RoundAgrees(doc)
  BY <1>2 DEF RoundAgrees
<1>4. \A w \in Workers : CallAgrees(todo[w], doc)
  BY <1>1, IdleAgrees
<1>5. OneRequestEach /\ OneTransition
  BY <1>1 DEF OneRequestEach, OneTransition, Admitted, Idle
<1> QED
  BY <1>1, <1>3, <1>4, <1>5 DEF FlowInv

\* One step per action of the handlers.
LEMMA NextFlow == Disciplined /\ FlowInv /\ [Next]_vars => FlowInv'
<1> SUFFICES ASSUME Disciplined, FlowInv, [Next]_vars
             PROVE  FlowInv'
  OBVIOUS
<1>1. IInv' /\ TypeOK
  BY NextIInv DEF FlowInv, IInv
<1>2. ASSUME NEW w \in Workers, JoinSession(w)
      PROVE  FlowInv'
  <2>1. PICK token \in Guests :
          todo' = [todo EXCEPT ![w] =
                     [step |-> "join.find", token |-> token, late |-> expired]]
    BY <1>2 DEF JoinSession, Goto
  <2> DEFINE find == [step |-> "join.find", token |-> token, late |-> expired]
  <2>2. find \in Call /\ CallAgrees(find, doc)
    BY <1>1 DEF Call, TypeOK, CallAgrees
  <2>3. doc' = doc /\ RoundAgrees(doc) /\ \A v \in Workers : CallAgrees(todo[v], doc)
    BY <1>2 DEF JoinSession, FlowInv
  <2> QED
    BY <1>1, <2>1, <2>2, <2>3, StepKeepsFlow
<1>3. ASSUME NEW w \in Workers, JoinFind(w)
      PROVE  FlowInv'
  <2> DEFINE claim == [step |-> "join.claim", token |-> todo[w].token,
                       late |-> todo[w].late, next |-> NextStatusOnJoin(doc)]
  <2>1. /\ todo[w].token \in Guests /\ todo[w].late \in BOOLEAN
        /\ NextStatusOnJoin(doc) \in {"form", "matching"}
    BY <1>1, <1>3, CallFields DEF JoinFind, NextStatusOnJoin, TypeOK
  <2>2. claim \in Call /\ CallAgrees(claim, doc)
    BY <2>1 DEF Call, CallAgrees, NextStatusOnJoin
  <2>3. doc' = doc /\ RoundAgrees(doc) /\ \A v \in Workers : CallAgrees(todo[v], doc)
    BY <1>3 DEF JoinFind, FlowInv
  <2>4. CASE todo' = [todo EXCEPT ![w] = claim]
    BY <1>1, <2>2, <2>3, <2>4, StepKeepsFlow
  <2>5. CASE Return(w)
    BY <1>1, <2>3, <2>5, ReturnKeepsFlow
  <2> QED
    BY <1>3, <2>4, <2>5 DEF JoinFind, Goto
<1>4. ASSUME NEW w \in Workers, JoinClaim(w)
      PROVE  FlowInv'
  BY <1>1, <1>4, ClaimKeepsFlow, ReturnKeepsFlow DEF JoinClaim
<1>5. ASSUME NEW w \in Workers, PutEntries(w)
      PROVE  FlowInv'
  <2>1. PICK slot \in Slots, list \in EntryLists :
          Admit(w, slot, "entries",
                [step |-> "entries.update", slot |-> slot, entries |-> list])
    BY <1>5 DEF PutEntries
  <2>2. [step |-> "entries.update", slot |-> slot, entries |-> list] \in Call
    BY InputAssumption DEF Call
  <2> QED
    BY <1>1, <2>1, <2>2, AdmitKeepsFlow
<1>6. ASSUME NEW w \in Workers, PutEntriesUpdate(w)
      PROVE  FlowInv'
  BY <1>1, <1>6, EntriesKeepFlow, ReturnKeepsFlow DEF PutEntriesUpdate
<1>7. ASSUME NEW w \in Workers, MarkReady(w)
      PROVE  FlowInv'
  <2>1. PICK slot \in Slots :
          Admit(w, slot, "ready", [step |-> "ready.find", slot |-> slot])
    BY <1>7 DEF MarkReady
  <2>2. [step |-> "ready.find", slot |-> slot] \in Call
    BY DEF Call
  <2> QED
    BY <1>1, <2>1, <2>2, AdmitKeepsFlow
<1>8. ASSUME NEW w \in Workers, MarkReadyFind(w)
      PROVE  FlowInv'
  <2> DEFINE update == [step |-> "ready.update", slot |-> todo[w].slot]
  <2>1. todo[w].slot \in Slots /\ update \in Call /\ Admitted(w)
    BY <1>1, <1>8, CallFields
       DEF MarkReadyFind, Call, TypeOK, Admitted, Joining, JoinSteps, Idle
  <2>2. doc' = doc /\ RoundAgrees(doc) /\ \A v \in Workers : CallAgrees(todo[v], doc)
    BY <1>8 DEF MarkReadyFind, FlowInv
  <2>3. CallAgrees(update, doc)
    BY <1>8, <2>2 DEF MarkReadyFind, CallAgrees
  <2>4. CASE todo' = [todo EXCEPT ![w] = update]
    BY <1>1, <2>1, <2>2, <2>3, <2>4, StepKeepsFlow
  <2>5. CASE Return(w)
    BY <1>1, <2>2, <2>5, ReturnKeepsFlow
  <2> QED
    BY <1>8, <2>4, <2>5 DEF MarkReadyFind, Goto
<1>9. ASSUME NEW w \in Workers, MarkReadyUpdate(w)
      PROVE  FlowInv'
  BY <1>1, <1>9, ReadyKeepsFlow, ReturnKeepsFlow DEF MarkReadyUpdate
<1>10. ASSUME NEW w \in Workers, SubmitSwipes(w)
       PROVE  FlowInv'
  <2>1. PICK slot \in Slots, list \in LikeLists :
          Admit(w, slot, "swipes",
                [step |-> "swipes.update", slot |-> slot, likes |-> list])
    BY <1>10 DEF SubmitSwipes
  <2>2. [step |-> "swipes.update", slot |-> slot, likes |-> list] \in Call
    BY InputAssumption DEF Call
  <2> QED
    BY <1>1, <2>1, <2>2, AdmitKeepsFlow
<1>11. ASSUME NEW w \in Workers, SubmitSwipesUpdate(w)
       PROVE  FlowInv'
  BY <1>1, <1>11, SwipesKeepFlow, ReturnKeepsFlow DEF SubmitSwipesUpdate
<1>12. ASSUME NEW w \in Workers, Transition(w)
       PROVE  FlowInv'
  BY <1>1, <1>12, TransitionKeepsFlow, ReturnKeepsFlow DEF Transition
<1>13. ASSUME NEW w \in Workers, Rematch(w)
       PROVE  FlowInv'
  <2>1. PICK slot \in Slots, narrow \in BOOLEAN :
          Admit(w, slot, "rematch",
                [step |-> "rematch.find", slot |-> slot, narrow |-> narrow])
    BY <1>13 DEF Rematch
  <2>2. [step |-> "rematch.find", slot |-> slot, narrow |-> narrow] \in Call
    BY DEF Call
  <2> QED
    BY <1>1, <2>1, <2>2, AdmitKeepsFlow
<1>14. ASSUME NEW w \in Workers, RematchFind(w)
       PROVE  FlowInv'
  <2> DEFINE deck == IF todo[w].narrow THEN Matches(doc) ELSE {}
             update == [step |-> "rematch.update", slot |-> todo[w].slot,
                        rounds |-> doc.rounds + 1, deck |-> deck]
  <2>1. deck \in SUBSET Ids
    BY <1>1, MatchesTyped DEF TypeOK
  <2>2. update \in Call
    <3>1. todo[w].slot \in Slots /\ doc.rounds + 1 \in Nat
      BY <1>1, <1>14, CallFields DEF RematchFind, TypeOK, Session
    <3> QED
      BY <2>1, <3>1 DEF Call
  <2>3. CASE BothSwiped(doc) /\ todo' = [todo EXCEPT ![w] = update]
    BY <1>1, <1>14, <2>2, <2>3, RematchFindKeepsFlow
  <2>4. CASE Return(w)
    BY <1>1, <1>14, <2>4, ReturnKeepsFlow DEF RematchFind
  <2> QED
    BY <1>14, <2>3, <2>4 DEF RematchFind, Goto
<1>15. ASSUME NEW w \in Workers, RematchUpdate(w)
       PROVE  FlowInv'
  BY <1>1, <1>15, RematchKeepsFlow, ReturnKeepsFlow DEF RematchUpdate
<1>16. ASSUME NEW w \in Workers, Abort(w)
       PROVE  FlowInv'
  BY <1>1, <1>16, ReturnKeepsFlow DEF Abort
<1>17. CASE Expire \/ CleanupExpired \/ UNCHANGED vars
  <2>1. doc' = doc /\ todo' = todo
    BY <1>17 DEF Expire, CleanupExpired, vars
  <2> QED
    BY <1>1, <2>1 DEF FlowInv, OneRequestEach, OneTransition, Admitted, Joining
<1> QED
  BY <1>2, <1>3, <1>4, <1>5, <1>6, <1>7, <1>8, <1>9, <1>10, <1>11, <1>12,
     <1>13, <1>14, <1>15, <1>16, <1>17
     DEF Next, Request, Proceed

\* The inductive invariant of the flow.
THEOREM FlowInductive ==
    ASSUME Disciplined
    PROVE  Spec => []FlowInv
<1>1. FlowInv /\ [Next]_vars => FlowInv'
  BY NextFlow
<1> QED
  BY <1>1, InitFlow, PTL DEF Spec

\* Results are shown only when both participants have finished swiping the
\* round, however their requests and the rematches they ask for overlap.
THEOREM ResultsFollowSwipes ==
    ASSUME Disciplined
    PROVE  Spec => []ResultsMeanSwiped
<1>1. FlowInv => ResultsMeanSwiped
  BY DEF FlowInv, RoundAgrees, BothSwiped, ResultsMeanSwiped, Slots
<1> QED
  BY <1>1, FlowInductive, PTL

\* Only a rematch decided on in results takes the session out of them.
LEMMA NextOpensRound ==
    ASSUME FlowInv, [Next]_vars, doc.status = "results", doc'.status # "results"
    PROVE  /\ doc'.status = "matching"
           /\ doc'.rounds = doc.rounds + 1
           /\ \A s \in Slots : ~doc'.swipesDone[s]
<1>1. doc.guest # NoGuest /\ \A w \in Workers : CallAgrees(todo[w], doc)
  BY DEF FlowInv, IInv, WaitingIffAlone
<1>2. ASSUME NEW w \in Workers, RematchUpdate(w)
      PROVE  /\ doc'.status = "matching"
             /\ doc'.rounds = doc.rounds + 1
             /\ \A s \in Slots : ~doc'.swipesDone[s]
  <2>1. exists /\ todo[w].step = "rematch.update"
    BY <1>2 DEF RematchUpdate
  <2>2. todo[w].rounds = doc.rounds + 1
    BY <1>1, <2>1 DEF CallAgrees
  <2> QED
    BY <1>2, <2>1, <2>2 DEF RematchUpdate, NewRound, FlowInv, IInv, TypeOK, Session
<1>3. ASSUME NEW w \in Workers, Transition(w)
      PROVE  FALSE
  <2>1. todo[w].step = "transition" /\ todo[w].to \in {"matching", "results"}
    BY <1>3, CallFields DEF Transition, FlowInv, IInv, TypeOK
  <2> QED
    BY <1>1, <2>1 DEF CallAgrees
<1>4. ASSUME NEW w \in Workers, JoinClaim(w)
      PROVE  FALSE
  BY <1>1, <1>4 DEF JoinClaim, ClaimFilter
<1>5. ASSUME NEW w \in Workers,
             PutEntriesUpdate(w) \/ MarkReadyUpdate(w) \/ SubmitSwipesUpdate(w)
      PROVE  FALSE
  BY <1>5 DEF PutEntriesUpdate, MarkReadyUpdate, SubmitSwipesUpdate, FlowInv, IInv, TypeOK,
              Session
<1>6. ASSUME NEW w \in Workers, Request(w) \/ JoinFind(w) \/ MarkReadyFind(w)
                \/ RematchFind(w) \/ Abort(w)
      PROVE  FALSE
  BY <1>6 DEF Request, JoinSession, PutEntries, MarkReady, SubmitSwipes, Rematch,
              Admit, JoinFind, MarkReadyFind, RematchFind, Abort
<1>7. CASE Expire \/ CleanupExpired \/ UNCHANGED vars
  BY <1>7 DEF Expire, CleanupExpired, vars
<1> QED
  BY <1>2, <1>3, <1>4, <1>5, <1>6, <1>7 DEF Next, Proceed

\* A session leaves results only into the next round, counted once however
\* many rematches are asked for at the same time.
THEOREM ResultsLeadToNextRound ==
    ASSUME Disciplined
    PROVE  Spec => ResultsOpenNewRound
<1>1. FlowInv /\ [Next]_vars
        => [doc.status = "results" /\ doc'.status # "results"
              => /\ doc'.status = "matching"
                 /\ doc'.rounds = doc.rounds + 1
                 /\ \A s \in Slots : ~doc'.swipesDone[s]]_vars
  BY NextOpensRound
<1> QED
  BY <1>1, FlowInductive, PTL DEF Spec, ResultsOpenNewRound

-----------------------------------------------------------------------------
(* The deck. *)

\* Nobody's likes are cards of any entries.
LEMMA NoLikes ==
    ASSUME NEW cards, NEW entries
    PROVE  LikesCards(<<>>, cards, entries)
<1> DEFINE none == [i \in 1 .. Len(<<>>) |-> i]
<1>1. 1 .. Len(<<>>) = {}
  OBVIOUS
<1>2. none \in [1 .. Len(<<>>) -> cards]
  BY <1>1
<1> QED
  BY <1>1, <1>2 DEF LikesCards

\* Likes of a narrowed deck are likes of the entries it was narrowed from.
LEMMA LikesOfDeck ==
    ASSUME NEW d, NEW list, LikesCards(list, Deck(d), d.entries)
    PROVE  LikesCards(list, Combined(d.entries), d.entries)
<1>1. Deck(d) \subseteq Combined(d.entries)
  BY DEF Deck
<1>2. \A n : [1 .. n -> Deck(d)] \subseteq [1 .. n -> Combined(d.entries)]
  BY <1>1
<1> QED
  BY <1>2, Zenon DEF LikesCards

\* Two matches, each a card of its own, make a deck of two cards at least,
\* although they may have one title.
LEMMA NarrowedDeck ==
    ASSUME NEW d \in Session, CanNarrow(d),
           LikesCards(d.likes["p2"], Combined(d.entries), d.entries)
    PROVE  TwoCards(Matches(d), d.entries)
<1> DEFINE likes == d.likes["p2"]
           all == Combined(d.entries)
<1>1. likes \in Seq(Ids) /\ Len(likes) \in Nat
  BY DEF Session, Slots
<1>2. MatchedPositions(d) \subseteq 1 .. Len(likes)
  BY DEF MatchedPositions
<1>3. IsFiniteSet(MatchedPositions(d)) /\ Cardinality(MatchedPositions(d)) >= 2
  <2>1. IsFiniteSet(1 .. Len(likes))
    BY <1>1, FS_Interval
  <2>2. IsFiniteSet(MatchedPositions(d))
    BY <1>2, <2>1, FS_Subset
  <2> QED
    BY <2>2 DEF CanNarrow
<1>4. PICK i \in MatchedPositions(d), j \in MatchedPositions(d) : i # j
  <2>1. MatchedPositions(d) # {}
    BY <1>3, FS_EmptySet
  <2>2. PICK i \in MatchedPositions(d) : TRUE
    BY <2>1
  <2>3. MatchedPositions(d) # {i}
    BY <1>3, FS_Singleton
  <2> QED
    BY <2>2, <2>3
<1>5. PICK card \in [1 .. Len(likes) -> all] :
        /\ \A k \in 1 .. Len(likes) : Title(card[k], d.entries) = likes[k]
        /\ \A k, m \in 1 .. Len(likes) : card[k] = card[m] => k = m
  BY DEF LikesCards
<1>6. /\ card[i] \in all /\ card[j] \in all /\ card[i] # card[j]
      /\ Title(card[i], d.entries) = likes[i] /\ Title(card[j], d.entries) = likes[j]
  BY <1>2, <1>4, <1>5
<1>7. likes[i] \in Matches(d) /\ likes[j] \in Matches(d)
  BY <1>4 DEF Matches
<1> QED
  BY <1>6, <1>7 DEF TwoCards

\* A finite set of two elements has cardinality two at least.
LEMMA TwoElements ==
    ASSUME NEW S, IsFiniteSet(S), NEW x \in S, NEW y \in S, x # y
    PROVE  Cardinality(S) >= 2
<1>1. Cardinality(S \ {x}) = Cardinality(S) - 1 /\ IsFiniteSet(S \ {x})
  BY FS_RemoveElement
<1>2. Cardinality(S \ {x}) \in Nat /\ Cardinality(S) \in Nat
  BY <1>1, FS_CardinalityType
<1>3. Cardinality(S \ {x}) # 0
  BY <1>1, FS_EmptySet
<1> QED
  BY <1>1, <1>2, <1>3

\* A step that leaves the entries, p2's likes and the deck, and takes up no call
\* of its own about them, keeps what narrowing needs.
LEMMA StepKeepsNarrow ==
    ASSUME TypeOK, NarrowInv, NEW w \in Workers, NEW call,
           todo' = [todo EXCEPT ![w] = call],
           doc'.entries = doc.entries, doc'.likes["p2"] = doc.likes["p2"],
           doc'.activeDeck = doc.activeDeck,
           \/ doc'.status \in {"matching", "results"}
           \/ doc.status \notin {"matching", "results"},
           call.step = "swipes.update"
               => LikesCards(call.likes, Combined(doc.entries), doc.entries),
           call.step = "rematch.update" /\ call.deck # {} => TwoCards(call.deck, doc.entries)
    PROVE  NarrowInv'
<1>1. todo'[w] = call /\ \A v \in Workers \ {w} : todo'[v] = todo[v]
  BY DEF TypeOK
<1>2. ASSUME NEW v \in Workers
      PROVE  /\ todo'[v].step = "swipes.update"
                  => LikesCards(todo'[v].likes, Combined(doc.entries), doc.entries)
             /\ todo'[v].step = "rematch.update" /\ todo'[v].deck # {}
                  => TwoCards(todo'[v].deck, doc.entries)
  BY <1>1 DEF NarrowInv
<1> QED
  BY <1>2 DEF NarrowInv

\* A session nobody has joined has neither likes nor a narrowed deck.
LEMMA InitDeck == Init => DeckInv
<1> SUFFICES ASSUME Init PROVE DeckInv
  OBVIOUS
<1>1. \A w \in Workers : todo[w].step = "idle"
  BY DEF Init, Idle
<1>2. doc.likes["p2"] = <<>> /\ doc.activeDeck = {}
  BY DEF Init, NewSession, Slots
<1> QED
  BY <1>1, <1>2, InitFlow, NoLikes DEF DeckInv, NarrowInv

\* Entries are replaced only while nothing depends on them.
LEMMA EntriesKeepNarrow ==
    ASSUME DeckInv, NEW w \in Workers, PutEntriesUpdate(w), exists
    PROVE  NarrowInv'
<1>1. TypeOK
  BY DEF DeckInv, FlowInv, IInv
<1>2. doc.status \notin {"matching", "results"}
  <2>1. todo[w].slot \in Slots /\ todo[w].step = "entries.update"
    BY <1>1, CallFields DEF PutEntriesUpdate, TypeOK
  <2>2. CallAgrees(todo[w], doc) /\ RoundAgrees(doc)
    BY DEF DeckInv, FlowInv
  <2>3. ~BothFormsReady(doc)
    BY <1>1, <2>1, <2>2 DEF CallAgrees, BothFormsReady, Slots, TypeOK, Session, Modes
  <2> QED
    BY <2>2, <2>3 DEF RoundAgrees
<1>3. doc.likes["p2"] = <<>> /\ doc.activeDeck = {}
  BY <1>2 DEF DeckInv, NarrowInv
<1>4. doc'.likes["p2"] = <<>> /\ doc'.activeDeck = {}
  BY <1>1, <1>3 DEF PutEntriesUpdate, TypeOK, Session
<1>5. \A v \in Workers : todo[v].step \notin {"swipes.update", "rematch.update"}
  BY <1>2 DEF DeckInv, FlowInv, CallAgrees
<1>6. \A v \in Workers : todo'[v] = todo[v] \/ todo'[v].step = "idle"
  BY <1>1 DEF PutEntriesUpdate, Return, Goto, TypeOK, Idle
<1> QED
  BY <1>4, <1>5, <1>6, NoLikes DEF NarrowInv

\* The likes stored are those of the pending call.
LEMMA SwipesKeepNarrow ==
    ASSUME DeckInv, NEW w \in Workers, SubmitSwipesUpdate(w), exists
    PROVE  NarrowInv'
<1>1. TypeOK /\ todo[w].slot \in Slots /\ todo[w].step = "swipes.update"
  BY CallFields DEF SubmitSwipesUpdate, DeckInv, FlowInv, IInv, TypeOK
<1>2. doc.status = "matching"
  BY <1>1 DEF DeckInv, FlowInv, CallAgrees
<1>3. /\ doc'.likes["p2"] \in {todo[w].likes, doc.likes["p2"]}
      /\ doc'.entries = doc.entries /\ doc'.activeDeck = doc.activeDeck
      /\ doc'.status = doc.status
  BY <1>1 DEF SubmitSwipesUpdate, TypeOK, Session, Slots
<1>4. LikesCards(doc'.likes["p2"], Combined(doc.entries), doc.entries)
  BY <1>1, <1>3 DEF DeckInv, NarrowInv
<1>5. \A v \in Workers : \/ todo'[v] = todo[v]
                         \/ todo'[v].step \in {"idle", "transition"}
  BY <1>1 DEF SubmitSwipesUpdate, Return, Goto, TypeOK, Idle
<1>6. ASSUME NEW v \in Workers
      PROVE  /\ todo'[v].step = "swipes.update"
                  => LikesCards(todo'[v].likes, Combined(doc.entries), doc.entries)
             /\ todo'[v].step = "rematch.update" /\ todo'[v].deck # {}
                  => TwoCards(todo'[v].deck, doc.entries)
  BY <1>5 DEF DeckInv, NarrowInv
<1>7. doc.activeDeck # {} => TwoCards(doc.activeDeck, doc.entries)
  BY DEF DeckInv, NarrowInv
<1> QED
  BY <1>2, <1>3, <1>4, <1>6, <1>7 DEF NarrowInv

\* A new round takes the deck of the pending call and drops the likes.
LEMMA RematchKeepsNarrow ==
    ASSUME DeckInv, NEW w \in Workers, RematchUpdate(w), exists
    PROVE  NarrowInv'
<1>1. TypeOK /\ todo[w].step = "rematch.update"
  BY DEF RematchUpdate, DeckInv, FlowInv, IInv
<1>2. /\ doc'.likes["p2"] = <<>> /\ doc'.activeDeck = todo[w].deck
      /\ doc'.entries = doc.entries /\ doc'.status = "matching"
  BY <1>1 DEF RematchUpdate, NewRound, TypeOK, Session, Slots
<1>3. doc'.activeDeck # {} => TwoCards(doc'.activeDeck, doc.entries)
  BY <1>1, <1>2 DEF DeckInv, NarrowInv
<1>4. \A v \in Workers : todo'[v] = todo[v] \/ todo'[v].step = "idle"
  BY <1>1 DEF RematchUpdate, Return, Goto, TypeOK, Idle
<1>5. ASSUME NEW v \in Workers
      PROVE  /\ todo'[v].step = "swipes.update"
                  => LikesCards(todo'[v].likes, Combined(doc.entries), doc.entries)
             /\ todo'[v].step = "rematch.update" /\ todo'[v].deck # {}
                  => TwoCards(todo'[v].deck, doc.entries)
  BY <1>4 DEF DeckInv, NarrowInv
<1> QED
  BY <1>2, <1>3, <1>5, NoLikes DEF NarrowInv

\* One step per action of the handlers.
LEMMA NextDeck == Disciplined /\ DeckInv /\ [Next]_vars => DeckInv'
<1> SUFFICES ASSUME Disciplined, DeckInv, [Next]_vars
             PROVE  DeckInv'
  OBVIOUS
<1>1. FlowInv' /\ FlowInv /\ TypeOK /\ NarrowInv
  BY NextFlow DEF DeckInv, FlowInv, IInv
<1>2. ASSUME NEW w \in Workers, Return(w), doc' = doc
      PROVE  NarrowInv'
  BY <1>1, <1>2, StepKeepsNarrow, IdleAgrees DEF Return, Goto
<1>3. ASSUME NEW w \in Workers, JoinSession(w)
      PROVE  NarrowInv'
  BY <1>1, <1>3, StepKeepsNarrow DEF JoinSession, Goto
<1>4. ASSUME NEW w \in Workers, JoinFind(w)
      PROVE  NarrowInv'
  BY <1>1, <1>2, <1>4, StepKeepsNarrow DEF JoinFind, Goto
<1>5. ASSUME NEW w \in Workers, JoinClaim(w)
      PROVE  NarrowInv'
  <2>1. CASE exists /\ ClaimFilter(doc, todo[w].late)
    <3>1. doc.status = "waiting-for-partner"
      BY <1>1, <2>1 DEF ClaimFilter, FlowInv, IInv, WaitingIffAlone
    <3>2. /\ doc'.entries = doc.entries /\ doc'.likes = doc.likes
          /\ doc'.activeDeck = doc.activeDeck
      BY <1>1, <1>5 DEF JoinClaim, TypeOK, Session
    <3> QED
      BY <1>1, <1>5, <3>1, <3>2, StepKeepsNarrow, IdleAgrees DEF JoinClaim, Return, Goto
  <2>2. CASE ~(exists /\ ClaimFilter(doc, todo[w].late))
    BY <1>2, <1>5, <2>2 DEF JoinClaim
  <2> QED
    BY <2>1, <2>2
<1>6. ASSUME NEW w \in Workers, PutEntries(w)
      PROVE  NarrowInv'
  <2>1. PICK slot \in Slots, list \in EntryLists :
          Admit(w, slot, "entries",
                [step |-> "entries.update", slot |-> slot, entries |-> list])
    BY <1>6 DEF PutEntries
  <2> QED
    BY <1>1, <2>1, StepKeepsNarrow DEF Admit, Goto
<1>7. ASSUME NEW w \in Workers, PutEntriesUpdate(w)
      PROVE  NarrowInv'
  BY <1>2, <1>7, EntriesKeepNarrow DEF PutEntriesUpdate
<1>8. ASSUME NEW w \in Workers, MarkReady(w)
      PROVE  NarrowInv'
  <2>1. PICK slot \in Slots :
          Admit(w, slot, "ready", [step |-> "ready.find", slot |-> slot])
    BY <1>8 DEF MarkReady
  <2> QED
    BY <1>1, <2>1, StepKeepsNarrow DEF Admit, Goto
<1>9. ASSUME NEW w \in Workers, MarkReadyFind(w)
      PROVE  NarrowInv'
  BY <1>1, <1>2, <1>9, StepKeepsNarrow DEF MarkReadyFind, Goto
<1>10. ASSUME NEW w \in Workers, MarkReadyUpdate(w)
       PROVE  NarrowInv'
  <2>1. CASE exists
    <3>1. /\ doc'.entries = doc.entries /\ doc'.likes = doc.likes
          /\ doc'.activeDeck = doc.activeDeck /\ doc'.status = doc.status
      BY <1>1, <1>10, <2>1 DEF MarkReadyUpdate, TypeOK, Session
    <3>2. \/ todo' = [todo EXCEPT ![w] = Idle]
          \/ todo' = [todo EXCEPT ![w] = [step |-> "transition", slot |-> todo[w].slot,
                                          to |-> "matching"]]
      BY <1>10 DEF MarkReadyUpdate, Return, Goto
    <3> QED
      BY <1>1, <3>1, <3>2, StepKeepsNarrow, IdleAgrees
  <2>2. CASE ~exists
    BY <1>2, <1>10, <2>2 DEF MarkReadyUpdate
  <2> QED
    BY <2>1, <2>2
<1>11. ASSUME NEW w \in Workers, SubmitSwipes(w)
       PROVE  NarrowInv'
  <2>1. PICK slot \in Slots, list \in LikeLists :
          /\ LikesCards(list, Deck(doc), doc.entries)
          /\ Admit(w, slot, "swipes",
                   [step |-> "swipes.update", slot |-> slot, likes |-> list])
    BY <1>11 DEF SubmitSwipes
  <2>2. LikesCards(list, Combined(doc.entries), doc.entries)
    BY <2>1, LikesOfDeck
  <2> QED
    BY <1>1, <2>1, <2>2, StepKeepsNarrow DEF Admit, Goto
<1>12. ASSUME NEW w \in Workers, SubmitSwipesUpdate(w)
       PROVE  NarrowInv'
  BY <1>2, <1>12, SwipesKeepNarrow DEF SubmitSwipesUpdate
<1>13. ASSUME NEW w \in Workers, Transition(w)
       PROVE  NarrowInv'
  <2>1. CASE exists
    <3>1. /\ doc'.entries = doc.entries /\ doc'.likes = doc.likes
          /\ doc'.activeDeck = doc.activeDeck
      BY <1>1, <1>13, <2>1 DEF Transition, TypeOK, Session
    <3>2. todo[w].step = "transition" /\ todo[w].to \in {"matching", "results"}
      BY <1>1, <1>13, CallFields DEF Transition, TypeOK
    <3>3. doc'.status \in {"matching", "results"}
      BY <1>1, <1>13, <2>1, <3>2 DEF Transition, TypeOK, Session
    <3> QED
      BY <1>1, <1>13, <3>1, <3>3, StepKeepsNarrow, IdleAgrees DEF Transition, Return, Goto
  <2>2. CASE ~exists
    BY <1>2, <1>13, <2>2 DEF Transition
  <2> QED
    BY <2>1, <2>2
<1>14. ASSUME NEW w \in Workers, Rematch(w)
       PROVE  NarrowInv'
  <2>1. PICK slot \in Slots, narrow \in BOOLEAN :
          Admit(w, slot, "rematch",
                [step |-> "rematch.find", slot |-> slot, narrow |-> narrow])
    BY <1>14 DEF Rematch
  <2> QED
    BY <1>1, <2>1, StepKeepsNarrow DEF Admit, Goto
<1>15. ASSUME NEW w \in Workers, RematchFind(w)
       PROVE  NarrowInv'
  <2> DEFINE deck == IF todo[w].narrow THEN Matches(doc) ELSE {}
             update == [step |-> "rematch.update", slot |-> todo[w].slot,
                        rounds |-> doc.rounds + 1, deck |-> deck]
  <2>1. CASE todo[w].narrow => CanNarrow(doc)
    <3>1. deck # {} => TwoCards(deck, doc.entries)
      BY <1>1, <2>1, NarrowedDeck DEF NarrowInv, TypeOK
    <3>2. CASE todo' = [todo EXCEPT ![w] = update]
      BY <1>1, <1>15, <3>1, <3>2, StepKeepsNarrow DEF RematchFind
    <3>3. CASE Return(w)
      BY <1>2, <1>15, <3>3 DEF RematchFind
    <3> QED
      BY <1>15, <3>2, <3>3 DEF RematchFind, Goto
  <2>2. CASE ~(todo[w].narrow => CanNarrow(doc))
    BY <1>2, <1>15, <2>2 DEF RematchFind
  <2> QED
    BY <2>1, <2>2
<1>16. ASSUME NEW w \in Workers, RematchUpdate(w)
       PROVE  NarrowInv'
  BY <1>2, <1>16, RematchKeepsNarrow DEF RematchUpdate
<1>17. ASSUME NEW w \in Workers, Abort(w)
       PROVE  NarrowInv'
  BY <1>2, <1>17 DEF Abort
<1>18. ASSUME Expire \/ CleanupExpired \/ UNCHANGED vars
       PROVE  NarrowInv'
  <2>1. doc' = doc /\ todo' = todo
    BY <1>18 DEF Expire, CleanupExpired, vars
  <2> QED
    BY <1>1, <2>1 DEF NarrowInv
<1>19. NarrowInv'
  BY <1>3, <1>4, <1>5, <1>6, <1>7, <1>8, <1>9, <1>10, <1>11, <1>12,
     <1>13, <1>14, <1>15, <1>16, <1>17, <1>18
     DEF Next, Request, Proceed
<1> QED
  BY <1>1, <1>19 DEF DeckInv

\* The inductive invariant of the deck.
THEOREM DeckInductive ==
    ASSUME Disciplined
    PROVE  Spec => []DeckInv
<1>1. DeckInv /\ [Next]_vars => DeckInv'
  BY NextDeck
<1> QED
  BY <1>1, InitDeck, PTL DEF Spec

\* Two cards lie in the deck whether it is narrowed or not.
LEMMA DeckOfTwo ==
    ASSUME SoloMin >= 2, DeckInv, BothFormsReady(doc)
    PROVE  Cardinality(Deck(doc)) >= 2
<1> DEFINE all == Combined(doc.entries)
<1>1. TypeOK /\ ReadyHasEntries /\ NarrowInv
  BY DEF DeckInv, FlowInv, IInv
<1>2. \A s \in Slots : doc.entries[s] \in Seq(Ids) /\ Len(doc.entries[s]) \in Nat
  BY <1>1 DEF TypeOK, Session
<1>3. IsFiniteSet(all)
  <2>1. ASSUME NEW s \in Slots
        PROVE  IsFiniteSet({s} \X (1 .. Len(doc.entries[s])))
    <3>1. IsFiniteSet({s})
      BY FS_Singleton
    <3>2. IsFiniteSet(1 .. Len(doc.entries[s]))
      BY <1>2, <2>1, FS_Interval
    <3> QED
      BY <3>1, <3>2, FS_Product
  <2> DEFINE cards(s) == {s} \X (1 .. Len(doc.entries[s]))
  <2>2. IsFiniteSet(cards("p1")) /\ IsFiniteSet(cards("p2"))
    BY <2>1 DEF Slots
  <2>3. all = cards("p1") \cup cards("p2")
    BY DEF Combined, Slots
  <2>4. IsFiniteSet(cards("p1") \cup cards("p2"))
    <3> HIDE DEF cards
    <3> QED
      BY <2>2, FS_Union
  <2> QED
    BY <2>3, <2>4
<1>4. IsFiniteSet(Deck(doc))
  <2>1. Deck(doc) \subseteq all
    BY DEF Deck
  <2> QED
    BY <1>3, <2>1, FS_Subset
<1>5. CASE doc.activeDeck # {}
  <2>1. PICK x \in all, y \in all :
          /\ x # y
          /\ Title(x, doc.entries) \in doc.activeDeck /\ Title(y, doc.entries) \in doc.activeDeck
    BY <1>1, <1>5 DEF NarrowInv, TwoCards
  <2>2. x \in Deck(doc) /\ y \in Deck(doc)
    BY <1>5, <2>1 DEF Deck
  <2> QED
    BY <1>4, <2>1, <2>2, TwoElements
<1>6. CASE doc.activeDeck = {}
  <2>1. Deck(doc) = all
    BY <1>6 DEF Deck
  <2>2. \A s \in Slots, i \in Nat : i \in 1 .. Len(doc.entries[s]) => <<s, i>> \in all
    BY DEF Combined
  <2>3. CASE doc.mode = "solo-entry"
    <3>1. Len(doc.entries["p1"]) >= 2
      BY <1>1, <1>2, <2>3, LimitAssumption
         DEF BothFormsReady, ReadyHasEntries, ValidEntries, MinEntries, Slots
    <3>2. <<"p1", 1>> \in all /\ <<"p1", 2>> \in all
      BY <1>2, <2>2, <3>1 DEF Slots
    <3>3. <<"p1", 1>> # <<"p1", 2>>
      OBVIOUS
    <3> QED
      BY <1>4, <2>1, <3>2, <3>3, TwoElements
  <2>4. CASE doc.mode = "dual-entry"
    <3>1. \A s \in Slots : Len(doc.entries[s]) >= 1
      BY <1>1, <1>2, <2>4, LimitAssumption
         DEF BothFormsReady, ReadyHasEntries, ValidEntries, MinEntries, Slots
    <3>2. <<"p1", 1>> \in all /\ <<"p2", 1>> \in all
      BY <1>2, <2>2, <3>1 DEF Slots
    <3>3. <<"p1", 1>> # <<"p2", 1>>
      OBVIOUS
    <3> QED
      BY <1>4, <2>1, <3>2, <3>3, TwoElements
  <2> QED
    BY <1>1, <2>3, <2>4 DEF TypeOK, Session, Modes
<1> QED
  BY <1>5, <1>6

\* Whoever is swiping or looking at results has a deck of two cards or more,
\* however many rounds narrowed it, and whatever titles the two have in common,
\* since soloMin is two.
THEOREM DecksArePlayable ==
    ASSUME Disciplined, SoloMin >= 2
    PROVE  Spec => []DeckPlayable
<1>1. DeckInv => DeckPlayable
  <2> SUFFICES ASSUME DeckInv, doc.status \in {"matching", "results"}
               PROVE  BothFormsReady(doc) /\ Cardinality(Deck(doc)) >= 2
    BY DEF DeckPlayable
  <2>1. BothFormsReady(doc)
    BY DEF DeckInv, FlowInv, RoundAgrees
  <2> QED
    BY <2>1, DeckOfTwo
<1> QED
  BY <1>1, DeckInductive, PTL

-----------------------------------------------------------------------------
(* Who moves the status on. *)

\* A worker that is not about to move the status leaves those that are alone.
LEMMA MovingKept ==
    ASSUME NEW w \in Workers, todo[w].step # "transition",
           \A v \in Workers \ {w} : todo'[v] = todo[v], NEW to, Moving(to)
    PROVE  Moving(to)'
BY DEF Moving

\* The steps that neither move the status nor mark or reset anything.
LEMMA QuietStep ==
    ASSUME TypeOK, ~Faults, NEW w \in Workers,
           \/ Request(w) \/ JoinFind(w) \/ PutEntriesUpdate(w) \/ MarkReadyFind(w)
           \/ RematchFind(w) \/ Abort(w)
    PROVE  /\ doc'.status = doc.status /\ doc'.mode = doc.mode
           /\ doc'.formReady = doc.formReady /\ doc'.swipesDone = doc.swipesDone
           /\ doc'.guest = doc.guest /\ exists' = exists
           /\ todo[w].step # "transition"
           /\ \A v \in Workers \ {w} : todo'[v] = todo[v]
<1>1. ASSUME PutEntriesUpdate(w)
      PROVE  /\ doc'.status = doc.status /\ doc'.mode = doc.mode
             /\ doc'.formReady = doc.formReady /\ doc'.swipesDone = doc.swipesDone
             /\ doc'.guest = doc.guest /\ exists' = exists
             /\ todo[w].step # "transition"
             /\ \A v \in Workers \ {w} : todo'[v] = todo[v]
  BY <1>1 DEF PutEntriesUpdate, Return, Goto, TypeOK, Session
<1>2. ASSUME JoinFind(w) \/ MarkReadyFind(w) \/ RematchFind(w)
      PROVE  /\ doc' = doc /\ exists' = exists /\ todo[w].step # "transition"
             /\ \A v \in Workers \ {w} : todo'[v] = todo[v]
  BY <1>2 DEF JoinFind, MarkReadyFind, RematchFind, Return, Goto, TypeOK
<1>3. ASSUME Request(w)
      PROVE  /\ doc' = doc /\ exists' = exists /\ todo[w].step # "transition"
             /\ \A v \in Workers \ {w} : todo'[v] = todo[v]
  <2>1. todo[w] = Idle /\ doc' = doc /\ exists' = exists
    BY <1>3 DEF Request, JoinSession, PutEntries, MarkReady, SubmitSwipes, Rematch, Admit
  <2>2. \A v \in Workers \ {w} : todo'[v] = todo[v]
    BY <1>3 DEF Request, JoinSession, PutEntries, MarkReady, SubmitSwipes, Rematch, Admit,
       Goto, TypeOK
  <2> QED
    BY <2>1, <2>2 DEF Idle
<1>4. ~Abort(w)
  BY DEF Abort
<1> QED
  BY <1>1, <1>2, <1>3, <1>4

\* A join that is told there is a partner changes nothing; one that claims the
\* slot finds nothing done on behalf of p2.
LEMMA ClaimIsFirst ==
    ASSUME IInv, NEW w \in Workers, JoinClaim(w)
    PROVE  /\ exists' = exists /\ todo[w].step # "transition"
           /\ \A v \in Workers \ {w} : todo'[v] = todo[v]
           /\ \/ doc' = doc
              \/ /\ doc'.formReady = doc.formReady /\ doc'.swipesDone = doc.swipesDone
                 /\ ~doc'.formReady["p2"] /\ ~doc'.swipesDone["p2"] /\ doc'.mode = doc.mode
<1>1. TypeOK
  BY DEF IInv
<1>2. /\ exists' = exists /\ todo[w].step # "transition"
      /\ \A v \in Workers \ {w} : todo'[v] = todo[v]
  BY <1>1 DEF JoinClaim, Return, Goto, TypeOK
<1>3. ASSUME doc' # doc
      PROVE  /\ doc'.formReady = doc.formReady /\ doc'.swipesDone = doc.swipesDone
             /\ doc.guest = NoGuest /\ doc'.mode = doc.mode
  BY <1>1, <1>3 DEF JoinClaim, ClaimFilter, TypeOK, Session
<1>4. doc.guest = NoGuest => ~doc.formReady["p2"] /\ ~doc.swipesDone["p2"]
  BY DEF IInv, NothingBeforeGuest
<1> QED
  BY <1>2, <1>3, <1>4

\* Of two participants getting ready the one whose update comes second moves
\* the status on.
LEMMA NextForms ==
    ASSUME ~Faults, IInv, FormsMoveOn, [Next]_vars, doc.mode = "dual-entry" \/ JoinsAreCurrent
    PROVE  FormsMoveOn'
<1> SUFFICES ASSUME exists', BothFormsReady(doc')
             PROVE  Advanced' \/ Moving("matching")'
  BY DEF FormsMoveOn
<1>1. TypeOK
  BY DEF IInv
<1>2. ASSUME NEW w \in Workers, exists, doc'.status = doc.status,
             BothFormsReady(doc), todo[w].step # "transition",
             \A v \in Workers \ {w} : todo'[v] = todo[v]
      PROVE  Advanced' \/ Moving("matching")'
  <2>1. doc.status \in {"matching", "results"} \/ Moving("matching")
    BY <1>2 DEF FormsMoveOn, Advanced
  <2>2. Moving("matching") => Moving("matching")'
    BY <1>2, MovingKept
  <2> QED
    BY <1>2, <2>1, <2>2 DEF Advanced
<1>3. ASSUME NEW w \in Workers,
             \/ Request(w) \/ JoinFind(w) \/ PutEntriesUpdate(w) \/ MarkReadyFind(w)
             \/ RematchFind(w) \/ Abort(w)
      PROVE  Advanced' \/ Moving("matching")'
  <2>1. BothFormsReady(doc)
    BY <1>1, <1>3, QuietStep DEF BothFormsReady
  <2> QED
    BY <1>1, <1>2, <1>3, <2>1, QuietStep
<1>4. ASSUME NEW w \in Workers, JoinClaim(w)
      PROVE  Advanced' \/ Moving("matching")'
  <2>1. CASE doc' = doc
    BY <1>2, <1>4, <2>1, ClaimIsFirst
  <2>2. CASE doc' # doc
    <3>1. /\ doc'.mode = doc.mode /\ doc'.formReady = doc.formReady
          /\ ~doc'.formReady["p2"]
      BY <1>4, <2>2, ClaimIsFirst
    <3>2. doc.mode = "solo-entry" /\ doc.formReady["p1"]
      BY <1>1, <3>1 DEF BothFormsReady, TypeOK, Session, Modes
    <3>3. /\ todo[w].step = "join.claim" /\ ClaimFilter(doc, todo[w].late)
          /\ doc'.status = todo[w].next
      BY <1>1, <1>4, <2>2 DEF JoinClaim, TypeOK, Session
    <3>4. todo[w].next = "matching"
      BY <3>2, <3>3 DEF JoinsAreCurrent, NextStatusOnJoin
    <3> QED
      BY <3>3, <3>4 DEF Advanced
  <2> QED
    BY <2>1, <2>2
<1>5. ASSUME NEW w \in Workers, MarkReadyUpdate(w)
      PROVE  Advanced' \/ Moving("matching")'
  <2> DEFINE after == [doc EXCEPT !.formReady[todo[w].slot] = TRUE]
  <2>1. exists /\ doc' = after /\ after.status = doc.status
    BY <1>1, <1>5 DEF MarkReadyUpdate, TypeOK, Session
  <2>2. CASE doc.status = "matching"
    BY <2>1, <2>2 DEF Advanced
  <2>3. CASE doc.status # "matching"
    <3>1. Goto(w, [step |-> "transition", slot |-> todo[w].slot, to |-> "matching"])
      BY <1>5, <2>1, <2>3 DEF MarkReadyUpdate, Returned
    <3>2. todo'[w] = [step |-> "transition", slot |-> todo[w].slot, to |-> "matching"]
      BY <1>1, <3>1 DEF Goto, TypeOK
    <3> QED
      BY <3>2 DEF Moving
  <2> QED
    BY <2>2, <2>3
<1>6. ASSUME NEW w \in Workers, SubmitSwipesUpdate(w)
      PROVE  Advanced' \/ Moving("matching")'
  <2>1. /\ exists /\ doc'.status = doc.status /\ doc'.mode = doc.mode
        /\ doc'.formReady = doc.formReady /\ doc'.guest = doc.guest
        /\ todo[w].step # "transition"
    BY <1>1, <1>6 DEF SubmitSwipesUpdate, TypeOK, Session
  <2>2. \A v \in Workers \ {w} : todo'[v] = todo[v]
    BY <1>1, <1>6 DEF SubmitSwipesUpdate, Return, Goto, TypeOK
  <2>3. BothFormsReady(doc)
    BY <2>1 DEF BothFormsReady
  <2> QED
    BY <1>2, <2>1, <2>2, <2>3
<1>7. ASSUME NEW w \in Workers, Transition(w)
      PROVE  Advanced' \/ Moving("matching")'
  <2>1. exists /\ todo[w].to \in {"matching", "results"}
    BY <1>1, <1>7, CallFields DEF Transition, TypeOK
  <2>2. doc'.status = todo[w].to
    BY <1>1, <1>7, <2>1 DEF Transition, TypeOK, Session
  <2> QED
    BY <2>1, <2>2 DEF Advanced
<1>8. ASSUME NEW w \in Workers, RematchUpdate(w)
      PROVE  Advanced' \/ Moving("matching")'
  <2>1. doc'.status = "matching"
    BY <1>1, <1>8 DEF RematchUpdate, NewRound, TypeOK, Session
  <2> QED
    BY <2>1 DEF Advanced
<1>9. ASSUME Expire \/ CleanupExpired \/ UNCHANGED vars
      PROVE  Advanced' \/ Moving("matching")'
  <2>1. doc' = doc /\ todo' = todo /\ exists
    BY <1>9 DEF Expire, CleanupExpired, vars
  <2> QED
    BY <2>1 DEF FormsMoveOn, Advanced, Moving
<1> QED
  BY <1>3, <1>4, <1>5, <1>6, <1>7, <1>8, <1>9 DEF Next, Proceed

\* The mode of a session is the one it was created with.
LEMMA ModeKept == TypeOK /\ [Next]_vars => doc'.mode = doc.mode
<1> SUFFICES ASSUME TypeOK, [Next]_vars PROVE doc'.mode = doc.mode
  OBVIOUS
<1>1. ASSUME NEW w \in Workers,
             \/ JoinClaim(w) \/ PutEntriesUpdate(w) \/ MarkReadyUpdate(w)
             \/ SubmitSwipesUpdate(w) \/ Transition(w) \/ RematchUpdate(w)
      PROVE  doc'.mode = doc.mode
  BY <1>1 DEF JoinClaim, PutEntriesUpdate, MarkReadyUpdate, SubmitSwipesUpdate, Transition,
     RematchUpdate, NewRound, TypeOK, Session
<1>2. ASSUME NEW w \in Workers, Request(w) \/ JoinFind(w) \/ MarkReadyFind(w)
                \/ RematchFind(w) \/ Abort(w)
      PROVE  doc'.mode = doc.mode
  BY <1>2 DEF Request, JoinSession, PutEntries, MarkReady, SubmitSwipes, Rematch, Admit,
     JoinFind, MarkReadyFind, RematchFind, Abort
<1>3. ASSUME Expire \/ CleanupExpired \/ UNCHANGED vars
      PROVE  doc'.mode = doc.mode
  BY <1>3 DEF Expire, CleanupExpired, vars
<1> QED
  BY <1>1, <1>2, <1>3 DEF Next, Proceed

\* No form is ready in a new session.
LEMMA InitForms == Init => FormsMoveOn
<1> SUFFICES ASSUME Init PROVE ~BothFormsReady(doc)
  BY DEF FormsMoveOn
<1>1. ~doc.formReady["p1"]
  BY DEF Init, NewSession, Slots
<1> QED
  BY <1>1 DEF BothFormsReady

\* In dual-entry mode both forms being ready means that the session is in
\* matching or past it, or that a handler is about to move it there, whatever
\* clients ask for, as long as no handler dies.
THEOREM DualFormsAreMovedOn ==
    ASSUME ~Faults
    PROVE  Spec => []DualFormsMoveOn
<1>1. Init => DualFormsMoveOn
  BY InitForms DEF DualFormsMoveOn
<1>2. IInv /\ DualFormsMoveOn /\ [Next]_vars => DualFormsMoveOn'
  BY NextForms, ModeKept DEF DualFormsMoveOn, IInv
<1> QED
  BY <1>1, <1>2, Inductive, PTL DEF Spec

\* In both modes it does if p1 never gets ready between the two calls of the
\* join that is let in: that overlap is the only way for a session to be left
\* behind its forms.
THEOREM FormsStuckOnlyByStaleJoin ==
    ASSUME ~Faults
    PROVE  Spec /\ []JoinsAreCurrent => []FormsMoveOn
<1>1. IInv /\ JoinsAreCurrent /\ FormsMoveOn /\ [Next]_vars => FormsMoveOn'
  BY NextForms
<1> QED
  BY <1>1, InitForms, Inductive, PTL DEF Spec

\* Of two participants finishing the one whose update comes second moves the
\* status on, and nothing but a new round takes that back.
LEMMA NextSwipes ==
    ~Faults /\ FlowInv /\ SwipesMoveOn /\ [Next]_vars => SwipesMoveOn'
<1> SUFFICES ASSUME ~Faults, FlowInv, SwipesMoveOn, [Next]_vars,
                    exists', \A s \in Slots : doc'.swipesDone[s]
             PROVE  doc'.status = "results" \/ Moving("results")'
  BY DEF SwipesMoveOn
<1>1. TypeOK /\ IInv
  BY DEF FlowInv, IInv
<1>2. ASSUME NEW w \in Workers, exists, doc'.status = doc.status,
             doc'.swipesDone = doc.swipesDone, todo[w].step # "transition",
             \A v \in Workers \ {w} : todo'[v] = todo[v]
      PROVE  doc'.status = "results" \/ Moving("results")'
  <2>1. doc.status = "results" \/ Moving("results")
    BY <1>2 DEF SwipesMoveOn
  <2>2. Moving("results") => Moving("results")'
    BY <1>2, MovingKept
  <2> QED
    BY <1>2, <2>1, <2>2
<1>3. ASSUME NEW w \in Workers,
             \/ Request(w) \/ JoinFind(w) \/ PutEntriesUpdate(w) \/ MarkReadyFind(w)
             \/ RematchFind(w) \/ Abort(w)
      PROVE  doc'.status = "results" \/ Moving("results")'
  BY <1>1, <1>2, <1>3, QuietStep
<1>4. ASSUME NEW w \in Workers, JoinClaim(w)
      PROVE  doc'.status = "results" \/ Moving("results")'
  <2>1. doc'.swipesDone["p2"]
    BY DEF Slots
  <2>2. doc' = doc
    BY <1>1, <1>4, <2>1, ClaimIsFirst
  <2> QED
    BY <1>1, <1>2, <1>4, <2>2, ClaimIsFirst
<1>5. ASSUME NEW w \in Workers, MarkReadyUpdate(w)
      PROVE  doc'.status = "results" \/ Moving("results")'
  <2>1. /\ exists /\ doc'.status = doc.status /\ doc'.swipesDone = doc.swipesDone
        /\ todo[w].step # "transition"
    BY <1>1, <1>5 DEF MarkReadyUpdate, TypeOK, Session
  <2>2. \A v \in Workers \ {w} : todo'[v] = todo[v]
    BY <1>1, <1>5 DEF MarkReadyUpdate, Return, Goto, TypeOK
  <2> QED
    BY <1>2, <2>1, <2>2
<1>6. ASSUME NEW w \in Workers, SubmitSwipesUpdate(w)
      PROVE  doc'.status = "results" \/ Moving("results")'
  <2> DEFINE after == [doc EXCEPT !.likes[todo[w].slot] = todo[w].likes,
                                  !.swipesDone[todo[w].slot] = TRUE]
  <2>1. exists /\ doc' = after /\ after.status = doc.status
    BY <1>1, <1>6 DEF SubmitSwipesUpdate, TypeOK, Session
  <2>2. BothSwiped(after)
    BY <2>1 DEF BothSwiped, Slots
  <2>3. CASE doc.status = "results"
    BY <2>1, <2>3
  <2>4. CASE doc.status # "results"
    <3>1. Goto(w, [step |-> "transition", slot |-> todo[w].slot, to |-> "results"])
      BY <1>6, <2>1, <2>2, <2>4 DEF SubmitSwipesUpdate, Returned
    <3>2. todo'[w] = [step |-> "transition", slot |-> todo[w].slot, to |-> "results"]
      BY <1>1, <3>1 DEF Goto, TypeOK
    <3> QED
      BY <3>2 DEF Moving
  <2> QED
    BY <2>3, <2>4
<1>7. ASSUME NEW w \in Workers, Transition(w)
      PROVE  doc'.status = "results" \/ Moving("results")'
  <2>1. /\ exists /\ todo[w].to \in {"matching", "results"}
        /\ todo[w].step = "transition"
    BY <1>1, <1>7, CallFields DEF Transition, TypeOK
  <2>2. doc'.status = todo[w].to /\ doc'.swipesDone = doc.swipesDone
    BY <1>1, <1>7, <2>1 DEF Transition, TypeOK, Session
  <2>3. todo[w].to # "matching"
    <3>1. ASSUME todo[w].to = "matching"
          PROVE  FALSE
      <4>1. doc.status = "form"
        BY <2>1, <3>1 DEF FlowInv, CallAgrees
      <4>2. ~doc.swipesDone["p1"]
        BY <4>1 DEF FlowInv, RoundAgrees, Slots
      <4> QED
        BY <2>2, <4>2 DEF Slots
    <3> QED
      BY <3>1
  <2> QED
    BY <2>1, <2>2, <2>3
<1>8. ASSUME NEW w \in Workers, RematchUpdate(w)
      PROVE  FALSE
  <2>1. exists
    BY <1>8 DEF RematchUpdate
  <2>2. ~doc'.swipesDone["p1"]
    BY <1>1, <1>8, <2>1 DEF RematchUpdate, NewRound, TypeOK, Session, Slots
  <2> QED
    BY <2>2 DEF Slots
<1>9. ASSUME Expire \/ CleanupExpired \/ UNCHANGED vars
      PROVE  doc'.status = "results" \/ Moving("results")'
  <2>1. doc' = doc /\ todo' = todo /\ exists
    BY <1>9 DEF Expire, CleanupExpired, vars
  <2> QED
    BY <2>1 DEF SwipesMoveOn, Moving
<1> QED
  BY <1>3, <1>4, <1>5, <1>6, <1>7, <1>8, <1>9 DEF Next, Proceed

\* When both participants have finished swiping the session shows results or a
\* handler is about to make it, for any number of workers and rounds, as long as
\* no handler dies.
THEOREM SwipesAreMovedOn ==
    ASSUME Disciplined, ~Faults
    PROVE  Spec => []SwipesMoveOn
<1>1. Init => SwipesMoveOn
  <2> SUFFICES ASSUME Init PROVE ~doc.swipesDone["p1"]
    BY DEF SwipesMoveOn, Slots
  <2> QED
    BY DEF Init, NewSession, Slots
<1>2. FlowInv /\ SwipesMoveOn /\ [Next]_vars => SwipesMoveOn'
  BY NextSwipes
<1> QED
  BY <1>1, <1>2, FlowInductive, PTL DEF Spec

-----------------------------------------------------------------------------
(* Overlapping rematches. *)

\* Flags are only reset by a rematch's update.
LEMMA OnlyRematchResets ==
    ASSUME TypeOK, [Next]_vars, ~ \E w \in Workers : RematchUpdate(w), NEW s \in Slots,
           doc.swipesDone[s]
    PROVE  doc'.swipesDone[s]
<1>1. ASSUME NEW w \in Workers, SubmitSwipesUpdate(w)
      PROVE  doc'.swipesDone[s]
  <2>1. /\ doc \in Session
        /\ \/ doc' = doc
           \/ doc' = [doc EXCEPT !.likes[todo[w].slot] = todo[w].likes,
                                 !.swipesDone[todo[w].slot] = TRUE]
    BY <1>1 DEF SubmitSwipesUpdate, TypeOK
  <2> QED
    BY <2>1 DEF Session
<1>2. ASSUME NEW w \in Workers,
             \/ JoinClaim(w) \/ PutEntriesUpdate(w) \/ MarkReadyUpdate(w) \/ Transition(w)
      PROVE  doc'.swipesDone[s]
  <2>1. doc'.swipesDone = doc.swipesDone
    BY <1>2 DEF JoinClaim, PutEntriesUpdate, MarkReadyUpdate, Transition, TypeOK, Session
  <2> QED
    BY <2>1
<1>3. ASSUME NEW w \in Workers, Request(w) \/ JoinFind(w) \/ MarkReadyFind(w)
                \/ RematchFind(w) \/ Abort(w)
      PROVE  doc'.swipesDone[s]
  BY <1>3 DEF Request, JoinSession, PutEntries, MarkReady, SubmitSwipes, Rematch, Admit,
     JoinFind, MarkReadyFind, RematchFind, Abort
<1>4. ASSUME Expire \/ CleanupExpired \/ UNCHANGED vars
      PROVE  doc'.swipesDone[s]
  BY <1>4 DEF Expire, CleanupExpired, vars
<1> QED
  BY <1>1, <1>2, <1>3, <1>4 DEF Next, Proceed

\* While no two rematches overlap, what one has checked stays so until its update.
LEMMA NextRematch ==
    TypeOK /\ OneRematch /\ RematchIsCurrent /\ [Next]_vars => RematchIsCurrent'
<1> SUFFICES ASSUME TypeOK, OneRematch, RematchIsCurrent, [Next]_vars,
                    NEW v \in Workers, todo'[v].step = "rematch.update"
             PROVE  BothSwiped(doc')
  BY DEF RematchIsCurrent, BothSwiped
<1>1. CASE \E w \in Workers : RematchUpdate(w)
  <2>1. PICK w \in Workers : RematchUpdate(w)
    BY <1>1
  <2>2. todo'[w] = Idle /\ \A u \in Workers \ {w} : todo'[u] = todo[u]
    BY <2>1 DEF RematchUpdate, Return, Goto, TypeOK
  <2>3. v # w /\ todo[v].step = "rematch.update"
    BY <2>2 DEF Idle
  <2>4. todo[w].step = "rematch.update"
    BY <2>1 DEF RematchUpdate
  <2> QED
    BY <2>3, <2>4 DEF OneRematch
<1>2. CASE ~ \E w \in Workers : RematchUpdate(w)
  <2>1. BothSwiped(doc) => BothSwiped(doc')
    BY <1>2, OnlyRematchResets DEF BothSwiped, Slots
  <2>2. CASE todo[v].step = "rematch.update"
    BY <2>1, <2>2 DEF RematchIsCurrent
  <2>3. CASE todo[v].step # "rematch.update"
    <3>1. ASSUME NEW w \in Workers, RematchFind(w)
          PROVE  BothSwiped(doc)
      <4>1. v = w \/ todo'[v] = todo[v]
        BY <3>1 DEF RematchFind, Return, Goto, TypeOK
      <4>2. v = w
        BY <2>3, <4>1
      <4>3. ~Return(w)
        BY <4>2 DEF Return, Goto, TypeOK, Idle
      <4> QED
        BY <3>1, <4>3 DEF RematchFind
    <3>2. ASSUME ~ \E w \in Workers : RematchFind(w)
          PROVE  FALSE
      <4>1. ASSUME NEW w \in Workers, Request(w) \/ Proceed(w) \/ Abort(w)
            PROVE  FALSE
        <5>1. v = w \/ todo'[v] = todo[v]
          BY <4>1 DEF Request, JoinSession, PutEntries, MarkReady, SubmitSwipes, Rematch,
             Admit, Proceed, JoinFind, JoinClaim, PutEntriesUpdate, MarkReadyFind,
             MarkReadyUpdate, SubmitSwipesUpdate, Transition, RematchFind, RematchUpdate,
             Abort, Return, Goto, TypeOK
        <5>2. v = w
          BY <2>3, <5>1
        <5>3. CASE Request(w)
          BY <5>2, <5>3 DEF Request, JoinSession, PutEntries, MarkReady, SubmitSwipes,
             Rematch, Admit, Goto, TypeOK
        <5>4. CASE Abort(w) \/ JoinClaim(w) \/ PutEntriesUpdate(w) \/ Transition(w)
          BY <5>2, <5>4 DEF Abort, JoinClaim, PutEntriesUpdate, Transition, Return, Goto,
             TypeOK, Idle
        <5>5. CASE JoinFind(w) \/ MarkReadyFind(w) \/ MarkReadyUpdate(w)
                     \/ SubmitSwipesUpdate(w)
          BY <5>2, <5>5 DEF JoinFind, MarkReadyFind, MarkReadyUpdate, SubmitSwipesUpdate,
             Return, Goto, TypeOK, Idle
        <5> QED
          BY <1>2, <3>2, <4>1, <5>3, <5>4, <5>5 DEF Proceed
      <4>2. ASSUME Expire \/ CleanupExpired \/ UNCHANGED vars
            PROVE  FALSE
        BY <2>3, <4>2 DEF Expire, CleanupExpired, vars
      <4> QED
        BY <4>1, <4>2 DEF Next
    <3> QED
      BY <2>1, <3>1, <3>2
  <2> QED
    BY <2>2, <2>3
<1> QED
  BY <1>1, <1>2

\* As long as no two rematches are between their check and their update, swipes
\* are thrown away only when both participants had finished, whatever clients
\* ask for: the overlap is the only way to lose them.
THEOREM SwipesLostOnlyToOverlap == Spec /\ []OneRematch => SwipesKeptUntilBothDone
<1>1. Init => RematchIsCurrent
  BY DEF Init, RematchIsCurrent, Idle
<1>2. TypeOK /\ OneRematch /\ RematchIsCurrent /\ [Next]_vars => RematchIsCurrent'
  BY NextRematch
<1>3. TypeOK /\ RematchIsCurrent /\ [Next]_vars
        => [(\E s \in Slots : doc.swipesDone[s] /\ ~doc'.swipesDone[s])
              => BothSwiped(doc)]_vars
  <2> SUFFICES ASSUME TypeOK, RematchIsCurrent, [Next]_vars, NEW s \in Slots,
                      doc.swipesDone[s], ~doc'.swipesDone[s]
               PROVE  BothSwiped(doc)
    OBVIOUS
  <2>1. PICK w \in Workers : RematchUpdate(w)
    BY OnlyRematchResets
  <2> QED
    BY <2>1 DEF RematchUpdate, RematchIsCurrent
<1> QED
  BY <1>1, <1>2, <1>3, TypeCorrect, PTL DEF Spec, SwipesKeptUntilBothDone
=============================================================================
