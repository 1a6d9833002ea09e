-------------------------- MODULE BingoBoard_proofs --------------------------
(***************************************************************************)
(* Theorems about BingoBoard, for any number of workers, players and cells *)
(* and any cap.                                                            *)
(***************************************************************************)
EXTENDS BingoBoard, FiniteSetTheorems, TLAPS

\* What the step of a pending call says about its other fields.
LEMMA CallFields ==
    ASSUME NEW c \in Call
    PROVE  /\ c.step \in MintSteps => /\ c.late \in BOOLEAN /\ c.user \in Users
                                     /\ [c EXCEPT !.step = "mint.update"] \in Call
                                     /\ [c EXCEPT !.step = "mint.reread"] \in Call
           /\ c.step \in {"toggle.find", "toggle.update"} =>
                c.late \in BOOLEAN /\ c.user \in Users /\ c.cell \in Cells
           /\ c.step = "toggle.update" => c.seen \in SUBSET Cells
           /\ c.step = "idle" => c = Idle
BY DEF Call, Idle, MintSteps

-----------------------------------------------------------------------------
(* Type correctness. *)

\* CreateBoard stores a document of the type.
LEMMA InitTyped == Init => TypeOK
<1> SUFFICES ASSUME Init PROVE TypeOK
  OBVIOUS
<1>1. players \subseteq Users /\ odd \subseteq Users \X Cells
  BY BingoAssumption DEF Init
<1>2. marks \in [Users -> SUBSET Cells]
  BY BingoAssumption DEF Init, NewMarks
<1>3. todo \in [Workers -> Call]
  BY DEF Init, Call
<1>4. answer \in [Workers -> Answers]
  BY DEF Init, Answers
<1> QED
  BY <1>1, <1>2, <1>3, <1>4 DEF Init, TypeOK

\* A handler that replies is idle again and has given one of the known answers.
LEMMA ReplyTyped ==
    ASSUME TypeOK, NEW w \in Workers, NEW what \in Answers, Reply(w, what)
    PROVE  todo' \in [Workers -> Call] /\ answer' \in [Workers -> Answers]
BY DEF TypeOK, Reply, Call

\* A step that touches only the worker's own state.
LEMMA OwnStepTyped ==
    ASSUME TypeOK, UNCHANGED <<board, exists>>, expired' \in BOOLEAN,
           todo' \in [Workers -> Call], answer' \in [Workers -> Answers]
    PROVE  TypeOK'
BY DEF TypeOK, board

\* Every database call and every request keeps the types.
LEMMA NextTyped == TypeOK /\ [Next]_vars => TypeOK'
<1> SUFFICES ASSUME TypeOK, [Next]_vars PROVE TypeOK'
  OBVIOUS
<1>1. ASSUME NEW w \in Workers, NEW call \in Call, Take(w, call)
      PROVE  TypeOK'
  BY <1>1, OwnStepTyped DEF Take, TypeOK, Answers
<1>2. ASSUME NEW w \in Workers, MintUserBoard(w)
      PROVE  TypeOK'
  <2>1. PICK user \in Users :
          Take(w, [step |-> "mint.find", late |-> expired, user |-> user])
    BY <1>2 DEF MintUserBoard
  <2>2. [step |-> "mint.find", late |-> expired, user |-> user] \in Call
    BY DEF Call, TypeOK
  <2> QED
    BY <1>1, <2>1, <2>2
<1>3. ASSUME NEW w \in Workers, MintFind(w)
      PROVE  TypeOK'
  <2>1. [todo[w] EXCEPT !.step = "mint.update"] \in Call
    BY <1>3, CallFields DEF MintFind, MintSteps, TypeOK
  <2>2. \/ Goto(w, [todo[w] EXCEPT !.step = "mint.update"])
        \/ \E what \in Answers : Reply(w, what)
    BY <1>3 DEF MintFind, Answers
  <2>3. todo' \in [Workers -> Call] /\ answer' \in [Workers -> Answers]
    BY <2>1, <2>2, ReplyTyped DEF Goto, TypeOK
  <2> QED
    BY <1>3, <2>3, OwnStepTyped DEF MintFind, TypeOK
<1>4. ASSUME NEW w \in Workers, MintUpdate(w)
      PROVE  TypeOK'
  <2>1. /\ [todo[w] EXCEPT !.step = "mint.reread"] \in Call
        /\ todo[w].user \in Users
    BY <1>4, CallFields DEF MintUpdate, MintSteps, TypeOK
  <2>2. \/ Goto(w, [todo[w] EXCEPT !.step = "mint.reread"])
        \/ Reply(w, "ok")
    BY <1>4 DEF MintUpdate
  <2>3. todo' \in [Workers -> Call] /\ answer' \in [Workers -> Answers]
    BY <2>1, <2>2, ReplyTyped DEF Goto, TypeOK, Answers
  <2>4. players' \subseteq Users /\ marks' \in [Users -> SUBSET Cells]
    BY <1>4, <2>1, BingoAssumption DEF MintUpdate, TypeOK, NewPlayerMarks, NewMarks
  <2> QED
    BY <1>4, <2>3, <2>4 DEF MintUpdate, TypeOK
<1>5. ASSUME NEW w \in Workers, MintReread(w)
      PROVE  TypeOK'
  <2>1. \E what \in Answers : Reply(w, what)
    BY <1>5 DEF MintReread, Diagnosis, Answers
  <2> QED
    BY <1>5, <2>1, ReplyTyped, OwnStepTyped DEF MintReread, TypeOK
<1>6. ASSUME NEW w \in Workers, ToggleMark(w)
      PROVE  TypeOK'
  <2>1. PICK user \in Users, cell \in Cells :
          Take(w, [step |-> "toggle.find", late |-> expired, user |-> user, cell |-> cell])
    BY <1>6 DEF ToggleMark
  <2>2. [step |-> "toggle.find", late |-> expired, user |-> user, cell |-> cell] \in Call
    BY DEF Call, TypeOK
  <2> QED
    BY <1>1, <2>1, <2>2
<1>7. ASSUME NEW w \in Workers, ToggleFind(w)
      PROVE  TypeOK'
  <2> DEFINE update == [step |-> "toggle.update", late |-> todo[w].late,
                        user |-> todo[w].user, cell |-> todo[w].cell,
                        seen |-> marks[todo[w].user]]
  <2>1. update \in Call
    <3>1. /\ todo[w].late \in BOOLEAN /\ todo[w].user \in Users /\ todo[w].cell \in Cells
          /\ marks[todo[w].user] \in SUBSET Cells
      BY <1>7, CallFields DEF ToggleFind, TypeOK
    <3> QED
      BY <3>1 DEF Call
  <2>2. Goto(w, update) \/ \E what \in Answers : Reply(w, what)
    BY <1>7 DEF ToggleFind, Answers
  <2>3. todo' \in [Workers -> Call] /\ answer' \in [Workers -> Answers]
    BY <2>1, <2>2, ReplyTyped DEF Goto, TypeOK
  <2> QED
    BY <1>7, <2>3, OwnStepTyped DEF ToggleFind, TypeOK
<1>8. ASSUME NEW w \in Workers, ToggleUpdate(w)
      PROVE  TypeOK'
  <2>1. todo[w].user \in Users /\ todo[w].cell \in Cells
    BY <1>8, CallFields DEF ToggleUpdate, TypeOK
  <2>2. marks' \in [Users -> SUBSET Cells] /\ odd' \subseteq Users \X Cells
    BY <1>8, <2>1 DEF ToggleUpdate, Flipped, TypeOK
  <2>3. todo' \in [Workers -> Call] /\ answer' \in [Workers -> Answers]
    BY <1>8, ReplyTyped DEF ToggleUpdate, Answers
  <2> QED
    BY <1>8, <2>2, <2>3 DEF ToggleUpdate, TypeOK
<1>9. ASSUME NEW w \in Workers, Abort(w)
      PROVE  TypeOK'
  BY <1>9, ReplyTyped, OwnStepTyped DEF Abort, Answers, TypeOK
<1>10. CASE Expire \/ UNCHANGED vars
  BY <1>10, OwnStepTyped DEF Expire, vars, board, TypeOK
<1>11. CASE CleanupExpired
  BY <1>11 DEF CleanupExpired, board, TypeOK
<1> QED
  BY <1>2, <1>3, <1>4, <1>5, <1>6, <1>7, <1>8, <1>9, <1>10, <1>11 DEF Next

\* Type correctness, for every value of the constants.
THEOREM TypeCorrect == Spec => []TypeOK
BY InitTyped, NextTyped, PTL DEF Spec

-----------------------------------------------------------------------------
(* The inductive invariant. *)

\* A board with its creator as only player satisfies the invariant.
LEMMA InitIInv == Init => IInv
<1> SUFFICES ASSUME Init PROVE IInv
  OBVIOUS
<1>1. TypeOK
  BY InitTyped
<1>2. CapRespected
  <2>1. Cardinality({Creator}) = 1
    BY FS_Singleton
  <2> QED
    BY <2>1, BingoAssumption DEF Init, CapRespected
<1>3. MarksAreParity
  BY BingoAssumption DEF Init, MarksAreParity, NewMarks
<1>4. \A w \in Workers : todo[w].step = "idle"
  BY DEF Init, Idle
<1>5. IsFiniteSet(players)
  BY FS_Singleton DEF Init
<1> QED
  BY <1>1, <1>2, <1>3, <1>4, <1>5 DEF IInv, Init, MintSteps

\* A worker that moves on without writing keeps the invariant if its next call
\* respects it.
LEMMA MoveKeepsIInv ==
    ASSUME IInv, TypeOK', NEW w \in Workers, UNCHANGED board,
           \A v \in Workers \ {w} : todo'[v] = todo[v],
           todo'[w].step \in MintSteps =>
              /\ todo'[w].user \notin players
              /\ \A v \in Workers \ {w} :
                    todo[v].step \in MintSteps => todo[v].user # todo'[w].user,
           todo'[w].step = "toggle.update" =>
              todo'[w].user \in players /\ Toggleable(todo'[w].cell)
    PROVE  IInv'
<1>1. CapRespected' /\ MarksAreParity'
  BY DEF IInv, CapRespected, MarksAreParity, board
<1>2. \A v \in Workers : todo'[v].step \in MintSteps =>
        /\ todo'[v].user \notin players
        /\ \A x \in Workers \ {v} :
              todo'[x].step \in MintSteps => todo'[x].user # todo'[v].user
  BY DEF IInv
<1>3. \A v \in Workers : todo'[v].step = "toggle.update" =>
        todo'[v].user \in players /\ Toggleable(todo'[v].cell)
  BY DEF IInv
<1> QED
  BY <1>1, <1>2, <1>3 DEF IInv, board, Toggleable

\* A handler that replies without writing keeps the invariant.
LEMMA ReplyKeepsIInv ==
    ASSUME IInv, TypeOK', NEW w \in Workers, NEW what, UNCHANGED board, Reply(w, what)
    PROVE  IInv'
<1>1. todo'[w] = Idle /\ \A v \in Workers \ {w} : todo'[v] = todo[v]
  BY DEF Reply, IInv, TypeOK
<1>2. Idle.step = "idle"
  BY DEF Idle
<1>3. todo'[w].step \notin MintSteps /\ todo'[w].step # "toggle.update"
  BY <1>1, <1>2 DEF MintSteps
<1> QED
  BY <1>1, <1>3, MoveKeepsIInv

\* The seat is there when the update runs, and the new player's marks are new.
LEMMA MintKeepsIInv ==
    ASSUME IInv, TypeOK', NEW w \in Workers, MintUpdate(w), exists, MintFilter(todo[w].late)
    PROVE  IInv'
<1> DEFINE user == todo[w].user
<1>1. /\ players' = players \cup {user} /\ marks' = [marks EXCEPT ![user] = NewPlayerMarks]
      /\ hasFreeSpace' = hasFreeSpace /\ odd' = odd
      /\ todo'[w] = Idle /\ \A v \in Workers \ {w} : todo'[v] = todo[v]
  BY DEF MintUpdate, Reply, IInv, TypeOK
<1>2. user \in Users /\ user \notin players
  BY CallFields DEF MintUpdate, MintSteps, IInv, TypeOK
<1>3. CapRespected'
  <2>1. Cardinality(players \cup {user}) = Cardinality(players) + 1
    BY <1>2, FS_AddElement DEF IInv
  <2>2. Cardinality(players) \in Nat
    BY FS_CardinalityType DEF IInv
  <2> QED
    BY <1>1, <2>1, <2>2, BingoAssumption DEF MintFilter, Full, CapRespected
<1>4. MarksAreParity'
  <2>1. ASSUME NEW u \in players', NEW i \in Cells
        PROVE  i \in marks'[u] <=> (<<u, i>> \in odd \/ (hasFreeSpace /\ i = FreeSpace))
    <3>1. CASE u = user
      <4>1. marks'[u] = NewMarks /\ <<u, i>> \notin odd
        BY <1>1, <1>2, <3>1 DEF IInv, TypeOK, NewPlayerMarks
      <4> QED
        BY <4>1 DEF NewMarks
    <3>2. CASE u # user
      BY <1>1, <1>2, <2>1, <3>2 DEF IInv, TypeOK, MarksAreParity
    <3> QED
      BY <3>1, <3>2
  <2> QED
    BY <1>1, <2>1 DEF MarksAreParity
<1>5. \A u \in Users \ players', i \in Cells : <<u, i>> \notin odd'
  BY <1>1 DEF IInv
<1>6. Idle.step \notin MintSteps /\ Idle.step # "toggle.update"
  BY DEF Idle, MintSteps
<1>7. \A v \in Workers : todo'[v].step \in MintSteps =>
        /\ todo'[v].user \notin players'
        /\ \A x \in Workers \ {v} :
              todo'[x].step \in MintSteps => todo'[x].user # todo'[v].user
  <2>1. todo[w].step \in MintSteps
    BY DEF MintUpdate, MintSteps
  <2> QED
    BY <1>1, <1>6, <2>1 DEF IInv
<1>8. \A v \in Workers : todo'[v].step = "toggle.update" =>
        todo'[v].user \in players' /\ Toggleable(todo'[v].cell)
  BY <1>1, <1>6 DEF IInv
<1>9. IsFiniteSet(players')
  BY <1>1, FS_AddElement DEF IInv
<1> QED
  BY <1>1, <1>3, <1>4, <1>5, <1>7, <1>8, <1>9 DEF IInv, Toggleable

\* A toggle flips its own cell of its own player, and its parity with it.
LEMMA ToggleKeepsIInv ==
    ASSUME IInv, TypeOK', NEW w \in Workers, ToggleUpdate(w), exists, ~todo[w].late
    PROVE  IInv'
<1> DEFINE user == todo[w].user
           cell == todo[w].cell
           flip == <<user, cell>>
<1>1. /\ marks' = [marks EXCEPT ![user] = Flipped(marks[user], todo[w].seen, cell)]
      /\ odd' = IF flip \in odd THEN odd \ {flip} ELSE odd \cup {flip}
      /\ players' = players /\ hasFreeSpace' = hasFreeSpace
      /\ todo'[w] = Idle /\ \A v \in Workers \ {w} : todo'[v] = todo[v]
  BY DEF ToggleUpdate, Reply, IInv, TypeOK
<1>2. user \in players /\ user \in Users /\ cell \in Cells /\ Toggleable(cell)
  BY CallFields DEF ToggleUpdate, IInv, TypeOK
<1>3. MarksAreParity'
  <2>1. ASSUME NEW u \in players, NEW i \in Cells
        PROVE  i \in marks'[u] <=> (<<u, i>> \in odd' \/ (hasFreeSpace /\ i = FreeSpace))
    <3>0. i \in marks[u] <=> (<<u, i>> \in odd \/ (hasFreeSpace /\ i = FreeSpace))
      BY DEF IInv, MarksAreParity
    <3>1. CASE u = user /\ i = cell
      <4>1. i \in marks'[u] <=> i \notin marks[u]
        BY <1>1, <1>2, <3>1 DEF IInv, TypeOK, Flipped
      <4>2. <<u, i>> \in odd' <=> <<u, i>> \notin odd
        BY <1>1, <3>1
      <4> QED
        BY <1>2, <3>0, <3>1, <4>1, <4>2 DEF Toggleable
    <3>2. CASE ~(u = user /\ i = cell)
      <4>1. i \in marks'[u] <=> i \in marks[u]
        BY <1>1, <1>2, <3>2 DEF IInv, TypeOK, Flipped
      <4>2. <<u, i>> \in odd' <=> <<u, i>> \in odd
        BY <1>1, <3>2
      <4> QED
        BY <3>0, <4>1, <4>2
    <3> QED
      BY <3>1, <3>2
  <2> QED
    BY <1>1, <2>1 DEF MarksAreParity
<1>4. CapRespected' /\ \A u \in Users \ players', i \in Cells : <<u, i>> \notin odd'
  BY <1>1, <1>2 DEF IInv, CapRespected
<1>5. Idle.step \notin MintSteps /\ Idle.step # "toggle.update"
  BY DEF Idle, MintSteps
<1>6. \A v \in Workers : todo'[v].step \in MintSteps =>
        /\ todo'[v].user \notin players'
        /\ \A x \in Workers \ {v} :
              todo'[x].step \in MintSteps => todo'[x].user # todo'[v].user
  BY <1>1, <1>5 DEF IInv
<1>7. \A v \in Workers : todo'[v].step = "toggle.update" =>
        todo'[v].user \in players' /\ Toggleable(todo'[v].cell)
  BY <1>1, <1>5 DEF IInv
<1> QED
  BY <1>1, <1>3, <1>4, <1>6, <1>7 DEF IInv, Toggleable

\* Every step keeps the inductive invariant: one step per action.
LEMMA NextIInv == IInv /\ [Next]_vars => IInv'
<1> SUFFICES ASSUME IInv, [Next]_vars PROVE IInv'
  OBVIOUS
<1>0. TypeOK /\ TypeOK'
  BY NextTyped DEF IInv
<1>1. ASSUME NEW w \in Workers, MintUserBoard(w)
      PROVE  IInv'
  <2>1. PICK user \in Users :
          /\ Unused(user)
          /\ Take(w, [step |-> "mint.find", late |-> expired, user |-> user])
    BY <1>1 DEF MintUserBoard
  <2>2. /\ todo'[w] = [step |-> "mint.find", late |-> expired, user |-> user]
        /\ UNCHANGED board /\ \A v \in Workers \ {w} : todo'[v] = todo[v]
    BY <1>0, <2>1 DEF Take, TypeOK
  <2>3. \A v \in Workers : todo[v].step \in MintSteps => todo[v] # Idle
    BY DEF MintSteps, Idle
  <2>4. user \notin players /\ \A v \in Workers : todo[v].step \in MintSteps => todo[v].user # user
    BY <2>1, <2>3 DEF Unused
  <2>5. todo'[w].step # "toggle.update" /\ todo'[w].user = user
    BY <2>2
  <2> QED
    BY <1>0, <2>2, <2>4, <2>5, MoveKeepsIInv
<1>2. ASSUME NEW w \in Workers, NEW step \in MintSteps, todo[w].step \in MintSteps,
             Goto(w, [todo[w] EXCEPT !.step = step]), UNCHANGED board
      PROVE  IInv'
  <2>1. /\ todo'[w] = [todo[w] EXCEPT !.step = step]
        /\ \A v \in Workers \ {w} : todo'[v] = todo[v]
    BY <1>0, <1>2 DEF Goto, TypeOK
  <2>2. todo[w] \in Call /\ todo[w] # Idle
    BY <1>0, <1>2 DEF TypeOK, MintSteps, Idle
  <2>3. todo'[w].user = todo[w].user /\ todo'[w].step # "toggle.update"
    BY <1>2, <2>1, <2>2 DEF Call, MintSteps
  <2>4. /\ todo[w].user \notin players
        /\ \A v \in Workers \ {w} : todo[v].step \in MintSteps => todo[v].user # todo[w].user
    BY <1>2 DEF IInv
  <2> QED
    BY <1>0, <1>2, <2>1, <2>3, <2>4, MoveKeepsIInv
<1>3. ASSUME NEW w \in Workers, MintFind(w)
      PROVE  IInv'
  <2>1. todo[w].step \in MintSteps /\ UNCHANGED board
    BY <1>3 DEF MintFind, MintSteps
  <2>2. \/ Goto(w, [todo[w] EXCEPT !.step = "mint.update"])
        \/ \E what \in Answers : Reply(w, what)
    BY <1>3 DEF MintFind, Answers
  <2> QED
    BY <1>0, <1>2, <2>1, <2>2, ReplyKeepsIInv DEF MintSteps
<1>4. ASSUME NEW w \in Workers, MintUpdate(w)
      PROVE  IInv'
  <2>1. CASE exists /\ MintFilter(todo[w].late)
    BY <1>0, <1>4, <2>1, MintKeepsIInv
  <2>2. CASE ~(exists /\ MintFilter(todo[w].late))
    <3>1. /\ Goto(w, [todo[w] EXCEPT !.step = "mint.reread"]) /\ UNCHANGED board
          /\ todo[w].step \in MintSteps
      BY <1>4, <2>2 DEF MintUpdate, board, MintSteps
    <3> QED
      BY <1>2, <3>1 DEF MintSteps
  <2> QED
    BY <2>1, <2>2
<1>5. ASSUME NEW w \in Workers, MintReread(w)
      PROVE  IInv'
  <2>1. (\E what \in Answers : Reply(w, what)) /\ UNCHANGED board
    BY <1>5 DEF MintReread, Diagnosis, Answers
  <2> QED
    BY <1>0, <2>1, ReplyKeepsIInv
<1>6. ASSUME NEW w \in Workers, ToggleMark(w)
      PROVE  IInv'
  <2>1. PICK user \in Users, cell \in Cells :
          Take(w, [step |-> "toggle.find", late |-> expired, user |-> user, cell |-> cell])
    BY <1>6 DEF ToggleMark
  <2>2. /\ todo'[w].step = "toggle.find" /\ UNCHANGED board
        /\ \A v \in Workers \ {w} : todo'[v] = todo[v]
    BY <1>0, <2>1 DEF Take, TypeOK
  <2>3. todo'[w].step \notin MintSteps /\ todo'[w].step # "toggle.update"
    BY <2>2 DEF MintSteps
  <2> QED
    BY <1>0, <2>2, <2>3, MoveKeepsIInv
<1>7. ASSUME NEW w \in Workers, ToggleFind(w)
      PROVE  IInv'
  <2> DEFINE update == [step |-> "toggle.update", late |-> todo[w].late,
                        user |-> todo[w].user, cell |-> todo[w].cell,
                        seen |-> marks[todo[w].user]]
  <2>1. CASE \E what \in Answers : Reply(w, what)
    BY <1>0, <1>7, <2>1, ReplyKeepsIInv DEF ToggleFind
  <2>2. CASE ~\E what \in Answers : Reply(w, what)
    <3>1. /\ Goto(w, update) /\ UNCHANGED board
          /\ todo[w].user \in players /\ Toggleable(todo[w].cell)
      BY <1>7, <2>2 DEF ToggleFind, Answers
    <3>2. todo'[w] = update /\ \A v \in Workers \ {w} : todo'[v] = todo[v]
      BY <1>0, <3>1 DEF Goto, TypeOK
    <3>3. todo'[w].step \notin MintSteps /\ todo'[w].user = todo[w].user
          /\ todo'[w].cell = todo[w].cell
      BY <3>2 DEF MintSteps
    <3> QED
      BY <1>0, <3>1, <3>2, <3>3, MoveKeepsIInv
  <2> QED
    BY <2>1, <2>2
<1>8. ASSUME NEW w \in Workers, ToggleUpdate(w)
      PROVE  IInv'
  <2>1. CASE exists /\ ~todo[w].late
    BY <1>0, <1>8, <2>1, ToggleKeepsIInv
  <2>2. CASE ~(exists /\ ~todo[w].late)
    BY <1>0, <1>8, <2>2, ReplyKeepsIInv DEF ToggleUpdate, board
  <2> QED
    BY <2>1, <2>2
<1>9. ASSUME NEW w \in Workers, Abort(w)
      PROVE  IInv'
  BY <1>0, <1>9, ReplyKeepsIInv DEF Abort
<1>10. CASE Expire \/ CleanupExpired \/ UNCHANGED vars
  <2>1. UNCHANGED <<board, todo>>
    BY <1>10 DEF Expire, CleanupExpired, vars, board
  <2>2. CapRespected' /\ MarksAreParity'
    BY <2>1 DEF IInv, CapRespected, MarksAreParity, board
  <2> QED
    BY <1>0, <2>1, <2>2 DEF IInv, board, Toggleable
<1> QED
  BY <1>1, <1>3, <1>4, <1>5, <1>6, <1>7, <1>8, <1>9, <1>10 DEF Next

\* The invariant holds of every execution.
THEOREM Inductive == Spec => []IInv
BY InitIInv, NextIInv, PTL DEF Spec

-----------------------------------------------------------------------------
(* What the invariant is for. *)

\* However many mints race, the cap is never passed.
THEOREM CapHolds == Spec => []CapRespected
<1>1. IInv => CapRespected
  BY DEF IInv
<1> QED
  BY <1>1, Inductive, PTL

\* However toggles interleave, marks are the parity of the toggles.
THEOREM TogglesAreParity == Spec => []MarksAreParity
<1>1. IInv => MarksAreParity
  BY DEF IInv
<1> QED
  BY <1>1, Inductive, PTL

\* A player's free space can never be unmarked.
THEOREM FreeSpaceStaysMarked == Spec => []FreeSpaceAlwaysMarked
<1>1. IInv => FreeSpaceAlwaysMarked
  BY BingoAssumption DEF IInv, MarksAreParity, FreeSpaceAlwaysMarked
<1> QED
  BY <1>1, Inductive, PTL

-----------------------------------------------------------------------------
(* A refusal for the cap is true, and stays so. *)

\* A full board stays full, since players are never taken off it.
LEMMA FullStaysFull ==
    ASSUME IInv, IInv', players \subseteq players', Full(players)
    PROVE  Full(players')
<1>1. Cardinality(players) <= Cardinality(players')
  BY FS_Subset DEF IInv
<1>2. Cardinality(players) \in Nat /\ Cardinality(players') \in Nat
  BY FS_CardinalityType DEF IInv
<1> QED
  BY <1>1, <1>2, BingoAssumption DEF Full

\* Whoever gives an answer other than the cap, or gives that one on a full
\* board, keeps the answers given so far true.
LEMMA AnswersStayTrue ==
    ASSUME IInv, IInv', LimitAnswerIsTrue, players \subseteq players', NEW w \in Workers,
           \A v \in Workers \ {w} : answer'[v] = answer[v],
           answer'[w] = "limit reached" => Full(players) \/ answer[w] = "limit reached"
    PROVE  LimitAnswerIsTrue'
<1> SUFFICES ASSUME NEW v \in Workers, answer'[v] = "limit reached" PROVE Full(players')
  BY DEF LimitAnswerIsTrue
<1>1. Full(players)
  BY DEF LimitAnswerIsTrue
<1> QED
  BY <1>1, FullStaysFull

\* A reply touches nobody else's answer.
LEMMA ReplyAnswers ==
    ASSUME TypeOK, NEW w \in Workers, NEW what, Reply(w, what)
    PROVE  answer'[w] = what /\ \A v \in Workers \ {w} : answer'[v] = answer[v]
BY DEF TypeOK, Reply

\* Every step keeps the answers true: the cap is only named by a read that
\* found the board full.
LEMMA LimitAnswerStep == IInv /\ LimitAnswerIsTrue /\ [Next]_vars => LimitAnswerIsTrue'
<1> SUFFICES ASSUME IInv, LimitAnswerIsTrue, [Next]_vars PROVE LimitAnswerIsTrue'
  OBVIOUS
<1>0. IInv' /\ TypeOK
  BY NextIInv DEF IInv
<1>1. ASSUME NEW w \in Workers, NEW call, Take(w, call)
      PROVE  LimitAnswerIsTrue'
  <2>1. answer'[w] = "none" /\ \A v \in Workers \ {w} : answer'[v] = answer[v]
    BY <1>0, <1>1 DEF Take, TypeOK
  <2>2. players' = players
    BY <1>1 DEF Take, board
  <2> QED
    BY <1>0, <2>1, <2>2, AnswersStayTrue
<1>2. ASSUME NEW w \in Workers, NEW call, Goto(w, call), players' = players
      PROVE  LimitAnswerIsTrue'
  BY <1>0, <1>2, AnswersStayTrue DEF Goto
<1>3. ASSUME NEW w \in Workers, NEW what, Reply(w, what), players \subseteq players',
             what = "limit reached" => Full(players)
      PROVE  LimitAnswerIsTrue'
  BY <1>0, <1>3, ReplyAnswers, AnswersStayTrue
<1>4. ASSUME NEW w \in Workers, MintUserBoard(w) \/ ToggleMark(w)
      PROVE  LimitAnswerIsTrue'
  BY <1>1, <1>4 DEF MintUserBoard, ToggleMark
<1>5. ASSUME NEW w \in Workers, MintFind(w)
      PROVE  LimitAnswerIsTrue'
  <2>1. players' = players
    BY <1>5 DEF MintFind, board
  <2>2. CASE Full(players)
    BY <1>2, <1>3, <1>5, <2>1, <2>2 DEF MintFind
  <2>3. CASE ~Full(players)
    BY <1>2, <1>3, <1>5, <2>1, <2>3 DEF MintFind
  <2> QED
    BY <2>2, <2>3
<1>6. ASSUME NEW w \in Workers, MintUpdate(w)
      PROVE  LimitAnswerIsTrue'
  <2>1. CASE exists /\ MintFilter(todo[w].late)
    BY <1>3, <1>6, <2>1 DEF MintUpdate
  <2>2. CASE ~(exists /\ MintFilter(todo[w].late))
    BY <1>2, <1>6, <2>2 DEF MintUpdate
  <2> QED
    BY <2>1, <2>2
<1>7. ASSUME NEW w \in Workers, MintReread(w)
      PROVE  LimitAnswerIsTrue'
  BY <1>3, <1>7 DEF MintReread, Diagnosis, board
<1>8. ASSUME NEW w \in Workers, ToggleFind(w)
      PROVE  LimitAnswerIsTrue'
  BY <1>2, <1>3, <1>8 DEF ToggleFind, board
<1>9. ASSUME NEW w \in Workers, ToggleUpdate(w) \/ Abort(w)
      PROVE  LimitAnswerIsTrue'
  BY <1>3, <1>9 DEF ToggleUpdate, Abort, board
<1>10. CASE Expire \/ CleanupExpired \/ UNCHANGED vars
  BY <1>10 DEF Expire, CleanupExpired, vars, board, LimitAnswerIsTrue
<1> QED
  BY <1>4, <1>5, <1>6, <1>7, <1>8, <1>9, <1>10 DEF Next

\* A player told that the limit is reached was refused by a full board, for
\* any cap and any number of mints racing for the last seat.
THEOREM LimitAnswersAreTrue == Spec => []LimitAnswerIsTrue
<1>1. Init => LimitAnswerIsTrue
  BY DEF Init, LimitAnswerIsTrue
<1> QED
  BY <1>1, LimitAnswerStep, Inductive, PTL DEF Spec

-----------------------------------------------------------------------------
(* Minting implements the bounded claim. *)

\* The board starts with its creator seated.
LEMMA InitClaims == Init => Seats!Init
BY DEF Init, Seats!Init

\* MintUpdate is a claim, the cleanup closes the board, and nothing else
\* touches the players.
LEMMA StepClaims == IInv /\ [Next]_vars => [Seats!Next]_<<players, exists>>
<1> SUFFICES ASSUME IInv, [Next]_vars PROVE [Seats!Next]_<<players, exists>>
  OBVIOUS
<1>1. ASSUME NEW w \in Workers, MintUpdate(w), exists, MintFilter(todo[w].late)
      PROVE  Seats!Next
  <2>1. todo[w].user \in Users /\ todo[w].user \notin players
    BY <1>1, CallFields DEF MintUpdate, MintSteps, IInv, TypeOK
  <2>2. Roomy(players)
    <3>1. Cardinality(players) \in Nat
      BY FS_CardinalityType DEF IInv
    <3> QED
      BY <1>1, <3>1, BingoAssumption DEF MintFilter, Full, Roomy
  <2>3. Seats!Claim
    BY <1>1, <2>1, <2>2 DEF MintUpdate, Seats!Claim
  <2> QED
    BY <2>3 DEF Seats!Next
<1>2. ASSUME NEW w \in Workers, MintUpdate(w), ~(exists /\ MintFilter(todo[w].late))
      PROVE  UNCHANGED <<players, exists>>
  BY <1>2 DEF MintUpdate
<1>3. ASSUME NEW w \in Workers,
             MintUserBoard(w) \/ MintFind(w) \/ MintReread(w) \/ ToggleMark(w)
             \/ ToggleFind(w) \/ ToggleUpdate(w) \/ Abort(w)
      PROVE  UNCHANGED <<players, exists>>
  BY <1>3 DEF MintUserBoard, Take, MintFind, MintReread, ToggleMark, ToggleFind,
              ToggleUpdate, Abort, board
<1>4. CASE CleanupExpired
  BY <1>4 DEF CleanupExpired, board, Seats!Next, Seats!Close
<1>5. CASE Expire \/ UNCHANGED vars
  BY <1>5 DEF Expire, board, vars
<1> QED
  BY <1>1, <1>2, <1>3, <1>4, <1>5 DEF Next

\* Every execution adds players the way the abstract claim does.
THEOREM MintImplementsClaim == Spec => MintIsBoundedClaim
BY InitClaims, StepClaims, Inductive, PTL DEF Spec, MintIsBoundedClaim, Seats!Spec
=============================================================================
