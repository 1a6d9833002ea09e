------------------------- MODULE SessionCodes_proofs -------------------------
(***************************************************************************)
(* Theorems about SessionCodes, for any number of workers, sessions, codes *)
(* and attempts.                                                           *)
(***************************************************************************)
EXTENDS SessionCodes, TLAPS

\* What the step of a pending call says about its other fields.
LEMMA CallFields ==
    ASSUME NEW c \in Call
    PROVE  /\ c.step = "insert" => c.session \in Sessions /\ c.left \in 1 .. Retries
           /\ c.step = "find" => c.code \in Codes
           /\ c.step = "claim" => c.code \in Codes /\ c.session \in Sessions
           /\ c.step = "idle" => c = Idle
BY DEF Call, Idle

\* Every database call and every request keeps the types.
LEMMA NextTyped == TypeOK /\ [Next]_vars => TypeOK'
<1> SUFFICES ASSUME TypeOK, [Next]_vars PROVE TypeOK'
  OBVIOUS
<1>1. ASSUME NEW w \in Workers, NEW what \in Answers, Reply(w, what)
      PROVE  todo' \in [Workers -> Call] /\ answer' \in [Workers -> Answers]
  BY <1>1 DEF TypeOK, Reply, Call
<1>2. ASSUME NEW w \in Workers, NEW call \in Call, todo' = [todo EXCEPT ![w] = call]
      PROVE  todo' \in [Workers -> Call]
  BY <1>2 DEF TypeOK
<1>3. /\ \A why \in Refusals : Refused(why) \in Answers
      /\ \A s \in Sessions : Created(s) \in Answers /\ Full(s) \in Answers
  BY DEF Answers
<1>4. ASSUME NEW w \in Workers, CreateSession(w)
      PROVE  TypeOK'
  <2>1. PICK s \in Sessions : Take(w, [step |-> "insert", session |-> s, left |-> Retries])
    BY <1>4 DEF CreateSession
  <2>2. [step |-> "insert", session |-> s, left |-> Retries] \in Call
    BY CodesAssumption DEF Call
  <2> QED
    BY <1>2, <2>1, <2>2 DEF Take, TypeOK, collection
<1>5. ASSUME NEW w \in Workers, Insert(w)
      PROVE  TypeOK'
  <2> DEFINE call == todo[w]
             again == [call EXCEPT !.left = LeftAfter(call.left)]
  <2>1. call \in Call /\ call.step = "insert" /\ call.session \in Sessions
        /\ call.left \in 1 .. Retries
    BY <1>5, CallFields DEF Insert, TypeOK
  <2>2. PICK c \in Codes :
          IF Collides(c)
          THEN /\ IF LeftAfter(call.left) = 0 THEN Reply(w, Refused("noFreeCode"))
                  ELSE Goto(w, again)
               /\ UNCHANGED collection
          ELSE /\ stored' = stored \cup {call.session}
               /\ code' = [code EXCEPT ![call.session] = c]
               /\ UNCHANGED <<expired, guest>>
               /\ Reply(w, Created(call.session)) \/ Reply(w, Refused("none"))
    BY <1>5 DEF Insert
  <2>3. CASE Collides(c)
    <3>1. CASE LeftAfter(call.left) = 0
      BY <1>1, <1>3, <2>2, <2>3, <3>1 DEF TypeOK, collection, Refusals
    <3>2. CASE LeftAfter(call.left) # 0
      <4>1. LeftAfter(call.left) \in 1 .. Retries
        BY <2>1, <3>2, CodesAssumption DEF LeftAfter
      <4>2. call \in [step : {"insert"}, session : Sessions, left : 1 .. Retries]
        BY <2>1 DEF Call, Idle
      <4>3. again \in [step : {"insert"}, session : Sessions, left : 1 .. Retries]
        BY <4>1, <4>2
      <4>4. again \in Call
        BY <4>3 DEF Call
      <4> QED
        BY <1>2, <2>2, <2>3, <3>2, <4>4 DEF Goto, TypeOK, collection
    <3> QED
      BY <3>1, <3>2
  <2>4. CASE ~Collides(c)
    <3>1. Created(call.session) \in Answers /\ Refused("none") \in Answers
      BY <1>3, <2>1 DEF Refusals
    <3>2. todo' \in [Workers -> Call] /\ answer' \in [Workers -> Answers]
      BY <1>1, <2>2, <2>4, <3>1
    <3> QED
      BY <2>1, <2>2, <2>4, <3>2 DEF TypeOK
  <2> QED
    BY <2>3, <2>4
<1>6. ASSUME NEW w \in Workers, JoinSession(w)
      PROVE  TypeOK'
  <2>1. PICK c \in Codes : Take(w, [step |-> "find", code |-> c, late |-> expired])
    BY <1>6 DEF JoinSession
  <2>2. [step |-> "find", code |-> c, late |-> expired] \in Call
    BY DEF Call, TypeOK
  <2> QED
    BY <1>2, <2>1, <2>2 DEF Take, TypeOK, collection
<1>7. ASSUME NEW w \in Workers, JoinFind(w)
      PROVE  TypeOK'
  <2>1. todo[w].code \in Codes
    BY <1>7, CallFields DEF JoinFind, TypeOK
  <2>2. \/ \E why \in Refusals : Reply(w, Refused(why))
        \/ \E s \in stored :
              \/ Reply(w, Full(s))
              \/ Goto(w, [step |-> "claim", code |-> todo[w].code, session |-> s])
    BY <1>7 DEF JoinFind, Refusals
  <2>3. \A s \in stored : [step |-> "claim", code |-> todo[w].code, session |-> s] \in Call
    BY <2>1 DEF Call, TypeOK
  <2>4. todo' \in [Workers -> Call] /\ answer' \in [Workers -> Answers]
    <3>1. CASE \E why \in Refusals : Reply(w, Refused(why))
      BY <1>1, <1>3, <3>1
    <3>2. ASSUME NEW s \in stored, Reply(w, Full(s))
          PROVE  todo' \in [Workers -> Call] /\ answer' \in [Workers -> Answers]
      BY <1>1, <1>3, <3>2 DEF TypeOK
    <3>3. ASSUME NEW s \in stored,
                 Goto(w, [step |-> "claim", code |-> todo[w].code, session |-> s])
          PROVE  todo' \in [Workers -> Call] /\ answer' \in [Workers -> Answers]
      BY <1>2, <2>3, <3>3 DEF Goto, TypeOK
    <3> QED
      BY <2>2, <3>1, <3>2, <3>3
  <2> QED
    BY <1>7, <2>4 DEF JoinFind, TypeOK, collection
<1>8. ASSUME NEW w \in Workers, JoinClaim(w)
      PROVE  TypeOK'
  <2>1. todo[w].code \in Codes /\ todo[w].session \in Sessions
    BY <1>8, CallFields DEF JoinClaim, TypeOK
  <2>2. Joined(todo[w].session, todo[w].code) \in Answers
    BY <2>1 DEF Answers
  <2>3. todo' \in [Workers -> Call] /\ answer' \in [Workers -> Answers]
    <3>1. \E what \in Answers : Reply(w, what)
      <4>1. /\ Joined(todo[w].session, todo[w].code) \in Answers
            /\ Full(todo[w].session) \in Answers
            /\ Refused("none") \in Answers
        BY <1>3, <2>1, <2>2 DEF Refusals
      <4> QED
        BY <1>8, <4>1 DEF JoinClaim
    <3> QED
      BY <1>1, <3>1
  <2> QED
    BY <1>8, <2>1, <2>3 DEF JoinClaim, TypeOK
<1>9. ASSUME NEW w \in Workers, Abort(w)
      PROVE  TypeOK'
  BY <1>1, <1>3, <1>9 DEF Abort, TypeOK, collection, Refusals
<1>10. CASE Expire \/ CleanupExpired \/ Over \/ UNCHANGED vars
  BY <1>10 DEF Expire, CleanupExpired, Over, vars, TypeOK
<1> QED
  BY <1>4, <1>5, <1>6, <1>7, <1>8, <1>9, <1>10 DEF Next

-----------------------------------------------------------------------------
(* The inductive invariant. *)

\* The empty collection satisfies the invariant.
LEMMA InitIInv == Init => IInv
BY DEF Init, IInv, TypeOK, Call, Answers, Refusals, Idle, Refused, Created, Joined,
       Full, JoinedByItsCode, FullMeansTaken

\* The kinds of answers differ.
LEMMA AnswersDiffer ==
    /\ \A why \in Refusals : \A s, c : /\ Refused(why) # Created(s)
                                      /\ Refused(why) # Joined(s, c)
                                      /\ Refused(why) # Full(s)
    /\ \A s, t, c : Full(s) # Created(t) /\ Full(s) # Joined(t, c)
    /\ \A s, t : Full(s) = Full(t) => s = t
    /\ \A s, t, c : Created(s) # Joined(t, c)
    /\ \A s, t : Created(s) = Created(t) => s = t
    /\ \A s, t, c, d : Joined(s, c) = Joined(t, d) => s = t /\ c = d
BY DEF Refused, Created, Joined, Full, Refusals

\* A worker that refuses, and leaves the collection alone, keeps the invariant,
\* if what it calls full was stored once and has no seat to give.
LEMMA RefusalKeepsIInv ==
    ASSUME IInv, TypeOK', NEW w \in Workers, NEW what, UNCHANGED collection, Reply(w, what),
           \/ \E why \in Refusals : what = Refused(why)
           \/ \E t \in Sessions : what = Full(t) /\ code[t] # None /\ ~SeatFree(t)
    PROVE  IInv'
<1>1. /\ todo'[w] = Idle /\ answer'[w] = what
      /\ \A v \in Workers \ {w} : todo'[v] = todo[v] /\ answer'[v] = answer[v]
  BY DEF Reply, IInv, TypeOK
<1>2. Idle.step \notin {"insert", "claim"}
  BY DEF Idle
<1>3. \A s, c : answer'[w] # Created(s) /\ answer'[w] # Joined(s, c)
  BY <1>1, AnswersDiffer
<1>4. \A v \in Workers, s \in Sessions :
        answer'[v] = Created(s) => code[s] # None /\ (s \notin expired => s \in stored)
  BY <1>1, <1>3 DEF IInv
<1>5. JoinedByItsCode'
  BY <1>1, <1>3 DEF IInv, JoinedByItsCode, collection
<1>6. \A v, x \in Workers : todo'[v].step = "insert" =>
        /\ code[todo'[v].session] = None
        /\ todo'[x].step = "insert" /\ todo'[x].session = todo'[v].session => v = x
  BY <1>1, <1>2 DEF IInv
<1>7. \A v \in Workers : todo'[v].step = "claim" => code[todo'[v].session] = todo'[v].code
  BY <1>1, <1>2 DEF IInv
<1>8. \A s \in Sessions : what = Full(s) => code[s] # None /\ ~SeatFree(s)
  BY AnswersDiffer
<1>9. \A v \in Workers, s \in Sessions : answer'[v] = Full(s) => code[s] # None
  BY <1>1, <1>8 DEF IInv
<1>10. FullMeansTaken'
  BY <1>1, <1>8 DEF IInv, FullMeansTaken, SeatFree, collection
<1> QED
  BY <1>4, <1>5, <1>6, <1>7, <1>9, <1>10 DEF IInv, collection

\* A worker that only goes on to its next call keeps it if the call fits.
LEMMA MoveKeepsIInv ==
    ASSUME IInv, TypeOK', NEW w \in Workers, NEW call, UNCHANGED <<collection, answer>>,
           todo' = [todo EXCEPT ![w] = call],
           call.step = "insert" =>
              /\ code[call.session] = None
              /\ \A v \in Workers \ {w} :
                    todo[v].step = "insert" => todo[v].session # call.session,
           call.step = "claim" => code[call.session] = call.code
    PROVE  IInv'
<1>1. todo'[w] = call /\ \A v \in Workers \ {w} : todo'[v] = todo[v]
  BY DEF IInv, TypeOK
<1>2. \A v, x \in Workers : todo'[v].step = "insert" =>
        /\ code[todo'[v].session] = None
        /\ todo'[x].step = "insert" /\ todo'[x].session = todo'[v].session => v = x
  BY <1>1 DEF IInv
<1>3. \A v \in Workers : todo'[v].step = "claim" => code[todo'[v].session] = todo'[v].code
  BY <1>1 DEF IInv
<1> QED
  BY <1>2, <1>3 DEF IInv, collection, JoinedByItsCode, FullMeansTaken

\* An insert that does not collide gives its code to one session.
LEMMA InsertKeepsIInv ==
    ASSUME IInv, TypeOK', NEW w \in Workers, NEW c \in Codes, ~Collides(c),
           todo[w].step = "insert",
           stored' = stored \cup {todo[w].session},
           code' = [code EXCEPT ![todo[w].session] = c],
           UNCHANGED <<expired, guest>>,
           Reply(w, Created(todo[w].session)) \/ Reply(w, Refused("none"))
    PROVE  IInv'
<1> DEFINE new == todo[w].session
<1>1. /\ todo'[w] = Idle /\ answer'[w] \in {Created(new), Refused("none")}
      /\ \A v \in Workers \ {w} : todo'[v] = todo[v] /\ answer'[v] = answer[v]
  BY DEF Reply, IInv, TypeOK
<1>2. new \in Sessions /\ code[new] = None /\ guest[new] = None /\ c # None
  BY CallFields, CodesAssumption DEF IInv, TypeOK
<1>3. code'[new] = c /\ \A s \in Sessions \ {new} : code'[s] = code[s]
  BY <1>2 DEF IInv, TypeOK
<1>4. Idle.step \notin {"insert", "claim"}
  BY DEF Idle
<1>5. \A s, t \in stored' : code'[s] = code'[t] => s = t
  BY <1>2, <1>3 DEF IInv, TypeOK, Collides
<1>6. /\ \A s \in stored' : code'[s] # None
      /\ \A s \in Sessions : code'[s] = None => guest'[s] = None
  BY <1>2, <1>3 DEF IInv, TypeOK
<1>7. \A v, x \in Workers : todo'[v].step = "insert" =>
        /\ code'[todo'[v].session] = None
        /\ todo'[x].step = "insert" /\ todo'[x].session = todo'[v].session => v = x
  <2>1. ASSUME NEW v \in Workers \ {w}, todo[v].step = "insert"
        PROVE  todo[v].session \in Sessions /\ todo[v].session # new
    BY <2>1, CallFields DEF IInv, TypeOK
  <2> QED
    BY <1>1, <1>3, <1>4, <2>1 DEF IInv
<1>8. \A v \in Workers : todo'[v].step = "claim" => code'[todo'[v].session] = todo'[v].code
  <2>1. ASSUME NEW v \in Workers \ {w}, todo[v].step = "claim"
        PROVE  /\ todo[v].session \in Sessions /\ todo[v].session # new
               /\ code[todo[v].session] = todo[v].code
    BY <1>2, <2>1, CallFields, CodesAssumption DEF IInv, TypeOK
  <2> QED
    BY <1>1, <1>3, <1>4, <2>1
<1>9. \A v \in Workers, s \in Sessions :
        answer'[v] = Created(s) => code'[s] # None /\ (s \notin expired' => s \in stored')
  <2>1. "none" \in Refusals
    BY DEF Refusals
  <2>2. \A s : answer'[w] = Created(s) => s = new
    BY <1>1, <2>1, AnswersDiffer
  <2> QED
    BY <1>1, <1>2, <1>3, <2>2 DEF IInv
<1>10. JoinedByItsCode'
  <2>1. "none" \in Refusals
    BY DEF Refusals
  <2>2. \A s, d : answer'[w] # Joined(s, d)
    BY <1>1, <2>1, AnswersDiffer
  <2>3. ASSUME NEW v \in Workers \ {w}, NEW s \in Sessions, NEW d \in Codes,
               answer[v] = Joined(s, d)
        PROVE  code'[s] = d /\ guest'[s] = v
    BY <1>2, <1>3, <2>3, CodesAssumption DEF IInv, JoinedByItsCode
  <2> QED
    BY <1>1, <2>2, <2>3 DEF JoinedByItsCode
<1>11. \A v \in Workers, s \in Sessions :
         answer'[v] = Full(s) => answer[v] = Full(s) /\ s # new
  <2>1. "none" \in Refusals
    BY DEF Refusals
  <2>2. \A s : answer'[w] # Full(s)
    BY <1>1, <2>1, AnswersDiffer
  <2>3. \A v \in Workers, s \in Sessions : answer[v] = Full(s) => s # new
    BY <1>2 DEF IInv
  <2> QED
    BY <1>1, <2>2, <2>3
<1>12. \A v \in Workers, s \in Sessions : answer'[v] = Full(s) => code'[s] # None
  BY <1>3, <1>11 DEF IInv
<1>13. FullMeansTaken'
  BY <1>11 DEF IInv, FullMeansTaken
<1> QED
  BY <1>5, <1>6, <1>7, <1>8, <1>9, <1>10, <1>12, <1>13 DEF IInv

\* A claim takes an empty seat, so it takes nobody's.
LEMMA ClaimKeepsIInv ==
    ASSUME IInv, TypeOK', NEW w \in Workers, todo[w].step = "claim",
           SeatFree(todo[w].session),
           guest' = [guest EXCEPT ![todo[w].session] = w],
           UNCHANGED <<stored, expired, code>>,
           \/ Reply(w, Joined(todo[w].session, todo[w].code))
           \/ Reply(w, Refused("none"))
    PROVE  IInv'
<1> DEFINE s0 == todo[w].session
           c0 == todo[w].code
<1>1. /\ todo'[w] = Idle /\ answer'[w] \in {Joined(s0, c0), Refused("none")}
      /\ \A v \in Workers \ {w} : todo'[v] = todo[v] /\ answer'[v] = answer[v]
  BY DEF Reply, IInv, TypeOK
<1>2. /\ s0 \in Sessions /\ code[s0] = c0 /\ code[s0] # None /\ guest[s0] = None
  BY CallFields DEF IInv, TypeOK, SeatFree
<1>3. guest'[s0] = w /\ \A s \in Sessions \ {s0} : guest'[s] = guest[s]
  BY <1>2 DEF IInv, TypeOK
<1>4. Idle.step \notin {"insert", "claim"} /\ "none" \in Refusals
  BY DEF Idle, Refusals
<1>5. \A s \in Sessions : code'[s] = None => guest'[s] = None
  BY <1>2, <1>3 DEF IInv
<1>6. \A v, x \in Workers : todo'[v].step = "insert" =>
        /\ code'[todo'[v].session] = None
        /\ todo'[x].step = "insert" /\ todo'[x].session = todo'[v].session => v = x
  BY <1>1, <1>4 DEF IInv
<1>7. \A v \in Workers : todo'[v].step = "claim" => code'[todo'[v].session] = todo'[v].code
  BY <1>1, <1>4 DEF IInv
<1>8. \A v \in Workers, s \in Sessions :
        answer'[v] = Created(s) => code'[s] # None /\ (s \notin expired' => s \in stored')
  <2>1. \A s : answer'[w] # Created(s)
    BY <1>1, <1>4, AnswersDiffer
  <2> QED
    BY <1>1, <2>1 DEF IInv
<1>9. JoinedByItsCode'
  <2>1. ASSUME NEW s \in Sessions, NEW c \in Codes, answer'[w] = Joined(s, c)
        PROVE  code'[s] = c /\ guest'[s] = w
    BY <1>1, <1>2, <1>3, <1>4, <2>1, AnswersDiffer
  <2>2. ASSUME NEW v \in Workers \ {w}, NEW s \in Sessions, NEW c \in Codes,
               answer[v] = Joined(s, c)
        PROVE  code'[s] = c /\ guest'[s] = v
    <3>1. guest[s] = v /\ code[s] = c /\ v # None
      BY <2>2, CodesAssumption DEF IInv, JoinedByItsCode
    <3> QED
      BY <1>2, <1>3, <3>1
  <2> QED
    BY <1>1, <2>1, <2>2 DEF JoinedByItsCode
<1>10. \A v \in Workers, s \in Sessions : answer'[v] = Full(s) => answer[v] = Full(s)
  BY <1>1, <1>4, AnswersDiffer
<1>11. FullMeansTaken'
  BY <1>3, <1>10, CodesAssumption DEF IInv, FullMeansTaken
<1> QED
  BY <1>5, <1>6, <1>7, <1>8, <1>9, <1>10, <1>11 DEF IInv

\* Every step keeps the inductive invariant: one step per action.
LEMMA NextIInv == IInv /\ [Next]_vars => IInv'
<1> SUFFICES ASSUME IInv, [Next]_vars PROVE IInv'
  OBVIOUS
<1>0. TypeOK /\ TypeOK'
  BY NextTyped DEF IInv
<1>1. ASSUME NEW w \in Workers, CreateSession(w)
      PROVE  IInv'
  <2> DEFINE call(s) == [step |-> "insert", session |-> s, left |-> Retries]
  <2>1. PICK s \in Sessions : Unused(s) /\ Take(w, call(s))
    BY <1>1 DEF CreateSession
  <2>2. /\ UNCHANGED <<collection, answer>> /\ todo' = [todo EXCEPT ![w] = call(s)]
        /\ code[s] = None /\ \A v \in Workers : todo[v].step = "insert" => todo[v].session # s
    BY <2>1 DEF Take, Unused
  <2>3. call(s).step = "insert" /\ call(s).session = s
    OBVIOUS
  <2> HIDE DEF call
  <2> QED
    BY <1>0, <2>2, <2>3, MoveKeepsIInv
<1>2. ASSUME NEW w \in Workers, Insert(w)
      PROVE  IInv'
  <2> DEFINE call == todo[w]
             again == [call EXCEPT !.left = LeftAfter(call.left)]
  <2>1. call \in Call /\ call.step = "insert"
    BY <1>0, <1>2 DEF Insert, TypeOK
  <2>2. PICK c \in Codes :
          IF Collides(c)
          THEN /\ IF LeftAfter(call.left) = 0 THEN Reply(w, Refused("noFreeCode"))
                  ELSE Goto(w, again)
               /\ UNCHANGED collection
          ELSE /\ stored' = stored \cup {call.session}
               /\ code' = [code EXCEPT ![call.session] = c]
               /\ UNCHANGED <<expired, guest>>
               /\ Reply(w, Created(call.session)) \/ Reply(w, Refused("none"))
    BY <1>2 DEF Insert
  <2>3. CASE Collides(c) /\ LeftAfter(call.left) = 0
    <3>1. UNCHANGED collection /\ Reply(w, Refused("noFreeCode"))
      BY <2>2, <2>3
    <3>2. \E why \in Refusals : Refused("noFreeCode") = Refused(why)
      BY DEF Refusals
    <3> QED
      BY <1>0, <3>1, <3>2, RefusalKeepsIInv
  <2>4. CASE Collides(c) /\ LeftAfter(call.left) # 0
    <3>1. again.step = "insert" /\ again.session = call.session
      BY <2>1 DEF Call
    <3>2. /\ code[call.session] = None
          /\ \A v \in Workers \ {w} : todo[v].step = "insert" => todo[v].session # call.session
      BY <2>1 DEF IInv
    <3>3. UNCHANGED <<collection, answer>> /\ todo' = [todo EXCEPT ![w] = again]
      BY <2>2, <2>4 DEF Goto
    <3> HIDE DEF again
    <3> QED
      BY <1>0, <3>1, <3>2, <3>3, MoveKeepsIInv
  <2>5. CASE ~Collides(c)
    BY <1>0, <2>1, <2>2, <2>5, InsertKeepsIInv
  <2> QED
    BY <2>3, <2>4, <2>5
<1>3. ASSUME NEW w \in Workers, JoinSession(w)
      PROVE  IInv'
  <2> DEFINE call(c) == [step |-> "find", code |-> c, late |-> expired]
  <2>1. PICK c \in Codes : Take(w, call(c))
    BY <1>3 DEF JoinSession
  <2>2. call(c).step = "find"
    OBVIOUS
  <2>3. UNCHANGED <<collection, answer>> /\ todo' = [todo EXCEPT ![w] = call(c)]
    BY <2>1 DEF Take
  <2> HIDE DEF call
  <2> QED
    BY <1>0, <2>2, <2>3, MoveKeepsIInv
<1>4. ASSUME NEW w \in Workers, JoinFind(w)
      PROVE  IInv'
  <2> DEFINE call(s) == [step |-> "claim", code |-> todo[w].code, session |-> s]
  <2>1. \/ \E why \in Refusals : Reply(w, Refused(why))
        \/ \E s \in stored :
              /\ code[s] = todo[w].code
              /\ (guest[s] # None /\ Reply(w, Full(s))) \/ Goto(w, call(s))
    BY <1>4 DEF JoinFind, Refusals
  <2>2. UNCHANGED collection
    BY <1>4 DEF JoinFind
  <2>3. ASSUME NEW s \in stored, code[s] = todo[w].code, Goto(w, call(s))
        PROVE  IInv'
    <3>1. call(s).step = "claim" /\ call(s).session = s /\ call(s).code = todo[w].code
      OBVIOUS
    <3>2. UNCHANGED <<collection, answer>> /\ todo' = [todo EXCEPT ![w] = call(s)]
      BY <2>2, <2>3 DEF Goto
    <3> HIDE DEF call
    <3> QED
      BY <1>0, <2>3, <3>1, <3>2, MoveKeepsIInv
  <2>4. ASSUME NEW s \in stored, guest[s] # None, Reply(w, Full(s))
        PROVE  IInv'
    <3>1. s \in Sessions /\ code[s] # None /\ ~SeatFree(s)
      BY <1>0, <2>4 DEF TypeOK, IInv, SeatFree
    <3> QED
      BY <1>0, <2>2, <2>4, <3>1, RefusalKeepsIInv
  <2>5. ASSUME NEW why \in Refusals, Reply(w, Refused(why))
        PROVE  IInv'
    BY <1>0, <2>2, <2>5, RefusalKeepsIInv
  <2> QED
    BY <2>1, <2>3, <2>4, <2>5
<1>5. ASSUME NEW w \in Workers, JoinClaim(w)
      PROVE  IInv'
  <2>1. CASE SeatFree(todo[w].session)
    BY <1>0, <1>5, <2>1, ClaimKeepsIInv DEF JoinClaim
  <2>2. CASE ~SeatFree(todo[w].session)
    <3>1. /\ todo[w].step = "claim" /\ UNCHANGED collection
          /\ Reply(w, Full(todo[w].session))
      BY <1>5, <2>2 DEF JoinClaim, collection
    <3>2. todo[w].session \in Sessions /\ code[todo[w].session] # None
      <4>1. todo[w].code \in Codes /\ todo[w].session \in Sessions
        BY <1>0, <3>1, CallFields DEF TypeOK
      <4> QED
        BY <3>1, <4>1, CodesAssumption DEF IInv
    <3> QED
      BY <1>0, <2>2, <3>1, <3>2, RefusalKeepsIInv
  <2> QED
    BY <2>1, <2>2
<1>6. ASSUME NEW w \in Workers, Abort(w)
      PROVE  IInv'
  <2>1. UNCHANGED collection /\ Reply(w, Refused("none")) /\ "none" \in Refusals
    BY <1>6 DEF Abort, Refusals
  <2> QED
    BY <1>0, <2>1, RefusalKeepsIInv
<1>7. CASE Expire
  BY <1>0, <1>7 DEF Expire, IInv, JoinedByItsCode, FullMeansTaken
<1>8. CASE CleanupExpired
  <2>1. stored' \subseteq stored /\ \A s \in stored : s \notin expired => s \in stored'
    BY <1>8 DEF CleanupExpired, Deletable
  <2> QED
    BY <1>0, <1>8, <2>1 DEF CleanupExpired, IInv, TypeOK, JoinedByItsCode, FullMeansTaken
<1>9. CASE Over \/ UNCHANGED vars
  BY <1>0, <1>9 DEF Over, vars, collection, IInv, JoinedByItsCode, FullMeansTaken
<1> QED
  BY <1>1, <1>2, <1>3, <1>4, <1>5, <1>6, <1>7, <1>8, <1>9 DEF Next

\* The invariant, and with it type correctness, holds of every execution.
THEOREM Inductive == Spec => []IInv
BY InitIInv, NextIInv, PTL DEF Spec

-----------------------------------------------------------------------------
(* What the invariant is for. *)

\* A code leads its creator's partner to that session, and only there.
THEOREM CodesLeadToSessions == Spec => []CodeLeadsToSession
<1>1. IInv => CodeLeadsToSession
  BY DEF IInv, TypeOK, CodeLeadsToSession
<1> QED
  BY <1>1, Inductive, PTL

\* Nobody is told that a session is full while it has a seat to give, however
\* the clock, the cleanup and other joiners come in between.
THEOREM FullSessionsAreTaken == Spec => []FullMeansTaken
<1>1. IInv => FullMeansTaken
  BY DEF IInv
<1> QED
  BY <1>1, Inductive, PTL

\* Nobody is told that he joined a session in which somebody else sits.
THEOREM JoinsAreByCode == Spec => []JoinedByItsCode
<1>1. IInv => JoinedByItsCode
  BY DEF IInv
<1> QED
  BY <1>1, Inductive, PTL
=============================================================================
