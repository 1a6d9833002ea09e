---------------------------- MODULE SessionCodes ----------------------------
(***************************************************************************)
(* The join codes of all watcher sessions: how CreateSession finds one     *)
(* that is free, how JoinSession gets from a code to a session, and how    *)
(* codes come free again (internal/watcher/watcher.go; the unique index on *)
(* code is made by internal/mongox/client.go).                             *)
(*                                                                         *)
(* WatcherSession follows one session from its first to its last write;    *)
(* here there are many, and of each only its code, its guest and whether   *)
(* it is stored.                                                           *)
(***************************************************************************)
EXTENDS Naturals

CONSTANTS
    Workers,
    Sessions,   \* ids NewObjectID may generate; a bound on the sessions created
    Codes,      \* what generateCode may return
    None,       \* no code, or no guest
    Retries,    \* codeGenerationRetries
    Faults      \* TRUE: a database call may fail, a handler may die

ASSUME CodesAssumption ==
    /\ None \notin Codes \cup Workers
    /\ Retries \in Nat \ {0}
    /\ Faults \in BOOLEAN

VARIABLES
    stored,     \* the sessions in the collection
    expired,    \* those whose expiresAt the clock has reached
    code,       \* the code each session was stored with
    guest,      \* the worker whose token is participants.p2.token
    todo,
    answer

vars == <<stored, expired, code, guest, todo, answer>>
collection == <<stored, expired, code, guest>>

Idle == [step |-> "idle"]
Call ==
    {Idle}
    \cup [step : {"insert"}, session : Sessions, left : 1 .. Retries]
    \cup [step : {"find"}, code : Codes, late : SUBSET Sessions]
    \cup [step : {"claim"}, code : Codes, session : Sessions]

Refused(why) == [kind |-> why]
Created(s) == [kind |-> "created", session |-> s]
Joined(s, c) == [kind |-> "joined", session |-> s, code |-> c]
Full(s) == [kind |-> "full", session |-> s]
Refusals == {"none", "noFreeCode", "notFound", "expired"}
Answers ==
    {Refused(why) : why \in Refusals}
    \cup {Created(s) : s \in Sessions}
    \cup {Joined(s, c) : s \in Sessions, c \in Codes}
    \cup {Full(s) : s \in Sessions}

Init ==
    /\ stored = {} /\ expired = {}
    /\ code = [s \in Sessions |-> None]
    /\ guest = [s \in Sessions |-> None]
    /\ todo = [w \in Workers |-> Idle]
    /\ answer = [w \in Workers |-> Refused("none")]

\* A worker serves one client: once that has an answer it asks no more (a
\* bound), so that the answer stays to be looked at; without one it asks again.
Take(w, call) ==
    /\ todo[w] = Idle /\ answer[w] = Refused("none")
    /\ todo' = [todo EXCEPT ![w] = call]
    /\ UNCHANGED <<collection, answer>>

Goto(w, call) == todo' = [todo EXCEPT ![w] = call] /\ UNCHANGED answer

Reply(w, what) ==
    /\ todo' = [todo EXCEPT ![w] = Idle]
    /\ answer' = [answer EXCEPT ![w] = what]

-----------------------------------------------------------------------------
(* POST watcher/sessions *)

\* The id of a new session; one stands for those of all attempts.
Unused(s) ==
    code[s] = None /\ \A v \in Workers : todo[v].step = "insert" => todo[v].session # s

CreateSession(w) ==
    \E s \in Sessions :
        Unused(s) /\ Take(w, [step |-> "insert", session |-> s, left |-> Retries])

\* The unique index refuses the insert.
Collides_NoIndex(c) == FALSE
Collides(c) == \E s \in stored : code[s] = c

LeftAfter_StartOver(left) == IF left = 1 THEN Retries ELSE left - 1
LeftAfter(left) == left - 1

Insert(w) ==
    LET call == todo[w] IN
    /\ call.step = "insert"
    /\ \E c \in Codes :
          IF Collides(c)
          THEN /\ IF LeftAfter(call.left) = 0 THEN Reply(w, Refused("noFreeCode"))
                  ELSE Goto(w, [call EXCEPT !.left = LeftAfter(call.left)])
               /\ UNCHANGED collection
          ELSE /\ stored' = stored \cup {call.session}
               /\ code' = [code EXCEPT ![call.session] = c]
               /\ UNCHANGED <<expired, guest>>
               /\ \/ Reply(w, Created(call.session))
                  \/ Faults /\ Reply(w, Refused("none"))   \* the answer is lost

-----------------------------------------------------------------------------
(* POST watcher/sessions/{code}/join *)

JoinSession(w) ==
    \E c \in Codes : Take(w, [step |-> "find", code |-> c, late |-> expired])

JoinFind(w) ==
    LET call == todo[w] IN
    /\ call.step = "find"
    /\ \/ /\ \A s \in stored : code[s] # call.code
          /\ Reply(w, Refused("notFound"))
       \/ \E s \in stored :
             /\ code[s] = call.code
             /\ CASE s \in call.late -> Reply(w, Refused("expired"))
                  [] s \notin call.late /\ guest[s] # None -> Reply(w, Full(s))
                  [] OTHER -> Goto(w, [step |-> "claim", code |-> call.code, session |-> s])
    /\ UNCHANGED collection

\* The filter of the claim, by the id of the session that was found.
SeatFree_Unchecked(s) == s \in stored
SeatFree_ExpiredToo(s) == s \in stored /\ guest[s] = None /\ s \notin expired
SeatFree(s) == s \in stored /\ guest[s] = None

JoinClaim(w) ==
    LET call == todo[w] IN
    /\ call.step = "claim"
    /\ IF SeatFree(call.session)
       THEN /\ guest' = [guest EXCEPT ![call.session] = w]
            /\ \/ Reply(w, Joined(call.session, call.code))
               \/ Faults /\ Reply(w, Refused("none"))
       ELSE Reply(w, Full(call.session)) /\ UNCHANGED guest
    /\ UNCHANGED <<stored, expired, code>>

-----------------------------------------------------------------------------
(* Time, the cleanup, and failures. *)

Expire ==
    /\ \E s \in stored \ expired : expired' = expired \cup {s}
    /\ UNCHANGED <<stored, code, guest, todo, answer>>

\* CleanupExpired deletes all it finds, the TTL monitor some of them.
Deletable_Any == stored
Deletable == stored \cap expired

CleanupExpired ==
    /\ \E gone \in (SUBSET Deletable) \ {{}} : stored' = stored \ gone
    /\ UNCHANGED <<expired, code, guest, todo, answer>>

Abort(w) ==
    /\ Faults /\ todo[w] # Idle
    /\ Reply(w, Refused("none"))
    /\ UNCHANGED collection

\* Everybody has an answer.
Over ==
    /\ \A w \in Workers : todo[w] = Idle /\ answer[w] # Refused("none")
    /\ UNCHANGED vars

Next ==
    \/ \E w \in Workers :
          \/ CreateSession(w) \/ Insert(w)
          \/ JoinSession(w) \/ JoinFind(w) \/ JoinClaim(w)
          \/ Abort(w)
    \/ Expire \/ CleanupExpired
    \/ Over

Spec == Init /\ [][Next]_vars
FairSpec == Spec /\ \A w \in Workers : WF_vars(Insert(w))

-----------------------------------------------------------------------------
(* Properties. *)

\* Every variable keeps its type.
TypeOK ==
    /\ stored \subseteq Sessions /\ expired \subseteq Sessions
    /\ code \in [Sessions -> Codes \cup {None}]
    /\ guest \in [Sessions -> Workers \cup {None}]
    /\ todo \in [Workers -> Call]
    /\ answer \in [Workers -> Answers]

\* A code a creator was given leads to that session and to no other until the
\* session expires, however many sessions come and go on the same code.
CodeLeadsToSession ==
    \A w \in Workers, s \in Sessions :
        answer[w] = Created(s) /\ s \notin expired =>
            {t \in stored : code[t] = code[s]} = {s}

\* A joiner who was told that he joined sits in the session whose code he
\* gave, also when that code has gone to another session meanwhile.
JoinedByItsCode ==
    \A w \in Workers, s \in Sessions, c \in Codes :
        answer[w] = Joined(s, c) => code[s] = c /\ guest[s] = w

\* A joiner who was told that the session he asked for is full could not have
\* had a seat in it: it is taken, or gone with the session, and stays so.
FullMeansTaken ==
    \A w \in Workers, s \in Sessions :
        answer[w] = Full(s) => s \notin stored \/ guest[s] # None

\* CreateSession gives up in the end, however unlucky its codes.
CreationEnds ==
    \A w \in Workers : todo[w].step = "insert" ~> todo[w] = Idle

\* The inductive invariant behind the three above.
IInv ==
    /\ TypeOK
    /\ \A s, t \in stored : code[s] = code[t] => s = t
    /\ \A s \in stored : code[s] # None
    /\ \A s \in Sessions : code[s] = None => guest[s] = None
    /\ \A v, w \in Workers :
          todo[v].step = "insert" =>
              /\ code[todo[v].session] = None
              /\ todo[w].step = "insert" /\ todo[w].session = todo[v].session => v = w
    /\ \A w \in Workers : todo[w].step = "claim" => code[todo[w].session] = todo[w].code
    /\ \A w \in Workers, s \in Sessions :
          answer[w] = Created(s) => code[s] # None /\ (s \notin expired => s \in stored)
    /\ \A w \in Workers, s \in Sessions : answer[w] = Full(s) => code[s] # None
    /\ JoinedByItsCode /\ FullMeansTaken
=============================================================================
