----------------------------- MODULE BingoBoard -----------------------------
(***************************************************************************)
(* One bingo board: its document in the bingo_boards collection and the    *)
(* handlers that mint player boards and toggle marks on them               *)
(* (internal/bingo/bingo.go, handler.go).                                  *)
(*                                                                         *)
(* As in WatcherSession a handler is a sequence of atomic database calls,  *)
(* and todo[w] is what worker w still has to do.  The document starts as   *)
(* CreateBoard inserts it.  The texts on a board never change once it is   *)
(* minted and are the subject of BingoShuffle; here a player board is its  *)
(* set of marked cells.                                                    *)
(***************************************************************************)
EXTENDS Naturals, FiniteSets

CONSTANTS
    Workers,
    Users,          \* ids NewObjectID may generate for players
    Creator,        \* the id CreateBoard minted
    Cells,          \* indices of the cells the handler lets through
    FreeSpace,      \* freeSpaceIndex
    MaxUserBoards,  \* maxUserBoards
    Faults          \* TRUE: a database call may fail, a handler may die

ASSUME BingoAssumption ==
    /\ Creator \in Users
    /\ FreeSpace \in Cells
    /\ MaxUserBoards \in Nat \ {0}
    /\ Faults \in BOOLEAN

VARIABLES
    hasFreeSpace,   \* the board's own flag
    players,        \* keys of userBoards
    marks,          \* the marks of each of them
    exists,         \* FALSE once the cleanup has deleted the board
    expired,        \* the clock has reached expiresAt
    todo,           \* what each worker has left to do
    answer,         \* what each worker last answered
    odd             \* history: <<player, cell>> toggled an odd number of times

vars == <<hasFreeSpace, players, marks, exists, expired, todo, answer, odd>>
board == <<hasFreeSpace, players, marks, odd>>

Idle == [step |-> "idle"]

Call ==
    {Idle}
    \cup [step : {"mint.find", "mint.update", "mint.reread"}, late : BOOLEAN, user : Users]
    \cup [step : {"toggle.find"}, late : BOOLEAN, user : Users, cell : Cells]
    \cup [step : {"toggle.update"}, late : BOOLEAN, user : Users, cell : Cells,
          seen : SUBSET Cells]

Answers == {"none", "ok", "not found", "expired", "limit reached",
            "user not found", "not toggleable"}

\* buildUserBoard marks the free space of a new player board.
NewMarks == IF hasFreeSpace THEN {FreeSpace} ELSE {}

Full(seated) == Cardinality(seated) >= MaxUserBoards

Init ==
    /\ hasFreeSpace \in BOOLEAN
    /\ players = {Creator}
    /\ marks = [u \in Users |-> IF u = Creator THEN NewMarks ELSE {}]
    /\ exists = TRUE /\ expired = FALSE
    /\ todo = [w \in Workers |-> Idle]
    /\ answer = [w \in Workers |-> "none"]
    /\ odd = {}

\* A request comes in; the handler notes the time before its first call.
Take(w, call) ==
    /\ todo[w] = Idle
    /\ todo' = [todo EXCEPT ![w] = call]
    /\ answer' = [answer EXCEPT ![w] = "none"]
    /\ UNCHANGED <<board, exists, expired>>

Goto(w, call) ==
    todo' = [todo EXCEPT ![w] = call] /\ UNCHANGED answer

Reply(w, what) ==
    /\ todo' = [todo EXCEPT ![w] = Idle]
    /\ answer' = [answer EXCEPT ![w] = what]

-----------------------------------------------------------------------------
(* GET bingo/{boardId}: MintUserBoard *)

\* The id is generated after the first read; nobody else has it.
Unused(user) ==
    user \notin players /\ \A v \in Workers : todo[v] # Idle => todo[v].user # user

MintUserBoard(w) ==
    \E user \in Users :
        /\ Unused(user)
        /\ Take(w, [step |-> "mint.find", late |-> expired, user |-> user])

MintFind(w) ==
    LET c == todo[w] IN
    /\ c.step = "mint.find"
    /\ CASE ~exists -> Reply(w, "not found")
         [] exists /\ c.late -> Reply(w, "expired")
         [] exists /\ ~c.late /\ Full(players) -> Reply(w, "limit reached")
         [] OTHER -> Goto(w, [c EXCEPT !.step = "mint.update"])
    /\ UNCHANGED <<board, exists, expired>>

\* The filter of the update that adds the player.
MintFilter_CapUnchecked(late) == ~late
MintFilter(late) == ~late /\ ~Full(players)

NewPlayerMarks_OneBased == IF hasFreeSpace THEN {FreeSpace + 1} ELSE {}
NewPlayerMarks == NewMarks

MintUpdate(w) ==
    LET c == todo[w] IN
    /\ c.step = "mint.update"
    /\ IF exists /\ MintFilter(c.late)
       THEN /\ players' = players \cup {c.user}
            /\ marks' = [marks EXCEPT ![c.user] = NewPlayerMarks]
            /\ Reply(w, "ok")
       ELSE /\ Goto(w, [c EXCEPT !.step = "mint.reread"])
            /\ UNCHANGED <<players, marks>>
    /\ UNCHANGED <<hasFreeSpace, exists, expired, odd>>

\* What the re-read makes of the refused update.
Diagnosis_LimitAssumed(found, late) == "limit reached"
Diagnosis(found, late) ==
    IF found /\ ~late /\ Full(players) THEN "limit reached" ELSE "expired"

\* A re-read that fails is treated like one that finds nothing.
MintReread(w) ==
    LET c == todo[w] IN
    /\ c.step = "mint.reread"
    /\ \/ Reply(w, Diagnosis(exists, c.late))
       \/ Faults /\ Reply(w, Diagnosis(FALSE, c.late))
    /\ UNCHANGED <<board, exists, expired>>

-----------------------------------------------------------------------------
(* PUT bingo/{boardId}/user/{userId}/mark/{index}: ToggleMark *)

ToggleMark(w) ==
    \E user \in Users, cell \in Cells :
        Take(w, [step |-> "toggle.find", late |-> expired, user |-> user, cell |-> cell])

Toggleable_Always(cell) == TRUE
Toggleable(cell) == ~(hasFreeSpace /\ cell = FreeSpace)

ToggleFind(w) ==
    LET c == todo[w] IN
    /\ c.step = "toggle.find"
    /\ CASE ~exists -> Reply(w, "not found")
         [] exists /\ c.late -> Reply(w, "expired")
         [] exists /\ ~c.late /\ c.user \notin players -> Reply(w, "user not found")
         [] exists /\ ~c.late /\ c.user \in players /\ ~Toggleable(c.cell)
              -> Reply(w, "not toggleable")
         [] OTHER -> Goto(w, [step |-> "toggle.update", late |-> c.late, user |-> c.user,
                              cell |-> c.cell, seen |-> marks[c.user]])
    /\ UNCHANGED <<board, exists, expired>>

\* The update pipeline flips the stored marks, whatever the handler had read.
Flipped_ReadModifyWrite(stored, seen, cell) ==
    IF cell \in seen THEN seen \ {cell} ELSE seen \cup {cell}
Flipped(stored, seen, cell) ==
    IF cell \in stored THEN stored \ {cell} ELSE stored \cup {cell}

ToggleUpdate(w) ==
    LET c == todo[w]
        flip == <<c.user, c.cell>>
    IN
    /\ c.step = "toggle.update"
    /\ IF exists /\ ~c.late
       THEN /\ marks' = [marks EXCEPT ![c.user] = Flipped(@, c.seen, c.cell)]
            /\ odd' = IF flip \in odd THEN odd \ {flip} ELSE odd \cup {flip}
            /\ Reply(w, "ok")
       ELSE /\ Reply(w, "expired")
            /\ UNCHANGED <<marks, odd>>
    /\ UNCHANGED <<hasFreeSpace, players, exists, expired>>

-----------------------------------------------------------------------------
(* Time, the cleanup, and failures. *)

Expire ==
    /\ ~expired
    /\ expired' = TRUE
    /\ UNCHANGED <<board, exists, todo, answer>>

CleanupExpired ==
    /\ exists /\ expired
    /\ exists' = FALSE
    /\ UNCHANGED <<board, expired, todo, answer>>

\* The request is cancelled, a call fails, or the process dies.
Abort(w) ==
    /\ Faults /\ todo[w] # Idle
    /\ Reply(w, "none")
    /\ UNCHANGED <<board, exists, expired>>

Next ==
    \/ \E w \in Workers :
          \/ MintUserBoard(w) \/ MintFind(w) \/ MintUpdate(w) \/ MintReread(w)
          \/ ToggleMark(w) \/ ToggleFind(w) \/ ToggleUpdate(w)
          \/ Abort(w)
    \/ Expire
    \/ CleanupExpired

Spec == Init /\ [][Next]_vars

-----------------------------------------------------------------------------
(* Properties. *)

\* Every variable keeps its type.
TypeOK ==
    /\ hasFreeSpace \in BOOLEAN
    /\ players \subseteq Users
    /\ marks \in [Users -> SUBSET Cells]
    /\ exists \in BOOLEAN /\ expired \in BOOLEAN
    /\ todo \in [Workers -> Call]
    /\ answer \in [Workers -> Answers]
    /\ odd \subseteq Users \X Cells

\* However many mints race, a board never has more players than the cap.
CapRespected == Cardinality(players) <= MaxUserBoards

\* Minting is a bounded claim: players are added one at a time while there is
\* room, none is lost or replaced, and none is added to a deleted board.
Roomy(seated) == Cardinality(seated) < MaxUserBoards
Seats == INSTANCE SeatClaim WITH
    Claimants <- Users, First <- {Creator}, HasRoom <- Roomy,
    seated <- players, open <- exists
MintIsBoundedClaim == Seats!Spec

\* The free space of every player stays marked, whatever is toggled.
FreeSpaceAlwaysMarked ==
    hasFreeSpace => \A u \in players : FreeSpace \in marks[u]

\* No toggle is lost and none leaks into another cell or board: a cell is
\* marked exactly if it was toggled an odd number of times (or is the free
\* space), however the toggles of several devices interleave.
MarksAreParity ==
    \A u \in players : \A i \in Cells :
        i \in marks[u] <=> (<<u, i>> \in odd \/ (hasFreeSpace /\ i = FreeSpace))

MintSteps == {"mint.find", "mint.update", "mint.reread"}

\* The inductive invariant behind the cap, the parity of the marks and the
\* free space: an id being minted is new and nobody else's, nothing has been
\* toggled on a board before it is minted, and a toggle under way is one of a
\* player's cells that may be toggled.
IInv ==
    /\ TypeOK /\ CapRespected /\ MarksAreParity
    /\ IsFiniteSet(players)
    /\ \A u \in Users \ players, i \in Cells : <<u, i>> \notin odd
    /\ \A w \in Workers : todo[w].step \in MintSteps =>
          /\ todo[w].user \notin players
          /\ \A v \in Workers \ {w} :
                todo[v].step \in MintSteps => todo[v].user # todo[w].user
    /\ \A w \in Workers : todo[w].step = "toggle.update" =>
          todo[w].user \in players /\ Toggleable(todo[w].cell)

\* A player told that the limit is reached was refused by a full board, also
\* when the last seat was taken between the handler's two calls.
LimitAnswerIsTrue ==
    \A w \in Workers : answer[w] = "limit reached" => Full(players)
=============================================================================
