---------------------------- MODULE BingoShuffle ----------------------------
(***************************************************************************)
(* How a player board of a bingo board gets its texts: the entries of the  *)
(* request are normalised once, when the board is created, and every       *)
(* player's view is a shuffle of them with the free space moved to the     *)
(* centre (internal/bingo/bingo.go: normalizeEntries, shuffle,             *)
(* buildUserBoard).                                                        *)
(*                                                                         *)
(* Cells are numbered from 0 as in the code.  A text is a value of its     *)
(* own; Spellings are those isFreeSpace accepts, in any case and padding,  *)
(* and Sentinel is the one of them that is stored.                         *)
(***************************************************************************)
EXTENDS Naturals, FiniteSets

CONSTANTS
    Size,        \* boardSize
    FreeSpace,   \* freeSpaceIndex
    Texts,       \* what an entry of a request may be
    Spellings,   \* the texts isFreeSpace accepts
    Sentinel     \* freeSpaceSentinel

Cells == 0..(Size - 1)

ASSUME ShuffleAssumption ==
    /\ Size \in Nat \ {0}
    /\ FreeSpace \in Cells
    /\ Spellings \subseteq Texts
    /\ Sentinel \in Spellings

VARIABLES
    source,         \* the normalised entries, as stored with the board
    hasFreeSpace,   \* the board's flag
    out,            \* the player board being built
    i,              \* the loop variable of shuffle
    drawn,          \* history: what was drawn at each i
    marks,          \* the marks of the player board
    pc

vars == <<source, hasFreeSpace, out, i, drawn, marks, pc>>

Normalized_AsSent(entries) == entries
Normalized(entries) ==
    [c \in Cells |-> IF entries[c] \in Spellings THEN Sentinel ELSE entries[c]]

Swap_LosesOne(f, a, b) == [f EXCEPT ![a] = f[b]]
Swap(f, a, b) == [f EXCEPT ![a] = f[b], ![b] = f[a]]

\* CreateBoard: the board is about to be shuffled for its creator.
Init ==
    \E entries \in [Cells -> Texts] :
        /\ source = Normalized(entries)
        /\ hasFreeSpace = \E c \in Cells : entries[c] \in Spellings
        /\ out = source
        /\ i = Size - 1
        /\ drawn = [c \in Cells |-> 0]
        /\ marks = {}
        /\ pc = "shuffle"

\* What rand.Int may return for i.
Choices_NeverInPlace(k) == 0..(k - 1)
Choices(k) == 0..k

\* One iteration of shuffle.
Draw ==
    /\ pc = "shuffle" /\ i > 0
    /\ \E j \in Choices(i) :
          /\ out' = Swap(out, i, j)
          /\ drawn' = [drawn EXCEPT ![i] = j]
    /\ i' = i - 1
    /\ UNCHANGED <<source, hasFreeSpace, marks, pc>>

\* The random source fails and the request with it; nothing is stored.
DrawFails ==
    /\ pc = "shuffle" /\ i > 0
    /\ pc' = "failed"
    /\ UNCHANGED <<source, hasFreeSpace, out, i, drawn, marks>>

Shuffled ==
    /\ pc = "shuffle" /\ i = 0
    /\ pc' = "centre"
    /\ UNCHANGED <<source, hasFreeSpace, out, i, drawn, marks>>

\* The first cell, in board order, that is the free space.
IsFirstFree(c) ==
    out[c] = Sentinel /\ \A d \in Cells : d < c => out[d] # Sentinel

Centred_Overwritten(c) == [out EXCEPT ![FreeSpace] = Sentinel]
Centred(c) == Swap(out, c, FreeSpace)

Centre ==
    /\ pc = "centre"
    /\ IF hasFreeSpace
       THEN /\ marks' = {FreeSpace}
            /\ \/ \E c \in Cells :
                    /\ IsFirstFree(c)
                    /\ out' = IF c # FreeSpace THEN Centred(c) ELSE out
               \/ (\A c \in Cells : out[c] # Sentinel) /\ out' = out
       ELSE marks' = {} /\ out' = out
    /\ pc' = "minted"
    /\ UNCHANGED <<source, hasFreeSpace, i, drawn>>

\* MintUserBoard: the next player's board is shuffled from the stored entries.
MintUserBoard ==
    /\ pc \in {"minted", "failed"}
    /\ out' = source
    /\ i' = Size - 1
    /\ drawn' = [c \in Cells |-> 0]
    /\ marks' = {}
    /\ pc' = "shuffle"
    /\ UNCHANGED <<source, hasFreeSpace>>

Next == Draw \/ DrawFails \/ Shuffled \/ Centre \/ MintUserBoard

Spec == Init /\ [][Next]_vars

-----------------------------------------------------------------------------
(* Properties. *)

\* Every variable keeps its type.
TypeOK ==
    /\ source \in [Cells -> Texts] /\ out \in [Cells -> Texts]
    /\ hasFreeSpace \in BOOLEAN
    /\ i \in Cells
    /\ drawn \in [Cells -> Cells]
    /\ marks \subseteq Cells
    /\ pc \in {"shuffle", "centre", "minted", "failed"}

Layouts ==
    {p \in [Cells -> Cells] :
        /\ \A a, b \in Cells : p[a] = p[b] => a = b
        /\ \A b \in Cells : \E a \in Cells : p[a] = b}

\* A player board has the entries of the board, each as often: nothing is
\* lost, doubled or taken from another board, at any point of the shuffle and
\* of the move to the centre.
IsRearrangement == \E p \in Layouts : out = [c \in Cells |-> source[p[c]]]

\* The board a player gets has the free space where the mark is: at the
\* centre, however it was spelled in the request and however often it occurs.
FreeSpaceCentred ==
    pc = "minted" =>
        /\ hasFreeSpace => FreeSpace \in marks
        /\ \A c \in marks : c = FreeSpace /\ out[c] = Sentinel

\* The board has a free space exactly if its flag says so; what is stored is
\* only ever spelled the one way the move to the centre looks for.
FlagIsTrue ==
    /\ hasFreeSpace <=> \E c \in Cells : source[c] = Sentinel
    /\ \A c \in Cells : source[c] \in Spellings => source[c] = Sentinel

\* What is inductive of the three above.
BoardInv == TypeOK /\ IsRearrangement /\ FlagIsTrue /\ FreeSpaceCentred

\* What a run of draws leads to: the layouts on the way, each once the cells
\* down to k are drawn for, and the last of them.
Draws == {d \in [Cells -> Cells] : d[0] = 0 /\ \A k \in Cells \ {0} : d[k] \in Choices(k)}
After(d) ==
    LET after[k \in 1..Size] ==
            IF k = Size THEN [c \in Cells |-> c] ELSE Swap(after[k + 1], k, d[k])
    IN  after
LayoutFor(d) == After(d)[1]

\* The board under way is the one its draws so far lead to, whatever is drawn
\* next.
DrawnSoFar ==
    /\ drawn \in Draws
    /\ pc \in {"shuffle", "centre"} => out = [c \in Cells |-> source[After(drawn)[i + 1][c]]]
    /\ pc = "centre" => i = 0

\* The shuffle is fair if the random source is: the draws determine the
\* layout, and every layout is reached by exactly one run of draws.
EveryLayoutOnce ==
    pc = "centre" =>
        /\ out = [c \in Cells |-> source[LayoutFor(drawn)[c]]]
        /\ \A p \in Layouts : Cardinality({d \in Draws : LayoutFor(d) = p}) = 1

\* Where a layout ends up that has the entry s in its centre by a swap.
OneFree(s) == \A c \in Cells : source[c] = Sentinel <=> c = s
MovedToCentre(p, s) == Swap(p, CHOOSE c \in Cells : p[c] = s, FreeSpace)

\* And so is the board a player gets, if it has one free space: every layout
\* with that at the centre is reached as often, once for every cell the free
\* space may have been shuffled to.
CentredFollowsDraws ==
    pc = "minted" => \A s \in Cells : OneFree(s) =>
        out = [c \in Cells |-> source[MovedToCentre(LayoutFor(drawn), s)[c]]]
CentredAsOften ==
    /\ CentredFollowsDraws
    /\ pc = "minted" => \A s \in Cells, p \in Layouts :
          OneFree(s) /\ p[FreeSpace] = s =>
              Cardinality({d \in Draws : MovedToCentre(LayoutFor(d), s) = p}) = Size

\* The inductive invariant of this module.
IInv == BoardInv /\ DrawnSoFar /\ CentredFollowsDraws
=============================================================================
