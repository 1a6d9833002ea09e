------------------------------ MODULE SeatClaim ------------------------------
(***************************************************************************)
(* What the two bounded claims of the backend promise: the partner slot of *)
(* a watcher session (JoinSession, one seat) and the player boards of a    *)
(* bingo board (MintUserBoard, maxUserBoards seats).                       *)
(*                                                                         *)
(* While there is room claimants take seats, one at a time; a seat taken   *)
(* is kept; and once what the seats belong to is deleted nobody takes one  *)
(* any more.                                                               *)
(***************************************************************************)
CONSTANTS
    Claimants,
    First,          \* who is seated from the start: the creator of a board
    HasRoom(_)      \* whether those seated leave room for one more

VARIABLES seated, open

Init == seated = First /\ open = TRUE

Claim ==
    /\ open /\ HasRoom(seated)
    /\ \E c \in Claimants \ seated : seated' = seated \cup {c}
    /\ UNCHANGED open

Close == open /\ open' = FALSE /\ UNCHANGED seated

Next == Claim \/ Close

Spec == Init /\ [][Next]_<<seated, open>>
=============================================================================
