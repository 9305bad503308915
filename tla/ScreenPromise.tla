--------------------------- MODULE ScreenPromise ---------------------------
(***************************************************************************)
(* What the home page promises of the verdict on screen, with no requests, *)
(* no aborts, no address bar and no effects in sight: what is shown is the *)
(* question asked last, and when its answer comes it is that question's    *)
(* answer, once; a verdict is only replaced by asking, and only dismissing *)
(* or leaving takes it away.                                               *)
(***************************************************************************)
CONSTANTS
    Questions,  \* what a visitor may ask
    None

VARIABLE shown  \* [status, question], or None when there is only the form

Nothing == shown' = None

Ask == \E q \in Questions : shown' = [status |-> "loading", question |-> q]

Answered ==
    /\ shown # None
    /\ shown.status = "loading"
    /\ \E s \in {"success", "error"} : shown' = [shown EXCEPT !.status = s]

ScreenInit == shown = None
ScreenNext == Nothing \/ Ask \/ Answered
ScreenSpec == ScreenInit /\ [][ScreenNext]_shown
=============================================================================
