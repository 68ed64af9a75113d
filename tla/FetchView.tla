------------------------------ MODULE FetchView ------------------------------
(***************************************************************************)
(* What every page of the web console promises its reader about the data   *)
(* it fetches, whatever the page does with them: the abstract              *)
(* specification of the pages under web/src/pages.                         *)
(*                                                                         *)
(* A page is opened and left.  While it is open it asks the gateway, and   *)
(* asks again, any number of times at once; nothing is promised about the  *)
(* order in which the answers come.  What it shows came with a call of     *)
(* this very visit, each call is heard once, and it says that it is        *)
(* waiting only while a call is under way, so that it does not wait for    *)
(* ever.                                                                   *)
(***************************************************************************)
EXTENDS Naturals

VARIABLES
    last,     \* the number of calls the page has made
    asked,    \* the calls under way that the page will hear of
    shown,    \* the call whose answer is on the page, 0 if none is
    waiting   \* the page shows that it is waiting

view == <<last, asked, shown, waiting>>

Closed ==
    /\ asked = {}
    /\ shown = 0
    /\ waiting = FALSE

Init == last = 0 /\ Closed

Open ==
    /\ Closed
    /\ last' = last + 1
    /\ asked' = {last'}
    /\ waiting' = TRUE
    /\ UNCHANGED shown

Ask ==
    /\ last' = last + 1
    /\ asked' = asked \cup {last'}
    /\ waiting' \in {waiting, TRUE}
    /\ UNCHANGED shown

\* The first answer ends the waiting, the last one is the one on the page.
Hear ==
    \E c \in asked :
        /\ asked' = asked \ {c}
        /\ shown' \in {shown, c}
        /\ waiting' = FALSE
        /\ UNCHANGED last

Leave ==
    /\ asked' = {}
    /\ shown' = 0
    /\ waiting' = FALSE
    /\ UNCHANGED last

Next == Open \/ Ask \/ Hear \/ Leave

Fetches == Init /\ [][Next]_view

\* A call ends, and the page hears of it if it is still open.
FetchesAndHears == Fetches /\ WF_view(Hear)

=============================================================================
