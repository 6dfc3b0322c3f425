----------------------------- MODULE MCAsyncEvents -----------------------------
(* One handler of e1 and e2 that publishes e3 and asks for a status;       *)
(* e2 is published by CancelAsyncProcess.  While the one worker handles    *)
(* e1, e3 fills the channel, and e2 finds no room.                         *)
EXTENDS AsyncEvents

CONSTANTS e1, e2, e3, h1

MCWants == [h \in {h1} |-> {e1, e2}]
MCFollowUp == [h \in {h1} |-> {e3}]
=============================================================================
