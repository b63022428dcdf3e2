---------------------------- MODULE MCSessionEvents ----------------------------
(* Small instances of SessionEvents for TLC. *)
EXTENDS SessionEvents, TLC

CONSTANTS m1, m2, p1, p2

\* two deltas of one message, one of another, a snapshot
Conversation == <<m1, m1, m2, Boundary>>

Questions == {6}

\* the command that answers, in the worker, and an upload in another process
AnswerAndUpload == {7, 8}

\* a question and its answer, or the upload
OneAtATime == {{6, 7}, {8}}

Answers == 7 :> 6

Processes == Runtime :> p1 @@ 7 :> p1 @@ 8 :> p2
=============================================================================
