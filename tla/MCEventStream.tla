---------------------------- MODULE MCEventStream ----------------------------
(* Instances of EventStream for TLC. *)
EXTENDS EventStream

CONSTANTS j1

\* The user asks for a job before the server restarts; the answer may come later.
EarlyNext == Next /\ (instance = 1 \/ reply' \in {reply, NoReply})
EarlySpec == Init /\ [][EarlyNext]_vars

Published == JobEvents \cup ProgressEvents \cup {OtherEvent}
=============================================================================
