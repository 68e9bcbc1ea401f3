--------------------------- MODULE CommandLifecycle ---------------------------
(******************************************************************************)
(* What the commands table promises to those who read it: a command appears   *)
(* as sent, once; it is then finished by a result or by its expiration; a      *)
(* later result may replace an earlier one, but nothing replaces a success.    *)
(******************************************************************************)
CONSTANTS Command,    \* the commands
          Outcomes    \* the statuses of a finished command

VARIABLE status

Init == status = [c \in Command |-> "none"]

(* sendCommands stores a batch of new commands.                               *)
Send(batch) ==
  /\ \A c \in batch : status[c] = "none"
  /\ status' = [c \in Command |-> IF c \in batch THEN "sent" ELSE status[c]]

(* A result, or the expiration, of a command is stored.                       *)
Finish(c, o) ==
  /\ status[c] \notin {"none", "success"}
  /\ status' = [status EXCEPT ![c] = o]

Next == \/ \E batch \in SUBSET Command : Send(batch)
        \/ \E c \in Command, o \in Outcomes : Finish(c, o)

Spec == Init /\ [][Next]_status
================================================================================
