------------------------------- MODULE Outbox -------------------------------
(***************************************************************************)
(* What the terminal client promises about a message the user has typed,   *)
(* without saying how: it is handed over once, each request for it may be  *)
(* taken by the server once, it is confirmed only by a request the server  *)
(* took and given up only when a fixed number of requests was spent.       *)
(* TuiOutbox implements this specification.                                *)
(***************************************************************************)
EXTENDS Naturals

CONSTANTS
    Messages,       \* the messages the user may type
    MaxAttempts     \* the requests spent on one message before it is given up

VARIABLES
    status,         \* what has become of each message
    attempts,       \* how many requests were made for it
    accepted        \* which of those requests the server took

vars == <<status, attempts, accepted>>

Init ==
    /\ status = [m \in Messages |-> "new"]
    /\ attempts = [m \in Messages |-> 0]
    /\ accepted = [m \in Messages |-> {}]

Submit(m) ==
    /\ status[m] = "new"
    /\ status' = [status EXCEPT ![m] = "pending"]
    /\ attempts' = [attempts EXCEPT ![m] = 1]
    /\ UNCHANGED accepted

Settle(m) ==
    \/ /\ attempts[m] \in accepted[m]
       /\ status' = [status EXCEPT ![m] = "confirmed"]
    \/ /\ attempts[m] = MaxAttempts
       /\ status' = [status EXCEPT ![m] = "abandoned"]

\* Some message m is settled, or left as it is, and some message n is tried
\* again; m and n may be two entries of one pass over the queue.
Progress ==
    /\ \/ \E m \in Messages : status[m] = "pending" /\ Settle(m)
       \/ UNCHANGED status
    /\ \/ \E n \in Messages :
            /\ status'[n] = "pending"
            /\ attempts[n] \in 1 .. MaxAttempts - 1
            /\ attempts' = [attempts EXCEPT ![n] = @ + 1]
       \/ UNCHANGED attempts
    /\ UNCHANGED accepted

Accept(m, k) ==
    /\ k \in 1 .. attempts[m]
    /\ k \notin accepted[m]
    /\ accepted' = [accepted EXCEPT ![m] = @ \union {k}]
    /\ UNCHANGED <<status, attempts>>

\* The program ends; what was still pending is gone with it.
Quit ==
    /\ status' = [m \in Messages |->
                    IF status[m] = "pending" THEN "lost" ELSE status[m]]
    /\ UNCHANGED <<attempts, accepted>>

Next ==
    \/ \E m \in Messages : Submit(m)
    \/ Progress
    \/ \E m \in Messages : \E k \in 1 .. MaxAttempts : Accept(m, k)
    \/ Quit

Spec == Init /\ [][Next]_vars
=============================================================================
