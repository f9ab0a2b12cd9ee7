--------------------------- MODULE RequestService ---------------------------
(***************************************************************************)
(* What struct conbee_device promises the threads that use it, without     *)
(* queues, worker, pipe or line: every request is submitted once, answered *)
(* at most once, to one thread, and when it has been answered or lost      *)
(* nothing of it ever comes back.  That a request is answered at all is    *)
(* not promised: the stick may not answer, and closing loses what is       *)
(* queued.                                                                 *)
(***************************************************************************)
EXTENDS Naturals

CONSTANT MaxRequests

VARIABLE state \* of each request, by its number

Requests == 1..MaxRequests

Init == state = [k \in Requests |-> "unused"]

(* conbee_enqueue_frame gives a request the next number.                   *)
Submit(k) == /\ state[k] = "unused"
             /\ \A earlier \in 1..(k - 1) : state[earlier] # "unused"
             /\ state' = [state EXCEPT ![k] = "pending"]

(* conbee_wait_for_frame returns the answer to one of its callers.         *)
Answer(k) == /\ state[k] = "pending"
             /\ state' = [state EXCEPT ![k] = "answered"]

(* The caller is done with answers, or requests and answers are lost: with *)
(* a damaged packet, a closed tty, a device connected anew, a killed       *)
(* process.                                                                *)
End(ks) == /\ ks # {}
           /\ \A k \in ks : state[k] \in {"pending", "answered"}
           /\ state' = [k \in Requests |-> IF k \in ks THEN "over" ELSE state[k]]

Next == \/ \E k \in Requests : Submit(k) \/ Answer(k)
        \/ \E ks \in SUBSET Requests : End(ks)

Spec == Init /\ [][Next]_state
=============================================================================
