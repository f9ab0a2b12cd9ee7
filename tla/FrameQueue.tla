----------------------------- MODULE FrameQueue -----------------------------
(***************************************************************************)
(* What a queue of conbee-queue.c promises its callers: contents come out  *)
(* in the order they went in, each once.  The promise ends when an item    *)
(* is deleted from the head after its predecessor has been freed: from     *)
(* there on the C program is undefined and the machine stops.              *)
(***************************************************************************)
EXTENDS QueueOps

CONSTANTS Values,    \* what is queued: pointers to frames
          NULL,      \* what pop returns on an empty queue
          MaxPushes  \* bound on the number of pushes

VARIABLES items,     \* the queue, a sequence of Item(Values)
          result,    \* what the last pop, or search and delete, returned
          pushes,    \* number of pushes so far, for the bound only
          wild       \* freed memory has been accessed

vars == <<items, result, pushes, wild>>

Init == /\ items = <<>>
        /\ result = NULL
        /\ pushes = 0
        /\ wild = FALSE

Push(v) == /\ ~wild /\ pushes < MaxPushes
           /\ items' = QueuePush(items, v)
           /\ pushes' = pushes + 1
           /\ UNCHANGED <<result, wild>>

PopEmpty == /\ ~wild /\ items = <<>>
            /\ result' = NULL
            /\ UNCHANGED <<items, pushes, wild>>

Pop == /\ ~wild /\ items # <<>>
       /\ result' = Head(items).contents
       /\ items' = QueuePop(items)
       /\ UNCHANGED <<pushes, wild>>

DeleteHead == /\ ~wild /\ items # <<>>
              /\ result' = Head(items).contents
              /\ items' = QueueDeleteHead(items)
              /\ wild' = DeleteIsStale(items)
              /\ UNCHANGED pushes

Next == \/ \E v \in Values : Push(v)
        \/ PopEmpty
        \/ Pop
        \/ DeleteHead

Spec == Init /\ [][Next]_vars
=============================================================================
