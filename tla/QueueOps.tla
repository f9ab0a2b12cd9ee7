------------------------------ MODULE QueueOps ------------------------------
(***************************************************************************)
(* What the functions of conbee-queue.c do to a queue, seen as a sequence  *)
(* of items, head first.  An item keeps its contents and whether its       *)
(* "previous" link was set when it was pushed.  Nothing ever resets that   *)
(* link, so for the item at the head "linked" says that its previous link  *)
(* points to an item that has been freed.  Module ConbeeQueue has the      *)
(* links themselves and is shown to implement this view.                   *)
(***************************************************************************)
EXTENDS Naturals, Sequences

Item(S) == [contents : S, linked : BOOLEAN]

Contents(q) == [i \in DOMAIN q |-> q[i].contents]

(* Faulty variants, put in place of the definitions they precede.          *)
PushAtHead(q, x)   == <<[contents |-> x, linked |-> q # <<>>]>> \o q
KeepHead(q)        == q
NeverStale(q)      == FALSE

QueuePush(q, x) == Append(q, [contents |-> x, linked |-> q # <<>>])

(* conbee_queue_pop on a queue that is not empty: the head is unlinked and *)
(* freed, its successor keeps its previous link.                           *)
QueuePop(q) == Tail(q)

(* conbee_queue_delete of the head follows the previous link of the item   *)
(* when it is set: that item has been freed, so the call is undefined.     *)
DeleteIsStale(q) == Head(q).linked

(* conbee_queue_delete of the head, as far as it is defined.               *)
QueueDeleteHead(q) == Tail(q)
=============================================================================
