----------------------------- MODULE ConbeeQueue ----------------------------
(***************************************************************************)
(* The doubly linked list of conbee-queue.c, link by link.  A malloc       *)
(* returns an address never used before: in C a pointer to a freed item is *)
(* dead even when the allocator hands the address out again, so the first  *)
(* access through such a pointer is where the program stops having a       *)
(* meaning.  "wild" marks it and the machine stops there.                  *)
(*                                                                         *)
(* The two queues of a device differ in how items leave: the worker pops   *)
(* the send queue, conbee_wait_for_frame deletes the head of the receive   *)
(* queue.  removal says which of the two this is.                          *)
(***************************************************************************)
EXTENDS Naturals, Sequences

CONSTANTS Values,     \* contents: pointers to frames
          NULL,       \* the null pointer
          MaxItems    \* bound on the number of items ever allocated

ASSUME QueueAssumption == /\ MaxItems \in Nat
                          /\ NULL \notin Values
                          /\ NULL \notin Nat

Nodes == 1..MaxItems
Links == Nodes \cup {NULL}

VARIABLES removal,    \* how items leave, "pop" or "delete": never both
          head, tail, \* struct conbee_queue_root
          node,       \* struct conbee_queue_item at each address
          live,       \* addresses allocated and not freed
          allocated,  \* number of addresses handed out so far
          result,     \* what the last removal gave its caller
          wild,       \* a freed item has been accessed
          chain       \* history: the addresses in the queue, in push order

vars == <<removal, head, tail, node, live, allocated, result, wild, chain>>

Unused == [contents |-> NULL, next |-> NULL, previous |-> NULL]

(* conbee_queue_init *)
Init == /\ removal \in {"pop", "delete"}
        /\ head = NULL
        /\ tail = NULL
        /\ node = [n \in Nodes |-> Unused]
        /\ live = {}
        /\ allocated = 0
        /\ result = NULL
        /\ wild = FALSE
        /\ chain = <<>>

(* Dereferencing an address that is not allocated leaves the program       *)
(* undefined; no action is enabled after that step.                        *)
Dereference(addresses) == wild' = ~(addresses \subseteq live)

NewItem(v, before) == [contents |-> v, next |-> NULL, previous |-> before]

(* item after "item->next = link"                                          *)
WithNext(item, link) ==
    [contents |-> item.contents, next |-> link, previous |-> item.previous]

(* node after "queue->tail = queue->tail->next = item"                     *)
LinkAfterTail(new) == [node EXCEPT ![tail] = WithNext(@, new)]

(* Faulty variants of a push behind an item.                               *)
PushBehindKeepsTail(v, new) ==
    /\ node' = [LinkAfterTail(new) EXCEPT ![new] = NewItem(v, tail)]
    /\ UNCHANGED <<head, tail>>
PushBehindNoPrevious(v, new) ==
    /\ node' = [LinkAfterTail(new) EXCEPT ![new] = NewItem(v, NULL)]
    /\ tail' = new
    /\ UNCHANGED head

PushFirst(v, new) == /\ node' = [node EXCEPT ![new] = NewItem(v, NULL)]
                     /\ head' = new
                     /\ tail' = new

PushBehind(v, new) == /\ node' = [LinkAfterTail(new) EXCEPT ![new] = NewItem(v, tail)]
                      /\ tail' = new
                      /\ UNCHANGED head

(* conbee_queue_push: the link goes through queue->tail.                   *)
Push(v) ==
    /\ ~wild /\ allocated < MaxItems
    /\ LET new == allocated + 1
       IN /\ \/ /\ head = NULL
                /\ PushFirst(v, new)
                /\ UNCHANGED wild
             \/ /\ head # NULL
                /\ PushBehind(v, new)
                /\ Dereference({tail})
          /\ live' = live \cup {new}
          /\ allocated' = new
          /\ chain' = Append(chain, new)
          /\ UNCHANGED <<removal, result>>

PopEmpty == /\ ~wild /\ removal = "pop"
            /\ head = NULL
            /\ result' = NULL
            /\ UNCHANGED <<removal, head, tail, node, live, allocated, wild, chain>>

(* Faulty variant: the tail is reset, the head is not moved on.            *)
AdvanceHeadLate == /\ head' = IF node[head].next = NULL THEN NULL ELSE head
                   /\ tail' = IF node[head].next = NULL THEN NULL ELSE tail

AdvanceHead == /\ head' = node[head].next
               /\ tail' = IF node[head].next = NULL THEN NULL ELSE tail

(* Faulty variant of Pop: the item itself is handed out.                   *)
PopReturnsItem == /\ ~wild /\ removal = "pop"
                  /\ head # NULL
                  /\ Dereference({head})
                  /\ result' = head
                  /\ AdvanceHead
                  /\ live' = live \ {head}
                  /\ chain' = Tail(chain)
                  /\ UNCHANGED <<removal, node, allocated>>

(* conbee_queue_pop; nothing touches the previous link of the new head.    *)
Pop == /\ ~wild /\ removal = "pop"
       /\ head # NULL
       /\ Dereference({head})
       /\ result' = node[head].contents
       /\ AdvanceHead
       /\ live' = live \ {head}
       /\ chain' = Tail(chain)
       /\ UNCHANGED <<removal, node, allocated>>

(* conbee_queue_delete of the item the search stopped at.  The search      *)
(* never moves past the head, so the item is the head.  Its previous link  *)
(* decides whether the root or the predecessor is updated; the tail and    *)
(* the previous link of the successor are left alone.                      *)
DeleteHead ==
    /\ ~wild /\ removal = "delete"
    /\ head # NULL
    /\ LET item == node[head]
       IN /\ \/ /\ item.previous = NULL
                /\ head' = item.next
                /\ UNCHANGED node
                /\ Dereference({head})
             \/ /\ item.previous # NULL
                /\ node' = [node EXCEPT ![item.previous] = WithNext(@, item.next)]
                /\ UNCHANGED head
                /\ Dereference({head, item.previous})
          /\ result' = item.contents
          /\ live' = live \ {head}
          /\ chain' = Tail(chain)
          /\ UNCHANGED <<removal, tail, allocated>>

Next == \/ \E v \in Values : Push(v)
        \/ PopEmpty
        \/ Pop
        \/ DeleteHead

Spec == Init /\ [][Next]_vars
-----------------------------------------------------------------------------
(* Links are null or addresses of items, an item holds what was pushed,    *)
(* and a removal hands out contents, never an item.                        *)
TypeOK == /\ removal \in {"pop", "delete"}
          /\ head \in Links
          /\ tail \in Links
          /\ node \in [Nodes -> [contents : Values \cup {NULL},
                                 next : Links, previous : Links]]
          /\ live \subseteq Nodes
          /\ allocated \in 0..MaxItems
          /\ result \in Values \cup {NULL}
          /\ wild \in BOOLEAN
          /\ chain \in Seq(Nodes)

(* The forward links, the root and the set of allocated items agree with   *)
(* the order in which items were pushed: from head the next links visit    *)
(* exactly the items not yet removed, oldest first, and tail is the        *)
(* youngest of them.  A push through a stale tail or a removal that leaves *)
(* the root on a freed item breaks this long before anything crashes.      *)
ListMatchesChain ==
  ~wild =>
    /\ chain = <<>> <=> head = NULL
    /\ live = {chain[i] : i \in DOMAIN chain}
    /\ chain # <<>> => /\ head = chain[1]
                       /\ tail = chain[Len(chain)]
                       /\ node[tail].next = NULL
    /\ \A i \in 1..(Len(chain) - 1) : node[chain[i]].next = chain[i + 1]

(* A queue that is only pushed and popped never touches a freed item,      *)
(* whatever the order of the calls: pop frees the head and the successor's *)
(* previous link dangles, but nothing reads it.                            *)
PopNeverWild == removal = "pop" => ~wild

(* conbee-queue.h: previous is the "link to the previous element in the    *)
(* queue", so the element at the head has none.                            *)
PreviousLinksBack ==
    \A i \in DOMAIN chain :
        node[chain[i]].previous = IF i = 1 THEN NULL ELSE chain[i - 1]

(* The list implements the queue its callers count on: contents leave in   *)
(* the order of the pushes, each once, up to the deletion of a head whose  *)
(* predecessor has been freed.                                             *)
Abstract == INSTANCE FrameQueue
              WITH items <- [i \in DOMAIN chain |->
                               [contents |-> node[chain[i]].contents,
                                linked |-> node[chain[i]].previous # NULL]],
                   pushes <- allocated,
                   MaxPushes <- MaxItems

ImplementsFrameQueue == Abstract!Spec
=============================================================================
