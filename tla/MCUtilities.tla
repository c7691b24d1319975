------------------------------ MODULE MCUtilities ------------------------------
(***************************************************************************)
(* The data structures of include/utilities for TLC.  They share no state, *)
(* so a behaviour exercises one of them, the subject:                      *)
(*   list     two linked lists                                             *)
(*   queue    a tuya_queue under every call of two threads                 *)
(*   drain    a tuya_queue with one producer and one batch consumer        *)
(*   hashmap  three keys in two buckets, two of them in the same one       *)
(*   pointer  a reference counted block shared by three threads            *)
(*   tools    the pure functions of tuya_tools.c                           *)
(*   ring     a ring buffer                                                *)
(***************************************************************************)
EXTENDS TuyaRingbuf, TuyaList, TLC

CONSTANTS Nodes,               \* list nodes, queue items, hash elements
          Heads, head,         \* list heads
          t1, t2, t3,
          Values, NULL,
          a, b, c, b1, b2,     \* keys and buckets
          MaxBatch, MaxRefs,
          Chars, Octets, MaxChars, MaxLen, WordBits

VARIABLES subject,
          links,   \* the pointers of all list heads and nodes
          member,  \* nodes that the caller has put into a list
          op,      \* the caller's last call
          queue_len, queue_free, l, data, pc, item, policy, count, batch,
          alive, link, pprev, elem, size, trav, found,
          sp, sp_data, mutex, owner, rfc, malk, sp_pc, tmp, hold, frees,
          fn, arg, ret

list == <<links, member, op>>
queue == <<queue_len, queue_free, l, data, pc, item, policy, count, batch>>
map == <<alive, link, pprev, elem, size, trav, found>>
pointer == <<sp, sp_data, mutex, owner, rfc, malk, sp_pc, tmp, hold, frees>>
tools == <<fn, arg, ret>>
all == <<subject, list, queue, map, pointer, tools, vars>>

Queue == INSTANCE TuyaQueue WITH
    Threads <- {t1, t2}, Lengths <- {1, 2}, Items <- Nodes, None <- NULL,
    Drainer <- t1
Longer == INSTANCE TuyaQueue WITH
    Threads <- {t1, t2}, Lengths <- {2, 3}, Items <- Nodes, None <- NULL,
    Drainer <- t1
Map == INSTANCE TuyaHashmap WITH
    Keys <- {a, b, c}, Data <- Values, Buckets <- {b1, b2},
    Hash <- [k \in {a, b, c} |-> IF k = c THEN b2 ELSE b1],
    RemoveAbsent <- FALSE, out <- found
AnyRemove == INSTANCE TuyaHashmap WITH
    Keys <- {a, b, c}, Data <- Values, Buckets <- {b1, b2},
    Hash <- [k \in {a, b, c} |-> IF k = c THEN b2 ELSE b1],
    RemoveAbsent <- TRUE, out <- found
Pointer == INSTANCE TuyaSmartpointer WITH
    Threads <- {t1, t2, t3}, data <- sp_data, pc <- sp_pc,
    MalkValues <- BOOLEAN, MutexMayFail <- FALSE
Tools == INSTANCE TuyaTools

(* A caller that keeps nodes in lists.  It adds a node that is in no list, *)
(* removes one that is in a list, and re-initialises the head it spliced   *)
(* from, as callers of tuya_list_splice must.                              *)
ListInit ==
    /\ links = [next |-> [x \in Heads \cup Nodes |-> x],
                prev |-> [x \in Heads \cup Nodes |-> x]]
    /\ member = {} /\ op = "none"

AddNode(n, h) ==
    /\ n \notin member /\ member' = member \cup {n}
    /\ \/ op' = "add" /\ links' = tuya_list_add(links, n, h)
       \/ op' = "add_tail" /\ links' = tuya_list_add_tail(links, n, h)

RemoveNode(n) ==
    /\ n \in member /\ member' = member \ {n}
    /\ op' = "del"
    /\ \/ links' = tuya_list_del(links, n)
       \/ links' = tuya_list_del_init(links, n)

SpliceHeads(from, to) ==
    /\ from # to /\ op' = "splice"
    /\ links' = INIT_LIST_HEAD(tuya_list_splice(links, from, to), from)
    /\ UNCHANGED member

ListNext ==
    \/ \E n \in Nodes : RemoveNode(n) \/ \E h \in Heads : AddNode(n, h)
    \/ \E from, to \in Heads : SpliceHeads(from, to)

(* Following prev undoes following next for every node in use. *)
LinksPaired ==
    \A x \in Heads \cup member :
        links.prev[links.next[x]] = x /\ links.next[links.prev[x]] = x

Lists == INSTANCE ListSpec WITH
    seqs <- [h \in Heads |-> Chain(links, h, Cardinality(Nodes))]

UtilitiesInit ==
    /\ subject \in {"list", "queue", "drain", "hashmap", "pointer", "tools", "ring"}
    /\ ListInit /\ Queue!Init /\ Map!Init /\ Pointer!Init /\ Tools!ToolsInit /\ Init

StructureNext ==
    \/ subject = "list" /\ ListNext /\ UNCHANGED <<queue, map, pointer>>
    \/ subject = "queue" /\ Queue!Next /\ UNCHANGED <<list, map, pointer>>
    \/ subject = "drain" /\ Longer!DrainNext /\ UNCHANGED <<list, map, pointer>>
    \/ subject = "hashmap" /\ Map!Next /\ UNCHANGED <<list, queue, pointer>>
    \/ subject = "pointer" /\ Pointer!Next /\ UNCHANGED <<list, queue, map>>

UtilitiesNext ==
    \/ StructureNext /\ UNCHANGED <<subject, tools, vars>>
    \/ subject = "tools" /\ Tools!ToolsNext
       /\ UNCHANGED <<subject, list, queue, map, pointer, vars>>
    \/ subject = "ring" /\ Next
       /\ UNCHANGED <<subject, list, queue, map, pointer, tools>>

UtilitiesSpec == UtilitiesInit /\ [][UtilitiesNext]_all

(* Callers that also remove what is not in the map. *)
RemoveSpec ==
    /\ subject = "hashmap"
    /\ ListInit /\ Queue!Init /\ AnyRemove!Init /\ Pointer!Init /\ Tools!ToolsInit /\ Init
    /\ [][AnyRemove!Next /\ UNCHANGED <<subject, list, queue, pointer, tools, vars>>]_all

(* A caller that compares strings with an n larger than their length. *)
CompareSpec ==
    /\ subject = "tools"
    /\ ListInit /\ Queue!Init /\ Map!Init /\ Pointer!Init /\ Tools!ToolsInit /\ Init
    /\ [][Tools!AnyLength /\ UNCHANGED <<subject, list, queue, map, pointer, vars>>]_all

Symmetry ==
    Permutations(Nodes) \cup Permutations(Values) \cup Permutations({a, b})

Of(s, P) == subject = s => P

(* The structures agree with themselves: the neighbours of a list node     *)
(* point back to it; queue_free of tuya_queue agrees with its list, every  *)
(* item is on the list or in the hands of one enqueue, a batch is the      *)
(* slice it was asked for and delete_batch deletes what was read, also     *)
(* beside a producer; the cell pprev names points to the hash element.     *)
(* The block of a smart pointer lives while a thread holds a reference,    *)
(* racing puts free it once, and the last put does free it.  The functions *)
(* of tuya_tools agree with their reference definitions.                   *)
StructuresConsistent ==
    /\ TypeOK /\ LinksPaired
    /\ Of("queue", Queue!TypeOK /\ Queue!FreeCountAgrees
                     /\ Queue!ItemsOwned /\ Queue!BatchIsSlice)
    /\ Of("drain", Longer!TypeOK /\ Longer!FreeCountAgrees
                     /\ Longer!ItemsOwned /\ Longer!BatchIsSlice
                     /\ Longer!DeletesWhatWasRead)
    /\ Of("hashmap", Map!TypeOK /\ Map!BackLinksRight)
    /\ Of("pointer", /\ Pointer!TypeOK /\ Pointer!HeldIsLive
                     /\ Pointer!FreedOnce /\ Pointer!NoLeak)
    /\ Of("tools", Tools!ToolsMatchReference)

(* A loop over one key of the hash map is exact. *)
TraversalExact == Map!TraversalExact

(* Each structure implements its abstraction: tuya_list sequences,         *)
(* tuya_queue a bounded deque and tuya_hashmap a map of stacks.            *)
ImplementsAbstractions ==
    /\ Lists!Init /\ [][Of("list", Lists!Step)]_list
    /\ Queue!Deque!Init /\ [][Of("queue", Queue!Deque!Step)]_queue
    /\ Map!Stacks!Init /\ [][Of("hashmap", Map!Stacks!Step)]_map

(* tuya_hashmap_remove removes only what it was asked to remove. *)
RemovesOnlyMatching == AnyRemove!RemovesOnlyMatching

(* tuya_strncasecmp finds equal strings equal. *)
EqualIsZero == Tools!EqualIsZero
===============================================================================
