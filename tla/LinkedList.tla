----------------------------- MODULE LinkedList -----------------------------
(***************************************************************************)
(* utils/linked_list.rs: the intrusive lists that the timer entries are    *)
(* filed in, one for every slot of the wheel and one for the pending ones. *)
(* content is the reference: the nodes of every list, from its tail, where *)
(* they leave, to its head.                                                *)
(***************************************************************************)
EXTENDS Sequences, SequencesExt, Integers

CONSTANTS Lists, Nodes, Null

ASSUME ListAssumption == Null \notin Nodes

VARIABLES head, tail, prev, next, curr, content

listVars == <<head, tail, prev, next, curr, content>>

ListInit == /\ head = [l \in Lists |-> Null]
            /\ tail = [l \in Lists |-> Null]
            /\ prev = [n \in Nodes |-> Null]
            /\ next = [n \in Nodes |-> Null]
            /\ curr = [l \in Lists |-> Null]
            /\ content = [l \in Lists |-> <<>>]

In(l) == ToSet(content[l])
Free(n) == \A l \in Lists : n \notin In(l)

\* The contents of l once n is out of it.
IndexIn(l, n) == CHOOSE i \in DOMAIN content[l] : content[l][i] = n
Without(l, n) == IF n \in In(l) THEN RemoveAt(content[l], IndexIn(l, n)) ELSE content[l]

\* No other call is made on a list while its DrainFilter borrows it.
Borrowed(l) == curr[l] # Null

push_front(l, n) ==
    /\ Free(n)
    /\ ~Borrowed(l)
    /\ next' = [next EXCEPT ![n] = head[l]]
    /\ prev' = [m \in Nodes |-> CASE m = n -> Null
                                  [] m = head[l] /\ m # n -> n
                                  [] OTHER -> prev[m]]
    /\ head' = [head EXCEPT ![l] = n]
    /\ tail' = [tail EXCEPT ![l] = IF @ = Null THEN n ELSE @]
    /\ content' = [content EXCEPT ![l] = Append(@, n)]
    /\ UNCHANGED curr

pop_back(l) ==
    LET last == tail[l]
    IN  /\ ~Borrowed(l)
        /\ last # Null
        /\ tail' = [tail EXCEPT ![l] = prev[last]]
        /\ head' = [head EXCEPT ![l] = IF prev[last] = Null THEN Null ELSE @]
        /\ next' = [m \in Nodes |-> IF m \in {last, prev[last]} THEN Null ELSE next[m]]
        /\ prev' = [prev EXCEPT ![last] = Null]
        /\ content' = [content EXCEPT ![l] = Tail(@)]
        /\ UNCHANGED curr

\* Mutant: the node after the one removed keeps pointing back at it.
unlink_forward(l, n) ==
    /\ head' = [head EXCEPT ![l] = IF @ = n THEN next[n] ELSE @]
    /\ tail' = [tail EXCEPT ![l] = IF @ = n THEN prev[n] ELSE @]
    /\ next' = [m \in Nodes |-> CASE m = n -> Null
                                  [] m = prev[n] /\ m # n -> next[n]
                                  [] OTHER -> next[m]]
    /\ prev' = [prev EXCEPT ![n] = Null]

unlink(l, n) ==
    /\ head' = [head EXCEPT ![l] = IF @ = n THEN next[n] ELSE @]
    /\ tail' = [tail EXCEPT ![l] = IF @ = n THEN prev[n] ELSE @]
    /\ next' = [m \in Nodes |-> CASE m = n -> Null
                                  [] m = prev[n] /\ m # n -> next[n]
                                  [] OTHER -> next[m]]
    /\ prev' = [m \in Nodes |-> CASE m = n -> Null
                                  [] m = next[n] /\ m # n -> prev[n]
                                  [] OTHER -> prev[m]]

\* remove of a node of this list, or of one in no list, which changes nothing.
remove_node(l, n) ==
    /\ ~Borrowed(l)
    /\ n \in In(l) \/ Free(n)
    /\ IF prev[n] = Null /\ head[l] # n
       THEN UNCHANGED <<head, tail, prev, next>>
       ELSE unlink(l, n)
    /\ content' = [content EXCEPT ![l] = Without(l, n)]
    /\ UNCHANGED curr

drain_filter(l) ==
    /\ ~Borrowed(l)
    /\ head[l] # Null
    /\ curr' = [curr EXCEPT ![l] = head[l]]
    /\ UNCHANGED <<head, tail, prev, next, content>>

\* DrainFilter::next over one node, which the filter takes out or leaves.
drain_next(l) ==
    /\ Borrowed(l)
    /\ curr' = [curr EXCEPT ![l] = next[curr[l]]]
    /\ \/ /\ unlink(l, curr[l])
          /\ content' = [content EXCEPT ![l] = Without(l, curr[l])]
       \/ UNCHANGED <<head, tail, prev, next, content>>

ListNext == \E l \in Lists :
                \/ pop_back(l)
                \/ drain_filter(l)
                \/ drain_next(l)
                \/ \E n \in Nodes : push_front(l, n) \/ remove_node(l, n)

ListSpec == ListInit /\ [][ListNext]_listVars

-----------------------------------------------------------------------------
\* The pointers spell out the contents, from the head along next and from the
\* tail along prev, and a node that has left holds no pointer into a list:
\* a timer entry is freed as soon as it is out of its list.
ListIsSequence ==
    /\ \A l \in Lists :
         LET s == content[l]
             at(i) == IF i \in DOMAIN s THEN s[i] ELSE Null
         IN  /\ tail[l] = at(1)
             /\ head[l] = at(Len(s))
             /\ \A i \in DOMAIN s : prev[s[i]] = at(i + 1) /\ next[s[i]] = at(i - 1)
    /\ \A n \in Nodes : Free(n) => /\ prev[n] = Null
                                   /\ next[n] = Null
                                   /\ \A l \in Lists : curr[l] # n

=============================================================================
