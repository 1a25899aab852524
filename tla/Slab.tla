-------------------------------- MODULE Slab --------------------------------
(***************************************************************************)
(* utils/slab.rs: the store of the operations in flight and of the         *)
(* readiness of the descriptors.  Keys run through pages of doubling size, *)
(* the vacant slots of a page form a free list, and every COMPACT_INTERVAL *)
(* removals the last page is dropped if it is empty.                       *)
(***************************************************************************)
EXTENDS Integers, FiniteSets

CONSTANTS NUM_PAGES,
          PAGE_INITIAL_SIZE,
          COMPACT_INTERVAL,
          GenerationModulus,    \* 2^32, where generation wraps around
          Values, NoValue

ASSUME SlabAssumption ==
    /\ NUM_PAGES \in Nat \ {0}
    /\ PAGE_INITIAL_SIZE \in Nat \ {0}
    /\ COMPACT_INTERVAL \in Nat \ {0}
    /\ GenerationModulus \in Nat \ {0} /\ GenerationModulus % COMPACT_INTERVAL = 0
    /\ NoValue \notin Values

VARIABLES pages, w_page_id, generation

slabVars == <<pages, w_page_id, generation>>

PageIds == 0..(NUM_PAGES - 1)

\* One, shifted to the left.
Pow2[i \in 0..NUM_PAGES] == IF i = 0 THEN 1 ELSE 2 * Pow2[i - 1]

\* The slots of page i, and the sum of those of the pages before it.
PageSize(i) == PAGE_INITIAL_SIZE * Pow2[i]
PrevLen(i) == PageSize(i) - PAGE_INITIAL_SIZE

Keys == 0..(PrevLen(NUM_PAGES) - 1)

\* An entry is vacant, with the next vacant slot, or occupied.
Vacant(n) == [val |-> NoValue, next |-> n]
Occupied(v) == [val |-> v, next |-> 0]

NoPage == [used |-> -1, initialized |-> 0, next |-> 0, slots |-> <<>>]
NewPage(i) == [used |-> 0, initialized |-> 0, next |-> 0,
               slots |-> [s \in 0..(PageSize(i) - 1) |-> Vacant(0)]]

SlabInit == /\ pages = [i \in PageIds |-> NoPage]
            /\ w_page_id = 0
            /\ generation = 0

\* The number of bits that n takes.
BitLength(n) == CHOOSE k \in 0..NUM_PAGES :
                    n < Pow2[k] /\ \A j \in 0..(k - 1) : n >= Pow2[j]

get_page_id ==
    [key \in Keys |->
        LET length == BitLength((key + PAGE_INITIAL_SIZE) \div (2 * PAGE_INITIAL_SIZE))
        IN  IF length < NUM_PAGES THEN length ELSE NUM_PAGES - 1]

get(key) ==
    LET p == pages[get_page_id[key]]
        index == key - PrevLen(get_page_id[key])
    IN  IF p = NoPage \/ index >= p.initialized THEN NoValue ELSE p.slots[index].val

\* Mutant: the slot taken from the free list stays at its head.
alloc_twice(p, v) ==
    IF p.next >= p.initialized
    THEN [p EXCEPT !.initialized = @ + 1, !.next = @ + 1, !.used = @ + 1,
                   !.slots[p.next] = Occupied(v)]
    ELSE [p EXCEPT !.used = @ + 1, !.slots[p.next] = Occupied(v)]

\* Page::alloc and Page::set on a page that is not full.
alloc(p, v) ==
    IF p.next >= p.initialized
    THEN [p EXCEPT !.initialized = @ + 1, !.next = @ + 1, !.used = @ + 1,
                   !.slots[p.next] = Occupied(v)]
    ELSE [p EXCEPT !.next = p.slots[p.next].next, !.used = @ + 1,
                   !.slots[p.next] = Occupied(v)]

Full(i) == pages[i].used = PageSize(i)

\* The pages that insert runs through are created, full or not.
insert ==
    \E v \in Values, i \in w_page_id..(NUM_PAGES - 1) :
        /\ ~Full(i)
        /\ \A j \in w_page_id..(i - 1) : Full(j)
        /\ pages' = [pages EXCEPT ![i] = alloc(IF @ = NoPage THEN NewPage(i) ELSE @, v)]
        /\ w_page_id' = i
        /\ UNCHANGED generation

\* Mutant: the last page is dropped though it is in use.
mark_remove_used(ps) ==
    LET last == CHOOSE i \in PageIds : ps[i] # NoPage
                    /\ \A j \in PageIds : j > i => ps[j] = NoPage
        compacts == (generation + 1) % COMPACT_INTERVAL = 0
    IN  /\ generation' = (generation + 1) % GenerationModulus
        /\ w_page_id' = IF compacts THEN 0 ELSE w_page_id
        /\ pages' = IF compacts /\ last > 0 THEN [ps EXCEPT ![last] = NoPage] ELSE ps

mark_remove(ps) ==
    LET last == CHOOSE i \in PageIds : ps[i] # NoPage
                    /\ \A j \in PageIds : j > i => ps[j] = NoPage
        compacts == (generation + 1) % COMPACT_INTERVAL = 0
    IN  /\ generation' = (generation + 1) % GenerationModulus
        /\ w_page_id' = IF compacts THEN 0 ELSE w_page_id
        /\ pages' = IF compacts /\ last > 0 /\ ps[last].used = 0
                    THEN [ps EXCEPT ![last] = NoPage] ELSE ps

\* Page::remove of an occupied slot.
release(p, slot) == [p EXCEPT !.slots[slot] = Vacant(p.next), !.next = slot, !.used = @ - 1]

\* Slab::remove of any key: without a page it does nothing, on a vacant slot
\* it only counts.  Ref::remove is the case of a key that get has found.
remove(key) ==
    LET i == get_page_id[key]
        index == key - PrevLen(i)
    IN  /\ pages[i] # NoPage
        /\ mark_remove(IF get(key) = NoValue THEN pages
                       ELSE [pages EXCEPT ![i] = release(@, index)])

SlabNext == insert \/ \E key \in Keys : remove(key)

SlabSpec == SlabInit /\ [][SlabNext]_slabVars

-----------------------------------------------------------------------------
\* The slab is a map: under every key that insert gave out and nobody removed
\* there is the value inserted, through the free lists, the pages that are
\* dropped and created again, and the generation that wraps around.
Map == INSTANCE KeyMap WITH store <- [k \in Keys |-> get(k)]

SlabIsMap == Map!Spec

\* The vacant slots of a page among those initialized, and the slots met by
\* following its free list, which stays where it ends.
VacantSlots(p) == {s \in 0..(p.initialized - 1) : p.slots[s].val = NoValue}
FreeList(p, size) ==
    LET steps[n \in 0..size] ==
            IF n = 0 THEN p.next
            ELSE IF steps[n - 1] < p.initialized THEN p.slots[steps[n - 1]].next
            ELSE steps[n - 1]
    IN  steps

\* What alloc relies on in release builds, where its assertions are gone: the
\* free list of a page runs through its vacant slots once and ends where the
\* slots not yet initialized begin, and used counts the occupied ones.
FreeListSound ==
    \A i \in PageIds : pages[i] # NoPage =>
        /\ pages[i].used = pages[i].initialized - Cardinality(VacantSlots(pages[i]))
        /\ {FreeList(pages[i], PageSize(i))[n] : n \in 0..PageSize(i)}
               = VacantSlots(pages[i]) \cup {pages[i].initialized}

=============================================================================
