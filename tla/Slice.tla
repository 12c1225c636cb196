-------------------------------- MODULE Slice --------------------------------
(***************************************************************************)
(* tycho::slice<T> (src/src/slice.hpp): a std::list<std::shared_ptr<T>>   *)
(* with index-based and slice-to-slice operations, used by one thread.    *)
(*                                                                         *)
(* The std::list nodes of every slice live in `node`: a node is an index  *)
(* of it and holds a pointer, an index of `heap` (0 is the empty          *)
(* shared_ptr).  make_shared appends to heap; every list insertion        *)
(* appends to node, so two lists may hold the same pointer in distinct    *)
(* nodes.  A slice's list_ is its sequence of nodes.  Allocation fails    *)
(* with bad_alloc once MaxNodes nodes exist.                              *)
(*                                                                         *)
(* The operations that pass another slice to std::copy (append, prepend,  *)
(* copy, assign) take one step per element copied, with the iterators    *)
(* kept as nodes, so that a slice passed to itself is read while it       *)
(* grows, as the code does.  Every other operation is one step.  A        *)
(* dereference of the empty pointer ends the program (state "crashed").  *)
(***************************************************************************)
EXTENDS Integers, Sequences, SequencesExt

CONSTANTS
    Slices,    \* the slice<T> objects of the program
    Values,    \* the T values stored
    MaxNodes,  \* std::list nodes that can be allocated before bad_alloc
    MaxCalls   \* bound on the calls in a behaviour

VARIABLES
    list_,     \* list_[s]: the nodes of slice s, front to back
    node,      \* node[n]: the pointer list node n holds
    heap,      \* heap[p]: the T object pointer p owns
    pc,        \* "idle", "copy" (inside std::copy), "crashed"
    op,        \* the std::copy call in progress: [kind, self, other, pos]
    it,        \* its source iterator: the next node to read, or End
    stop,      \* the source end it stops at
    at,        \* the insert position: a node, End (back) or AtFront
    before,    \* ghost: the two slices' pointers when the call began
    outcome,   \* how the last call ended: "ok", "bad_alloc", "out_of_range"
    calls

vars == <<list_, node, heap, pc, op, it, stop, at, before, outcome, calls>>

End == -1
AtFront == -2
Null == 0

TypeOK ==
    /\ list_ \in [Slices -> Seq(DOMAIN node)]
    /\ node \in Seq(0 .. Len(heap)) /\ heap \in Seq(Values)
    /\ pc \in {"idle", "copy", "crashed"}
    /\ outcome \in {"ok", "bad_alloc", "out_of_range"}
    /\ calls \in 0 .. MaxCalls

(* The pointers slice s holds, front to back: what its iteration yields. *)
Ptrs(s) == [i \in DOMAIN list_[s] |-> node[list_[s][i]]]
Size(s) == Len(list_[s])
IndexOf(l, n) == CHOOSE i \in DOMAIN l : l[i] = n
(* begin() advanced by i (0-based), as std::advance does: End at size().  *)
NodeAt(s, i) == IF i < Size(s) THEN list_[s][i + 1] ELSE End
(* ++it and --it of an iterator at node n (or End) of list l.             *)
Succ(l, n) == IF IndexOf(l, n) = Len(l) THEN End ELSE l[IndexOf(l, n) + 1]
Pred(l, n) == IF n = End THEN l[Len(l)] ELSE l[IndexOf(l, n) - 1]
(* list_.insert(pos, x) of a new node n, pos a node, End or AtFront.        *)
InsertBefore(l, pos, n) ==
    CASE pos = End   -> Append(l, n)
      [] pos = AtFront -> Cons(n, l)
      [] OTHER       -> InsertAt(l, IndexOf(l, pos), n)
HasNull(s) == \E i \in DOMAIN list_[s] : Ptrs(s)[i] = Null

Init ==
    /\ list_ = [s \in Slices |-> <<>>]
    /\ node = <<>> /\ heap = <<>>
    /\ pc = "idle"
    /\ op = [kind |-> "none", self |-> CHOOSE s \in Slices : TRUE,
             other |-> CHOOSE s \in Slices : TRUE, pos |-> 0]
    /\ it = End /\ stop = End /\ at = End
    /\ before = [self |-> <<>>, other |-> <<>>]
    /\ outcome = "ok"
    /\ calls = 0

(* A call of the program on its slices.                                   *)
Call == pc = "idle" /\ calls < MaxCalls /\ calls' = calls + 1
Ends(o) == outcome' = o /\ UNCHANGED <<pc, op, it, stop, at, before>>
Throw(o) == Ends(o) /\ UNCHANGED <<list_, node, heap>>
Crash == pc' = "crashed" /\ UNCHANGED <<list_, node, heap, op, it, stop, at, before, outcome>>
(* The ids of k nodes allocated next; Room(k) if they can be.            *)
Room(k) == Len(node) + k <= MaxNodes
NewNodes(k) == [i \in 1 .. k |-> Len(node) + i]

(* append(const T&) / prepend(const T&) / insert(it, const T&):           *)
(* list_.insert of a node holding make_shared<T>(item).                  *)
InsertItem(s, pos, v) ==
    /\ Call
    /\ IF Room(1)
       THEN /\ heap' = Append(heap, v) /\ node' = Append(node, Len(heap) + 1)
            /\ list_' = [list_ EXCEPT ![s] = InsertBefore(@, pos, Len(node) + 1)]
            /\ Ends("ok")
       ELSE Throw("bad_alloc")

(* assign(const T&): list_.clear(); list_.push_back(make_shared<T>(item)). *)
AssignItem(s, v) ==
    /\ Call
    /\ IF Room(1)
       THEN /\ heap' = Append(heap, v) /\ node' = Append(node, Len(heap) + 1)
            /\ list_' = [list_ EXCEPT ![s] = <<Len(node) + 1>>]
            /\ Ends("ok")
       ELSE /\ list_' = [list_ EXCEPT ![s] = <<>>] /\ Ends("bad_alloc")
            /\ UNCHANGED <<node, heap>>

(* The nodes at 0-based positions i .. j-1 leave list_[s].               *)
Cut(s, i, j) ==
    /\ list_' = [list_ EXCEPT ![s] = SubSeq(@, 1, i) \o SubSeq(@, j + 1, Len(@))]
    /\ Ends("ok") /\ UNCHANGED <<node, heap>>

(* push_back(make_shared<T>(item)) for each item of vs after the nodes   *)
(* base, until an allocation fails.                                      *)
PushItems(s, base, vs) ==
    LET k == IF Room(Len(vs)) THEN Len(vs) ELSE MaxNodes - Len(node) IN
    /\ heap' = heap \o SubSeq(vs, 1, k)
    /\ node' = node \o [i \in 1 .. k |-> Len(heap) + i]
    /\ list_' = [list_ EXCEPT ![s] = base \o NewNodes(k)]
    /\ Ends(IF k = Len(vs) THEN "ok" ELSE "bad_alloc")

(* append(initializer_list) and assign(initializer_list), which clears   *)
(* list_ first.                                                           *)
AppendItems(s, vs) == Call /\ PushItems(s, list_[s], vs)
AssignItems(s, vs) == Call /\ PushItems(s, <<>>, vs)

(* s = slice<T>{vs}: the constructor calls assign(item) for each item,   *)
(* allocating a node each time, and each assign clears list_, so the new  *)
(* slice holds the last item alone (the nodes of the others are freed at  *)
(* once).  A bad_alloc leaves the constructor before s is assigned.       *)
Construct(s, vs) ==
    /\ Call
    /\ IF Room(Len(vs))
       THEN /\ heap' = heap \o vs
            /\ node' = node \o [i \in 1 .. Len(vs) |-> Len(heap) + i]
            /\ list_' = [list_ EXCEPT ![s] = <<Len(node) + Len(vs)>>]
            /\ Ends("ok")
       ELSE Throw("bad_alloc")

(* erase(iterator), erase(iterator, iterator) and clear().                *)
EraseIters(s, i, j) == Call /\ Cut(s, i, j)

(* erase(size_type start, size_type end).                                 *)
EraseRange(s, i, j) ==
    /\ Call
    /\ IF i >= Size(s) \/ j > Size(s) \/ i > j
       THEN Throw("out_of_range")
       ELSE Cut(s, i, j)

(* resize(count): drops the back, or appends nodes holding empty pointers. *)
Resize(s, k) ==
    /\ Call
    /\ IF k <= Size(s)
       THEN Cut(s, k, Size(s))
       ELSE IF Room(k - Size(s))
            THEN /\ node' = node \o [i \in 1 .. k - Size(s) |-> Null]
                 /\ list_' = [list_ EXCEPT ![s] = @ \o NewNodes(k - Size(s))]
                 /\ Ends("ok") /\ UNCHANGED heap
            ELSE Throw("bad_alloc")

(* remove(value) and remove_if(pred): list_.remove_if dereferences every  *)
(* pointer and drops the nodes whose T the predicate accepts; `keep` is   *)
(* the set of values the predicate rejects.                               *)
RemoveIf(s, keep) ==
    /\ Call
    /\ IF HasNull(s)
       THEN Crash
       ELSE /\ list_' = [list_ EXCEPT ![s] = SelectSeq(@, LAMBDA n : heap[node[n]] \in keep)]
            /\ Ends("ok") /\ UNCHANGED <<node, heap>>

(* operator[](index) = v: the T the pointer at index owns is overwritten, *)
(* for every slice sharing that pointer.                                  *)
WriteAt(s, i, v) ==
    /\ Call
    /\ IF i >= Size(s)
       THEN Throw("out_of_range")
       ELSE IF Ptrs(s)[i + 1] = Null
       THEN Crash
       ELSE /\ heap' = [heap EXCEPT ![Ptrs(s)[i + 1]] = v]
            /\ Ends("ok") /\ UNCHANGED <<list_, node>>

(* d = s.subslice(start, last): new nodes holding the pointers of s at    *)
(* start .. last-1 become the whole of d.                                 *)
Share(s, i, j, d) ==
    IF Room(j - i)
    THEN /\ node' = node \o SubSeq(Ptrs(s), i + 1, j)
         /\ list_' = [list_ EXCEPT ![d] = NewNodes(j - i)]
         /\ Ends("ok") /\ UNCHANGED heap
    ELSE Throw("bad_alloc")

Subslice(s, i, j, d) ==
    /\ Call
    /\ IF i >= Size(s) \/ j > Size(s) \/ i > j
       THEN Throw("out_of_range")
       ELSE Share(s, i, j, d)

(* d = s.subslice(start_it, end_it), the iterators at positions i <= j.   *)
SubsliceIters(s, i, j, d) ==
    /\ Call
    /\ IF i > j - i \/ j > Size(s)
       THEN Throw("out_of_range")
       ELSE Share(s, i, j, d)

(* The calls that hand another slice's list_ to std::copy: they record    *)
(* the source iterators and the insert position, then copy step by step.  *)
StartCopy(k, s, o, p, from, to, pos) ==
    /\ pc' = "copy"
    /\ op' = [kind |-> k, self |-> s, other |-> o, pos |-> p]
    /\ it' = from /\ stop' = to /\ at' = pos
    /\ before' = [self |-> Ptrs(s), other |-> Ptrs(o)]
    /\ UNCHANGED <<list_, node, heap, outcome>>

(* append(const slice&): copy(other.begin(), other.end(), back_inserter). *)
AppendSlice(s, o) == Call /\ StartCopy("append", s, o, 0, NodeAt(o, 0), End, End)

(* prepend(const slice&): copy(other.rbegin(), other.rend(),              *)
(* front_inserter).  A reverse iterator is kept as its base: rbegin() is   *)
(* end(), and rend() is the begin() of the call, fixed when it is made.   *)
PrependSlice(s, o) == Call /\ StartCopy("prepend", s, o, 0, End, NodeAt(o, 0), AtFront)

(* copy(other, pos): an inserter before the node at pos.                  *)
CopySlice(s, o, p) ==
    /\ Call
    /\ IF p > Size(s)
       THEN Throw("out_of_range")
       ELSE StartCopy("copy", s, o, p, NodeAt(o, 0), End, NodeAt(s, p))

(* assign(const slice&): list_.clear(), then copy(other.begin(),          *)
(* other.end(), back_inserter).  other.begin() is taken after the clear,  *)
(* so when other is the slice itself the copy starts at end().            *)
AssignSlice(s, o) ==
    /\ Call
    /\ pc' = "copy"
    /\ op' = [kind |-> "assign", self |-> s, other |-> o, pos |-> 0]
    /\ it' = (IF o = s THEN End ELSE NodeAt(o, 0)) /\ stop' = End /\ at' = End
    /\ before' = [self |-> Ptrs(s), other |-> Ptrs(o)]
    /\ list_' = [list_ EXCEPT ![s] = <<>>]
    /\ UNCHANGED <<node, heap, outcome>>

\* Mutant: the insert iterator is left on the node it inserted, as if
\* insert_iterator did not step past it, so a copy(other, pos) reverses.
CopyStepStaysOnNew ==
    LET s == op.self
        o == op.other
        rev == op.kind = "prepend"
        src == IF rev THEN Pred(list_[o], it) ELSE it
        new == [list_ EXCEPT ![s] = InsertBefore(@, at, Len(node) + 1)]
    IN /\ pc = "copy"
       /\ CASE it = stop ->
                 pc' = "idle" /\ outcome' = "ok" /\ UNCHANGED <<list_, node, it, at>>
            [] ~Room(1) ->
                 pc' = "idle" /\ outcome' = "bad_alloc" /\ UNCHANGED <<list_, node, it, at>>
            [] OTHER ->
                 /\ node' = Append(node, node[src]) /\ list_' = new
                 /\ it' = IF rev THEN src ELSE Succ(new[o], it)
                 /\ at' = IF at \in {End, AtFront} THEN at ELSE Len(node) + 1
                 /\ UNCHANGED <<pc, outcome>>
       /\ UNCHANGED <<heap, op, stop, before, calls>>

(* One turn of std::copy: `*out = *first; ++first;`.  The insert iterator  *)
(* adds a node holding the source node's pointer (an insert_iterator then *)
(* stays before the same node); the source iterator then advances in the  *)
(* list as it is after the insertion.                                     *)
CopyStep ==
    LET s == op.self
        o == op.other
        rev == op.kind = "prepend"
        src == IF rev THEN Pred(list_[o], it) ELSE it
        new == [list_ EXCEPT ![s] = InsertBefore(@, at, Len(node) + 1)]
    IN /\ pc = "copy"
       /\ CASE it = stop ->
                 pc' = "idle" /\ outcome' = "ok" /\ UNCHANGED <<list_, node, it>>
            [] ~Room(1) ->
                 pc' = "idle" /\ outcome' = "bad_alloc" /\ UNCHANGED <<list_, node, it>>
            [] OTHER ->
                 /\ node' = Append(node, node[src]) /\ list_' = new
                 /\ it' = IF rev THEN src ELSE Succ(new[o], it)
                 /\ UNCHANGED <<pc, outcome>>
       /\ UNCHANGED <<heap, op, stop, at, before, calls>>

(* The program has made its calls, or has crashed.                        *)
Done ==
    /\ pc = "crashed" \/ (pc = "idle" /\ calls = MaxCalls)
    /\ UNCHANGED vars

Next ==
    \/ \E s \in Slices, v \in Values :
          \/ InsertItem(s, End, v) \/ InsertItem(s, AtFront, v) \/ AssignItem(s, v)
          \/ \E i \in 0 .. Size(s) : InsertItem(s, NodeAt(s, i), v)
          \/ \E i \in 0 .. Size(s) : WriteAt(s, i, v)
    \/ \E s \in Slices, vs \in [1 .. 2 -> Values] :
          AppendItems(s, vs) \/ AssignItems(s, vs) \/ Construct(s, vs)
    \/ \E s \in Slices : \E i, j \in 0 .. Size(s) + 1 :
          \/ i <= j /\ j <= Size(s) /\ EraseIters(s, i, j)
          \/ EraseRange(s, i, j)
    \/ \E s \in Slices : \E k \in 0 .. Size(s) + 1 : Resize(s, k)
    \/ \E s \in Slices, keep \in SUBSET Values : RemoveIf(s, keep)
    \/ \E s, d \in Slices : \E i, j \in 0 .. Size(s) + 1 :
          \/ Subslice(s, i, j, d)
          \/ i <= j /\ j <= Size(s) /\ SubsliceIters(s, i, j, d)
    \/ \E s, o \in Slices :
          \/ AppendSlice(s, o) \/ PrependSlice(s, o)
          \/ \E p \in 0 .. Size(s) + 1 : CopySlice(s, o, p)
          \/ AssignSlice(s, o)
    \/ CopyStep
    \/ Done

Spec == Init /\ [][Next]_vars

-----------------------------------------------------------------------------
(* Properties                                                              *)

(* What append, prepend and copy of a slice promise by their names: the  *)
(* pointers of `other` spliced into the slice at the back, the front, or  *)
(* position pos.                                                          *)
Reference(b, k, p) ==
    CASE k = "append"  -> b.self \o b.other
      [] k = "prepend" -> b.other \o b.self
      [] k = "copy"    -> SubSeq(b.self, 1, p) \o b.other \o SubSeq(b.self, p + 1, Len(b.self))

(* An append (slice.hpp 170), prepend (184) or copy (239) of a slice that *)
(* returns leaves the slice holding Reference of the two slices as they   *)
(* were when it was called, also when the slice is its own source and     *)
(* std::copy reads the nodes it is adding.                                *)
ReturnsAsReference ==
    [][pc = "copy" /\ op.kind # "assign" /\ pc' = "idle" /\ outcome' = "ok" =>
         Ptrs(op.self)' = Reference(before, op.kind, op.pos)]_vars

(* An assign(other) (slice.hpp 149-152) that returns leaves the slice      *)
(* holding the pointers other held when it was called, as assigning a     *)
(* container does, a slice assigned to itself included.                   *)
AssignHoldsSource ==
    [][pc = "copy" /\ op.kind = "assign" /\ pc' = "idle" /\ outcome' = "ok" =>
         Ptrs(op.self)' = before.other]_vars
====
