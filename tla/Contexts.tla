------------------------------ MODULE Contexts ------------------------------
(* Slices that share arrays: the contexts into which resolutions were       *)
(* injected, and the conditions of an action to which several Finds at once *)
(* append those of their context. append writes behind a slice when its     *)
(* array has room, whoever else has a slice of that array.                  *)

EXTENDS Integers, SequencesExt

CONSTANT Callers   \* goroutines that call Find

VARIABLES
    contexts,  \* sequence of [slice, meant, groups, lost]: the resolutions, what
               \* was injected, what was made of that, and whether an append
               \* elsewhere has changed the resolutions (three histories)
    heap,      \* the arrays, as sequences of cells
    action,    \* the slice of the action's conditions
    given,     \* history: what the program gave to Where
    finds      \* of each goroutine [open, slice, context, lost, met]: whether it is
               \* between its appends and its query, its conditions, the context;
               \* histories: whether an append elsewhere has changed them, and
               \* whether another Find began in between

contextVars == <<contexts, heap, action, given, finds>>

Cell == <<"group", <<>>>>   \* what an array holds where nothing was written
Slice(arr, len) == [arr |-> arr, len |-> len]
Content(slice) == SubSeq(heap[slice.arr], 1, slice.len)

Padded(xs, cap) == xs \o [i \in 1..(cap - Len(xs)) |-> Cell]

\* append: in place if there is room, otherwise into an array of twice the
\* size, or of the size that is needed if that is more.
Memory(slice) == [heap |-> heap, slice |-> slice]
Appended(mem, xs) ==
    LET arr == mem.slice.arr
        old == mem.slice.len
        len == old + Len(xs)
        cap == Len(mem.heap[arr])
    IN  IF len <= cap
        THEN [heap |-> [mem.heap EXCEPT ![arr] =
                          [i \in 1..cap |-> IF i \in (old + 1)..len THEN xs[i - old] ELSE @[i]]],
              slice |-> Slice(arr, len)]
        ELSE [heap |-> Append(mem.heap, Padded(SubSeq(mem.heap[arr], 1, old) \o xs,
                                               Max({len, 2 * cap}))),
              slice |-> Slice(Len(mem.heap) + 1, len)]

\* One append after the other.
AppendedAll(slice, pieces) ==
    LET mem[n \in 0..Len(pieces)] ==
          IF n = 0 THEN Memory(slice) ELSE Appended(mem[n - 1], pieces[n])
    IN  mem[Len(pieces)]

\* An append has changed what somebody else's slice holds.
Changes(mem, other) == SubSeq(mem.heap[other.arr], 1, other.len) # Content(other)

-----------------------------------------------------------------------------

\* Mutant: contexts without resolutions have one array, with room in it.
NoResolutions_Shared == Padded(<<>>, 4)
NoResolutions == <<>>

NoFind == [open |-> FALSE, slice |-> Slice(1, 0), context |-> 1, lost |-> FALSE, met |-> FALSE]

\* A context without resolutions, and an action that has conditions, in an
\* array with room for so many.
Begun(conditions, cap) ==
    /\ heap = <<NoResolutions, Padded(conditions, cap)>>
    /\ contexts = <<[slice |-> Slice(1, 0), meant |-> <<>>, groups |-> <<>>, lost |-> FALSE]>>
    /\ action = Slice(2, Len(conditions))
    /\ given = conditions
    /\ finds = [g \in Callers |-> NoFind]

extractResolution(c) == Content(contexts[c].slice)

\* A context derived from context c: groups are what was made of queries.
InjectResolution(c, queries, groups) ==
    LET mem == Appended(Memory(contexts[c].slice), groups)
    IN  /\ contexts' = Append([d \in DOMAIN contexts |->
                                 [contexts[d] EXCEPT !.lost = @ \/ Changes(mem, contexts[d].slice)]],
                              [slice |-> mem.slice,
                               meant |-> contexts[c].meant \o queries,
                               groups |-> contexts[c].groups \o groups,
                               lost |-> contexts[c].lost])
        /\ heap' = mem.heap
        /\ UNCHANGED <<action, given, finds>>

And == <<"raw", "AND">>

\* Mutant: the resolutions are joined to no condition.
Joined_Missing(groups, some) == [i \in DOMAIN groups |-> groups[i][2]]
\* What find appends to the conditions, if there are some, piece by piece.
Joined(groups, some) ==
    (IF groups # <<>> /\ some THEN <<<<And>>>> ELSE <<>>) \o [i \in DOMAIN groups |-> groups[i][2]]

\* find appends through a copy of the action's slice.
FindAppends(g, c) ==
    LET mem == AppendedAll(action, Joined(extractResolution(c), action.len > 0))
    IN  /\ ~finds[g].open
        /\ heap' = mem.heap
        /\ finds' = [h \in Callers |->
              IF h = g
              THEN [open |-> TRUE, slice |-> mem.slice, context |-> c, lost |-> contexts[c].lost,
                    met |-> FALSE]
              ELSE IF finds[h].open
              THEN [finds[h] EXCEPT !.lost = @ \/ Changes(mem, finds[h].slice), !.met = TRUE]
              ELSE finds[h]]
        /\ UNCHANGED <<contexts, action, given>>

\* Its query is written and sent.
FindQueries(g) ==
    /\ finds[g].open
    /\ finds' = [finds EXCEPT ![g].open = FALSE]
    /\ UNCHANGED <<contexts, heap, action, given>>

\* Whatever the conditions, the resolutions and the calls are.
IsSequence(s) == s \in Seq(ToSet(s))
IsGroup(x) == x = <<"group", x[2]>> /\ IsSequence(x[2])

ContextsInit ==
    \E conditions : \E cap \in Nat :
       IsSequence(conditions) /\ Len(conditions) <= cap /\ Begun(conditions, cap)

ContextsNext ==
    \/ \E c \in DOMAIN contexts : \E queries, groups :
          /\ IsSequence(queries) /\ IsSequence(groups) /\ Len(groups) = Len(queries)
          /\ \A i \in DOMAIN groups : IsGroup(groups[i])
          /\ InjectResolution(c, queries, groups)
    \/ \E g \in Callers, c \in DOMAIN contexts : FindAppends(g, c)
    \/ \E g \in Callers : FindQueries(g)

ContextsSpec == ContextsInit /\ [][ContextsNext]_contextVars

-----------------------------------------------------------------------------

\* A context loses resolutions to another one only from the fourth one on:
\* before that every append moves to an array of its own. If it has lost none
\* it holds what was injected into it and into its parents.
ContextsKept ==
    \A c \in DOMAIN contexts :
       /\ contexts[c].lost => Len(contexts[c].meant) > 3
       /\ ~contexts[c].lost => extractResolution(c) = contexts[c].groups

\* Whatever Finds append through their copies, the action holds the
\* conditions that were given to it, for its next use.
ActionKept == Content(action) = given

\* What a Find should send: the conditions, and those of its context.
Flat(pieces) ==
    LET all[n \in 0..Len(pieces)] == IF n = 0 THEN <<>> ELSE all[n - 1] \o pieces[n]
    IN  all[Len(pieces)]
Wanted(find) == given \o Flat(Joined(contexts[find.context].groups, given # <<>>))

\* Another Find began in between, and the slice of the action has room
\* behind it.
Crowded(find) == find.met /\ action.len < Len(heap[action.arr])

\* A Find sends the conditions and the resolutions of its context, unless the
\* context has lost some or other Finds append to the same array meanwhile.
FindsKept ==
    \A g \in Callers : finds[g].open =>
       /\ finds[g].lost => Len(contexts[finds[g].context].meant) > 3 \/ Crowded(finds[g])
       /\ ~finds[g].lost => Content(finds[g].slice) = Wanted(finds[g])

\* Slices that share arrays lose what they hold only where the above say.
SlicesKept == ContextsKept /\ ActionKept /\ FindsKept
=============================================================================
