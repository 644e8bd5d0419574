------------------------------ MODULE Indexes ------------------------------
(* IndexView (sqlike/index.go) and Database.BuildIndexes over the indexes   *)
(* of one table: every call that creates is a check of the catalogue        *)
(* followed by an ALTER TABLE, and several processes make such calls at     *)
(* once. BuildIndexes sends one statement per index and keeps what it has   *)
(* done when a later one fails.                                             *)

EXTENDS SequencesExt

CONSTANTS
    Users,       \* the processes, one call each
    Jobs,        \* the calls they may make
    Catalogues,  \* the indexes that may be there at first
    Primary,     \* the name of a primary key in the catalogue
    Unnamed,     \* the name of a definition that was given none
    MaxFaults    \* bound: broken connections and listings

\* A job has the call, a list of definitions and, for DropOne, a name. A
\* definition has a name or none, a type
\* and its columns; an index of the catalogue has a name, storage ("BTREE" or
\* "FULLTEXT"), uniqueness and the set of its columns.

VARIABLES
    cat,       \* the indexes of the table
    job,       \* the call of each user
    pc,
    at,        \* the loop over the list
    missing,   \* the definitions to create in the next statement
    listed,    \* DropAll: the names to drop
    result,
    raced,     \* history: the indexes changed under the user's call
    dropped,   \* history: some were dropped under it
    cut,       \* history: a listing broke off and the user was not told
    faults

local == <<at, missing, listed>>
vars == <<cat, job, pc, local, result, raced, dropped, cut, faults>>

Definitions == UNION {ToSet(j.list) : j \in Jobs}

ASSUME UsersAssumption == Users # {}
ASSUME JobsAssumption ==
    /\ \A j \in Jobs : /\ j.list \in Seq(ToSet(j.list))
                       /\ j.call \in {"DropOne", "DropAll"} => j.list = <<>>
    /\ \A idx \in Definitions : idx.cols \in Seq(ToSet(idx.cols)) /\ IsInjective(idx.cols)

ASSUME CataloguesAssumption == \A c \in Catalogues : IsFiniteSet(c)

\* The hash of a definition, taken to be injective. Any primary key has the
\* same, and any type the others do not name counts as a plain index.
Prefix == [unique |-> "UX", fulltext |-> "FTX", btree |-> "IX"]
HashName(idx) ==
    IF idx.type = "primary" THEN <<"PRIMARY">> ELSE <<Prefix[idx.type], idx.cols>>
GetName(idx) == IF idx.name # Unnamed THEN idx.name ELSE HashName(idx)

Unique(idx) == idx.type \in {"unique", "primary"}
Storage(idx) == IF idx.type = "fulltext" THEN "FULLTEXT" ELSE "BTREE"

\* What MySQL makes of a definition.
Entry(idx) == [name |-> IF idx.type = "primary" THEN Primary ELSE GetName(idx),
               storage |-> Storage(idx), uniq |-> Unique(idx),
               cols |-> ToSet(idx.cols)]

Entries == {Entry(idx) : idx \in Definitions} \cup UNION Catalogues
Names(c) == {e.name : e \in c}

TypeOK ==
    /\ cat \subseteq Entries
    /\ Cardinality(Names(cat)) = Cardinality(cat)
    /\ job \in [Users -> Jobs]
    /\ pc \in [Users -> {"start", "check", "lookup", "list", "add", "drop", "end"}]
    /\ \A u \in Users : /\ at[u] \in 1..(Len(job[u].list) + 1)
                        /\ missing[u] \in Seq(ToSet(job[u].list))
    /\ listed \in [Users -> Seq(Names(Entries) \cup {j.name : j \in Jobs})]
    /\ result \in [Users -> {"none", "nil", "ErrNoColumn", "ddl error", "io error"}]

Init ==
    /\ cat \in Catalogues
    /\ job \in [Users -> Jobs]
    /\ pc = [u \in Users |-> "start"]
    /\ at = [u \in Users |-> 1]
    /\ missing = [u \in Users |-> <<>>]
    /\ listed = [u \in Users |-> <<>>]
    /\ result = [u \in Users |-> "none"]
    /\ raced = [u \in Users |-> FALSE]
    /\ dropped = [u \in Users |-> FALSE]
    /\ cut = [u \in Users |-> FALSE]
    /\ faults = 0

Goto(u, place) == pc' = [pc EXCEPT ![u] = place]

End(u, answer) ==
    /\ Goto(u, "end")
    /\ result' = [result EXCEPT ![u] = answer]

Def(u) == job[u].list[at[u]]

\* The calls of others that are under way.
Underway(u) == {o \in Users \ {u} : pc[o] \notin {"start", "end"}}

\* ALTER TABLE executes all its clauses or none.
Apply(u, c) ==
    /\ cat' = c
    /\ raced' = [o \in Users |-> raced[o] \/ (c # cat /\ o \in Underway(u))]
    /\ dropped' = [o \in Users |->
                     dropped[o] \/ (~(cat \subseteq c) /\ o \in Underway(u))]

Frame == UNCHANGED <<cat, job, raced, dropped, cut, faults>>

-----------------------------------------------------------------------------
(* Looking at the catalogue *)

\* Mutant: an index with those columns is as good, unique or not.
HasIndex_AnyKind(idx) ==
    \E e \in cat : Cardinality(e.cols \cap ToSet(idx.cols)) = Len(idx.cols)

\* HasIndex counts the indexes of the same kind that have all the columns,
\* in any order and direction, with others or without, whatever their name.
HasIndex(idx) ==
    \E e \in cat :
       /\ e.storage = Storage(idx) /\ e.uniq = Unique(idx)
       /\ Cardinality(e.cols \cap ToSet(idx.cols)) = Len(idx.cols)

\* HasIndexByName, as BuildIndexes calls it: with the name of the definition
\* even for a primary key, whose name is another.
HasIndexByName(idx) == GetName(idx) \in Names(cat)

NoColumn(idx) == idx.cols = <<>> /\ idx.type # "multi-valued"

Start(u) ==
    /\ pc[u] = "start"
    /\ LET j == job[u] IN
       \/ /\ j.call = "Create"
          /\ IF \E idx \in ToSet(j.list) : NoColumn(idx)
             THEN End(u, "ErrNoColumn") /\ UNCHANGED missing
             ELSE /\ missing' = [missing EXCEPT ![u] = j.list]
                  /\ Goto(u, "add") /\ UNCHANGED result
          /\ UNCHANGED listed
       \/ /\ j.call = "CreateIfNotExists"
          /\ Goto(u, "check") /\ UNCHANGED <<missing, listed, result>>
       \/ /\ j.call = "BuildIndexes"
          /\ Goto(u, "lookup") /\ UNCHANGED <<missing, listed, result>>
       \/ /\ j.call = "DropOne"
          /\ listed' = [listed EXCEPT ![u] = <<j.name>>]
          /\ Goto(u, "drop") /\ UNCHANGED <<missing, result>>
       \/ /\ j.call = "DropAll"
          /\ Goto(u, "list") /\ UNCHANGED <<missing, listed, result>>
    /\ UNCHANGED at /\ Frame

\* Mutant: every index of the list is created.
CheckOne_Forgets(u) ==
    /\ pc[u] = "check" /\ at[u] <= Len(job[u].list)
    /\ missing' = [missing EXCEPT ![u] = Append(@, Def(u))]
    /\ at' = [at EXCEPT ![u] = @ + 1]
    /\ UNCHANGED <<pc, listed, result>> /\ Frame

\* CreateIfNotExists asks for one index after the other ...
CheckOne(u) ==
    /\ pc[u] = "check" /\ at[u] <= Len(job[u].list)
    /\ IF Def(u).cols = <<>>
       THEN End(u, "ErrNoColumn") /\ UNCHANGED <<at, missing>>
       ELSE /\ missing' = [missing EXCEPT ![u] =
                             IF HasIndex(Def(u)) THEN @ ELSE Append(@, Def(u))]
            /\ at' = [at EXCEPT ![u] = @ + 1]
            /\ UNCHANGED <<pc, result>>
    /\ UNCHANGED listed /\ Frame

\* ... and creates those it has not found in one statement.
Checked(u) ==
    /\ pc[u] = "check" /\ at[u] > Len(job[u].list)
    /\ IF missing[u] = <<>> THEN End(u, "nil")
       ELSE Goto(u, "add") /\ UNCHANGED result
    /\ UNCHANGED local /\ Frame

\* Mutant: an index that is there is an error.
LookUp_Strict(u) ==
    /\ pc[u] = "lookup" /\ at[u] <= Len(job[u].list)
    /\ IF HasIndexByName(Def(u)) \/ NoColumn(Def(u))
       THEN End(u, "ddl error") /\ UNCHANGED <<at, missing>>
       ELSE /\ missing' = [missing EXCEPT ![u] = <<Def(u)>>]
            /\ Goto(u, "add") /\ UNCHANGED <<at, result>>
    /\ UNCHANGED listed /\ Frame

\* BuildIndexes asks for an index by its name and creates it before it asks
\* for the next one.
LookUp(u) ==
    /\ pc[u] = "lookup" /\ at[u] <= Len(job[u].list)
    /\ \/ /\ HasIndexByName(Def(u))
          /\ at' = [at EXCEPT ![u] = @ + 1]
          /\ UNCHANGED <<pc, missing, result>>
       \/ /\ ~HasIndexByName(Def(u)) /\ NoColumn(Def(u))
          /\ End(u, "ErrNoColumn") /\ UNCHANGED <<at, missing>>
       \/ /\ ~HasIndexByName(Def(u)) /\ ~NoColumn(Def(u))
          /\ missing' = [missing EXCEPT ![u] = <<Def(u)>>]
          /\ Goto(u, "add") /\ UNCHANGED <<at, result>>
    /\ UNCHANGED listed /\ Frame

Built(u) ==
    /\ pc[u] = "lookup" /\ at[u] > Len(job[u].list)
    /\ End(u, "nil") /\ UNCHANGED local /\ Frame

\* DropAll takes the names in whatever order the server has them; if their
\* rows break off, those that have arrived.
ListIndexes(u) ==
    /\ pc[u] = "list"
    /\ \/ /\ listed' \in {[listed EXCEPT ![u] = s] : s \in SetToSeqs(Names(cat))}
          /\ UNCHANGED <<cut, faults>>
       \/ /\ faults < MaxFaults
          /\ \E some \in SUBSET Names(cat) \ {Names(cat)} :
                listed' \in {[listed EXCEPT ![u] = s] : s \in SetToSeqs(some)}
          /\ cut' = [cut EXCEPT ![u] = TRUE]
          /\ faults' = faults + 1
    /\ Goto(u, "drop")
    /\ UNCHANGED <<cat, job, at, missing, result, raced, dropped>>

-----------------------------------------------------------------------------
(* The statements *)

\* MySQL refuses a name that is taken, in the table or in the statement.
Addable(defs) ==
    LET new == [i \in DOMAIN defs |-> Entry(defs[i]).name] IN
    IsInjective(new) /\ ToSet(new) \cap Names(cat) = {}

WithNew(defs) == cat \cup {Entry(idx) : idx \in ToSet(defs)}

AddIndexes(u) ==
    /\ pc[u] = "add"
    /\ IF ~Addable(missing[u])
       THEN End(u, "ddl error") /\ UNCHANGED <<cat, at, raced, dropped>>
       ELSE /\ Apply(u, WithNew(missing[u]))
            /\ IF job[u].call = "BuildIndexes"
               THEN /\ at' = [at EXCEPT ![u] = @ + 1]
                    /\ Goto(u, "lookup") /\ UNCHANGED result
               ELSE End(u, "nil") /\ UNCHANGED at
    /\ UNCHANGED <<job, missing, listed, cut, faults>>

\* DropIndexes leaves the primary key out, but not the comma after it when it
\* comes first.
Malformed(names) == Len(names) > 1 /\ names[1] = Primary

Droppable(names) ==
    ~Malformed(names) /\ ToSet(names) \ {Primary} \subseteq Names(cat)

\* Mutant: every primary key of the list goes too.
Without_Primary(names) == {e \in cat : e.name \notin ToSet(names)}

Without(names) == {e \in cat : e.name \notin ToSet(names) \ {Primary}}

DropIndexes(u) ==
    /\ pc[u] = "drop"
    /\ IF Droppable(listed[u])
       THEN Apply(u, Without(listed[u])) /\ End(u, "nil")
       ELSE End(u, "ddl error") /\ UNCHANGED <<cat, raced, dropped>>
    /\ UNCHANGED <<job, local, cut, faults>>

\* A query breaks, or the answer to a statement is lost, executed or not.
ConnectionBreaks(u) ==
    /\ pc[u] \notin {"start", "end"} /\ faults < MaxFaults
    /\ pc[u] \in {"check", "lookup"} => at[u] <= Len(job[u].list)
    /\ \/ UNCHANGED <<cat, raced, dropped>>
       \/ pc[u] = "add" /\ Addable(missing[u]) /\ Apply(u, WithNew(missing[u]))
       \/ pc[u] = "drop" /\ Droppable(listed[u]) /\ Apply(u, Without(listed[u]))
    /\ End(u, "io error")
    /\ faults' = faults + 1
    /\ UNCHANGED <<job, local, cut>>

Next ==
    \E u \in Users :
       \/ Start(u) \/ CheckOne(u) \/ Checked(u) \/ LookUp(u) \/ Built(u)
       \/ ListIndexes(u) \/ AddIndexes(u) \/ DropIndexes(u) \/ ConnectionBreaks(u)

Spec == Init /\ [][Next]_vars

-----------------------------------------------------------------------------
(* Properties *)

Finishes(u, answer) == result[u] = "none" /\ result'[u] = answer

\* The check and the statement are two steps, yet the answer nil is true
\* when it is given: unless somebody dropped indexes in between, every index
\* of the list is there, for CreateIfNotExists as HasIndex understands it and
\* for BuildIndexes as HasIndexByName does.
NilMeansThere ==
    [][\A u \in Users :
          Finishes(u, "nil") /\ ~dropped[u] =>
             \A idx \in ToSet(job[u].list) :
                \/ Entry(idx).name \in Names(cat')
                \/ job[u].call = "BuildIndexes" /\ GetName(idx) \in Names(cat')
                \/ /\ job[u].call = "CreateIfNotExists"
                   /\ \E e \in cat' : /\ ToSet(idx.cols) \subseteq e.cols
                                      /\ e.uniq = Unique(idx)]_vars

\* A definition whose catalogue name is taken by another index, twice in one
\* list, or by any primary key for BuildIndexes, which looks for its hash.
Clash(u) ==
    \/ ~(\A e \in cat, idx \in ToSet(missing[u]) :
           e.name = Entry(idx).name
              => e = Entry(idx) /\ ~(job[u].call = "BuildIndexes" /\ e.name = Primary))
    \/ \E i, j \in DOMAIN missing[u] :
          i # j /\ Entry(missing[u][i]).name = Entry(missing[u][j]).name

\* CreateIfNotExists and BuildIndexes may be called again at any time, also
\* after a call that failed half way: they are refused only for a clash of
\* definitions or because somebody else changed the indexes meanwhile. (That
\* rows are equal in a unique index is outside of the model.)
RefusedOnlyRaced ==
    [][\A u \in Users :
          /\ Finishes(u, "ddl error")
          /\ job[u].call \in {"CreateIfNotExists", "BuildIndexes"}
          => raced[u] \/ Clash(u)]_vars

\* Everywhere in the lists and the table, a name means one index, and no file
\* has a primary key.
Harmonious ==
    LET all == cat \cup
               UNION {{Entry(idx) : idx \in ToSet(job[u].list)} : u \in Users}
    IN  /\ \A e, f \in all : e.name = f.name => e = f
        /\ \A u \in Users : IsInjective([i \in DOMAIN job[u].list |-> Entry(job[u].list[i])])
        /\ \A u \in Users : \A idx \in ToSet(job[u].list) :
              idx.cols # <<>>
              /\ ~(job[u].call = "BuildIndexes" /\ idx.type = "primary")

\* Processes that ensure their indexes at the same time, as when a service is
\* deployed, may refuse each other, but not all of them fail.
SomebodySucceeds ==
    /\ Harmonious /\ faults = 0
    /\ \A u \in Users : /\ job[u].call \in {"CreateIfNotExists", "BuildIndexes"}
                        /\ pc[u] = "end"
    => \E u \in Users : result[u] = "nil"

\* No call takes the primary key away, and DropAll, when it succeeds on a
\* table nobody else touched, leaves nothing else.
PrimaryStays ==
    [][/\ Primary \in Names(cat) => Primary \in Names(cat')
       /\ \A u \in Users :
             job[u].call = "DropAll" /\ Finishes(u, "nil") /\ ~raced[u] /\ ~cut[u]
                => Names(cat') \subseteq {Primary}]_vars
===========================================================================
