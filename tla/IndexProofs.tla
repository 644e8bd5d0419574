---------------------------- MODULE IndexProofs ----------------------------
(* The properties of Indexes, for any number of processes, lists and        *)
(* catalogues.                                                              *)
(*                                                                          *)
(* SomebodySucceeds: the process whose statement changed the table last     *)
(* goes on from a table as it knows it, until somebody else changes it;     *)
(* before the first change this is everybody. Such a process is Sound, it   *)
(* cannot be refused, and a step that makes it unsound makes another one    *)
(* sound.                                                                   *)
(*                                                                          *)
(* The answers: what a call has found stays until somebody drops it, what   *)
(* it has missed stays missing until somebody else changes the table; both  *)
(* are noted in the histories, for the call is under way all that time.     *)

EXTENDS Indexes, FiniteSetTheorems, TLAPS

Ensures(u) == job[u].call \in {"CreateIfNotExists", "BuildIndexes"}

Places == {"start", "check", "lookup", "list", "add", "drop", "end"}
Answers == {"none", "nil", "ErrNoColumn", "ddl error", "io error"}

\* The types the argument needs, which are less than TypeOK.
Types ==
    /\ job \in [Users -> Jobs]
    /\ pc \in [Users -> Places]
    /\ at \in [Users -> Nat \ {0}]
    /\ missing \in [Users -> Seq(Definitions)]
    /\ result \in [Users -> Answers]
    /\ faults \in Nat

\* A process that ensures its indexes has in missing definitions of its list:
\* one for BuildIndexes, some of those behind it for CreateIfNotExists.
CourseOf(u) ==
    /\ pc[u] \in {"start", "check", "lookup", "add", "end"}
    /\ pc[u] = "start" => missing[u] = <<>>
    /\ pc[u] = "check" => job[u].call = "CreateIfNotExists"
    /\ pc[u] = "lookup" => job[u].call = "BuildIndexes"
    /\ pc[u] = "add" /\ job[u].call = "BuildIndexes" =>
          /\ at[u] \in DOMAIN job[u].list
          /\ missing[u] = <<Def(u)>>
    /\ job[u].call = "CreateIfNotExists" =>
          \A i \in DOMAIN missing[u] :
             \E k \in DOMAIN job[u].list : k < at[u] /\ missing[u][i] = job[u].list[k]

Course == \A u \in Users : Ensures(u) => CourseOf(u)

\* A process that nothing but a broken connection or a later change by
\* another can make fail.
Sound(u) ==
    \/ pc[u] = "end" /\ result[u] = "nil"
    \/ pc[u] = "lookup"
    \/ pc[u] \in {"start", "check", "add"} /\ Addable(missing[u])

Calm == Harmonious /\ faults = 0 /\ \A u \in Users : Ensures(u)

SomeSound == Calm => \E u \in Users : Sound(u)

Inv == Types /\ Course /\ SomeSound

StepOf(u) ==
    \/ Start(u) \/ CheckOne(u) \/ Checked(u) \/ LookUp(u) \/ Built(u)
    \/ ListIndexes(u) \/ AddIndexes(u) \/ DropIndexes(u) \/ ConnectionBreaks(u)

-----------------------------------------------------------------------------
\* The definitions of a list are definitions.
LEMMA ListTyped ==
  ASSUME NEW j \in Jobs
  PROVE  /\ j.list \in Seq(Definitions)
         /\ \A i \in DOMAIN j.list : j.list[i] \in Definitions
         /\ \A i \in DOMAIN j.list : j.list[i] \in ToSet(j.list)
         /\ DOMAIN j.list = 1..Len(j.list) /\ Len(j.list) \in Nat
<1>1. j.list \in Seq(ToSet(j.list))
  BY JobsAssumption
<1>2. ToSet(j.list) \subseteq Definitions
  BY DEF Definitions
<1>3. DOMAIN j.list = 1..Len(j.list) /\ Len(j.list) \in Nat
  BY <1>1
<1>4. \A i \in DOMAIN j.list : j.list[i] \in ToSet(j.list)
  BY DEF ToSet
<1>5. j.list \in Seq(Definitions)
  BY <1>1, <1>2
<1> QED
  BY <1>2, <1>3, <1>4, <1>5

\* No column comes twice in a definition: counting them counts the set.
LEMMA ColumnCount ==
  ASSUME NEW idx \in Definitions
  PROVE  IsFiniteSet(ToSet(idx.cols)) /\ Cardinality(ToSet(idx.cols)) = Len(idx.cols)
<1> DEFINE cols == idx.cols
<1>1. cols \in Seq(ToSet(cols)) /\ IsInjective(cols)
  BY JobsAssumption
<1>2. Len(cols) \in Nat /\ DOMAIN cols = 1..Len(cols)
  BY <1>1
<1>3. IsFiniteSet(1..Len(cols)) /\ Cardinality(1..Len(cols)) = Len(cols)
  BY <1>2, FS_Interval
<1>4. cols \in Surjection(1..Len(cols), ToSet(cols))
  BY <1>1, <1>2 DEF Surjection, ToSet
<1>5. cols \in Injection(1..Len(cols), ToSet(cols))
  BY <1>1, <1>2, <1>4 DEF Injection, Surjection
<1> QED
  BY <1>3, <1>4, <1>5, FS_Surjection

\* A definition that is in the catalogue is found by HasIndex
\* (HasIndex in mysql/index.go counts its columns).
LEMMA FoundByHasIndex ==
  ASSUME NEW idx \in Definitions, Entry(idx) \in cat
  PROVE  HasIndex(idx)
<1>1. Entry(idx).cols \cap ToSet(idx.cols) = ToSet(idx.cols)
  BY DEF Entry
<1>2. Entry(idx).storage = Storage(idx) /\ Entry(idx).uniq = Unique(idx)
  BY DEF Entry
<1> QED
  BY <1>1, <1>2, ColumnCount DEF HasIndex

\* Two definitions of a list have two names (Harmonious).
LEMMA NamesDiffer ==
  ASSUME Types, Harmonious, NEW u \in Users,
         NEW i \in DOMAIN job[u].list, NEW k \in DOMAIN job[u].list, i # k
  PROVE  Entry(job[u].list[i]).name # Entry(job[u].list[k]).name
<1> DEFINE list == job[u].list
           all == cat \cup UNION {{Entry(idx) : idx \in ToSet(job[v].list)} : v \in Users}
<1>1. job[u] \in Jobs
  BY DEF Types
<1>2. list[i] \in ToSet(list) /\ list[k] \in ToSet(list)
  BY <1>1, ListTyped
<1>3. Entry(list[i]) \in all /\ Entry(list[k]) \in all
  BY <1>2
<1>4. Entry(list[i]) # Entry(list[k])
  <2> DEFINE entries == [n \in DOMAIN list |-> Entry(list[n])]
  <2>1. IsInjective(entries)
    BY DEF Harmonious
  <2>2. /\ i \in DOMAIN entries /\ k \in DOMAIN entries
        /\ entries[i] = Entry(list[i]) /\ entries[k] = Entry(list[k])
    OBVIOUS
  <2> HIDE DEF entries, list
  <2> QED
    BY <2>1, <2>2 DEF IsInjective
<1>5. \A e, f \in all : e.name = f.name => e = f
  BY DEF Harmonious
<1> QED
  BY <1>3, <1>4, <1>5

\* A name of the list that is taken is taken by the index itself (Harmonious).
LEMMA TakenMeansThere ==
  ASSUME Types, Harmonious, NEW u \in Users, NEW i \in DOMAIN job[u].list,
         Entry(job[u].list[i]).name \in Names(cat)
  PROVE  Entry(job[u].list[i]) \in cat
<1> DEFINE list == job[u].list
           all == cat \cup UNION {{Entry(idx) : idx \in ToSet(job[v].list)} : v \in Users}
<1>1. list[i] \in ToSet(list)
  BY ListTyped DEF Types
<1>2. Entry(list[i]) \in all
  BY <1>1
<1>3. PICK e \in cat : e.name = Entry(list[i]).name
  BY DEF Names
<1>4. \A e_1, f \in all : e_1.name = f.name => e_1 = f
  BY DEF Harmonious
<1>5. e \in all
  OBVIOUS
<1> QED
  BY <1>2, <1>3, <1>4, <1>5

\* One definition can be added when its name is free.
LEMMA OneAddable ==
  ASSUME NEW idx, Entry(idx).name \notin Names(cat)
  PROVE  Addable(<<idx>>)
<1> DEFINE new == [i \in DOMAIN <<idx>> |-> Entry(<<idx>>[i]).name]
<1>1. DOMAIN new = {1} /\ new[1] = Entry(idx).name
  OBVIOUS
<1>2. IsInjective(new) /\ ToSet(new) = {Entry(idx).name}
  BY <1>1 DEF IsInjective, ToSet
<1> QED
  BY <1>2 DEF Addable

\* One more can be added when its name is free and differs from the others'.
LEMMA MoreAddable ==
  ASSUME NEW defs \in Seq(Definitions), NEW idx \in Definitions, Addable(defs),
         Entry(idx).name \notin Names(cat),
         \A i \in DOMAIN defs : Entry(defs[i]).name # Entry(idx).name
  PROVE  Addable(Append(defs, idx))
<1> DEFINE more == Append(defs, idx)
           old == [i \in DOMAIN defs |-> Entry(defs[i]).name]
           new == [i \in DOMAIN more |-> Entry(more[i]).name]
<1>1. /\ DOMAIN more = DOMAIN defs \cup {Len(defs) + 1}
      /\ more[Len(defs) + 1] = idx
      /\ \A i \in DOMAIN defs : more[i] = defs[i]
  OBVIOUS
<1> HIDE DEF more
<1>2. /\ DOMAIN new = DOMAIN old \cup {Len(defs) + 1}
      /\ new[Len(defs) + 1] = Entry(idx).name
      /\ \A i \in DOMAIN old : new[i] = old[i] /\ old[i] # Entry(idx).name
  BY <1>1
<1>3. IsInjective(old) /\ ToSet(old) \cap Names(cat) = {}
  BY DEF Addable
<1> HIDE DEF old, new
<1>4. IsInjective(new)
  BY <1>2, <1>3 DEF IsInjective
<1>5. ToSet(new) = ToSet(old) \cup {Entry(idx).name}
  BY <1>2 DEF ToSet
<1> QED
  BY <1>3, <1>4, <1>5 DEF Addable, more, new

LEMMA NothingAddable == Addable(<<>>)
BY DEF Addable, IsInjective, ToSet

\* A definition of the list of a process that ensures its indexes has
\* columns, and its name is the one BuildIndexes asks for (Harmonious).
LEMMA ListSound ==
  ASSUME Types, Harmonious, NEW u \in Users, NEW i \in DOMAIN job[u].list
  PROVE  /\ job[u].list[i].cols # <<>>
         /\ job[u].call = "BuildIndexes" =>
               GetName(job[u].list[i]) = Entry(job[u].list[i]).name
<1>1. job[u].list[i] \in ToSet(job[u].list)
  BY ListTyped DEF Types
<1> QED
  BY <1>1 DEF Harmonious, Entry

-----------------------------------------------------------------------------
\* What a step does to the process that takes it, whatever the table is.
Moved(u) ==
    /\ job' = job
    /\ faults' \in {faults, faults + 1}
    /\ \E p \in Places : pc' = [pc EXCEPT ![u] = p]
    /\ result' = result \/ \E r \in Answers : result' = [result EXCEPT ![u] = r]
    /\ at' = at \/ at' = [at EXCEPT ![u] = @ + 1]
    /\ \/ missing' = missing
       \/ missing' = [missing EXCEPT ![u] = job[u].list]
       \/ /\ at[u] <= Len(job[u].list)
          /\ \/ missing' = [missing EXCEPT ![u] = <<Def(u)>>]
             \/ missing' = [missing EXCEPT ![u] = Append(@, Def(u))]

LEMMA Moves ==
  ASSUME Types, NEW u \in Users, StepOf(u)
  PROVE  Moved(u)
<1> USE DEF Moved, End, Goto, Frame, local, Places, Answers
<1>0. pc = [pc EXCEPT ![u] = pc[u]] /\ pc[u] \in Places
      /\ missing = [missing EXCEPT ![u] = missing[u]]
  BY DEF Types
<1>1. CASE Start(u)
  BY <1>1 DEF Start
<1>2. CASE CheckOne(u)
  BY <1>0, <1>2 DEF CheckOne
<1>3. CASE Checked(u)
  BY <1>3 DEF Checked
<1>4. CASE LookUp(u)
  BY <1>0, <1>4 DEF LookUp
<1>5. CASE Built(u)
  BY <1>5 DEF Built
<1>6. CASE ListIndexes(u)
  BY <1>6 DEF ListIndexes
<1>7. CASE AddIndexes(u)
  BY <1>7 DEF AddIndexes
<1>8. CASE DropIndexes(u)
  BY <1>8 DEF DropIndexes
<1>9. CASE ConnectionBreaks(u)
  BY <1>9 DEF ConnectionBreaks
<1> QED
  BY <1>1, <1>2, <1>3, <1>4, <1>5, <1>6, <1>7, <1>8, <1>9 DEF StepOf

\* Each step keeps the types.
LEMMA TypesStep ==
  ASSUME Types, NEW u \in Users, StepOf(u)
  PROVE  Types'
<1>1. Moved(u)
  BY Moves
<1>2. job' \in [Users -> Jobs] /\ faults' \in Nat
  BY <1>1 DEF Moved, Types
<1>3. pc' \in [Users -> Places] /\ result' \in [Users -> Answers]
  BY <1>1 DEF Moved, Types
<1>4. at' \in [Users -> Nat \ {0}]
  BY <1>1 DEF Moved, Types
<1>5. missing' \in [Users -> Seq(Definitions)]
  <2>1. job[u].list \in Seq(Definitions) /\ missing[u] \in Seq(Definitions)
    BY ListTyped DEF Types
  <2>2. at[u] <= Len(job[u].list) => Def(u) \in Definitions
    <3>1. job[u] \in Jobs /\ at[u] \in Nat \ {0}
      BY DEF Types
    <3> QED
      BY <3>1, ListTyped DEF Def
  <2>3. \A s \in Seq(Definitions) : [missing EXCEPT ![u] = s] \in [Users -> Seq(Definitions)]
    BY DEF Types
  <2>4. \A d \in Definitions : <<d>> \in Seq(Definitions)
                                /\ Append(missing[u], d) \in Seq(Definitions)
    BY <2>1
  <2>5. CASE missing' = missing
    BY <2>5 DEF Types
  <2>6. CASE missing' = [missing EXCEPT ![u] = job[u].list]
    BY <2>1, <2>3, <2>6
  <2>7. CASE /\ at[u] <= Len(job[u].list)
             /\ \/ missing' = [missing EXCEPT ![u] = <<Def(u)>>]
                \/ missing' = [missing EXCEPT ![u] = Append(missing[u], Def(u))]
    BY <2>2, <2>3, <2>4, <2>7
  <2> QED
    BY <1>1, <2>5, <2>6, <2>7 DEF Moved
<1> QED
  BY <1>2, <1>3, <1>4, <1>5 DEF Types

\* A step of one process leaves the others where they are.
LEMMA OthersStay ==
  ASSUME Types, NEW u \in Users, StepOf(u), NEW v \in Users, v # u
  PROVE  /\ job' = job
         /\ pc'[v] = pc[v] /\ at'[v] = at[v]
         /\ missing'[v] = missing[v] /\ result'[v] = result[v]
<1>1. Moved(u)
  BY Moves
<1>2. job' = job /\ pc'[v] = pc[v] /\ result'[v] = result[v]
  BY <1>1 DEF Moved, Types
<1>3. at'[v] = at[v]
  BY <1>1 DEF Moved, Types
<1>4. missing'[v] = missing[v]
  BY <1>1 DEF Moved, Types
<1> QED
  BY <1>2, <1>3, <1>4

\* A step of a process that ensures its indexes keeps its course.
LEMMA CourseStep ==
  ASSUME Types, Course, NEW u \in Users, StepOf(u)
  PROVE  Course'
<1>1. \A v \in Users \ {u} : (Ensures(v) => CourseOf(v))'
  BY OthersStay DEF Course, CourseOf, Ensures, Def
<1>2. job' = job
  BY Moves DEF Moved
<1>3. ASSUME Ensures(u) PROVE CourseOf(u)'
  <2>1. CourseOf(u) /\ job[u].call \in {"CreateIfNotExists", "BuildIndexes"}
    BY <1>3 DEF Course, Ensures
  <2>2. DOMAIN job[u].list = 1..Len(job[u].list) /\ Len(job[u].list) \in Nat
    BY ListTyped DEF Types
  <2> USE <1>2, <2>1, <2>2 DEF Types, CourseOf, End, Goto, Frame, local, Def
  <2>3. CASE Start(u)
    BY <2>3 DEF Start
  <2>4. CASE CheckOne(u)
    <3>1. CASE Def(u).cols = <<>>
      BY <2>4, <3>1 DEF CheckOne
    <3>2. CASE Def(u).cols # <<>>
      <4>1. /\ pc'[u] = "check" /\ job[u].call = "CreateIfNotExists"
            /\ at'[u] = at[u] + 1 /\ at[u] \in DOMAIN job[u].list
            /\ missing'[u] = missing[u] \/ missing'[u] = Append(missing[u], job[u].list[at[u]])
        BY <2>4, <3>2 DEF CheckOne
      <4>2. ASSUME NEW i \in DOMAIN missing'[u]
            PROVE  \E k \in DOMAIN job[u].list : k < at'[u] /\ missing'[u][i] = job[u].list[k]
        <5>1. CASE i \in DOMAIN missing[u] /\ missing'[u][i] = missing[u][i]
          BY <4>1, <5>1
        <5>2. CASE missing'[u][i] = job[u].list[at[u]]
          BY <4>1, <5>2
        <5>3. missing[u] \in Seq(Definitions)
          OBVIOUS
        <5>4. CASE missing'[u] = missing[u]
          BY <5>1, <5>4
        <5>5. CASE missing'[u] = Append(missing[u], job[u].list[at[u]])
          BY <5>1, <5>2, <5>3, <5>5
        <5> QED
          BY <4>1, <5>4, <5>5
      <4> QED
        BY <4>1, <4>2
    <3> QED
      BY <3>1, <3>2
  <2>5. CASE Checked(u)
    BY <2>5 DEF Checked
  <2>6. CASE LookUp(u)
    BY <2>6 DEF LookUp
  <2>7. CASE Built(u)
    BY <2>7 DEF Built
  <2>8. CASE ListIndexes(u) \/ DropIndexes(u)
    BY <2>8 DEF ListIndexes, DropIndexes
  <2>9. CASE AddIndexes(u)
    <3>1. UNCHANGED missing /\ pc[u] = "add"
      BY <2>9 DEF AddIndexes
    <3>2. CASE pc'[u] = "end" /\ at'[u] = at[u]
      BY <3>1, <3>2
    <3>3. CASE pc'[u] = "lookup" /\ job[u].call = "BuildIndexes"
      BY <3>1, <3>3
    <3> QED
      BY <2>9, <3>2, <3>3 DEF AddIndexes
  <2>10. CASE ConnectionBreaks(u)
    BY <2>10 DEF ConnectionBreaks, Apply
  <2> QED
    BY <2>3, <2>4, <2>5, <2>6, <2>7, <2>8, <2>9, <2>10 DEF StepOf
<1> QED
  BY <1>1, <1>2, <1>3 DEF Course, Ensures

-----------------------------------------------------------------------------
\* A calm step found a calm state: when all ensure their indexes, steps only
\* add to the catalogue, and faults only grow.
LEMMA CalmBack ==
  ASSUME Types, Course, NEW u \in Users, StepOf(u), Calm'
  PROVE  Calm /\ CourseOf(u) /\ Ensures(u)
         /\ ~(ListIndexes(u) \/ DropIndexes(u) \/ ConnectionBreaks(u))
<1>1. job' = job /\ faults' \in {faults, faults + 1} /\ faults' = 0 /\ faults \in Nat
  BY Moves DEF Moved, Calm, Types
<1>2. \A v \in Users : Ensures(v)
  BY <1>1 DEF Calm, Ensures
<1>3. CourseOf(u)
  BY <1>2 DEF Course
<1>4. ~(ListIndexes(u) \/ DropIndexes(u) \/ ConnectionBreaks(u))
  <2>1. ~(ListIndexes(u) \/ DropIndexes(u))
    BY <1>3 DEF CourseOf, ListIndexes, DropIndexes
  <2>2. ASSUME ConnectionBreaks(u) PROVE FALSE
    <3>1. faults' = faults + 1
      BY <2>2 DEF ConnectionBreaks
    <3> QED
      BY <1>1, <3>1
  <2> QED
    BY <2>1, <2>2
<1>5. cat \subseteq cat'
  <2>1. CASE AddIndexes(u)
    BY <2>1 DEF AddIndexes, Apply, WithNew
  <2>2. CASE Start(u) \/ CheckOne(u) \/ Checked(u) \/ LookUp(u) \/ Built(u)
    BY <2>2 DEF Start, CheckOne, Checked, LookUp, Built, Frame
  <2> QED
    BY <1>4, <2>1, <2>2 DEF StepOf
<1>6. Harmonious
  <2> DEFINE All(c) == c \cup UNION {{Entry(idx) : idx \in ToSet(job[v].list)} : v \in Users}
  <2>1. /\ \A e, f \in All(cat') : e.name = f.name => e = f
        /\ \A v \in Users :
              IsInjective([i \in DOMAIN job[v].list |-> Entry(job[v].list[i])])
        /\ \A v \in Users : \A idx \in ToSet(job[v].list) :
              idx.cols # <<>>
              /\ ~(job[v].call = "BuildIndexes" /\ idx.type = "primary")
    BY <1>1 DEF Calm, Harmonious
  <2>2. All(cat) \subseteq All(cat')
    BY <1>5
  <2> QED
    BY <2>1, <2>2 DEF Harmonious
<1> QED
  BY <1>1, <1>2, <1>3, <1>4, <1>6 DEF Calm

\* What one user's list adds to what it remembers keeps it sound: an index
\* CreateIfNotExists has not found has a name that is free.
LEMMA CheckOneSound ==
  ASSUME Types, Calm, NEW u \in Users, CourseOf(u), CheckOne(u), Sound(u)
  PROVE  Sound(u)'
<1>1. /\ pc[u] = "check" /\ job[u].call = "CreateIfNotExists"
      /\ Addable(missing[u]) /\ Harmonious
      /\ missing[u] \in Seq(Definitions) /\ at[u] \in Nat \ {0}
  BY DEF CheckOne, CourseOf, Sound, Calm, Types
<1>2. at[u] \in DOMAIN job[u].list /\ Def(u) \in Definitions
  BY <1>1, ListTyped DEF CheckOne, Def, Types
<1>3. Def(u).cols # <<>>
  BY <1>1, <1>2, ListSound DEF Def
<1>4. /\ cat' = cat /\ pc'[u] = "check"
      /\ missing'[u] = IF HasIndex(Def(u)) THEN missing[u] ELSE Append(missing[u], Def(u))
  BY <1>1, <1>3 DEF CheckOne, Frame, Types
<1>5. Addable(missing'[u])
  <2>1. CASE HasIndex(Def(u))
    BY <1>1, <1>4, <2>1
  <2>2. CASE ~HasIndex(Def(u))
    <3>1. Entry(Def(u)) \notin cat
      BY <1>2, <2>2, FoundByHasIndex
    <3>2. Entry(Def(u)).name \notin Names(cat)
      BY <1>1, <1>2, <3>1, TakenMeansThere DEF Def
    <3>3. ASSUME NEW i \in DOMAIN missing[u]
          PROVE  Entry(missing[u][i]).name # Entry(Def(u)).name
      <4>1. PICK k \in DOMAIN job[u].list : k < at[u] /\ missing[u][i] = job[u].list[k]
        BY <1>1 DEF CourseOf
      <4>2. k # at[u]
        BY <1>1, <4>1, <1>2, ListTyped DEF Types
      <4> QED
        BY <1>1, <1>2, <4>1, <4>2, NamesDiffer DEF Def
    <3> QED
      BY <1>1, <1>2, <1>4, <2>2, <3>2, <3>3, MoreAddable
  <2> QED
    BY <2>1, <2>2
<1> QED
  BY <1>4, <1>5 DEF Sound, Addable, Names

\* Whoever takes a step is sound after it, unless it was not before and left
\* the table as it is.
LEMMA SoundStep ==
  ASSUME Types, Course, NEW u \in Users, StepOf(u), Calm, CourseOf(u), Ensures(u),
         ~(ListIndexes(u) \/ DropIndexes(u) \/ ConnectionBreaks(u))
  PROVE  Sound(u)' \/ (cat' = cat /\ ~Sound(u))
<1> USE DEF Types
<1>1. CASE Start(u)
  <2>1. /\ cat' = cat /\ missing'[u] = missing[u]
        /\ pc'[u] = "check" \/ pc'[u] = "lookup"
    BY <1>1 DEF Start, Ensures, Goto, Frame
  <2>2. missing[u] = <<>>
    BY <1>1 DEF Start, CourseOf
  <2> QED
    BY <2>1, <2>2, NothingAddable DEF Sound, Addable, Names
<1>2. CASE CheckOne(u)
  BY <1>2, CheckOneSound DEF CheckOne, Frame
<1>3. CASE Checked(u)
  <2>1. /\ cat' = cat /\ missing'[u] = missing[u] /\ pc[u] = "check"
        /\ (pc'[u] = "end" /\ result'[u] = "nil") \/ pc'[u] = "add"
    BY <1>3 DEF Checked, End, Goto, Frame, local
  <2> QED
    BY <2>1 DEF Sound, Addable, Names
<1>4. CASE LookUp(u)
  <2>1. /\ cat' = cat /\ at[u] \in DOMAIN job[u].list
        /\ Harmonious /\ job[u].call = "BuildIndexes"
    BY <1>4, ListTyped DEF LookUp, Frame, Calm, CourseOf
  <2>2. GetName(Def(u)) = Entry(Def(u)).name /\ ~NoColumn(Def(u))
    BY <2>1, ListSound DEF Def, NoColumn
  <2>3. CASE HasIndexByName(Def(u))
    BY <1>4, <2>3 DEF LookUp, Sound
  <2>4. CASE ~HasIndexByName(Def(u))
    <3>1. pc'[u] = "add" /\ missing'[u] = <<Def(u)>>
      BY <1>4, <2>2, <2>4 DEF LookUp, Goto
    <3>2. Addable(<<Def(u)>>)
      BY <2>2, <2>4, OneAddable DEF HasIndexByName
    <3> QED
      BY <2>1, <3>1, <3>2 DEF Sound, Addable, Names
  <2> QED
    BY <2>3, <2>4
<1>5. CASE Built(u)
  BY <1>5 DEF Built, End, Goto, Sound
<1>6. CASE AddIndexes(u)
  <2>1. CASE Addable(missing[u])
    <3>1. pc'[u] = "lookup" \/ (pc'[u] = "end" /\ result'[u] = "nil")
      BY <1>6, <2>1 DEF AddIndexes, End, Goto
    <3> QED
      BY <3>1 DEF Sound
  <2>2. CASE ~Addable(missing[u])
    BY <1>6, <2>2 DEF AddIndexes, Sound
  <2> QED
    BY <2>1, <2>2
<1> QED
  BY <1>1, <1>2, <1>3, <1>4, <1>5, <1>6 DEF StepOf

LEMMA InvInitially == Init => Inv
<1> SUFFICES ASSUME Init PROVE Inv
  OBVIOUS
<1>1. Types
  BY DEF Init, Types, Places, Answers
<1>2. Course
  BY DEF Init, Course, CourseOf
<1>3. SomeSound
  BY UsersAssumption, NothingAddable DEF Init, SomeSound, Sound
<1> QED
  BY <1>1, <1>2, <1>3 DEF Inv

LEMMA InvInductive ==
  ASSUME Inv, [Next]_vars
  PROVE  Inv'
<1>1. CASE UNCHANGED vars
  <2>1. /\ cat' = cat /\ job' = job /\ pc' = pc /\ at' = at /\ missing' = missing
        /\ result' = result /\ faults' = faults
    BY <1>1 DEF vars, local
  <2>2. Types' /\ Course'
    BY <2>1 DEF Inv, Types, Course, CourseOf, Ensures, Def
  <2>3. Calm' => Calm
    BY <2>1 DEF Calm, Harmonious, Ensures
  <2>4. \A w \in Users : Sound(w) => Sound(w)'
    BY <2>1 DEF Sound, Addable, Names
  <2> QED
    BY <2>2, <2>3, <2>4 DEF Inv, SomeSound
<1>2. ASSUME NEW u \in Users, StepOf(u) PROVE Inv'
  <2>1. Types' /\ Course'
    BY <1>2, TypesStep, CourseStep DEF Inv
  <2>2. ASSUME Calm' PROVE \E w \in Users : Sound(w)'
    <3>1. Calm /\ CourseOf(u) /\ Ensures(u)
          /\ ~(ListIndexes(u) \/ DropIndexes(u) \/ ConnectionBreaks(u))
      BY <1>2, <2>2, CalmBack DEF Inv
    <3>2. Sound(u)' \/ (cat' = cat /\ ~Sound(u))
      BY <1>2, <3>1, SoundStep DEF Inv
    <3>3. PICK w \in Users : Sound(w)
      BY <3>1 DEF Inv, SomeSound
    <3>4. ASSUME w # u, cat' = cat PROVE Sound(w)'
      <4>1. pc'[w] = pc[w] /\ missing'[w] = missing[w] /\ result'[w] = result[w]
        BY <1>2, <3>4, OthersStay DEF Inv
      <4> QED
        BY <3>3, <3>4, <4>1 DEF Sound, Addable, Names
    <3> QED
      BY <3>2, <3>3, <3>4
  <2> QED
    BY <2>1, <2>2 DEF Inv, SomeSound
<1> QED
  BY <1>1, <1>2 DEF Next, StepOf

\* Of the processes that ensure their indexes at the same time and without a
\* broken connection, one succeeds, however many there are and whatever their
\* lists (CreateIfNotExists in sqlike/index.go, BuildIndexes in
\* sqlike/database.go), as long as a name means one index.
THEOREM Deployed == Spec => []SomebodySucceeds
<1>1. Inv => SomebodySucceeds
  BY DEF Inv, SomeSound, SomebodySucceeds, Calm, Ensures, Sound
<1> QED
  BY InvInitially, InvInductive, <1>1, PTL DEF Spec

-----------------------------------------------------------------------------
(* What a call knows of the table *)

\* The place of a call says which call it is and what it has in hand.
Path(u) ==
    /\ pc[u] = "start" => at[u] = 1 /\ missing[u] = <<>>
    /\ pc[u] = "check" => job[u].call = "CreateIfNotExists"
    /\ pc[u] = "lookup" => job[u].call = "BuildIndexes"
    /\ pc[u] = "list" => job[u].call = "DropAll"
    /\ pc[u] = "drop" => job[u].call \in {"DropOne", "DropAll"}
    /\ pc[u] = "add" =>
          \/ job[u].call = "Create" /\ missing[u] = job[u].list /\ at[u] = 1
          \/ job[u].call = "CreateIfNotExists" /\ at[u] > Len(job[u].list)
          \/ /\ job[u].call = "BuildIndexes"
             /\ at[u] \in DOMAIN job[u].list /\ missing[u] = <<Def(u)>>

\* An index of the list that the call is done with: it is there, or
\* CreateIfNotExists is going to add it.
Found(u, idx) ==
    \/ Entry(idx).name \in Names(cat)
    \/ job[u].call = "BuildIndexes" /\ HasIndexByName(idx)
    \/ /\ job[u].call = "CreateIfNotExists"
       /\ HasIndex(idx) \/ \E i \in DOMAIN missing[u] : missing[u][i] = idx

\* The indexes the loop has passed are still there, unless some were dropped.
NothingLost(u) ==
    ~dropped[u] /\ pc[u] \in {"check", "lookup", "add"} =>
       \A k \in DOMAIN job[u].list : k < at[u] => Found(u, job[u].list[k])

\* What a call has missed is still missing, unless the table was changed.
StillMissing(u) ==
    ~raced[u] =>
       /\ pc[u] \in {"check", "add"} /\ job[u].call = "CreateIfNotExists" =>
             \A i \in DOMAIN missing[u] : ~HasIndex(missing[u][i])
       /\ pc[u] = "add" /\ job[u].call = "BuildIndexes" => ~HasIndexByName(Def(u))

\* DropAll has listed every index there is.
AllListed(u) ==
    ~raced[u] /\ ~cut[u] /\ pc[u] = "drop" /\ job[u].call = "DropAll" =>
       Names(cat) \subseteq ToSet(listed[u])

Histories ==
    /\ raced \in [Users -> BOOLEAN] /\ dropped \in [Users -> BOOLEAN]
    /\ cut \in [Users -> BOOLEAN]
    /\ \E S : listed \in [Users -> S]

Known(u) == Path(u) /\ NothingLost(u) /\ StillMissing(u) /\ AllListed(u)

KInv == Types /\ Histories /\ IsFiniteSet(cat) /\ \A u \in Users : Known(u)

-----------------------------------------------------------------------------
(* Steps and what others feel of them *)

LEMMA Touches ==
  ASSUME NEW u \in Users, StepOf(u)
  PROVE  /\ UNCHANGED <<cat, raced, dropped>> \/ \E c : Apply(u, c)
         /\ cut' = cut \/ cut' = [cut EXCEPT ![u] = TRUE]
         /\ listed' = listed \/ \E s : listed' = [listed EXCEPT ![u] = s]
<1> USE DEF Frame, local
<1>1. CASE Start(u)
  BY <1>1 DEF Start
<1>2. CASE CheckOne(u) \/ Checked(u) \/ LookUp(u) \/ Built(u)
  BY <1>2 DEF CheckOne, Checked, LookUp, Built
<1>3. CASE ListIndexes(u)
  BY <1>3 DEF ListIndexes
<1>4. CASE AddIndexes(u)
  BY <1>4 DEF AddIndexes
<1>5. CASE DropIndexes(u)
  BY <1>5 DEF DropIndexes
<1>6. CASE ConnectionBreaks(u)
  BY <1>6 DEF ConnectionBreaks
<1> QED
  BY <1>1, <1>2, <1>3, <1>4, <1>5, <1>6 DEF StepOf

\* The histories of a call: the step of another is noted when it changes the
\* table, the call's own is not.
LEMMA Felt ==
  ASSUME Histories, NEW u \in Users, StepOf(u)
  PROVE  /\ Histories'
         /\ raced'[u] = raced[u] /\ dropped'[u] = dropped[u]
         /\ \A v \in Users \ {u} :
               /\ listed'[v] = listed[v] /\ cut'[v] = cut[v]
               /\ raced[v] => raced'[v]
               /\ dropped[v] => dropped'[v]
               /\ pc[v] \notin {"start", "end"} =>
                     /\ cat' = cat \/ raced'[v]
                     /\ cat \subseteq cat' \/ dropped'[v]
<1> USE DEF Histories
<1>1. /\ cut' \in [Users -> BOOLEAN]
      /\ \A v \in Users \ {u} : cut'[v] = cut[v]
  BY Touches
<1>2. /\ \E S : listed' \in [Users -> S]
      /\ \A v \in Users \ {u} : listed'[v] = listed[v]
  <2>1. PICK S : listed \in [Users -> S]
    OBVIOUS
  <2>2. CASE listed' = listed
    BY <2>1, <2>2
  <2>3. ASSUME NEW s, listed' = [listed EXCEPT ![u] = s]
        PROVE  /\ listed' \in [Users -> S \cup {s}]
               /\ \A v \in Users \ {u} : listed'[v] = listed[v]
    BY <2>1, <2>3
  <2> QED
    BY <2>2, <2>3, Touches
<1>3. CASE UNCHANGED <<cat, raced, dropped>>
  BY <1>1, <1>2, <1>3
<1>4. ASSUME NEW c, Apply(u, c)
      PROVE  /\ raced' \in [Users -> BOOLEAN] /\ dropped' \in [Users -> BOOLEAN]
             /\ raced'[u] = raced[u] /\ dropped'[u] = dropped[u]
             /\ \A v \in Users \ {u} :
                   /\ raced[v] => raced'[v]
                   /\ dropped[v] => dropped'[v]
                   /\ pc[v] \notin {"start", "end"} =>
                         /\ cat' = cat \/ raced'[v]
                         /\ cat \subseteq cat' \/ dropped'[v]
  <2>1. /\ cat' = c
        /\ raced' = [o \in Users |-> raced[o] \/ (c # cat /\ o \in Underway(u))]
        /\ dropped' = [o \in Users |-> dropped[o] \/ (~(cat \subseteq c) /\ o \in Underway(u))]
    BY <1>4 DEF Apply
  <2>2. \A v \in Users : v \in Underway(u) <=> v # u /\ pc[v] \notin {"start", "end"}
    BY DEF Underway
  <2>3. \A v \in Users : raced[v] \in BOOLEAN /\ dropped[v] \in BOOLEAN
    OBVIOUS
  <2>4. raced' \in [Users -> BOOLEAN] /\ dropped' \in [Users -> BOOLEAN]
    BY <2>1, <2>3
  <2> HIDE DEF Histories
  <2>5. \A v \in Users : /\ raced'[v] = (raced[v] \/ (c # cat /\ v \in Underway(u)))
                         /\ dropped'[v] = (dropped[v] \/ (~(cat \subseteq c) /\ v \in Underway(u)))
    BY <2>1
  <2>6. raced'[u] = raced[u] /\ dropped'[u] = dropped[u]
    BY <2>2, <2>3, <2>5
  <2> QED
    BY <2>1, <2>2, <2>4, <2>5, <2>6
<1> QED
  BY <1>1, <1>2, <1>3, <1>4, Touches

\* Indexes that are there are found after more were added.
LEMMA FoundMore ==
  ASSUME NEW u \in Users, NEW idx, Found(u, idx), cat \subseteq cat',
         job' = job, missing'[u] = missing[u]
  PROVE  Found(u, idx)'
BY DEF Found, HasIndex, HasIndexByName, Names

\* The knowledge of the others survives a step, as far as they claim it.
LEMMA OthersKnow ==
  ASSUME Types, Histories, NEW u \in Users, StepOf(u), NEW v \in Users \ {u}, Known(v)
  PROVE  Known(v)'
<1>1. /\ job' = job /\ pc'[v] = pc[v] /\ at'[v] = at[v] /\ missing'[v] = missing[v]
  BY OthersStay
<1>2. /\ listed'[v] = listed[v] /\ cut'[v] = cut[v]
      /\ raced[v] => raced'[v]
      /\ dropped[v] => dropped'[v]
      /\ pc[v] \notin {"start", "end"} =>
            /\ cat' = cat \/ raced'[v]
            /\ cat \subseteq cat' \/ dropped'[v]
  BY Felt
<1>3. Path(v)'
  BY <1>1 DEF Known, Path, Def
<1>4. NothingLost(v)'
  <2> SUFFICES ASSUME ~dropped'[v], pc[v] \in {"check", "lookup", "add"},
                      NEW k \in DOMAIN job[v].list, k < at[v]
               PROVE  Found(v, job[v].list[k])'
    BY <1>1 DEF NothingLost
  <2>1. Found(v, job[v].list[k]) /\ cat \subseteq cat'
    BY <1>2 DEF Known, NothingLost
  <2> QED
    BY <1>1, <2>1, FoundMore
<1>5. StillMissing(v)'
  BY <1>1, <1>2 DEF Known, StillMissing, HasIndex, HasIndexByName, Names, Def
<1>6. AllListed(v)'
  BY <1>1, <1>2 DEF Known, AllListed, Names
<1> QED
  BY <1>3, <1>4, <1>5, <1>6 DEF Known

-----------------------------------------------------------------------------
(* What a call learns *)

LEMMA PathStep ==
  ASSUME Types, NEW u \in Users, StepOf(u), Path(u)
  PROVE  Path(u)'
<1>1. job' = job
  BY Moves DEF Moved
<1>2. DOMAIN job[u].list = 1..Len(job[u].list) /\ Len(job[u].list) \in Nat
      /\ at[u] \in Nat \ {0}
  BY ListTyped DEF Types
<1> USE <1>1, <1>2 DEF Types, Path, End, Goto, Frame, local, Def
<1>3. CASE Start(u)
  BY <1>3 DEF Start
<1>4. CASE CheckOne(u)
  BY <1>4 DEF CheckOne
<1>5. CASE Checked(u)
  BY <1>5 DEF Checked
<1>6. CASE LookUp(u)
  BY <1>6 DEF LookUp
<1>7. CASE Built(u)
  BY <1>7 DEF Built
<1>8. CASE ListIndexes(u)
  BY <1>8 DEF ListIndexes
<1>9. CASE AddIndexes(u)
  BY <1>9 DEF AddIndexes
<1>10. CASE DropIndexes(u)
  BY <1>10 DEF DropIndexes
<1>11. CASE ConnectionBreaks(u)
  BY <1>11 DEF ConnectionBreaks
<1> QED
  BY <1>3, <1>4, <1>5, <1>6, <1>7, <1>8, <1>9, <1>10, <1>11 DEF StepOf

LEMMA NothingLostStep ==
  ASSUME Types, Histories, NEW u \in Users, StepOf(u), Known(u)
  PROVE  NothingLost(u)'
<1>1. job' = job /\ dropped'[u] = dropped[u]
  BY Moves, Felt DEF Moved
<1>2. /\ DOMAIN job[u].list = 1..Len(job[u].list) /\ Len(job[u].list) \in Nat
      /\ at[u] \in Nat \ {0} /\ missing[u] \in Seq(Definitions)
  BY ListTyped DEF Types
<1> SUFFICES ASSUME ~dropped[u], pc'[u] \in {"check", "lookup", "add"},
                    NEW k \in DOMAIN job[u].list, k < at'[u]
             PROVE  Found(u, job[u].list[k])'
  BY <1>1 DEF NothingLost
<1>3. pc[u] \in {"check", "lookup", "add"} /\ k < at[u] => Found(u, job[u].list[k])
  BY DEF Known, NothingLost
<1> USE DEF Types, End, Goto, Frame, local
<1>4. CASE Start(u)
  <2>1. at'[u] = 1
    BY <1>4 DEF Start, Known, Path
  <2> QED
    BY <1>2, <2>1
<1>5. CASE CheckOne(u)
  <2>1. /\ cat' = cat /\ job[u].call = "CreateIfNotExists" /\ pc[u] = "check"
        /\ at'[u] = at[u] + 1
        /\ missing'[u] = IF HasIndex(Def(u)) THEN missing[u] ELSE Append(missing[u], Def(u))
    BY <1>5 DEF CheckOne, Known, Path
  <2>2. CASE k < at[u]
    <3>1. Found(u, job[u].list[k])
      BY <1>3, <2>1, <2>2
    <3>2. \A i \in DOMAIN missing[u] : i \in DOMAIN missing'[u] /\ missing'[u][i] = missing[u][i]
      BY <1>2, <2>1
    <3> QED
      BY <1>1, <2>1, <3>1, <3>2 DEF Found, HasIndex
  <2>3. CASE k = at[u]
    <3>1. CASE HasIndex(Def(u))
      BY <1>1, <2>1, <2>3, <3>1 DEF Found, Def, HasIndex
    <3>2. CASE ~HasIndex(Def(u))
      <4>1. /\ Len(missing[u]) + 1 \in DOMAIN missing'[u]
            /\ missing'[u][Len(missing[u]) + 1] = Def(u)
        BY <1>2, <2>1, <3>2
      <4> QED
        BY <1>1, <2>1, <2>3, <4>1 DEF Found, Def
    <3> QED
      BY <3>1, <3>2
  <2> QED
    BY <1>2, <2>1, <2>2, <2>3
<1>6. CASE Checked(u)
  <2>1. /\ cat' = cat /\ pc[u] = "check" /\ at'[u] = at[u] /\ missing'[u] = missing[u]
    BY <1>6 DEF Checked
  <2> QED
    BY <1>1, <1>3, <2>1, FoundMore
<1>7. CASE LookUp(u)
  <2>1. cat' = cat /\ job[u].call = "BuildIndexes" /\ pc[u] = "lookup"
    BY <1>7 DEF LookUp, Known, Path
  <2>2. CASE k < at[u]
    <3>1. Found(u, job[u].list[k])
      BY <1>3, <2>1, <2>2
    <3> QED
      BY <1>1, <2>1, <3>1 DEF Found, HasIndexByName
  <2>3. CASE ~(k < at[u])
    <3>1. k = at[u] /\ HasIndexByName(Def(u))
      BY <1>2, <1>7, <2>3 DEF LookUp
    <3> QED
      BY <1>1, <2>1, <3>1 DEF Found, Def, HasIndexByName
  <2> QED
    BY <2>2, <2>3
<1>8. CASE AddIndexes(u)
  <2>1. /\ pc[u] = "add" /\ job[u].call = "BuildIndexes" /\ missing'[u] = missing[u]
        /\ cat' = WithNew(missing[u]) /\ at'[u] = at[u] + 1
    BY <1>8 DEF AddIndexes, Apply
  <2>2. missing[u] = <<Def(u)>>
    BY <2>1 DEF Known, Path
  <2>3. cat \subseteq cat' /\ Entry(Def(u)) \in cat'
    BY <2>1, <2>2 DEF WithNew, ToSet
  <2>4. CASE k < at[u]
    BY <1>1, <1>3, <2>1, <2>3, <2>4, FoundMore
  <2>5. CASE k = at[u]
    BY <1>1, <2>3, <2>5 DEF Found, Def, Names
  <2> QED
    BY <1>2, <2>1, <2>4, <2>5
<1>9. CASE Built(u) \/ ListIndexes(u) \/ DropIndexes(u) \/ ConnectionBreaks(u)
  BY <1>9 DEF Built, ListIndexes, DropIndexes, ConnectionBreaks
<1> QED
  BY <1>4, <1>5, <1>6, <1>7, <1>8, <1>9 DEF StepOf

LEMMA StillMissingStep ==
  ASSUME Types, Histories, NEW u \in Users, StepOf(u), Known(u)
  PROVE  StillMissing(u)'
<1>1. job' = job /\ raced'[u] = raced[u] /\ missing[u] \in Seq(Definitions)
  BY Moves, Felt DEF Moved, Types
<1> USE DEF Types, End, Goto, Frame, local
<1>2. CASE Start(u)
  <2>1. missing[u] = <<>> /\ (job[u].call = "CreateIfNotExists" => missing'[u] = missing[u])
        /\ (pc'[u] = "add" => job[u].call = "Create")
    BY <1>2 DEF Start, Known, Path
  <2> QED
    BY <1>1, <2>1 DEF StillMissing
<1>3. CASE CheckOne(u)
  <2>1. CASE Def(u).cols = <<>>
    BY <1>3, <2>1 DEF CheckOne, StillMissing
  <2>2. CASE Def(u).cols # <<>>
    <3>1. /\ cat' = cat /\ job[u].call = "CreateIfNotExists" /\ pc[u] = "check" /\ pc'[u] = "check"
          /\ missing'[u] = IF HasIndex(Def(u)) THEN missing[u] ELSE Append(missing[u], Def(u))
      BY <1>3, <2>2 DEF CheckOne, Known, Path
    <3>2. \A idx : HasIndex(idx)' <=> HasIndex(idx)
      BY <3>1 DEF HasIndex
    <3>3. ~raced[u] => \A i \in DOMAIN missing[u] : ~HasIndex(missing[u][i])
      BY <3>1 DEF Known, StillMissing
    <3>4. ~raced[u] => \A i \in DOMAIN missing'[u] : ~HasIndex(missing'[u][i])
      BY <1>1, <3>1, <3>3
    <3> QED
      BY <1>1, <3>1, <3>2, <3>4 DEF StillMissing
  <2> QED
    BY <2>1, <2>2
<1>4. CASE Checked(u)
  <2>1. /\ cat' = cat /\ pc[u] = "check" /\ missing'[u] = missing[u]
        /\ job[u].call = "CreateIfNotExists"
    BY <1>4 DEF Checked, Known, Path
  <2> QED
    BY <1>1, <2>1 DEF Known, StillMissing, HasIndex
<1>5. CASE LookUp(u)
  <2>1. /\ cat' = cat /\ job[u].call = "BuildIndexes"
        /\ pc'[u] = "add" => ~HasIndexByName(Def(u)) /\ at'[u] = at[u]
    BY <1>5 DEF LookUp, Known, Path
  <2> QED
    BY <1>1, <2>1 DEF StillMissing, HasIndexByName, Def
<1>6. CASE AddIndexes(u)
  BY <1>6 DEF AddIndexes, StillMissing
<1>7. CASE Built(u) \/ ListIndexes(u) \/ DropIndexes(u) \/ ConnectionBreaks(u)
  BY <1>7 DEF Built, ListIndexes, DropIndexes, ConnectionBreaks, StillMissing
<1> QED
  BY <1>2, <1>3, <1>4, <1>5, <1>6, <1>7 DEF StepOf

\* A list of all names has every name, when there are finitely many.
LEMMA ListComplete ==
  ASSUME NEW S, IsFiniteSet(S), NEW s \in SetToSeqs(S)
  PROVE  ToSet(s) = S
<1> DEFINE D == 1..Cardinality(S)
<1>1. Cardinality(S) \in Nat
  BY FS_CardinalityType
<1>2. IsFiniteSet(D) /\ Cardinality(D) = Cardinality(S)
  BY <1>1, FS_Interval
<1>3. s \in [D -> S] /\ \A i, j \in D : i # j => s[i] # s[j]
  BY DEF SetToSeqs
<1>4. s \in Injection(D, S)
  BY <1>3 DEF Injection, IsInjective
<1>5. s \in Surjection(D, S)
  BY <1>2, <1>4, FS_Injection
<1> QED
  BY <1>3, <1>5 DEF Surjection, ToSet

LEMMA NamesFinite ==
  ASSUME IsFiniteSet(cat)
  PROVE  IsFiniteSet(Names(cat))
<1> DEFINE f == [e \in cat |-> e.name]
<1>1. f \in Surjection(cat, Names(cat))
  BY DEF Surjection, Names
<1> QED
  BY <1>1, FS_Surjection

LEMMA AllListedStep ==
  ASSUME Types, Histories, IsFiniteSet(cat), NEW u \in Users, StepOf(u), Known(u)
  PROVE  AllListed(u)'
<1>1. job' = job
  BY Moves DEF Moved
<1> USE DEF Types, End, Goto, Frame, local
<1>2. CASE Start(u)
  BY <1>1, <1>2 DEF Start, AllListed
<1>3. CASE ListIndexes(u)
  <2>1. cat' = cat
    BY <1>3 DEF ListIndexes
  <2>2. PICK S : listed \in [Users -> S]
    BY DEF Histories
  <2>3. CASE listed' \in {[listed EXCEPT ![u] = s] : s \in SetToSeqs(Names(cat))}
    <3>1. PICK s \in SetToSeqs(Names(cat)) : listed' = [listed EXCEPT ![u] = s]
      BY <2>3
    <3>2. listed'[u] = s /\ ToSet(s) = Names(cat)
      BY <2>2, <3>1, NamesFinite, ListComplete
    <3> QED
      BY <2>1, <3>2 DEF AllListed, Names
  <2>4. CASE cut' = [cut EXCEPT ![u] = TRUE]
    BY <2>4 DEF Histories, AllListed
  <2> QED
    BY <1>3, <2>3, <2>4 DEF ListIndexes
<1>4. CASE CheckOne(u) \/ Checked(u) \/ LookUp(u) \/ Built(u)
  <2>1. pc[u] \in {"check", "lookup"} /\ pc'[u] # "drop"
    BY <1>4 DEF CheckOne, Checked, LookUp, Built
  <2> QED
    BY <2>1 DEF AllListed
<1>5. CASE AddIndexes(u) \/ DropIndexes(u) \/ ConnectionBreaks(u)
  <2>1. pc'[u] # "drop"
    BY <1>5 DEF AddIndexes, DropIndexes, ConnectionBreaks
  <2> QED
    BY <2>1 DEF AllListed
<1> QED
  BY <1>2, <1>3, <1>4, <1>5 DEF StepOf

\* The catalogue stays finite: a statement adds the definitions of a list.
LEMMA FiniteStep ==
  ASSUME Types, IsFiniteSet(cat), NEW u \in Users, StepOf(u)
  PROVE  IsFiniteSet(cat')
<1>1. CASE cat' = WithNew(missing[u])
  <2>1. missing[u] \in Seq(Definitions)
    BY DEF Types
  <2>2. Len(missing[u]) \in Nat /\ DOMAIN missing[u] = 1..Len(missing[u])
    BY <2>1
  <2>3. IsFiniteSet(DOMAIN missing[u])
    BY <2>2, FS_Interval
  <2> DEFINE f == [i \in DOMAIN missing[u] |-> Entry(missing[u][i])]
             new == {Entry(idx) : idx \in ToSet(missing[u])}
  <2>4. f \in Surjection(DOMAIN missing[u], new)
    BY DEF Surjection, ToSet
  <2>5. IsFiniteSet(new)
    BY <2>3, <2>4, FS_Surjection
  <2> QED
    BY <1>1, <2>5, FS_Union DEF WithNew
<1>2. CASE cat' \in SUBSET cat
  BY <1>2, FS_Subset
<1>3. cat' = WithNew(missing[u]) \/ cat' \in SUBSET cat
  <2>1. CASE Start(u) \/ CheckOne(u) \/ Checked(u) \/ LookUp(u) \/ Built(u) \/ ListIndexes(u)
    BY <2>1 DEF Start, CheckOne, Checked, LookUp, Built, ListIndexes, Frame
  <2>2. CASE AddIndexes(u)
    BY <2>2 DEF AddIndexes, Apply
  <2>3. CASE DropIndexes(u)
    BY <2>3 DEF DropIndexes, Apply, Without
  <2>4. CASE ConnectionBreaks(u)
    BY <2>4 DEF ConnectionBreaks, Apply, Without
  <2> QED
    BY <2>1, <2>2, <2>3, <2>4 DEF StepOf
<1> QED
  BY <1>1, <1>2, <1>3

LEMMA KInvInitially == Init => KInv
<1> SUFFICES ASSUME Init PROVE KInv
  OBVIOUS
<1>1. Types
  BY InvInitially DEF Inv
<1>2. Histories
  <2>1. listed \in [Users -> {<<>>}]
    BY DEF Init
  <2> QED
    BY <2>1 DEF Init, Histories
<1>3. IsFiniteSet(cat)
  BY CataloguesAssumption DEF Init
<1>4. ASSUME NEW u \in Users PROVE Known(u)
  BY DEF Init, Known, Path, NothingLost, StillMissing, AllListed
<1> QED
  BY <1>1, <1>2, <1>3, <1>4 DEF KInv

LEMMA KInvInductive ==
  ASSUME KInv, [Next]_vars
  PROVE  KInv'
<1>1. CASE UNCHANGED vars
  <2>1. /\ cat' = cat /\ job' = job /\ pc' = pc /\ at' = at /\ missing' = missing
        /\ listed' = listed /\ result' = result /\ raced' = raced /\ dropped' = dropped
        /\ cut' = cut /\ faults' = faults
    BY <1>1 DEF vars, local
  <2>2. Types' /\ Histories' /\ IsFiniteSet(cat')
    BY <2>1 DEF KInv, Types, Histories
  <2>3. ASSUME NEW u \in Users PROVE Known(u)'
    <3>1. Known(u)
      BY DEF KInv
    <3>2. Path(u)' /\ AllListed(u)'
      BY <2>1, <3>1 DEF Known, Path, AllListed, Def, Names
    <3>3. NothingLost(u)' /\ StillMissing(u)'
      BY <2>1, <3>1 DEF Known, NothingLost, StillMissing, Found, HasIndex,
                        HasIndexByName, Names, Def
    <3> QED
      BY <3>2, <3>3 DEF Known
  <2> QED
    BY <2>2, <2>3 DEF KInv
<1>2. ASSUME NEW u \in Users, StepOf(u) PROVE KInv'
  <2>1. Types' /\ Histories' /\ IsFiniteSet(cat')
    BY <1>2, TypesStep, Felt, FiniteStep DEF KInv
  <2>2. Known(u)'
    BY <1>2, PathStep, NothingLostStep, StillMissingStep, AllListedStep DEF KInv, Known
  <2>3. ASSUME NEW v \in Users \ {u} PROVE Known(v)'
    BY <1>2, <2>3, OthersKnow DEF KInv
  <2> QED
    BY <2>1, <2>2, <2>3 DEF KInv
<1> QED
  BY <1>1, <1>2 DEF Next, StepOf

-----------------------------------------------------------------------------
(* The answers *)

\* HasIndex counts the columns it has found, and there is no other count for
\* all of them: the index it means has every column of the definition.
LEMMA HasIndexMeans ==
  ASSUME NEW idx \in Definitions, HasIndex(idx)
  PROVE  \E e \in cat : ToSet(idx.cols) \subseteq e.cols /\ e.uniq = Unique(idx)
<1>1. PICK e \in cat : /\ e.uniq = Unique(idx)
                       /\ Cardinality(e.cols \cap ToSet(idx.cols)) = Len(idx.cols)
  BY DEF HasIndex
<1>2. IsFiniteSet(ToSet(idx.cols)) /\ Cardinality(ToSet(idx.cols)) = Len(idx.cols)
  BY ColumnCount
<1>3. e.cols \cap ToSet(idx.cols) \in SUBSET ToSet(idx.cols)
  OBVIOUS
<1>4. e.cols \cap ToSet(idx.cols) = ToSet(idx.cols)
  BY <1>1, <1>2, <1>3, FS_Subset
<1> QED
  BY <1>1, <1>4

\* Only three steps answer nil.
LEMMA NilSteps ==
  ASSUME Types, NEW u \in Users, NEW v \in Users, StepOf(v), Finishes(u, "nil")
  PROVE  /\ u = v /\ pc'[u] = "end"
         /\ \/ Checked(u) /\ missing[u] = <<>>
            \/ Built(u)
            \/ AddIndexes(u) /\ Addable(missing[u]) /\ job[u].call # "BuildIndexes"
            \/ DropIndexes(u) /\ Droppable(listed[u])
<1>1. u = v
  <2>1. ASSUME u # v PROVE result'[u] = result[u]
    BY <2>1, OthersStay
  <2> QED
    BY <2>1 DEF Finishes
<1> USE <1>1 DEF Finishes, Types, End, Goto, Frame, local
<1>2. CASE Start(u)
  BY <1>2 DEF Start
<1>3. CASE CheckOne(u)
  BY <1>3 DEF CheckOne
<1>4. CASE Checked(u)
  BY <1>4 DEF Checked
<1>5. CASE LookUp(u)
  BY <1>5 DEF LookUp
<1>6. CASE Built(u)
  BY <1>6 DEF Built
<1>7. CASE ListIndexes(u)
  BY <1>7 DEF ListIndexes
<1>8. CASE AddIndexes(u)
  BY <1>8 DEF AddIndexes
<1>9. CASE DropIndexes(u)
  BY <1>9 DEF DropIndexes
<1>10. CASE ConnectionBreaks(u)
  BY <1>10 DEF ConnectionBreaks
<1> QED
  BY <1>2, <1>3, <1>4, <1>5, <1>6, <1>7, <1>8, <1>9, <1>10 DEF StepOf

\* What NilMeansThere says of one call.
NilMeansThereFor(u) ==
    Finishes(u, "nil") /\ ~dropped[u] =>
       \A idx \in ToSet(job[u].list) :
          \/ Entry(idx).name \in Names(cat')
          \/ job[u].call = "BuildIndexes" /\ GetName(idx) \in Names(cat')
          \/ /\ job[u].call = "CreateIfNotExists"
             /\ \E e \in cat' : /\ ToSet(idx.cols) \subseteq e.cols
                                /\ e.uniq = Unique(idx)

LEMMA NilStep ==
  ASSUME KInv, NEW u \in Users, NEW v \in Users, StepOf(v)
  PROVE  NilMeansThereFor(u)
<1> SUFFICES ASSUME Finishes(u, "nil"), ~dropped[u], NEW k \in DOMAIN job[u].list
             PROVE  LET idx == job[u].list[k] IN
                    \/ Entry(idx).name \in Names(cat')
                    \/ job[u].call = "BuildIndexes" /\ GetName(idx) \in Names(cat')
                    \/ /\ job[u].call = "CreateIfNotExists"
                       /\ \E e \in cat' : /\ ToSet(idx.cols) \subseteq e.cols
                                          /\ e.uniq = Unique(idx)
  BY DEF NilMeansThereFor, ToSet
<1> DEFINE idx == job[u].list[k]
<1>1. /\ Known(u) /\ job[u] \in Jobs /\ at[u] \in Nat \ {0}
      /\ job[u].list \in Seq(Definitions) /\ idx \in Definitions
      /\ k \in 1..Len(job[u].list) /\ Len(job[u].list) \in Nat
  BY ListTyped DEF KInv, Types
<1>2. /\ u = v
      /\ \/ Checked(u) /\ missing[u] = <<>>
         \/ Built(u)
         \/ AddIndexes(u) /\ Addable(missing[u]) /\ job[u].call # "BuildIndexes"
         \/ DropIndexes(u)
  BY NilSteps DEF KInv
<1>3. CASE Checked(u) /\ missing[u] = <<>>
  <2>1. /\ cat' = cat /\ pc[u] = "check" /\ job[u].call = "CreateIfNotExists" /\ k < at[u]
    BY <1>1, <1>3 DEF Checked, Frame, Known, Path
  <2>2. Found(u, idx)
    BY <1>1, <2>1 DEF Known, NothingLost
  <2>3. CASE Entry(idx).name \in Names(cat)
    BY <2>1, <2>3
  <2>4. CASE HasIndex(idx)
    BY <1>1, <2>1, <2>4, HasIndexMeans
  <2> QED
    BY <1>3, <2>1, <2>2, <2>3, <2>4 DEF Found
<1>4. CASE Built(u)
  <2>1. /\ cat' = cat /\ pc[u] = "lookup" /\ job[u].call = "BuildIndexes" /\ k < at[u]
    BY <1>1, <1>4 DEF Built, Frame, Known, Path
  <2>2. Found(u, idx)
    BY <1>1, <2>1 DEF Known, NothingLost
  <2> QED
    BY <2>1, <2>2 DEF Found, HasIndexByName
<1>5. CASE AddIndexes(u) /\ Addable(missing[u]) /\ job[u].call # "BuildIndexes"
  <2>1. /\ cat' = WithNew(missing[u]) /\ pc[u] = "add"
        /\ cat \subseteq cat'
        /\ \A i \in DOMAIN missing[u] : Entry(missing[u][i]) \in cat'
    BY <1>5 DEF AddIndexes, Apply, WithNew, ToSet
  <2>2. CASE job[u].call = "Create"
    <3>1. missing[u] = job[u].list
      BY <1>1, <2>1, <2>2 DEF Known, Path
    <3> QED
      BY <2>1, <3>1 DEF Names
  <2>3. CASE job[u].call = "CreateIfNotExists"
    <3>1. k < at[u]
      BY <1>1, <2>1, <2>3 DEF Known, Path
    <3>2. Found(u, idx)
      BY <1>1, <2>1, <3>1 DEF Known, NothingLost
    <3>3. CASE Entry(idx).name \in Names(cat)
      BY <2>1, <3>3 DEF Names
    <3>4. CASE HasIndex(idx)
      BY <1>1, <2>1, <2>3, <3>4, HasIndexMeans
    <3>5. CASE \E i \in DOMAIN missing[u] : missing[u][i] = idx
      BY <2>1, <3>5 DEF Names
    <3> QED
      BY <2>3, <3>2, <3>3, <3>4, <3>5 DEF Found
  <2> QED
    BY <1>1, <1>5, <2>1, <2>2, <2>3 DEF Known, Path
<1>6. CASE DropIndexes(u)
  <2>1. job[u].list = <<>>
    BY <1>1, <1>6, JobsAssumption DEF DropIndexes, Known, Path
  <2> QED
    BY <1>1, <2>1
<1> QED
  BY <1>2, <1>3, <1>4, <1>5, <1>6

\* A call is refused when its statement cannot be executed.
LEMMA RefusedSteps ==
  ASSUME Types, NEW u \in Users, NEW v \in Users, StepOf(v), Finishes(u, "ddl error")
  PROVE  u = v /\ ((AddIndexes(u) /\ ~Addable(missing[u])) \/ DropIndexes(u))
<1>1. u = v
  <2>1. ASSUME u # v PROVE result'[u] = result[u]
    BY <2>1, OthersStay
  <2> QED
    BY <2>1 DEF Finishes
<1> USE <1>1 DEF Finishes, Types, End, Goto, Frame, local
<1>2. CASE Start(u)
  BY <1>2 DEF Start
<1>3. CASE CheckOne(u)
  BY <1>3 DEF CheckOne
<1>4. CASE Checked(u)
  BY <1>4 DEF Checked
<1>5. CASE LookUp(u)
  BY <1>5 DEF LookUp
<1>6. CASE Built(u)
  BY <1>6 DEF Built
<1>7. CASE ListIndexes(u)
  BY <1>7 DEF ListIndexes
<1>8. CASE AddIndexes(u)
  BY <1>8 DEF AddIndexes
<1>9. CASE DropIndexes(u)
  BY <1>9 DEF DropIndexes
<1>10. CASE ConnectionBreaks(u)
  BY <1>10 DEF ConnectionBreaks
<1> QED
  BY <1>2, <1>3, <1>4, <1>5, <1>6, <1>7, <1>8, <1>9, <1>10 DEF StepOf

\* What RefusedOnlyRaced says of one call.
RefusedOnlyRacedFor(u) ==
    /\ Finishes(u, "ddl error")
    /\ job[u].call \in {"CreateIfNotExists", "BuildIndexes"}
    => raced[u] \/ Clash(u)

\* What the statement of a call is made of.
LEMMA MissingTyped ==
  ASSUME Types, NEW u \in Users, Path(u), pc[u] = "add"
  PROVE  /\ \A i \in DOMAIN missing[u] : missing[u][i] \in Definitions
         /\ job[u].call = "BuildIndexes" => \A i \in DOMAIN missing[u] : missing[u][i] = Def(u)
<1>1. missing[u] \in Seq(Definitions)
  BY DEF Types
<1>2. job[u].call = "BuildIndexes" => missing[u] = <<Def(u)>>
  BY DEF Path
<1> QED
  BY <1>1, <1>2

LEMMA RefusedStep ==
  ASSUME KInv, NEW u \in Users, NEW v \in Users, StepOf(v)
  PROVE  RefusedOnlyRacedFor(u)
<1> SUFFICES ASSUME Finishes(u, "ddl error"), ~raced[u],
                    job[u].call \in {"CreateIfNotExists", "BuildIndexes"}
             PROVE  Clash(u)
  BY DEF RefusedOnlyRacedFor
<1>1. Known(u)
  BY DEF KInv
<1>2. AddIndexes(u) /\ ~Addable(missing[u])
  <2>1. ~DropIndexes(u)
    BY <1>1 DEF DropIndexes, Known, Path
  <2> QED
    BY <2>1, RefusedSteps DEF KInv
<1>3. pc[u] = "add"
  BY <1>2 DEF AddIndexes
<1>4. /\ \A i \in DOMAIN missing[u] : missing[u][i] \in Definitions
      /\ job[u].call = "BuildIndexes" => \A i \in DOMAIN missing[u] : missing[u][i] = Def(u)
  BY <1>1, <1>3, MissingTyped DEF KInv, Known
<1> DEFINE new == [i \in DOMAIN missing[u] |-> Entry(missing[u][i]).name]
<1>5. ~(IsInjective(new) /\ ToSet(new) \cap Names(cat) = {})
  BY <1>2 DEF Addable
<1>6. CASE ~IsInjective(new)
  <2>1. PICK i, j \in DOMAIN missing[u] :
           i # j /\ Entry(missing[u][i]).name = Entry(missing[u][j]).name
    BY <1>6 DEF IsInjective
  <2> QED
    BY <2>1 DEF Clash
<1>7. CASE ToSet(new) \cap Names(cat) # {}
  <2>1. PICK i \in DOMAIN missing[u], e \in cat : e.name = Entry(missing[u][i]).name
    BY <1>7 DEF ToSet, Names
  <2> DEFINE idx == missing[u][i]
  <2>2. idx \in ToSet(missing[u]) /\ idx \in Definitions
    BY <1>4 DEF ToSet
  <2> SUFFICES ASSUME e = Entry(idx), ~(job[u].call = "BuildIndexes" /\ e.name = Primary)
               PROVE  FALSE
    BY <2>1, <2>2 DEF Clash
  <2>3. CASE job[u].call = "CreateIfNotExists"
    <3>1. ~HasIndex(idx)
      BY <1>1, <1>3, <2>3 DEF Known, StillMissing
    <3> QED
      BY <2>2, <3>1, FoundByHasIndex
  <2>4. CASE job[u].call = "BuildIndexes"
    <3>1. ~HasIndexByName(Def(u))
      BY <1>1, <1>3, <2>4 DEF Known, StillMissing
    <3>2. idx = Def(u)
      BY <1>4, <2>4
    <3>3. e.name = GetName(idx)
      BY <2>4 DEF Entry
    <3> QED
      BY <3>1, <3>2, <3>3 DEF HasIndexByName, Names
  <2> QED
    BY <2>3, <2>4
<1> QED
  BY <1>5, <1>6, <1>7

\* What PrimaryStays says of one step.
PrimaryStaysIn ==
    /\ Primary \in Names(cat) => Primary \in Names(cat')
    /\ \A u \in Users :
          job[u].call = "DropAll" /\ Finishes(u, "nil") /\ ~raced[u] /\ ~cut[u]
             => Names(cat') \subseteq {Primary}

LEMMA PrimaryStep ==
  ASSUME KInv, NEW v \in Users, StepOf(v)
  PROVE  PrimaryStaysIn
<1>1. Primary \in Names(cat) => Primary \in Names(cat')
  <2>1. CASE Start(v) \/ CheckOne(v) \/ Checked(v) \/ LookUp(v) \/ Built(v) \/ ListIndexes(v)
    BY <2>1 DEF Start, CheckOne, Checked, LookUp, Built, ListIndexes, Frame
  <2>2. CASE AddIndexes(v)
    BY <2>2 DEF AddIndexes, Apply, WithNew, Names
  <2>3. CASE DropIndexes(v)
    BY <2>3 DEF DropIndexes, Apply, Without, Names
  <2>4. CASE ConnectionBreaks(v)
    BY <2>4 DEF ConnectionBreaks, Apply, WithNew, Without, Names
  <2> QED
    BY <2>1, <2>2, <2>3, <2>4 DEF StepOf
<1>2. ASSUME NEW u \in Users, job[u].call = "DropAll", Finishes(u, "nil"), ~raced[u], ~cut[u]
      PROVE  Names(cat') \subseteq {Primary}
  <2>1. Known(u)
    BY DEF KInv
  <2>2. DropIndexes(u) /\ Droppable(listed[u])
    <3>1. ~Checked(u) /\ ~Built(u) /\ ~AddIndexes(u)
      BY <1>2, <2>1 DEF Checked, Built, AddIndexes, Known, Path
    <3> QED
      BY <1>2, <3>1, NilSteps DEF KInv
  <2>3. cat' = Without(listed[u]) /\ pc[u] = "drop"
    BY <2>2 DEF DropIndexes, Apply
  <2>4. Names(cat) \subseteq ToSet(listed[u])
    BY <1>2, <2>1, <2>3 DEF Known, AllListed
  <2> QED
    BY <2>3, <2>4 DEF Without, Names
<1> QED
  BY <1>1, <1>2 DEF PrimaryStaysIn

Correct ==
    /\ \A u \in Users : NilMeansThereFor(u) /\ RefusedOnlyRacedFor(u)
    /\ PrimaryStaysIn

LEMMA Answered ==
  ASSUME KInv, [Next]_vars
  PROVE  [Correct]_vars
BY NilStep, RefusedStep, PrimaryStep DEF Next, StepOf, Correct

LEMMA AlwaysCorrect == Spec => [][Correct]_vars
BY KInvInitially, KInvInductive, Answered, PTL DEF Spec

\* The answer nil is true when it is given, for every number of processes and
\* whatever they do at the same time: between the check and the statement only
\* a DropOne or DropAll can undo what was found.
THEOREM NilSound == Spec => NilMeansThere
<1>1. [Correct]_vars => [\A u \in Users : NilMeansThereFor(u)]_vars
  BY DEF Correct
<1> QED
  BY AlwaysCorrect, <1>1, PTL DEF NilMeansThere, NilMeansThereFor

\* CreateIfNotExists and BuildIndexes may be called again at any time: only a
\* clash of definitions or a change by somebody else makes MySQL refuse them.
THEOREM RefusalExplained == Spec => RefusedOnlyRaced
<1>1. [Correct]_vars => [\A u \in Users : RefusedOnlyRacedFor(u)]_vars
  BY DEF Correct
<1> QED
  BY AlwaysCorrect, <1>1, PTL DEF RefusedOnlyRaced, RefusedOnlyRacedFor

\* The primary key outlives every call, and a DropAll that succeeds leaves
\* nothing else.
THEOREM PrimaryKept == Spec => PrimaryStays
<1>1. [Correct]_vars => [PrimaryStaysIn]_vars
  BY DEF Correct
<1> QED
  BY AlwaysCorrect, <1>1, PTL DEF PrimaryStays, PrimaryStaysIn
===========================================================================
