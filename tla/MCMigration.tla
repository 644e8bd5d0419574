--------------------------- MODULE MCMigration ---------------------------
(* Instances of Migration for TLC: the structs that the releases of one     *)
(* program migrate a table to.                                              *)
EXTENDS Migration

CONSTANTS id, name, email, serial

Struct(fields) ==
    [fields |-> fields, pktag |-> {}, auto |-> {}, uniq |-> {}, virtual |-> {},
     null |-> {}, narrow |-> {}, unfilled |-> {}]

\* A struct without the default key and with a shorter name, a release with a
\* unique column, one that drops a column and reorders, one that MySQL alters a
\* table to but does not create, and one that it never takes.
Keyless  == [Struct(<<name>>) EXCEPT !.narrow = {name}]
Release2 == [Struct(<<id, email, name>>) EXCEPT !.auto = {id}, !.uniq = {email}]
Release3 == [Struct(<<email, id>>) EXCEPT !.pktag = {id}, !.auto = {id},
                                          !.virtual = {email}]
Swapped  == [Struct(<<serial, id>>) EXCEPT !.auto = {serial}, !.pktag = {id},
                                           !.unfilled = {id}]
Twins    == [Struct(<<id, serial>>) EXCEPT !.auto = {id, serial}]

MCMigrators == 1..5
MCReplaced == <<Keyless, Release3, Release2, Swapped, Twins>>
MCCleaners == {2}

NoRows == [count |-> 0, same |-> {}, large |-> {}]

MCContents ==
    {[count |-> 1, same |-> {}, large |-> {name}],
     [count |-> 2, same |-> {name}, large |-> {}]}

Table(columns) ==
    [cols |-> columns, uniq |-> {}, pk |-> NoKey, auto |-> {}, virtual |-> {},
     narrow |-> {}, rows |-> NoRows]

MCAnyTable ==
    {NoTable, Table(<<name>>),
     [Table(<<id, email, name>>) EXCEPT !.uniq = {email}, !.pk = id],
     [Table(<<name, id>>) EXCEPT !.uniq = {name}, !.pk = name],
     [Table(<<serial, name>>) EXCEPT !.pk = serial, !.auto = {serial}]}
==========================================================================
