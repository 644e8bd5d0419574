----------------------------- MODULE KeyColumn -----------------------------
(* The column of a key: the program writes a key, reads what is stored, and *)
(* writes what it has read. Whatever the key is, and however often.         *)

EXTENDS Keys

VARIABLES
    key,         \* what the program holds
    keyWritten,  \* history: the key it wrote last
    keyColumn,   \* the text in the row
    keyRead      \* whether it holds what it has read from the row

keyVars == <<key, keyWritten, keyColumn, keyRead>>

HoldsKey(k) == key = k /\ keyWritten = k /\ keyColumn = <<>> /\ keyRead = FALSE

KeyInit == \E k : IsKey(k) /\ HoldsKey(k)

WriteKey ==
    /\ key # Failed
    /\ keyWritten' = key
    /\ keyColumn' = KeyValue(key)
    /\ keyRead' = FALSE
    /\ UNCHANGED key

\* Into a key that was not used before.
ReadKey ==
    /\ keyColumn # <<>>
    /\ key' = ScanKey(keyColumn)
    /\ keyRead' = TRUE
    /\ UNCHANGED <<keyWritten, keyColumn>>

KeyNext == WriteKey \/ ReadKey

KeySpec == KeyInit /\ [][KeyNext]_keyVars

-----------------------------------------------------------------------------

\* A key is read back with every ancestor, its names and its numbers, unless
\* a kind holds one of the characters that part the path.
KeyReadBack == keyRead /\ PlainKinds(keyWritten) => key = KeyAsRead(keyWritten)
=============================================================================
