------------------------------- MODULE MCBinary -----------------------------
EXTENDS Binary

SomeRequests == {[command |-> 1, total |-> 2], [command |-> 1, total |-> 3],
                 [command |-> 2, total |-> 4], [command |-> 3, total |-> 4]}
SomeNewlines == {2, 3, 7}
=============================================================================
