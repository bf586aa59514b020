------------------------------- MODULE Buffer -------------------------------
(***************************************************************************)
(* struct mpd_buffer (buffer.h): Size bytes, appended to at the end and    *)
(* consumed at the beginning.  A byte is a number; what a byte stands for  *)
(* is the business of the module that uses the buffer.                     *)
(***************************************************************************)
EXTENDS Integers, Sequences

CONSTANT Size   \* sizeof(data), 4096 in the code

ASSUME SizeAssumption == Size \in Nat \ {0}

Positions == 0 .. Size - 1

Buffer == [data : [Positions -> Nat], read : 0 .. Size, write : 0 .. Size]

\* mpd_buffer_init(); the data is left as it was, here zeros
EmptyBuffer == [data |-> [i \in Positions |-> 0], read |-> 0, write |-> 0]

\* mpd_buffer_size()
Used(b) == b.write - b.read

Room_BugTail(b) == Size - b.write

\* mpd_buffer_room()
Room(b) == Size - Used(b)

Moved_BugStays(b) == [b EXCEPT !.write = Used(b), !.read = 0]

\* mpd_buffer_move(), by which mpd_buffer_write() makes one piece of the room
Moved(b) ==
    [data  |-> [i \in Positions |-> IF i < Used(b) THEN b.data[b.read + i]
                                                   ELSE b.data[i]],
     read  |-> 0,
     write |-> Used(b)]

\* the bytes s are copied to where mpd_buffer_write() points, as far as they fit
Put(b, s) ==
    [b EXCEPT !.data =
        [i \in Positions |-> IF b.write <= i /\ i < b.write + Len(s)
                             THEN s[i - b.write + 1] ELSE b.data[i]]]

\* mpd_buffer_expand()
Expanded(b, n) == [b EXCEPT !.write = @ + n]

\* mpd_buffer_consume()
Consumed(b, n) == [b EXCEPT !.read = @ + n]

\* the bytes that were appended and not yet consumed, oldest first
Contents(b) == [i \in 1 .. Used(b) |-> b.data[b.read + i - 1]]
=============================================================================
