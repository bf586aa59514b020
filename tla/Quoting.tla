------------------------------- MODULE Quoting -------------------------------
(***************************************************************************)
(* How the arguments of a request are quoted (quote.c) into memory that    *)
(* has an end: into what is left of the output buffer                      *)
(* (mpd_async_send_command_v()), or into memory allocated for the worst    *)
(* case (search.c, sticker.c, cplaylist.c).                                *)
(*                                                                         *)
(* A text is a sequence of characters, of which only those count that the  *)
(* protocol treats in a special way.  `written' is what lies between the   *)
(* start of the memory and the pointer p of the code.                      *)
(*                                                                         *)
(* An operator X_Bug is X with a mistake that is easy to make.             *)
(***************************************************************************)
EXTENDS Integers, SequencesExt

CONSTANTS
    Arguments,     \* texts that a client passes
    Command,       \* the command of mpd_send_command()
    MaxArguments,  \* bound: arguments of mpd_send_command()
    MaxRoom        \* bound: room in the output buffer

Special == {"quote", "backslash"}
Characters == {"plain", "space", "newline"} \cup Special
Text == Seq(Characters)

ASSUME QuotingAssumption ==
    /\ Arguments \subseteq Text
    /\ Command \in Seq({"plain", "space"}) /\ Command # <<>>
    /\ MaxArguments \in Nat
    /\ MaxRoom \in Nat

(* The functions that quote into allocated memory: what they write before  *)
(* each argument and after the last, all of it unchecked, and how much     *)
(* they allocate besides two bytes for each character of the arguments.    *)
(* AddConstraint is mpd_sticker_search_add_value_constraint() as well,     *)
(* with the operator for a name.  (mpd_request_prepare_append() allocates  *)
(* one byte more than it is asked for; that byte is not counted on here.)  *)
Word == <<"plain">>
Space == <<"space">>

Form(before, after, size) == [before |-> before, after |-> after, size |-> size]

AddConstraint == Form(<<Space \o Word \o Space>>, <<>>, 1 + Len(Word) + 2 + 2)
AddExpression == Form(<<Space>>, <<>>, 2 + 2)
SearchAddPlaylist == Form(<<Word>>, Space, Len(Word) + 1 + 3)
PlaylistSearch == Form(<<Word, Space>>, <<>>, Len(Word) + 1 + 3 + 2)
StickerSearch ==
    Form(<<Word \o Word \o Space, Space>>, <<>>, Len(Word) + Len(Word) + 2 + 3 + 2)

Forms == {AddConstraint, AddExpression, SearchAddPlaylist, PlaylistSearch, StickerSearch}

NoForm == Form(<<>>, <<>>, 0)

VARIABLES
    form,     \* the function, NoForm if it is mpd_send_command()
    args,     \* its arguments
    room,     \* how much memory there is
    written,  \* what has been written to it
    arg,      \* the argument being quoted
    rest,     \* what is left of it, the parameter value of escape()
    at        \* where the function is

vars == <<form, args, room, written, arg, rest, at>>

Sends == form = NoForm

\* one byte is kept for the newline or the terminator
End == room - 1

Full_BugOffByOne == Len(written) > End

\* dest >= end
Full == Len(written) >= End

Write(text, next) ==
    /\ written' = written \o text
    /\ at' = next
    /\ UNCHANGED <<form, args, room>>

Refuse == at' = "refused" /\ UNCHANGED <<form, args, room, written, arg, rest>>

\* mpd_async_send_command_v(), up to its first argument
CallSend ==
    /\ at = "none"
    /\ form' = NoForm
    /\ \E n \in 0 .. MaxArguments : args' \in [1 .. n -> Arguments]
    /\ room' \in 0 .. MaxRoom
    /\ arg' = 1 /\ rest' = <<>>
    /\ IF room' <= Len(Command) THEN at' = "refused" /\ written' = <<>>
       ELSE at' = "separator" /\ written' = Command

\* one or two arguments
Total(texts) == Len(texts[1]) + IF Len(texts) = 2 THEN Len(texts[2]) ELSE 0

Allocated_BugNoEscapes(f, texts) == f.size + Total(texts)

\* the worst case: each character is escaped
Allocated(f, texts) == f.size + 2 * Total(texts)

\* the others, up to their first argument
CallBuilder ==
    /\ at = "none"
    /\ \E f \in Forms :
          /\ form' = f
          /\ args' \in [1 .. Len(f.before) -> Arguments]
          /\ room' = Allocated(f, args')
          /\ written' = f.before[1]
    /\ arg' = 1 /\ rest' = args'[1]
    /\ at' = "open"

\* a space before each argument of mpd_send_command(), a newline behind
Separate ==
    /\ at = "separator"
    /\ \/ /\ arg > Len(args)
          /\ Write(<<"newline">>, "done") /\ UNCHANGED <<arg, rest>>
       \/ /\ arg <= Len(args) /\ Full /\ Refuse
       \/ /\ arg <= Len(args) /\ ~Full
          /\ Write(Space, "open") /\ rest' = args[arg] /\ UNCHANGED arg

\* quote() begins
Open ==
    /\ at = "open"
    /\ IF Full THEN Refuse ELSE Write(<<"quote">>, "escape") /\ UNCHANGED <<arg, rest>>

Escaped_BugQuoteOnly(char) == IF char = "quote" THEN <<"backslash", char>> ELSE <<char>>

Escaped(char) == IF char \in Special THEN <<"backslash", char>> ELSE <<char>>

\* escape(): its loop takes one character more, or there is no room for it
Escape ==
    /\ at = "escape" /\ rest # <<>>
    /\ LET char == Head(rest)
       IN  IF Full \/ char = "newline" \/ (char \in Special /\ Len(written) + 1 >= End)
           THEN Refuse
           ELSE /\ Write(Escaped(char), "escape")
                /\ rest' = Tail(rest) /\ UNCHANGED arg

\* quote() ends
Close ==
    /\ at = "escape" /\ rest = <<>>
    /\ IF Full THEN Refuse
       ELSE /\ Write(<<"quote">>, IF Sends THEN "separator" ELSE "between")
            /\ arg' = arg + 1 /\ UNCHANGED rest

\* what the others write behind an argument: this is unchecked
Between ==
    /\ at = "between"
    /\ \/ /\ arg <= Len(args)
          /\ Write(form.before[arg], "open") /\ rest' = args[arg] /\ UNCHANGED arg
       \/ /\ arg > Len(args)
          /\ Write(Append(form.after, "NUL"), "done") /\ UNCHANGED <<arg, rest>>

Return ==
    /\ at \in {"done", "refused"}
    /\ form' = NoForm /\ args' = <<>> /\ room' = 0 /\ written' = <<>>
    /\ arg' = 0 /\ rest' = <<>> /\ at' = "none"

Init ==
    /\ form = NoForm /\ args = <<>> /\ room = 0 /\ written = <<>>
    /\ arg = 0 /\ rest = <<>> /\ at = "none"

Next == CallSend \/ CallBuilder \/ Separate \/ Open \/ Escape \/ Close \/ Between \/ Return

Spec == Init /\ [][Next]_vars

(***************************************************************************)
(* MPD's reader of requests: arguments are separated by spaces; between    *)
(* quotes a space is a character and a backslash takes the next one as it  *)
(* is.                                                                     *)
(***************************************************************************)
Read(reader, char) ==
    CASE reader.mode = "escaped" ->
             [reader EXCEPT !.mode = "quoted", !.text = Append(@, char)]
      [] reader.mode = "quoted" /\ char = "backslash" -> [reader EXCEPT !.mode = "escaped"]
      [] reader.mode = "quoted" /\ char = "quote" ->
             [mode |-> "outside", text |-> <<>>, texts |-> Append(reader.texts, reader.text)]
      [] reader.mode = "quoted" /\ char \notin Special ->
             [reader EXCEPT !.text = Append(@, char)]
      [] reader.mode = "outside" /\ char = "quote" -> [reader EXCEPT !.mode = "quoted"]
      [] OTHER -> reader

Outside(texts) == [mode |-> "outside", text |-> <<>>, texts |-> texts]

\* the reader after each character
Readings(request) ==
    LET reader[n \in 0 .. Len(request)] ==
            IF n = 0 THEN Outside(<<>>) ELSE Read(reader[n - 1], request[n])
    IN  reader

\* the quoted arguments of a request, and whether its last quote is closed
ServerReads(request) == Readings(request)[Len(request)]

(***************************************************************************)
(* Properties                                                              *)
(***************************************************************************)
\* Every variable has its type.
TypeOK ==
    /\ form \in Forms \cup {NoForm}
    /\ args \in Seq(Arguments)
    /\ room \in Nat
    /\ written \in Seq(Characters \cup {"NUL"})
    /\ arg \in Nat
    /\ rest \in Text
    /\ at \in {"none", "separator", "open", "escape", "between", "done", "refused"}

\* Nothing is written behind the end of the memory, whatever is quoted: quote.c
\* checks every byte, and the worst-case allocations leave just enough for what
\* is written without a check.
WithinMemory == Len(written) <= room

\* MPD finds in a request exactly the arguments that the client passed.
ServerReadsArguments == at = "done" => ServerReads(written) = Outside(args)

\* how long a text is between quotes, with its escapes
Quoted(text) ==
    2 + Len(text) + Cardinality({i \in 1 .. Len(text) : text[i] \in Special})

\* how long the line of mpd_send_command() is after each argument
Lengths(texts) ==
    LET length[n \in 0 .. Len(texts)] ==
            IF n = 0 THEN Len(Command) ELSE length[n - 1] + 1 + Quoted(texts[n])
    IN  length

\* ... and in all, newline included
Needed == Lengths(args)[Len(args)] + 1

\* A request is refused only for a newline in an argument, which the protocol
\* cannot express, or because it does not fit the output buffer; every other
\* request is accepted, one that fits to the byte as well, and one built in
\* allocated memory always.
RefusedForCause ==
    LET fits == /\ \A i \in DOMAIN args : "newline" \notin Range(args[i])
                /\ Sends => Needed <= room
    IN  /\ at = "done" => fits
        /\ at = "refused" => ~fits
=============================================================================
