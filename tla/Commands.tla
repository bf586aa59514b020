------------------------------ MODULE Commands ------------------------------
(***************************************************************************)
(* The functions that send one command each: mpd_send_X(), which formats   *)
(* its arguments and calls mpd_send_command(), and mpd_run_X(), which      *)
(* sends it and finishes its response.  Those are actions of Connection;   *)
(* here are the commands, how their arguments are written (send.c), and    *)
(* which mpd_run_X() call mpd_run_check() first.                           *)
(*                                                                         *)
(* A value is a sequence of numbers: a position is <<n>>, a range <<from,  *)
(* to>>, a position relative to something <<whence, n>>, a text <<name>>,  *)
(* a NULL pointer <<>>.  Times are in tenths of a millisecond.             *)
(***************************************************************************)
EXTENDS Connection

CONSTANTS
    UnsignedRange,  \* how many values an unsigned has
    MaxNames,       \* how many names fit the buffer of a list of names
    Chosen(_)       \* the functions with their values that clients call

ASSUME CommandsAssumption == UnsignedRange \in Nat \ {0} /\ MaxNames \in Nat

UINT_MAX == UnsignedRange - 1

(***************************************************************************)
(* The functions.  runs is "no" if there is only mpd_send_X(), or if what  *)
(* mpd_run_X() receives is modelled in Receivers.                          *)
(***************************************************************************)
Row(command, kinds, runs) == [command |-> command, kinds |-> kinds, runs |-> runs]

Sent(command, kinds) == Row(command, kinds, "no")
Runnable(command, kinds) == Row(command, kinds, "checked")
RunnableUnchecked(command, kinds) == Row(command, kinds, "unchecked")

QueueReading ==
    {Sent("playlistinfo", <<>>), Sent("playlistinfo", <<"range">>),
     Sent("playlistinfo", <<"%u">>), Sent("playlistid", <<"%u">>)}
    \cup {Sent(c, k) : c \in {"plchanges", "plchangesposid"},
                       k \in {<<"%u">>, <<"%u", "range">>}}

QueueAdding ==
    {Runnable("add", <<"text">>), Runnable("add", <<"text", "whence">>),
     Sent("addid", <<"text">>), Sent("addid", <<"text", "%u">>),
     Sent("addid", <<"text", "whence">>)}

QueueDeleting ==
    {Runnable("delete", <<"%u">>), Runnable("delete", <<"range">>),
     Runnable("deleteid", <<"%u">>), Runnable("shuffle", <<>>),
     Runnable("shuffle", <<"range">>), Runnable("clear", <<>>)}

QueueMoving ==
    {Runnable(c, k) : c \in {"move", "moveid"}, k \in {<<"%u", "%u">>, <<"%i(u)", "whence">>}}
    \cup {Runnable("move", <<"range", k>>) : k \in {"%i(to)", "whence"}}
    \cup {Runnable(c, <<"%u", "%u">>) : c \in {"swap", "swapid"}}

QueueTags ==
    {Runnable("addtagid", <<"%i(u)", "tag", "text">>),
     Runnable("cleartagid", <<"%i(u)", "tag">>), Runnable("cleartagid", <<"%u">>)}

QueuePriorities ==
    {Runnable("prio", <<"%u", "%u">>), Runnable("prio", <<"%u", "range">>),
     Runnable("prioid", <<"%u", "%u">>), Runnable("rangeid", <<"%u", "frange">>)}

Playing ==
    {Sent("currentsong", <<>>), Runnable("play", <<"%u">>), Runnable("playid", <<"%u">>),
     Runnable("pause", <<"bool">>)}
    \cup {Runnable(c, <<>>) : c \in {"play", "stop", "pause", "next", "previous"}}

Seeking ==
    {Runnable("seek", <<"%u", "%u">>), Runnable("seekid", <<"%u", "%u">>),
     Runnable("seekid", <<"%u", "%.3f">>), Runnable("seekcur", <<"seek">>)}

PlayModes ==
    {Runnable(c, <<"bool">>) : c \in {"repeat", "random", "single", "consume"}}
    \cup {Runnable(c, <<"mode">>) : c \in {"single", "consume"}}

Mixing ==
    {Runnable("crossfade", <<"%u">>), Runnable("mixrampdb", <<"%f">>),
     Runnable("mixrampdelay", <<"%f">>), Runnable("clearerror", <<>>)}

Volume ==
    {Runnable("setvol", <<"%u">>), Runnable("volume", <<"%i">>), Sent("getvol", <<>>)}

PlaylistReading ==
    {Sent("listplaylists", <<>>), Sent("playlistlength", <<"text">>)}
    \cup {Sent(c, k) : c \in {"listplaylist", "listplaylistinfo"},
                       k \in {<<"text">>, <<"text", "range">>}}

PlaylistEditing ==
    {Runnable("playlistclear", <<"text">>), Runnable("playlistadd", <<"text", "text">>),
     Runnable("playlistadd", <<"text", "text", "%u">>),
     Runnable("playlistmove", <<"text", "%u", "%u">>),
     Runnable("playlistmove", <<"text", "range", "%u">>),
     Runnable("playlistdelete", <<"text", "%u">>),
     Runnable("playlistdelete", <<"text", "range">>)}

PlaylistLoading ==
    {Runnable("save", <<"text">>), Runnable("save", <<"text", "mode">>),
     Runnable("load", <<"text">>), Runnable("load", <<"text", "range">>),
     Runnable("load", <<"text", "range", "whence">>),
     Runnable("rename", <<"text", "text">>), Runnable("rm", <<"text">>)}

Capabilities ==
    {Sent(c, <<>>) : c \in {"commands", "notcommands", "urlhandlers", "tagtypes",
                            "tagtypes available"}}

TagTypes ==
    {RunnableUnchecked(c, <<"names">>) :
        c \in {"tagtypes disable", "tagtypes enable", "tagtypes reset"}}
    \cup {RunnableUnchecked(c, <<>>) : c \in {"tagtypes clear", "tagtypes all"}}

ProtocolFeatures ==
    {Sent(c, <<>>) : c \in {"protocol", "protocol available"}}
    \cup {RunnableUnchecked(c, <<"names">>) : c \in {"protocol disable", "protocol enable"}}
    \cup {RunnableUnchecked(c, <<>>) : c \in {"protocol clear", "protocol all"}}

StringNormalization ==
    {Sent(c, <<>>) : c \in {"stringnormalization", "stringnormalization available"}}
    \cup {RunnableUnchecked(c, <<"names">>) :
             c \in {"stringnormalization disable", "stringnormalization enable"}}
    \cup {RunnableUnchecked(c, <<>>) :
             c \in {"stringnormalization clear", "stringnormalization all"}}

Stickers ==
    {Runnable("sticker set", <<"text", "text", "text", "text">>),
     Runnable("sticker inc", <<"text", "text", "text", "%u">>),
     Runnable("sticker dec", <<"text", "text", "text", "%u">>),
     Runnable("sticker delete", <<"text", "text", "text">>),
     Sent("sticker get", <<"text", "text", "text">>),
     Sent("sticker list", <<"text", "text">>),
     Sent("sticker find", <<"text", "base", "text">>),
     Sent("stickernames", <<>>), Sent("stickertypes", <<>>),
     Sent("stickernamestypes", <<"optional">>)}

Database ==
    {Sent(c, <<"optional">>) : c \in {"listall", "listallinfo", "lsinfo", "listfiles",
                                      "update", "rescan"}}
    \cup {Sent("readcomments", <<"text">>)}

Outputs ==
    {Sent("outputs", <<>>), Runnable("outputset", <<"%i(u)", "text", "text">>),
     Runnable("moveoutput", <<"text">>)}
    \cup {Runnable(c, <<"%u">>) : c \in {"enableoutput", "disableoutput", "toggleoutput"}}

Partitions ==
    {Sent("listpartitions", <<>>)}
    \cup {Runnable(c, <<"text">>) : c \in {"newpartition", "delpartition", "partition"}}

Messages ==
    {Runnable("subscribe", <<"text">>), Runnable("unsubscribe", <<"text">>),
     Runnable("sendmessage", <<"text", "text">>),
     Sent("readmessages", <<>>), Sent("channels", <<>>)}

Mounts ==
    {Sent("listmounts", <<>>), Runnable("mount", <<"text", "text">>),
     Runnable("unmount", <<"text">>)}

Pictures == {Sent(c, <<"text", "%u">>) : c \in {"albumart", "readpicture"}}

ReplayGain == {Sent("replay_gain_status", <<>>), Runnable("replay_gain_mode", <<"gain">>)}

Others ==
    {Sent("status", <<>>), Sent("stats", <<>>), Sent("listneighbors", <<>>),
     Sent("getfingerprint", <<"text">>), Runnable("password", <<"text">>),
     Runnable("binarylimit", <<"%u">>)}

Functions ==
    QueueReading \cup QueueAdding \cup QueueDeleting \cup QueueMoving \cup QueueTags
    \cup QueuePriorities \cup Playing \cup Seeking \cup PlayModes \cup Mixing \cup Volume
    \cup PlaylistReading \cup PlaylistEditing \cup PlaylistLoading \cup Capabilities
    \cup TagTypes \cup ProtocolFeatures \cup StringNormalization \cup Stickers
    \cup Database \cup Outputs \cup Partitions \cup Messages \cup Mounts \cup Pictures
    \cup ReplayGain \cup Others

(***************************************************************************)
(* How values are written (send.c, position.c)                             *)
(***************************************************************************)
Printed(sign, numbers, colon) == [sign |-> sign, numbers |-> numbers, colon |-> colon]

Abs(n) == IF n < 0 THEN - n ELSE n

PrintSigned(n) == Printed(IF n < 0 THEN "-" ELSE "none", <<Abs(n)>>, FALSE)

\* an unsigned, taken for an int
AsInt(n) == IF n < UnsignedRange \div 2 THEN n ELSE n - UnsignedRange

FormatRange_BugClosed(from, to) == Printed("none", <<from, to>>, TRUE)

\* format_range()
FormatRange(from, to) ==
    Printed("none", IF to = UINT_MAX THEN <<from>> ELSE <<from, to>>, TRUE)

\* "%.3f": three digits after the point
ToMs(t) == IF t < 0 THEN - ((5 - t) \div 10) ELSE (t + 5) \div 10

\* format_frange()
FormatFRange(from, to) ==
    Printed("none", IF to >= 0 THEN <<ToMs(from), ToMs(to)>> ELSE <<ToMs(from)>>, TRUE)

\* mpd_position_whence_char()
Whences == [absolute |-> 0, after |-> 1, before |-> 2]
WhenceChar(whence) ==
    CASE whence = Whences.after  -> "+"
      [] whence = Whences.before -> "-"
      [] OTHER                   -> "none"

\* mpd_send_seek_current()
FormatSeek(relative, t) ==
    Printed(IF t < 0 THEN "-" ELSE IF relative = 1 THEN "+" ELSE "none", <<Abs(ToMs(t))>>, FALSE)

Format(kind, value) ==
    CASE kind = "%i"      -> PrintSigned(value[1])
      [] kind \in {"%i(u)", "%i(to)"} -> PrintSigned(AsInt(value[1]))
      [] kind = "range"   -> FormatRange(value[1], value[2])
      [] kind = "frange"  -> FormatFRange(value[1], value[2])
      [] kind = "whence"  -> Printed(WhenceChar(value[1]), <<value[2]>>, FALSE)
      [] kind = "seek"    -> FormatSeek(value[1], value[2])
      [] kind \in {"%f", "%.3f"} -> PrintSigned(ToMs(value[1]))
      [] OTHER            -> Printed("none", value, FALSE)

Unknown == <<-1>>
Empty == <<0>>

\* a NULL base URI is replaced; an unknown replay gain mode has no name
Given(kind, value) ==
    CASE kind = "base" /\ value = <<>>    -> Empty
      [] kind = "gain" /\ value = Unknown -> <<>>
      [] OTHER                            -> value

IsNull(kind, value) == kind \in {"optional", "gain"} /\ Given(kind, value) = <<>>

\* the arguments of mpd_send_command(), which end with the first NULL
Arguments(f) ==
    LET given == {n \in 0 .. Len(f.kinds) : \A i \in 1 .. n : ~IsNull(f.kinds[i], f.values[i])}
        count == CHOOSE n \in given : \A k \in given : k <= n
    IN  [i \in 1 .. count |-> Format(f.kinds[i], Given(f.kinds[i], f.values[i]))]

(***************************************************************************)
(* What MPD makes of them: it refuses a sign before a number that is a     *)
(* song or an output, and takes a position after it for a relative one.    *)
(***************************************************************************)
SignedNumber(p) == IF p.sign = "-" THEN - p.numbers[1] ELSE p.numbers[1]

Nonsense == <<>>
Open == -1

Understood(kind, p) ==
    CASE kind \in {"%u", "%i(u)"} -> IF p.sign = "none" THEN p.numbers ELSE Nonsense
      [] kind \in {"%i", "%f", "%.3f"} -> <<SignedNumber(p)>>
      [] kind \in {"range", "frange"} ->
             <<p.numbers[1], IF Len(p.numbers) = 1 THEN Open ELSE p.numbers[2]>>
      [] kind = "%i(to)" -> IF p.sign = "none" THEN p.numbers
                            ELSE <<Whences.before, p.numbers[1]>>
      [] kind = "whence" -> <<CASE p.sign = "+" -> Whences.after
                                [] p.sign = "-" -> Whences.before
                                [] OTHER        -> Whences.absolute, p.numbers[1]>>
      [] kind = "seek"   -> <<IF p.sign = "none" THEN 0 ELSE 1, SignedNumber(p)>>
      [] OTHER           -> p.numbers

\* what the caller means by the headers, times to the millisecond
Meant(kind, value) ==
    CASE kind = "seek"           -> <<value[1], ToMs(value[2])>>
      [] kind \in {"%f", "%.3f"} -> <<ToMs(value[1])>>
      [] kind = "range"          -> <<value[1], IF value[2] = UINT_MAX THEN Open ELSE value[2]>>
      [] kind = "frange"         ->
             <<ToMs(value[1]), IF value[2] < 0 THEN Open ELSE ToMs(value[2])>>
      [] OTHER                   -> value

(***************************************************************************)
(* Calling them                                                            *)
(***************************************************************************)
\* the values that a parameter of this kind can have
ValuesOf(kind) ==
    CASE kind \in {"%u", "%i(u)", "%i(to)"} -> [1 .. 1 -> 0 .. UINT_MAX]
      [] kind \in {"%i", "%f", "%.3f"} -> [1 .. 1 -> Int]
      [] kind = "range"  -> [1 .. 2 -> 0 .. UINT_MAX]
      [] kind = "frange" -> [1 .. 2 -> Int]
      [] kind = "whence" -> (0 .. 2) \X (0 .. UINT_MAX)
      [] kind = "seek"   -> {0, 1} \X Int
      [] OTHER           -> Seq(Int)

\* What clients call are those functions, with values of their parameters' types.
ASSUME ChosenAssumption ==
    \A f \in Functions : \A g \in Chosen(f) :
        /\ g.kinds = f.kinds /\ g.runs = f.runs
        /\ DOMAIN g.values = DOMAIN g.kinds
        /\ \A i \in DOMAIN g.kinds : g.values[i] \in ValuesOf(g.kinds[i])

VARIABLES
    function,  \* the function that the client calls, with the values
    text,      \* the arguments that were sent last
    running    \* "no", "sent" before mpd_response_finish(), "finishing" in it

commandsVars == <<vars, function, text, running>>

Passed(kind) == {function.values[i] : i \in {k \in DOMAIN function.kinds : function.kinds[k] = kind}}

IsUnknown(value) == \E i \in DOMAIN value : value[i] = -1
TooLong(names) == Len(names) > MaxNames

UnknownMode == \E mode \in Passed("mode") : IsUnknown(mode)
UnknownTag == \E tag \in Passed("tag") : IsUnknown(tag)
BadNames == \E names \in Passed("names") : IsUnknown(names) \/ TooLong(names)

(* A mode without a name makes the function return false, but leaves no    *)
(* error; a tag without a name is an error before another is looked for.   *)
Rejects ==
    \/ UnknownMode /\ MayRequest /\ Declined
    \/ UnknownTag /\ MayRequest /\ BadArgument
    \/ BadNames /\ MayRequest /\ IF Defined(conn.error) THEN Declined ELSE BadArgument

Rejected == UnknownMode \/ UnknownTag \/ BadNames

\* what has been given to mpd_send_command()
Written == text' = IF sent' # sent THEN Arguments(function) ELSE text

\* mpd_send_X()
Send ==
    /\ running = "no"
    /\ IF Rejected THEN Rejects ELSE SendCommand("cmd", FALSE)
    /\ Written /\ UNCHANGED <<function, running>>

\* mpd_send_X() && ...
Unchecked ==
    /\ IF Rejected THEN Rejects ELSE SendCommand("cmd", FALSE)
    /\ running' = IF result' = "true" THEN "sent" ELSE "no"

\* mpd_run_check() && mpd_send_X() && mpd_response_finish()
Checked ==
    /\ IF Rejected /\ ~conn.sendingList THEN Rejects ELSE Run("cmd")
    /\ running' = IF call' = "finish" THEN "finishing" ELSE "no"

\* mpd_run_X()
RunFunction ==
    /\ running = "no"
    /\ \/ function.runs = "checked" /\ Checked
       \/ function.runs = "unchecked" /\ Unchecked
    /\ Written /\ UNCHANGED function

\* ... && mpd_response_finish()
Finish ==
    /\ running = "sent"
    /\ ResponseFinish
    /\ running' = IF call' = "finish" THEN "finishing" ELSE "no"
    /\ UNCHANGED <<function, text>>

\* all else that happens on the connection
Meanwhile ==
    /\ IF running = "sent" THEN ServerStep \/ HangUp \/ Misbehave ELSE Next
    /\ running' = IF running = "finishing" /\ call' = "none" THEN "no" ELSE running
    /\ UNCHANGED <<function, text>>

CommandsInit ==
    /\ Init
    /\ \E f \in Functions : function \in Chosen(f)
    /\ text = <<>> /\ running = "no"

CommandsNext == Send \/ RunFunction \/ Finish \/ Meanwhile

CommandsSpec == CommandsInit /\ [][CommandsNext]_commandsVars

(***************************************************************************)
(* Properties                                                              *)
(***************************************************************************)
\* An unsigned from the half of the range on, printed as an int (send.c:243, :254).
TooLargeForInt(kind, value) == kind = "%i(u)" /\ value[1] >= UnsignedRange \div 2

\* What the code gets wrong, or its documents do not agree on:
\* - a position as large as that after a range, which becomes a relative one (send.c:382);
\* - an absolute time before the song's start, which becomes a relative one;
\* - a range of times that ends at 0: open by send.c:45, while by queue.h:860 only a
\*   negative end is, and the code writes the 0.
ReadOtherwise(kind, value) ==
    \/ kind = "%i(to)" /\ value[1] >= UnsignedRange \div 2
    \/ kind = "seek" /\ value[1] = 0 /\ value[2] < 0
    \/ kind = "frange" /\ value[2] >= 0 /\ ToMs(value[2]) = 0

\* MPD reads in a command what the caller meant: open and closed ranges, positions
\* absolute and relative to the current song, signs and times to the millisecond;
\* and the arguments before one that is NULL.  The number of a song or an output that
\* is too large for "%i" is refused, never taken for another.  ReadOtherwise names
\* the exceptions.
ServerReadsWhatWasMeant ==
    \A i \in DOMAIN text :
        LET kind == function.kinds[i]
            value == Given(kind, function.values[i])
            understood == Understood(kind, text[i])
        IN  \/ understood = Meant(kind, value)
            \/ understood = Nonsense /\ TooLargeForInt(kind, value)
            \/ ReadOtherwise(kind, value)

\* A mpd_run_X() that returns true has had its command executed and answered: MPD
\* has it, and no line of its response is still to be read.  Inside a command list
\* this does not hold of the functions that lack mpd_run_check() (capabilities.c).
RunsAreAnswered ==
    [][(running = "finishing" /\ running' = "no" /\ result' = "true"
        /\ ~(function.runs = "unchecked" /\ conn.sendingList)) =>
           /\ ~Unanswered(sent)'
           /\ \A i \in DOMAIN outbuf' : outbuf'[i].id # sent]_commandsVars
=============================================================================
