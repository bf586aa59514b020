------------------------------- MODULE Search -------------------------------
(***************************************************************************)
(* The request builder (request.c) and what is built with it: searches in  *)
(* the database and the queue (search.c), in a stored playlist             *)
(* (cplaylist.c) and among the stickers (sticker.c).  A request is begun,  *)
(* added to, and committed or cancelled, on a connection that goes on      *)
(* sending and receiving meanwhile.                                        *)
(*                                                                         *)
(* connection->request is the sequence of the parts that its text is made  *)
(* of, empty where the pointer is NULL.  A "torn" part is the beginning of *)
(* one: what is left in the buffer when quoting breaks off.  A "cut" one   *)
(* is the first 63 bytes of a longer one.  What a function returns shows   *)
(* in the histories: true where it adds to "asked", false where it leaves  *)
(* something "lost".                                                       *)
(***************************************************************************)
EXTENDS Connection

CONSTANT MaxParts   \* bound: parts of a request

ASSUME SearchAssumption == MaxParts \in Nat

VARIABLES
    request,   \* connection->request
    live,      \* how many request strings are allocated
    asked,     \* history: the parts whose functions returned true
    lost       \* history: has a part been refused, and no error cleared since?

builder == <<request, live, asked, lost>>
searchVars == <<vars, builder>>

NoRequest == <<>>
Parts == {"command", "constraint", "group", "sort", "cut", "window", "position"}

(***************************************************************************)
(* request.c                                                               *)
(***************************************************************************)
\* a function of the builder returns false with an error that is already set
Declines == UNCHANGED vars /\ lost' = TRUE

\* ... or that it sets
Refuses(step) == step /\ lost' = TRUE

\* "search already in progress"
InProgress == request # NoRequest

\* mpd_request_begin(), and what the caller does if it may go on
Begin(start) ==
    /\ Idle
    /\ \/ Defined(conn.error) /\ Declines /\ UNCHANGED <<request, live, asked>>
       \/ /\ ~Defined(conn.error) /\ InProgress
          /\ Refuses(OutOfTurn) /\ UNCHANGED <<request, live, asked>>
       \/ ~Defined(conn.error) /\ ~InProgress /\ start

\* there is no memory for the text, or for more of it
NoMemory == Refuses(OutOfMemory) /\ UNCHANGED <<request, live, asked>>

\* mpd_request_command()
Command ==
    \/ /\ request' = <<"command">> /\ live' = live + 1
       /\ asked' = <<"command">> /\ lost' = FALSE
       /\ UNCHANGED vars
    \/ NoMemory

\* the caller asks for a part and is told that it is there: what is written
\* is that part ...
Writes(part, written) ==
    /\ Len(request) < MaxParts
    /\ request' = Append(request, written) /\ asked' = Append(asked, part)
    /\ UNCHANGED <<vars, live, lost>>

\* ... all of it
Appends(part) == Writes(part, part)

\* mpd_request_prepare_append(), and what the caller does with the room
Add(append) ==
    /\ Idle
    /\ \/ Defined(conn.error) /\ Declines /\ UNCHANGED <<request, live, asked>>
       \/ /\ ~Defined(conn.error) /\ request = NoRequest
          /\ Refuses(OutOfTurn) /\ UNCHANGED <<request, live, asked>>
       \/ ~Defined(conn.error) /\ request # NoRequest /\ (append \/ NoMemory)

\* mpd_request_add_sort() prints into 64 bytes.  A name that does not fit is
\* cut, which the function does not notice.
Prints(part, fits) ==
    \/ fits /\ Appends(part)
    \/ ~fits /\ Writes(part, "cut")

AddSort(fits) == Add(Prints("sort", fits))

\* mpd_request_add_window() prints two numbers, which fit
AddWindow == Add(Appends("window"))

\* the text has gone
Released ==
    /\ request' = NoRequest
    /\ live' = IF request = NoRequest THEN live ELSE live - 1
    /\ asked' = <<>>

\* mpd_request_cancel()
Cancel ==
    /\ Idle
    /\ Released
    /\ lost' = FALSE /\ UNCHANGED vars

Sending_BugWhileReceiving(long) ==
    \E o \in Sends(NextRequest("cmd"), long, TRUE) :
        /\ Transmitted(o)
        /\ conn' = AfterSend(conn, o)
        /\ result' = IF Defined(o.err) THEN "false" ELSE "true"
        /\ UNCHANGED <<timeout, call, environment, awaiting>>

\* mpd_send_command() with the text as the command
Sending(long) == SendCommand("cmd", long)

(* mpd_request_commit(): the text is released whether an error is found,   *)
(* the request is sent or sending fails.                                   *)
Commit(long) ==
    /\ Idle
    /\ \/ Defined(conn.error) /\ Declines /\ Released
       \/ /\ ~Defined(conn.error) /\ request = NoRequest
          /\ Refuses(OutOfTurn) /\ UNCHANGED <<request, live, asked>>
       \/ /\ ~Defined(conn.error) /\ request # NoRequest
          /\ Sending(long)
          /\ Released
          /\ lost' = FALSE

(***************************************************************************)
(* Arguments.  A text with a line break in it cannot be quoted, a tag      *)
(* without a name and a time that cannot be formatted cannot be sent.      *)
(***************************************************************************)
BadString_BugSilent == Declines

\* "bad string"
BadString == Refuses(BadArgument)

\* mpd_check_tag_name(), and what the caller does with the name
CheckTagName(valid, use) ==
    /\ Idle
    /\ \/ ~valid /\ Refuses(BadArgument) /\ UNCHANGED <<request, live, asked>>
       \/ valid /\ use

\* quote() into the room at the end of the text, a partial result undone
Undone_BugTorn == request' = Append(request, "torn")

Undone == UNCHANGED request

Quotes(part, quotable) ==
    \/ quotable /\ Appends(part)
    \/ ~quotable /\ BadString /\ Undone /\ UNCHANGED <<live, asked>>

\* quote() into a text just begun, which is cancelled if that fails
Abandoned == UNCHANGED <<request, live>>

CommandQuotes(quotable) ==
    \/ quotable /\ Command
    \/ ~quotable /\ BadString /\ Abandoned /\ UNCHANGED asked

(***************************************************************************)
(* search.c                                                                *)
(***************************************************************************)
\* mpd_search_db_songs(), mpd_search_add_db_songs(), mpd_search_queue_songs(),
\* and the counts
SearchSongs == Begin(Command)

\* mpd_search_db_tags()
SearchDbTags(valid) == Begin(CheckTagName(valid, Command))

\* mpd_search_add_db_songs_to_playlist()
SearchAddToPlaylist(quotable) == Begin(CommandQuotes(quotable))

\* mpd_search_add_constraint() for a base, a URI or any tag
AddConstraint(quotable) == Add(Quotes("constraint", quotable))

\* mpd_search_add_tag_constraint()
AddTagConstraint(valid, quotable) == CheckTagName(valid, AddConstraint(quotable))

\* mpd_search_add_modified_since_constraint() and ..._added_since_...()
AddSinceConstraint(valid) ==
    /\ Idle
    /\ \/ ~valid /\ Refuses(BadArgument) /\ UNCHANGED <<request, live, asked>>
       \/ valid /\ AddConstraint(TRUE)

\* mpd_search_add_expression()
AddExpression(quotable) == Add(Quotes("constraint", quotable))

\* mpd_search_add_group_tag()
AddGroupTag(valid) == CheckTagName(valid, Add(Appends("group")))

\* mpd_search_add_sort_name(), with a name of the caller's
AddSortName(fits) == AddSort(fits)

\* mpd_search_add_sort_tag(): the names of the tags fit
AddSortTag(valid) == CheckTagName(valid, AddSort(TRUE))

\* mpd_search_add_position()
AddPosition == Add(Appends("position"))

(***************************************************************************)
(* cplaylist.c and sticker.c                                               *)
(***************************************************************************)
PlaylistSearchBegin(quotable) == Begin(CommandQuotes(quotable))

StickerSearchBegin(quotable) == Begin(CommandQuotes(quotable))

(* An operator or an order that the library does not know makes these two  *)
(* return false, but leaves no error.                                      *)
Ignored == UNCHANGED searchVars

StickerAddValue(known, quotable) ==
    /\ Idle
    /\ \/ ~known /\ Ignored
       \/ known /\ Add(Quotes("constraint", quotable))

StickerAddSort(known) ==
    /\ Idle
    /\ \/ ~known /\ Ignored
       \/ known /\ AddSort(TRUE)

(***************************************************************************)
\* mpd_connection_free()
FreeConnection == Free /\ Released /\ UNCHANGED lost

\* all else that happens on the connection
Elsewhere ==
    /\ Next
    /\ call' # "freed" \/ call = "freed"
    /\ lost' = (lost /\ (Defined(conn.error) => Defined(conn'.error)))
    /\ UNCHANGED <<request, live, asked>>

BuilderCall ==
    \/ SearchSongs
    \/ \E valid \in BOOLEAN : \/ SearchDbTags(valid) \/ AddSinceConstraint(valid)
                              \/ AddGroupTag(valid) \/ AddSortTag(valid)
    \/ \E quotable \in BOOLEAN :
          \/ SearchAddToPlaylist(quotable) \/ PlaylistSearchBegin(quotable)
          \/ StickerSearchBegin(quotable)
          \/ AddConstraint(quotable) \/ AddExpression(quotable)
          \/ \E valid \in BOOLEAN : AddTagConstraint(valid, quotable)
          \/ \E known \in BOOLEAN : StickerAddValue(known, quotable)
    \/ \E known \in BOOLEAN : StickerAddSort(known)
    \/ \E fits \in BOOLEAN : AddSortName(fits)
    \/ AddWindow \/ AddPosition
    \/ Commit(FALSE) \/ (LongArguments /\ Commit(TRUE)) \/ Cancel

SearchInit ==
    /\ Init
    /\ request = NoRequest /\ live = 0
    /\ asked = <<>> /\ lost = FALSE

SearchNext == BuilderCall \/ FreeConnection \/ Elsewhere

SearchSpec == SearchInit /\ [][SearchNext]_searchVars

(***************************************************************************)
(* Properties                                                              *)
(***************************************************************************)
\* mpd_search_add_sort_name() returns true for a name it has cut (request.c:85)
CutShort(part, written) == part = "sort" /\ written = "cut"

\* The text of the request is what was asked for: the command and, in order,
\* the parts whose functions returned true and no others, however many calls
\* were refused in between, each of them whole but for the names to sort by
\* that the code cuts at 64 bytes.  This is what mpd_search_commit() sends.
TextIsWhatWasAsked ==
    /\ Len(request) = Len(asked)
    /\ \A n \in DOMAIN request :
          request[n] = asked[n] \/ CutShort(asked[n], request[n])

\* mpd_search_commit() sends nothing while a part has been refused and the
\* client has not cleared the error: a search never silently loses a
\* constraint.  (Unknown sticker operators are the exception: see Ignored.)
NothingLostSilently ==
    [][sent' # sent /\ request # NoRequest /\ request' = NoRequest => ~lost]_searchVars

\* Every request string that is allocated is the one in progress: none leaks,
\* and none is used after it was freed.
OneRequestString == live = IF request = NoRequest THEN 0 ELSE 1

\* Building a request, whenever it happens, does nothing to the connection
\* that its other functions could not do.
KeepsTheConnection == Spec
=============================================================================
