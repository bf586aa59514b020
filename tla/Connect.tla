------------------------------- MODULE Connect -------------------------------
(***************************************************************************)
(* How a connection comes to be: the settings (settings.c), the addresses  *)
(* of a host (resolver.c), one socket after another (socket.c), the        *)
(* welcome line and the password (connection.c), and what is released on   *)
(* each way out.                                                           *)
(*                                                                         *)
(* `call' is the function the user has called, `at' where it is.  Every    *)
(* allocation may fail.  `held' is what is allocated or open; the pointers *)
(* to it are in `list', `conn', `addresses' and `fd'.                      *)
(*                                                                         *)
(* An operator X_Bug is X with a mistake that is easy to make.             *)
(***************************************************************************)
EXTENDS Integers, Sequences

CONSTANTS
    Givens,        \* arguments and environments of mpd_settings_new()
    Second,        \* milliseconds in a second
    Wrap,          \* the number of values of an unsigned
    DefaultTimeout,
    MaxAddresses,  \* bound: addresses that the resolver finds for one host
    Welcomes,      \* first lines that a server may send
    Garbage        \* what malloc() may leave in a version number

NULL == "NULL"

(* A host as it is written is a password, if there is an at sign in it that *)
(* is not the first character, and what follows.  What follows is a name,  *)
(* the path of a local socket or the @name of an abstract one.             *)
Host == [password : {NULL, "host's"}, rest : {"name", "path", "@name", "localhost", "socket"}]
NoHost == [password |-> NULL, rest |-> NULL]
Plain(rest) == [password |-> NULL, rest |-> rest]

DefaultHost == Plain("localhost")
DefaultSocket == Plain("socket")
DefaultPort == 6600

\* 0 stands for a port or a timeout that is not given
Given == [host : Host \cup {NoHost}, envHost : Host \cup {NoHost},
          port : Nat, envPort : Nat, timeout : Nat, envTimeout : Nat,
          password : {NULL, "argument"}]

Version == [1 .. 3 -> Nat]
NoVersion == [i \in 1 .. 3 |-> 0]

\* a welcome line: has it the prefix, and the numbers after it (-1: none there)
Welcome == [prefix : BOOLEAN, numbers : Seq(Nat \cup {-1})]

ASSUME ConnectAssumption ==
    /\ Givens \subseteq Given
    /\ Second \in Nat \ {0} /\ Wrap \in Nat \ {0} /\ DefaultTimeout \in Nat \ {0}
    /\ MaxAddresses \in Nat \ {0}
    /\ Welcomes \subseteq Welcome
    /\ Garbage \subseteq Version /\ Garbage # {}

VARIABLES
    given,     \* the arguments and the environment
    call,      \* "settings", "new" or "new_async"; "none" between calls
    at,        \* where the call is
    list,      \* struct mpd_settings and its ->next, while they exist
    conn,      \* struct mpd_connection
    addresses, \* how many the resolver has left; -1: no resolver
    fd,        \* is there a socket not yet owned by the async object?
    held,      \* what is allocated or open
    slack,     \* what is left of the timeval that select() is given
    error,     \* connection->error.code
    waited,    \* history: milliseconds spent in select() for these settings
    last       \* history: what the last attempt at something came to

vars == <<given, call, at, list, conn, addresses, fd, held, slack, error, waited, last>>
settingsUnchanged == UNCHANGED <<given, call, list>>
socketUnchanged == UNCHANGED <<addresses, fd, slack, waited>>

Defined(e) == e # "SUCCESS"

Goto(where) == at' = where

(***************************************************************************)
(* settings.c                                                              *)
(***************************************************************************)
\* mpd_check_port()
CheckPort == IF given.port = 0 THEN given.envPort ELSE given.port

(* mpd_default_timeout_ms(), and the choice before it.  The milliseconds    *)
(* may wrap, to 0 even; then select() does not wait, and a build with      *)
(* assertions ends at mpd_connection_set_timeout().                        *)
TimeoutMs ==
    IF given.timeout # 0 THEN given.timeout
    ELSE IF given.envTimeout > 0 THEN (given.envTimeout * Second) % Wrap
    ELSE DefaultTimeout

IsLocal(host) == host.rest \in {"path", "@name", "socket"}

PortFor(host, port) ==
    IF IsLocal(host) THEN 0 ELSE IF port # 0 THEN port ELSE DefaultPort

NewSettings == [host |-> NoHost, password |-> NULL, port |-> 0, timeout |-> 0]

\* the settings being made: the user's, or the alternative within them
Made == Len(list)

\* what a struct mpd_settings owns
Owned(w) ==
    {<<w, "struct">>}
    \cup (IF list[w].host = NoHost THEN {} ELSE {<<w, "host">>})
    \cup (IF list[w].password = NULL THEN {} ELSE {<<w, "password">>})

SettingsFree_BugHead == IF list = <<>> THEN {} ELSE Owned(1)

\* what mpd_settings_free() releases
SettingsFree == UNION {Owned(w) : w \in DOMAIN list}

NoConnection == [async |-> FALSE, parser |-> FALSE, current |-> 0, version |-> NoVersion]

ReturnsNull(freed) ==
    /\ Goto("null")
    /\ held' = held \ freed /\ list' = <<>> /\ conn' = NoConnection
    /\ UNCHANGED <<given, call, error, last>> /\ socketUnchanged

\* a step of mpd_settings_new(), which needs memory for `what' or gives up
Needs(what, settings, next) ==
    \/ /\ held' = held \cup {what}
       /\ list' = settings /\ Goto(next)
       /\ UNCHANGED <<given, call, conn, error, last>> /\ socketUnchanged
    \/ ReturnsNull(SettingsFree)

\* ... or that needs none
Sets(settings, next) ==
    /\ list' = settings /\ Goto(next)
    /\ UNCHANGED <<given, call, conn, held, error, last>> /\ socketUnchanged

MakeStruct ==
    /\ at = "struct"
    /\ Needs(<<Made + 1, "struct">>, Append(list, NewSettings), "host")

\* the host that the caller names, or else MPD_HOST
HostText ==
    IF Made = 2 THEN DefaultHost
    ELSE IF given.host # NoHost THEN given.host ELSE given.envHost

MakeHost ==
    /\ at = "host"
    /\ IF HostText = NoHost THEN Sets(list, "argument")
       ELSE Needs(<<Made, "host">>, [list EXCEPT ![Made].host = HostText], "split")

\* mpd_parse_host_password()
SplitPassword ==
    /\ at = "split"
    /\ IF list[Made].host.password = NULL THEN Sets(list, "argument")
       ELSE Needs(<<Made, "password">>,
                  [list EXCEPT ![Made].password = list[Made].host.password], "rest")

SplitHost ==
    /\ at = "rest"
    /\ Needs(<<Made, "host">>,
             [list EXCEPT ![Made].host = Plain(list[Made].host.rest)], "argument")

TakesArgument == list[Made].password = NULL /\ given.password # NULL

MakePassword ==
    /\ at = "argument"
    /\ IF TakesArgument
       THEN Needs(<<Made, "password">>, [list EXCEPT ![Made].password = given.password], "default")
       ELSE Sets(list, "default")

\* the last two fields
Finished(settings, w, port) ==
    [settings EXCEPT ![w].timeout = TimeoutMs,
                     ![w].port = PortFor(settings[w].host, port)]

AfterSettings == IF call = "settings" THEN "done" ELSE "connection"

AlternativeWanted_BugPort == given.port = 0

\* no host is given, and no port either
AlternativeWanted == CheckPort = 0

DefaultOrFinish ==
    /\ at = "default"
    /\ \/ /\ list[Made].host # NoHost /\ Made = 1
          /\ Sets(Finished(list, 1, CheckPort), AfterSettings)
       \/ /\ list[Made].host # NoHost /\ Made = 2
          /\ Sets(Finished(list, 2, DefaultPort), "socket")
       \/ /\ list[Made].host = NoHost /\ AlternativeWanted
          /\ Sets(list, "struct")
       \/ /\ list[Made].host = NoHost /\ ~AlternativeWanted
          /\ Needs(<<1, "host">>,
                   Finished([list EXCEPT ![1].host = DefaultHost], 1, CheckPort), AfterSettings)

\* ... and the alternative is complete
MakeSocket ==
    /\ at = "socket"
    /\ Needs(<<1, "host">>,
             Finished([list EXCEPT ![1].host = DefaultSocket], 1, CheckPort), AfterSettings)

SettingsStep ==
    MakeStruct \/ MakeHost \/ SplitPassword \/ SplitHost \/ MakePassword
    \/ DefaultOrFinish \/ MakeSocket

\* what a connection owns besides its settings
TheConnection == <<0, "connection">>
TheAsync == <<0, "async">>
TheParser == <<0, "parser">>
TheSocket == <<0, "fd">>
TheResolver == <<0, "resolver">>

(***************************************************************************)
(* socket.c and resolver.c                                                 *)
(***************************************************************************)
\* the error of an attempt takes the place of that of the attempt before it
Fails(code) == error' = code /\ last' = code

Succeeds == error' = "SUCCESS" /\ last' = "SUCCESS"

\* the timeval of the connection, from its first settings
Timeout == list[1].timeout

\* mpd_socket_connect() begins: resolver_new() finds addresses, or fails
Resolve ==
    /\ at = "resolve"
    /\ \/ /\ Fails("RESOLVER") /\ Goto("alternative")
          /\ UNCHANGED <<addresses, held>>
       \/ /\ addresses' \in IF IsLocal(list[conn.current].host) THEN {1} ELSE 1 .. MaxAddresses
          /\ held' = held \cup {TheResolver}
          /\ Goto("address") /\ UNCHANGED <<error, last>>
    /\ slack' = Timeout /\ waited' = 0
    /\ settingsUnchanged /\ UNCHANGED <<conn, fd>>

\* all addresses have been tried: resolver_free()
NoMoreAddresses ==
    /\ at = "address" /\ addresses = 0
    /\ addresses' = -1 /\ held' = held \ {TheResolver}
    /\ Goto("alternative")
    /\ settingsUnchanged /\ UNCHANGED <<conn, fd, slack, error, waited, last>>

\* a socket is connected
Connected ==
    /\ Succeeds
    /\ addresses' = -1 /\ fd' = TRUE
    /\ held' = (held \cup {TheSocket}) \ {TheResolver}
    /\ Goto("async")

\* resolver_next() has one address less
ResolverNext == addresses - 1

(* socket_cloexec_nonblock() and connect() on the next address.  connect() *)
(* may succeed at once, fail, or be in progress.                           *)
TryAddress ==
    /\ at = "address" /\ addresses > 0
    /\ \/ Connected
       \/ /\ addresses' = ResolverNext
          /\ Fails("SYSTEM")
          /\ UNCHANGED <<at, held, fd>>
       \/ /\ addresses' = ResolverNext
          /\ fd' = TRUE /\ held' = held \cup {TheSocket}
          /\ Goto("wait")
          /\ UNCHANGED <<error, last>>
    /\ settingsUnchanged /\ UNCHANGED <<conn, slack, waited>>

\* mpd_socket_close() after the wait
GivesUp(code) ==
    /\ Fails(code)
    /\ fd' = FALSE /\ held' = held \ {TheSocket}
    /\ Goto("address") /\ UNCHANGED addresses

Slept_BugNewTimeout(t) == slack' = slack /\ waited' = waited + t

\* select() takes the time that it sleeps off its timeval, as on Linux
Slept(t) == slack' = slack - t /\ waited' = waited + t

(* mpd_socket_wait_connected(): select() finds the socket writable or has  *)
(* failed, is interrupted and called again, or sleeps to the end.          *)
Wait ==
    /\ at = "wait"
    /\ \E t \in 0 .. slack :
          /\ Slept(t)
          /\ \/ Connected
             \/ GivesUp("SYSTEM")
             \/ t > 0 /\ UNCHANGED <<at, addresses, fd, held, error, last>>
             \/ GivesUp("TIMEOUT")
    /\ settingsUnchanged /\ UNCHANGED conn

(***************************************************************************)
(* connection.c                                                            *)
(***************************************************************************)
\* mpd_connection_free()
ConnectionFree ==
    {TheConnection} \cup SettingsFree
    \cup (IF conn.parser THEN {TheParser} ELSE {})
    \cup (IF conn.async THEN {TheAsync, TheSocket} ELSE {})

\* what the caller of mpd_connection_new_async() brings
Brought == IF call = "new_async" THEN {TheAsync, TheSocket} ELSE {}

\* the connection itself; the fields that malloc() leaves as they are
MakeConnection ==
    /\ at = "connection"
    /\ \/ /\ held' = held \cup {TheConnection}
          /\ error' = "SUCCESS"
          /\ \/ /\ call = "new"
                /\ conn' = [NoConnection EXCEPT !.current = 1]
                /\ Goto("resolve")
             \/ /\ call = "new_async"
                /\ \E v \in Garbage : conn' = [NoConnection EXCEPT !.async = TRUE, !.version = v]
                /\ Goto("parser")
          /\ settingsUnchanged /\ socketUnchanged /\ UNCHANGED last
       \/ ReturnsNull(SettingsFree)

Alternative_BugErrorStays(w) == UNCHANGED <<error, last>>

\* the next settings are tried without an error
Alternative(w) == error' = "SUCCESS" /\ UNCHANGED last

TryAlternative ==
    /\ at = "alternative"
    /\ \/ /\ conn.current < Len(list)
          /\ conn' = [conn EXCEPT !.current = @ + 1]
          /\ Alternative(conn.current)
          /\ Goto("resolve")
       \/ /\ conn.current = Len(list)
          /\ Goto("done")
          /\ UNCHANGED <<conn, error, last>>
    /\ settingsUnchanged /\ socketUnchanged /\ UNCHANGED held

\* mpd_async_new() fails and nobody owns the socket
NoAsync == held' = held \ {TheSocket}

MakeAsync ==
    /\ at = "async"
    /\ fd' = FALSE
    /\ \/ /\ held' = held \cup {TheAsync}
          /\ conn' = [conn EXCEPT !.async = TRUE]
          /\ Goto("parser") /\ UNCHANGED <<error, last>>
       \/ NoAsync /\ Fails("OOM") /\ Goto("done") /\ UNCHANGED conn
    /\ settingsUnchanged /\ UNCHANGED <<addresses, slack, waited>>

MakeParser ==
    /\ at = "parser"
    /\ \/ /\ held' = held \cup {TheParser}
          /\ conn' = [conn EXCEPT !.parser = TRUE]
          /\ Goto("greeting") /\ UNCHANGED <<error, last>>
       \/ Fails("OOM") /\ Goto("done") /\ UNCHANGED <<held, conn>>
    /\ settingsUnchanged /\ socketUnchanged

\* strtoul() where there is no number
Number(n) == IF n = -1 THEN 0 ELSE n

NoNumber(welcome) == welcome.numbers = <<>> \/ Head(welcome.numbers) = -1

\* mpd_parse_welcome(): the version, as far as it gets
ParsedVersion(welcome, old) ==
    IF ~welcome.prefix THEN old
    ELSE IF NoNumber(welcome) THEN [old EXCEPT ![1] = 0]
    ELSE [i \in 1 .. 3 |->
            IF i \in DOMAIN welcome.numbers THEN Number(welcome.numbers[i]) ELSE 0]

Malformed(welcome) == ~welcome.prefix \/ NoNumber(welcome)

\* mpd_parse_welcome() of the first line, and on to the password
Greeted(welcome) ==
    /\ conn' = [conn EXCEPT !.version = ParsedVersion(welcome, @)]
    /\ IF Malformed(welcome) THEN Fails("MALFORMED") /\ Goto("done")
       ELSE /\ Succeeds
            /\ Goto(IF call = "new" /\ list[conn.current].password # NULL
                    THEN "password" ELSE "done")

\* mpd_sync_recv_line() and mpd_connection_sync_error(); the line may be given
Greeting ==
    /\ at = "greeting"
    /\ \/ \E welcome \in Welcomes : Greeted(welcome)
       \/ /\ call = "new"
          /\ \E code \in {"TIMEOUT", "CLOSED", "SYSTEM", "MALFORMED"} : Fails(code)
          /\ Goto("done") /\ UNCHANGED conn
    /\ settingsUnchanged /\ socketUnchanged /\ UNCHANGED held

\* mpd_run_password(): sent and answered, or not
Password ==
    /\ at = "password"
    /\ \/ Succeeds
       \/ \E code \in {"ARGUMENT", "SERVER", "TIMEOUT", "CLOSED", "SYSTEM", "MALFORMED"} : Fails(code)
    /\ Goto("done")
    /\ settingsUnchanged /\ socketUnchanged /\ UNCHANGED <<conn, held>>

ConnectionStep ==
    MakeConnection \/ Resolve \/ NoMoreAddresses \/ TryAddress \/ Wait \/ TryAlternative
    \/ MakeAsync \/ MakeParser \/ Greeting \/ Password

(***************************************************************************)
(* The user                                                                *)
(***************************************************************************)
\* mpd_settings_new(), mpd_connection_new(), mpd_connection_new_async()
Call(c) ==
    /\ at = "none"
    /\ call' = c
    /\ c = "new" => given.password = NULL
    /\ Goto(IF c = "new_async" THEN "connection" ELSE "struct")
    /\ held' = IF c = "new_async" THEN {TheAsync, TheSocket} ELSE {}
    /\ last' = "SUCCESS"
    /\ UNCHANGED <<given, list, conn, error>> /\ socketUnchanged

\* mpd_settings_free() or mpd_connection_free(); or there is nothing to free
Leave ==
    /\ at \in {"done", "null"}
    /\ Goto("none") /\ call' = "none"
    /\ held' = held \ IF at = "null" THEN Brought
                      ELSE IF call = "settings" THEN SettingsFree ELSE ConnectionFree
    /\ list' = <<>> /\ conn' = NoConnection /\ error' = "SUCCESS" /\ last' = "SUCCESS"
    /\ slack' = 0 /\ waited' = 0
    /\ UNCHANGED <<given, addresses, fd>>

Init ==
    /\ given \in Givens
    /\ call = "none" /\ at = "none" /\ list = <<>> /\ conn = NoConnection
    /\ addresses = -1 /\ fd = FALSE /\ held = {} /\ slack = 0
    /\ error = "SUCCESS" /\ waited = 0 /\ last = "SUCCESS"

Next ==
    \/ \E c \in {"settings", "new", "new_async"} : Call(c)
    \/ SettingsStep \/ ConnectionStep \/ Leave

Spec == Init /\ [][Next]_vars

(***************************************************************************)
(* Properties                                                              *)
(***************************************************************************)
Codes == {"SUCCESS", "OOM", "ARGUMENT", "TIMEOUT", "SYSTEM", "RESOLVER", "MALFORMED",
          "CLOSED", "SERVER"}

Settings == [host : Host \cup {NoHost}, password : {NULL, "host's", "argument"},
             port : Nat, timeout : Nat]

Places == {"none", "struct", "host", "split", "rest", "argument", "default", "socket",
           "connection", "resolve", "address", "wait", "alternative", "async", "parser",
           "greeting", "password", "done", "null"}

\* Every variable has its type.
TypeOK ==
    /\ given \in Givens
    /\ call \in {"none", "settings", "new", "new_async"}
    /\ at \in Places
    /\ list \in Seq(Settings) /\ Len(list) <= 2
    /\ conn \in [async : BOOLEAN, parser : BOOLEAN, current : 0 .. 2, version : Version]
    /\ addresses \in -1 .. MaxAddresses
    /\ fd \in BOOLEAN
    /\ held \subseteq (({1, 2} \X {"struct", "host", "password"})
                       \cup {TheConnection, TheAsync, TheParser, TheSocket, TheResolver})
    /\ slack \in Nat /\ waited \in Nat
    /\ error \in Codes /\ last \in Codes

\* Whatever allocation fails and wherever connecting ends, everything that is
\* allocated or open is reachable by the pointers that remain, and everything
\* they reach is allocated: nothing leaks and nothing is freed twice, by the
\* library or by mpd_connection_free() and mpd_settings_free() afterwards.
NothingLeaks ==
    held = IF at = "null" THEN Brought
           ELSE IF at = "none" THEN {}
           ELSE SettingsFree \cup Brought
                \cup (IF conn = NoConnection THEN {} ELSE ConnectionFree)
                \cup (IF fd THEN {TheSocket} ELSE {})
                \cup (IF addresses >= 0 THEN {TheResolver} ELSE {})

\* The error with which mpd_connection_new() returns is that of the last thing
\* it tried: no error of an address or of settings tried before survives, and
\* there is none if and only if the connection can be used.  An attempt begins
\* without an error, as the assertions of socket.c and ierror.h demand.
ErrorIsOfTheLastAttempt ==
    /\ at = "done" /\ call # "settings" =>
          /\ error = last
          /\ ~Defined(error) => conn.async /\ conn.parser
          /\ ~conn.async => Defined(error)
    /\ at \in {"resolve", "async", "parser", "greeting", "password"} => ~Defined(error)

\* However many addresses a host has, mpd_socket_connect() sleeps no longer than
\* the timeout in all.
WaitIsBounded == waited <= TimeoutMs

\* the host that is asked for, with the password before its at sign
HostAskedFor == IF given.host # NoHost THEN given.host ELSE given.envHost
PortAskedFor == IF given.port # 0 THEN given.port ELSE given.envPort

\* What settings.h:30-45 promises of the settings: the caller's values first,
\* then those of the environment, then the defaults; the password in the host
\* is the default for a password that the caller does not give.
Documented(w) ==
    LET host == IF HostAskedFor # NoHost THEN Plain(HostAskedFor.rest)
                ELSE IF PortAskedFor = 0 /\ w = 1 THEN DefaultSocket ELSE DefaultHost
    IN  [host |-> host,
         password |-> IF given.password # NULL THEN given.password ELSE HostAskedFor.password,
         port |-> IF IsLocal(host) THEN 0 ELSE IF PortAskedFor # 0 THEN PortAskedFor ELSE DefaultPort,
         timeout |-> IF given.timeout # 0 THEN given.timeout
                     ELSE IF given.envTimeout # 0 THEN given.envTimeout * Second
                     ELSE DefaultTimeout]

\* The code does otherwise in two cases.  Of two passwords it takes the one in
\* the host (settings.c:190) ...
TwoPasswords == given.password # NULL /\ HostAskedFor.password # NULL

\* ... and milliseconds that an unsigned cannot hold wrap (settings.c:153), to
\* zero even, which settings.c:32 calls impossible.
TimeoutWraps == given.timeout = 0 /\ given.envTimeout * Second >= Wrap

\* The settings are those that settings.h promises, except that the password
\* may be the one in the host where there are two, and the timeout too short
\* where it wraps.  If and only if neither a host nor a port is given anywhere
\* there are settings to fall back to, with the same password and timeout.
SettingsAsDocumented ==
    list # <<>> /\ at \in {"done", "connection", "resolve"} =>
        /\ \A w \in DOMAIN list :
              /\ list[w].host = Documented(w).host
              /\ list[w].port = Documented(w).port
              /\ \/ list[w].password = Documented(w).password
                 \/ TwoPasswords /\ list[w].password = HostAskedFor.password
              /\ \/ list[w].timeout = Documented(w).timeout
                 \/ TimeoutWraps /\ list[w].timeout < Documented(w).timeout
              /\ list[w].password = list[1].password /\ list[w].timeout = list[1].timeout
        /\ Len(list) = 2 <=> HostAskedFor = NoHost /\ PortAskedFor = 0
=============================================================================
