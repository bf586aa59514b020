-------------------------------- MODULE Texts --------------------------------
(***************************************************************************)
(* What the library makes of the texts it finds in a response: numbers,    *)
(* times, ranges, dates, audio formats and the names of states.            *)
(*                                                                         *)
(* A text is a sequence of tokens: numerals, words and punctuation, so     *)
(* that "1:200" is <<"1", ":", "200">>.  Decimals are kept to the ten      *)
(* thousandth.                                                             *)
(***************************************************************************)
EXTENDS Integers, SequencesExt

CONSTANTS
    Digits,         \* Digits[numeral]: the digits of each numeral
    UnsignedRange,  \* how many values an unsigned has
    Zone(_)         \* Zone(t): seconds by which the client's standard time is ahead
                    \* of UTC when its clock says the broken-down time t

ASSUME TextsAssumption ==
    /\ \A numeral \in DOMAIN Digits : Digits[numeral] \in Seq(0 .. 9)
    /\ UnsignedRange \in Nat \ {0}

(***************************************************************************)
(* strtol(), strtoul(), atoi() and strtod()                                *)
(***************************************************************************)
IsNumeral(text) == text # <<>> /\ text[1] \in DOMAIN Digits

Begins(text, token) == text # <<>> /\ text[1] = token

Value(digits) == FoldLeft(LAMBDA n, d : 10 * n + d, 0, digits)

\* the number that a text begins with, if any, and what follows
Scan(text) ==
    IF IsNumeral(text) THEN [value |-> Value(Digits[text[1]]), rest |-> Tail(text)]
    ELSE IF Begins(text, "-") /\ IsNumeral(Tail(text))
    THEN [value |-> - Value(Digits[text[2]]), rest |-> Tail(Tail(text))]
    ELSE [value |-> 0, rest |-> text]

StrToL(text) == Scan(text).value
StrToUl(text) == Scan(text).value % UnsignedRange

\* four digits after the point
Fraction(digits) ==
    LET d == digits \o <<0, 0, 0, 0>> IN 1000 * d[1] + 100 * d[2] + 10 * d[3] + d[4]

\* the decimal that a text begins with, its size and its sign
ScanDecimal(text) ==
    LET whole == Scan(text)
        split == Begins(whole.rest, ".") /\ IsNumeral(Tail(whole.rest))
    IN  [negative |-> Begins(text, "-"),
         seconds  |-> IF whole.value < 0 THEN - whole.value ELSE whole.value,
         fraction |-> IF split THEN Fraction(Digits[whole.rest[2]]) ELSE 0,
         rest     |-> IF split THEN Tail(Tail(whole.rest)) ELSE whole.rest]

Positive(decimal) == ~decimal.negative /\ decimal.seconds + decimal.fraction > 0

\* to the nearest millisecond
Milliseconds(decimal) == 1000 * decimal.seconds + (decimal.fraction + 5) \div 10

(***************************************************************************)
(* Times and ranges                                                        *)
(***************************************************************************)
MaxDuration == 1000000

\* parse_duration_ms()
DurationMs(text) ==
    LET d == ScanDecimal(text)
        inRange == /\ ~d.negative
                   /\ \/ d.seconds < MaxDuration
                      \/ d.seconds = MaxDuration /\ d.fraction = 0
    IN  IF IsNumeral(text) /\ d.rest = <<>> /\ inRange THEN Milliseconds(d) ELSE 0

\* parse_ms(): the pointer stays on the second digit, which counts twice
ParseMs(digits) ==
    CASE digits = <<>>    -> 0
      [] Len(digits) = 1  -> 100 * digits[1]
      [] OTHER            -> 100 * digits[1] + 10 * digits[2] + digits[2]

\* the value of "elapsed" in milliseconds
ElapsedMs(text) ==
    LET whole == Scan(text)
        split == Begins(whole.rest, ".") /\ IsNumeral(Tail(whole.rest))
    IN  (whole.value * 1000 + IF split THEN ParseMs(Digits[whole.rest[2]]) ELSE 0)
            % UnsignedRange

NoTime == [negative |-> FALSE, seconds |-> 0, fraction |-> 0, rest |-> <<>>]

\* a range of a song; a text without a minus sign is none
IsRange(text) == Begins(text, "-") \/ Begins(ScanDecimal(text).rest, "-")
RangeStart(text) == IF Begins(text, "-") THEN NoTime ELSE ScanDecimal(text)
RangeEnd(text) ==
    ScanDecimal(Tail(IF Begins(text, "-") THEN text ELSE ScanDecimal(text).rest))

(***************************************************************************)
(* Audio formats: "44100:16:2", "44100:f:2", "352800:dsd:2", "dsd64:2"     *)
(***************************************************************************)
SampleFormatFloat == 224
SampleFormatDsd == 225

Format(rate, bits, channels) ==
    [rate |-> rate % UnsignedRange, bits |-> bits % 256, channels |-> channels % 256]

\* mpd_parse_audio_format()
AudioFormat(text) ==
    LET dsd  == Scan(Tail(text))
        rate == Scan(text)
        bits == Scan(Tail(rate.rest))
    IN  IF /\ Begins(text, "dsd") /\ IsNumeral(Tail(text)) /\ Begins(dsd.rest, ":")
           /\ dsd.value \in 32 .. 4096 /\ dsd.value % 2 = 0
        THEN Format((dsd.value * 44100) \div 8, SampleFormatDsd, StrToL(Tail(dsd.rest)))
        ELSE IF ~Begins(rate.rest, ":") THEN Format(rate.value, 0, 0)
        ELSE IF Len(rate.rest) > 2 /\ rate.rest[2] \in {"f", "dsd"} /\ rate.rest[3] = ":"
        THEN Format(rate.value,
                    IF rate.rest[2] = "f" THEN SampleFormatFloat ELSE SampleFormatDsd,
                    StrToL(SubSeq(rate.rest, 4, Len(rate.rest))))
        ELSE Format(rate.value, bits.value,
                    IF Begins(bits.rest, ":") THEN StrToL(Tail(bits.rest)) ELSE 0)

(***************************************************************************)
(* Names of states.  A name that is not known is the state 0 of the player *)
(* and the last one of the others.                                         *)
(***************************************************************************)
States == <<"stop", "play", "pause">>
Modes == <<"0", "1", "oneshot">>

IndexOf(names, text) ==
    IF \E i \in DOMAIN names : text = <<names[i]>>
    THEN CHOOSE i \in DOMAIN names : text = <<names[i]>> ELSE 0

\* parse_mpd_state()
State(text) == IndexOf(States, text)

\* mpd_parse_single_state() and mpd_parse_consume_state(): off, on, oneshot, unknown
Mode(text) == IF IndexOf(Modes, text) = 0 THEN 3 ELSE IndexOf(Modes, text) - 1

(***************************************************************************)
(* Dates                                                                   *)
(***************************************************************************)
IsLeap(year) == year % 4 = 0 /\ (year % 100 # 0 \/ year % 400 = 0)

\* the days of a year before each month
DaysBefore == <<0, 31, 59, 90, 120, 151, 181, 212, 243, 273, 304, 334>>

\* the 29ths of February before a year
LeapDays(year) == (year - 1) \div 4 - (year - 1) \div 100 + (year - 1) \div 400

(* What timegm() would return, of a broken-down time: the seconds since the *)
(* Epoch, as POSIX defines them.                                           *)
Timegm(t) ==
    LET leap == IF t[2] > 2 /\ IsLeap(t[1]) THEN 1 ELSE 0
        days == 365 * (t[1] - 1970) + LeapDays(t[1]) - LeapDays(1970)
                  + DaysBefore[t[2]] + leap + t[3] - 1
    IN  days * 86400 + t[4] * 3600 + t[5] * 60 + t[6]

(* mktime(), which takes it for local time; tm_isdst is 0 wherever it is    *)
(* called, so that it is standard time, whatever that was then.            *)
Mktime(t) == Timegm(t) - Zone(t)

\* what gmtime() makes of 1234567890
AfterTheEpoch == <<2009, 2, 13, 23, 31, 30>>

ASSUME ZoneAssumption == Zone(AfterTheEpoch) \in Int

TimezoneOffset_BugSign == Mktime(AfterTheEpoch) - 1234567890

\* timezone_offset(); a failure of gmtime() is left out
TimezoneOffset == 1234567890 - Mktime(AfterTheEpoch)

\* timegm_emulation()
TimegmEmulation(t) == IF Mktime(t) = -1 THEN 0 ELSE Mktime(t) + TimezoneOffset

Separators == <<"-", "-", "T", ":", ":">>
Bounds == <<1970 .. 2999, 1 .. 12, 1 .. 31, 0 .. 23, 0 .. 59, 0 .. 59>>

\* "2009-02-13T23:31:30Z"; the Z may be left out
IsDate(text) ==
    /\ Len(text) = 11 \/ (Len(text) = 12 /\ text[12] = "Z")
    /\ \A i \in 1 .. 5 : text[2 * i] = Separators[i]
    /\ \A i \in 1 .. 6 : /\ text[2 * i - 1] \in DOMAIN Digits
                         /\ Value(Digits[text[2 * i - 1]]) \in Bounds[i]

BrokenDown(text) == [i \in 1 .. 6 |-> Value(Digits[text[2 * i - 1]])]

\* iso8601_datetime_parse()
Date(text) == IF IsDate(text) THEN TimegmEmulation(BrokenDown(text)) ELSE 0
=============================================================================
