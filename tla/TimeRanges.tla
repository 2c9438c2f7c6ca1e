----------------------------- MODULE TimeRanges -----------------------------
(***************************************************************************)
(* isTimeInRange and isDayInRange (common/utils.cpp), and the decision of  *)
(* Config::isTimeAllowed, which no handler calls: whether permup.time      *)
(* admits a user now.  A text of a time is the two numbers that std::stoi  *)
(* reads in it; the quotes of the shipped file make every one of its       *)
(* values a text that is not shaped like a time.                           *)
(***************************************************************************)
EXTENDS Integers, Sequences

CONSTANTS
    Minutes,            \* minutes of the day to consider
    TimesOfGroups,      \* the blocks of permup.time for a user's groups
    NoNumber,           \* two characters that make std::stoi throw
    NoBlock,            \* of a group that permup.time does not have
    NoTime              \* no decision yet

Days == <<"Mon", "Tue", "Wed", "Thu", "Fri", "Sat", "Sun">>
DayNames == {Days[k] : k \in 1..7}
MinutesOfDay == 0..1439

(* shaped: five characters, the third a colon. *)
TimeText == [shaped : BOOLEAN, hour : Int \cup {NoNumber}, minute : Int \cup {NoNumber}]
TimeRange == [dash : BOOLEAN, start : TimeText, end : TimeText]
DayRange == [dash : BOOLEAN, start : DayNames \cup {"other"}, end : DayNames \cup {"other"}]
TimeConfig == [timeGiven : BOOLEAN, time : TimeRange,
               daysGiven : BOOLEAN, days : SUBSET DayRange]

ASSUME TimesAssumption ==
    /\ Minutes \subseteq MinutesOfDay
    /\ TimesOfGroups \subseteq Seq(TimeConfig \cup {NoBlock})
    /\ NoNumber \notin Int /\ NoBlock \notin TimeConfig
    /\ NoTime \notin Seq(TimeConfig \cup {NoBlock})

VARIABLES
    now, today,         \* localtime: the minute, and the day of the week
    groupTimes          \* the blocks of the groups of a user, in their order

clockVars == <<now, today, groupTimes>>

ClockInit == now = 0 /\ today = "Mon" /\ groupTimes = NoTime
CheckTime == now' \in Minutes /\ today' \in DayNames /\ groupTimes' \in TimesOfGroups
ClockSpec == ClockInit /\ [][CheckTime]_clockVars
-----------------------------------------------------------------------------
IndexOfDay(day) == CHOOSE k \in 1..7 : Days[k] = day

BetweenUncrossed(t, start, end) == \* mutant: a range that ends before it starts
    t >= start /\ t <= end
Between(t, start, end) ==
    IF start <= end THEN t >= start /\ t <= end
    ELSE t >= start \/ t <= end

Shaped(range) == range.dash /\ range.start.shaped /\ range.end.shaped
Unread(text) == NoNumber \in {text.hour, text.minute}
MinuteOf(text) == text.hour * 60 + text.minute

(* The exception leaves isTimeAllowed. *)
isTimeInRange(range) ==
    CASE ~Shaped(range) -> "no"
      [] Shaped(range) /\ (Unread(range.start) \/ Unread(range.end)) -> "throws"
      [] OTHER -> IF Between(now, MinuteOf(range.start), MinuteOf(range.end))
                  THEN "yes" ELSE "no"

(* ranges are the items between the commas: a day, or two with a dash. *)
isDayInRange(ranges) ==
    \E r \in ranges :
        \/ /\ r.dash /\ {r.start, r.end} \subseteq DayNames
           /\ Between(IndexOfDay(today), IndexOfDay(r.start), IndexOfDay(r.end))
        \/ ~r.dash /\ r.start = today

(* An empty text restricts nothing. *)
checkTimeConfig(config) ==
    LET inHours == IF config.timeGiven THEN isTimeInRange(config.time) ELSE "yes" IN
    IF inHours = "yes" /\ config.daysGiven /\ ~isDayInRange(config.days)
    THEN "no" ELSE inHours

(* The first group that admits, or whose times cannot be read, decides. *)
isTimeAllowed(user, groups) ==
    LET answer == [k \in 1..Len(groups) |->
                      IF groups[k] = NoBlock THEN "no" ELSE checkTimeConfig(groups[k])]
        deciding == {k \in 1..Len(groups) : answer[k] # "no"}
    IN  CASE user = "root" \/ groups = <<>> -> "yes"
          [] ~(user = "root" \/ groups = <<>>) /\ deciding = {} -> "no"
          [] OTHER -> answer[CHOOSE k \in deciding : \A j \in deciding : k <= j]
-----------------------------------------------------------------------------
(* What a block means.  A time of the day, or 24:00. *)
ProperTime(text) ==
    \/ text.hour \in 0..23 /\ text.minute \in 0..59
    \/ text.hour = 24 /\ text.minute = 0

Faulty(c) ==
    c.timeGiven /\ Shaped(c.time) /\ (Unread(c.time.start) \/ Unread(c.time.end))

Understood(c) ==
    c.timeGiven /\ Shaped(c.time) /\ ~Faulty(c) =>
        ProperTime(c.time.start) /\ ProperTime(c.time.end)

(* From the start it is no further to now than to the end, be they around  *)
(* midnight or around Sunday; 24:00 ends a day as 23:59 does, and begins   *)
(* one as 00:00 does, but nothing lies between 24:00 and itself.           *)
InHours(range) ==
    LET start == MinuteOf(range.start)
        end == MinuteOf(range.end)
        first == IF start = 1440 THEN 0 ELSE start
        last == IF end = 1440 THEN 1439 ELSE end
    IN  /\ ~(start = 1440 /\ end = 1440)
        /\ (now - first) % 1440 <= (last - first) % 1440

InDays(ranges) ==
    \E r \in ranges :
        LET last == IF r.dash THEN r.end ELSE r.start IN
        /\ {r.start, last} \subseteq DayNames
        /\ (IndexOfDay(today) - IndexOfDay(r.start)) % 7
                <= (IndexOfDay(last) - IndexOfDay(r.start)) % 7

InTime(c) ==
    /\ c.timeGiven => Shaped(c.time) /\ ~Faulty(c) /\ InHours(c.time)
    /\ c.daysGiven => InDays(c.days)

(* A user in groups is admitted by one whose times it is in, unless those  *)
(* of a group before it make std::stoi throw, which ends the decision; a   *)
(* group without times of its own changes neither.                         *)
RangesAreCircular ==
    groupTimes # NoTime =>
        LET Group == {k \in 1..Len(groupTimes) : groupTimes[k] # NoBlock}
            admitting == {k \in Group : InTime(groupTimes[k])}
            faulty == {k \in Group : Faulty(groupTimes[k])}
            answer == isTimeAllowed("marek", groupTimes)
        IN  (groupTimes # <<>> /\ \A k \in Group : Understood(groupTimes[k])) =>
                /\ answer = "yes" <=> \E k \in admitting : \A j \in faulty : k < j
                /\ answer = "throws" <=> \E k \in faulty : \A j \in admitting : k < j
=============================================================================
