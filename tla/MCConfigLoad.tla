---------------------------- MODULE MCConfigLoad ----------------------------
(* Instances of ConfigLoad, CommandMatch and TimeRanges for TLC: one input *)
(* varied, the others empty; or all the shipped files.                     *)
EXTENDS MCPermCfg, ConfigLoad, CommandMatch, TimeRanges

(* Commands by name. *)
r == 114    f == 102    v == 118    x == 120    y == 121    h == 104
Flag(letters) == <<Dash>> \o letters
Syu == <<97, y, 117>>
Rm == <<r, 109>>    Htop == <<h>>   Pacman == <<112>>
Tmp == <<116>>      SlashTmp == <<47, 116>>
Odd == <<111>>      Blanks == <<109, Space, Dash, r>>   \* a real name "m -r"

Spelled == [n \in {"htop", "htop -v", "pacman", "pacman -Syu", "pacman -Suy"} |->
    CASE n = "htop" -> <<Htop>>
      [] n = "htop -v" -> <<Htop, Flag(<<v>>)>>
      [] n = "pacman" -> <<Pacman>>
      [] n = "pacman -Syu" -> <<Pacman, Flag(Syu)>>
      [] n = "pacman -Suy" -> <<Pacman, Flag(Reverse(Syu))>>]

MCCanonical == [w \in {Tmp, Odd} |-> IF w = Tmp THEN SlashTmp ELSE Blanks]
MCWordsOfCommands == {Flag(<<r>>), Flag(<<r, f>>), Flag(<<Dash, f>>), Flag(<<>>),
                      Flag(<<v, f, x>>), Tmp, SlashTmp, Odd, Rm}
MCCommands == {<<Rm>> \o args : args \in UNION {[1..n -> MCWordsOfCommands] : n \in 0..2}}
                \cup {Spelled[n] : n \in DOMAIN Spelled}

(* The flags are what push_back and std::sort leave. *)
ASSUME FlagsAreSorted ==
    \A c \in MCCommands : Flags(c) =
        SortSeq(FlattenSeq([k \in 1..(Len(c) - 1) |-> Pieces(c[k + 1])]), Less)
MCPatterns == {c \in MCCommands : Len(c) <= 2} \cup {<<>>}
MCMinutes == {0, 1, 479, 480, 1080, 1081, 1438, 1439}
TimeAt(hours, minutes) == [shaped |-> TRUE, hour |-> hours, minute |-> minutes]
Midnight == TimeAt(0, 0)
EndOfDay == TimeAt(24, 0)
Starts == {Midnight, TimeAt(8, 0), TimeAt(18, 0), EndOfDay}
Ends == {TimeAt(8, 0), TimeAt(18, 0), TimeAt(23, 59), EndOfDay}
AllDay == [dash |-> TRUE, start |-> Midnight, end |-> EndOfDay]
OddRanges ==
    {[AllDay EXCEPT !.dash = FALSE], [AllDay EXCEPT !.start.shaped = FALSE],
     [AllDay EXCEPT !.start.hour = NoNumber], [AllDay EXCEPT !.end.minute = NoNumber]}
AnyDay == [dash |-> FALSE, start |-> "Mon", end |-> "Mon"]
DaySets == {{days, AnyDay} : days \in [dash : BOOLEAN, start : {"Mon", "Wed", "Sun"},
                                       end : {"Mon", "Thu", "Sat", "other"}]}
TimeConfigs(ranges, days) ==
    [timeGiven : {TRUE}, time : ranges, daysGiven : {FALSE}, days : {{}}]
        \cup [timeGiven : {FALSE}, time : {AllDay}, daysGiven : {TRUE}, days : days]
Ranges == [dash : {TRUE}, start : Starts, end : Ends]
SomeTimes == TimeConfigs({[AllDay EXCEPT !.start = TimeAt(8, 0)]} \cup OddRanges, {{AnyDay}})
                \cup {NoBlock}
MCTimesOfGroups ==
    {<<>>} \cup {<<c>> : c \in TimeConfigs(Ranges \cup OddRanges, DaySets)}
        \cup UNION {[1..n -> SomeTimes] : n \in 1..2}

LoadItems == {"docker", "root", "marek"}
LoadMatches ==
    {<<i, i>> : i \in LoadItems} \cup {<<c, p>> \in (DOMAIN Spelled) \X (DOMAIN Spelled) :
                        isCommandMatch(Spelled[c], Spelled[p])}

NamesInOrder == <<"", "adm", "allowed", "allowed_users", "backup",
                   "blocked_users", "darklist", "days", "default", "default_n",
                   "default_x", "dev", "except", "htop", "htop -v", "janusz",
                   "list", "marek", "mode", "n", "ola", "pacman", "pacman -Suy",
                   "pacman -Syu", "session_time", "systemctl restart nginx", "wheel", "whitelist", "x">>
LoadNames == {NamesInOrder[k] : k \in 1..29}
LoadWords == MCWords \cup {"text", "comment", "range"} \cup {DefaultPatterns[k] : k \in 1..10}
LoadComments == {"", "comment", "#"}
LoadOrder == [n \in LoadNames |-> CHOOSE k \in 1..29 : NamesInOrder[k] = n]
LoadGarbage == {77, 40000000}   \* the second is no int
LoadGroups == {{}, {"adm"}, {"dev"}, {"wheel", "list"}, {"adm", "dev"}}
-----------------------------------------------------------------------------
(* Lines. *)
NotANumber == [word |-> "text", digits |-> FALSE, number |-> FALSE, num |-> 0, unit |-> "none"]
Number(n, u) == [NotANumber EXCEPT !.digits = TRUE, !.number = TRUE, !.num = n, !.unit = u]
Huge == Number(200000, "s")
Worded(w) == [NotANumber EXCEPT !.word = w]

Plain == [text |-> NotANumber, rest |-> NotANumber, default |-> FALSE, colon |-> FALSE,
          open |-> FALSE, close |-> FALSE, head |-> "", key |-> ""]
Remark == [Plain EXCEPT !.text = Worded("comment")]
Brace == [Plain EXCEPT !.close = TRUE]
Alone(value) == [Plain EXCEPT !.text = value]
Command(name) == [Plain EXCEPT !.open = TRUE, !.head = name]
Group(name) == [Plain EXCEPT !.open = TRUE, !.colon = TRUE, !.key = name]
Key(name, value) == [Plain EXCEPT !.colon = TRUE, !.key = name, !.rest = value]
DefaultLine(value) == [Key("default", value) EXCEPT !.default = TRUE]
OnOneLine(l) == [l EXCEPT !.close = TRUE]

Short(kinds, n) == UNION {[1..k -> kinds] : k \in 0..n}

TimeoutFiles ==
    Short({Command("htop"), Command("pacman -Syu"), Brace, Alone(Number(20, "s")),
           Alone(Number(2, "d")), Alone(Huge), DefaultLine(Number(1, "m"))}, 4)
    \cup [1..5 -> {Command("htop"), Command("pacman -Suy"), Brace, Alone(Number(1, "h"))}]
    \cup {<<DefaultLine(Huge)>>, <<DefaultLine(Number(2, "d"))>>,
          <<Command("pacman"), Alone(NotANumber), Brace>>}
ShellFiles == Short({Alone(Worded("")), Alone(Worded("#")), Alone(Worded("$"))}, 3)
TimeFiles == Short({Group("adm"), Group("dev"), Brace, Key("allowed", Worded("range")),
                    Key("days", Worded("range"))}, 4)
SessionFiles == Short({Group("adm"), Group("dev"), OnOneLine(Group("dev")), Brace,
                       Key("session_time", Number(5, "m")), Key("session_time", Huge)}, 4)
    \cup Short({Group("adm"), Command("adm"), Remark, Brace,
               Key("session_time", NotANumber)}, 3)
    \cup {<<Group("adm"), Key("session_time", Number(2, "d")), Brace>>}
LimitFiles == Short({Command("marek"), Command("default"), Brace, Key("n", Number(5, "none")),
                     Key("x", Number(60, "none")), Key("default_n", Number(9, "none"))}, 4)
    \cup Short({Command("marek"), Brace, Key("n", NotANumber), Key("n", Huge),
               Key("x", Huge)}, 3)

NoConfs == [b \in ConfFiles |-> <<>>]
Limit(n, t) == <<Key("n", Number(n, "none")), Key("x", Number(t, "none")), Brace>>
Timeout(name, t) == <<Command(name), Alone(Number(t, "s")), Brace>>
Time(name) == <<Group(name), Key("allowed", Worded("text")), Key("days", Worded("text")), Brace>>

(* conf/ of the repository *)
ShippedConfs ==
    [timeouts |-> <<DefaultLine(Number(120, "s")), Remark>> \o Timeout("pacman -Syu", 1000)
        \o <<Remark>> \o Timeout("systemctl restart nginx", 30)
        \o <<Remark>> \o Timeout("htop", 20),
     shell |-> [k \in 1..10 |-> Alone(Worded(DefaultPatterns[k]))],
     time |-> Time("adm") \o <<Remark>> \o Time("dev") \o <<Remark>> \o Time("backup"),
     session |-> <<Remark, Group("adm"), Key("session_time", Number(600, "none")), Brace,
                   Remark, Group("dev"), Key("session_time", Number(300, "none")), Brace>>,
     ratelimit |-> <<Remark, Key("default_n", Number(3, "none")),
                     Key("default_x", Number(30, "none")), Remark, Remark, Command("marek")>>
        \o Limit(5, 60) \o <<Remark, Command("janusz")>> \o Limit(2, 10)]

ConfSets(times, prompts, hours, sessions, limits) ==
    [timeouts : times, shell : prompts, time : hours, session : sessions, ratelimit : limits]
Empty == {<<>>}
OneVaried ==
    UNION {ConfSets(TimeoutFiles, Empty, Empty, Empty, Empty),
           ConfSets(Empty, ShellFiles, Empty, Empty, Empty),
           ConfSets(Empty, Empty, TimeFiles, Empty, Empty),
           ConfSets(Empty, Empty, Empty, SessionFiles, Empty),
           ConfSets(Empty, Empty, Empty, Empty, LimitFiles)}
LoadConfsets == OneVaried \cup {ShippedConfs}

(* One of the files varied, the others empty; with no files, requests. *)
OneVariedInit ==
    /\ \/ file \in Loaded /\ confs = NoConfs
       \/ file = <<>> /\ confs \in OneVaried
       \/ file = ShippedFile /\ confs = ShippedConfs
    /\ LoadInit /\ CommandInit /\ ClockInit

Decide ==
    /\ stage = "loaded" /\ file = <<>> /\ confs = NoConfs
    /\ asked = NoCommand /\ groupTimes = NoTime
    /\ \/ Ask /\ UNCHANGED clockVars
       \/ CheckTime /\ UNCHANGED asked
    /\ UNCHANGED <<vars, loadVars>>

Load == LoadNext /\ UNCHANGED <<asked, clockVars>>

OneVariedSpec ==
    OneVariedInit /\ [][Load \/ Decide]_<<vars, loadVars, asked, clockVars>>
=============================================================================
