----------------------------- MODULE ConfigLoad -----------------------------
(***************************************************************************)
(* Config::load (common/config.cpp): the permission file, as in PermCfg,   *)
(* and then permdown.cfg, shell.rc, permup.time, permup.session and        *)
(* permup.ratelimit, each read line by line by a loader of its own; and    *)
(* the getters that answer from what they kept.                            *)
(*                                                                         *)
(* Four of the loaders share a form: a line opens a block, lines in it set *)
(* what the block says, a line closes it, and what was set goes into a map *)
(* under the block's name.  They differ in what opens a block, which keys  *)
(* count, and in what is left in the local variable when a block opens:    *)
(* loadTimeouts declares currentTimeout without a value and never resets   *)
(* it.  The numbers are read by std::stoi, which throws, and nobody        *)
(* catches.                                                                *)
(***************************************************************************)
EXTENDS PermCfg, Integers

CONSTANTS
    Confs,      \* the five other files, as functions on ConfFiles
    Comments,   \* the texts of a line that begins with # or is empty
    NoWord,     \* the empty word, a member of Words
    NoEntry,    \* no entry in a map
    Garbage,    \* what an uninitialised currentTimeout, 64 bits, may hold
    IntMax,     \* the largest int
    MapOrder    \* the rank of a name in the order of std::map

Seconds == [s |-> 1, m |-> 60, h |-> 3600, d |-> 86400, none |-> 1]

(* What a text is to std::stoi and parseTimeString: whether it begins with *)
(* a digit, or is a number with a sign; the number; and the unit after it. *)
Value == [word : Words, digits : BOOLEAN, number : BOOLEAN, num : Int,
          unit : DOMAIN Seconds]

ConfLine == [text : Value, rest : Value, default : BOOLEAN, colon : BOOLEAN,
             open : BOOLEAN, close : BOOLEAN, head : Names, key : Names]

(* std::chrono::seconds, 64 bits *)
Longs == Int

Blocks == {"timeouts", "time", "session", "ratelimit"}
ConfFiles == Blocks \cup {"shell"}

DefaultPatterns == <<"[root@", "[user@", "$", "#", ">", "%", "bash-", "zsh-",
                     "fish-", "sh-">>

ASSUME ConfigLoadAssumption ==
    /\ Confs \subseteq [ConfFiles -> Seq(ConfLine)]
    /\ Comments \subseteq Words /\ NoWord \in Words /\ "default" \in Names
    /\ DefaultPatterns \in Seq(Words) /\ "#" \in Comments
    /\ IntMax \in Nat /\ IntMax >= 120 /\ NoEntry \notin Int
    /\ Garbage \subseteq Longs
    /\ IsFiniteSet(Names) /\ MapOrder \in [Names -> Nat]
    /\ \A m, n \in Names : MapOrder[m] = MapOrder[n] => m = n
    /\ \A m \in Matches : <<m[1], m[1]>> \in Matches   \* a command matches itself

VARIABLES
    stage,          \* the loader that runs, "loaded", or "aborted"
    confs,          \* the files
    at,             \* the next line
    inBlock,        \* inCommand, inGroup, inUser
    current,        \* currentCommand, currentGroup, currentUser
    config,         \* currentTimeout, or currentConfig
    tables,         \* commandTimeouts, timeConfigs, sessionConfigs, rateLimitConfigs
    defaultTimeout, patterns

fileVars == <<stage, confs, at>>
blockVars == <<inBlock, current, config>>
keptVars == <<tables, defaultTimeout, patterns>>
loadVars == <<fileVars, blockVars, keptVars>>

Following == [permissions |-> "timeouts", timeouts |-> "shell", shell |-> "time",
              time |-> "session", session |-> "ratelimit", ratelimit |-> "loaded"]

(* TimeConfig, SessionConfig, RateLimitConfig: what their constructors set. *)
Fresh == [time |-> [range |-> NoWord, days |-> NoWord], session |-> 0,
          ratelimit |-> [n |-> 3, x |-> 30]]

LoadInit ==
    /\ Init
    /\ stage = "permissions" /\ confs \in Confs /\ at = 1
    /\ inBlock = FALSE /\ current = NoName /\ config \in Garbage
    /\ tables = [b \in Blocks |-> [m \in Names |-> NoEntry]]
    /\ defaultTimeout = 120 /\ patterns = <<>>
-----------------------------------------------------------------------------
(* std::stoi and parseTimeString. *)

Ints == -(IntMax + 1)..IntMax
TooLarge(v) == v.num \notin Ints

(* int arithmetic: out of range is undefined, and wraps as built. *)
Wrap(n) == ((n + IntMax + 1) % (2 * (IntMax + 1))) - (IntMax + 1)

parseTimeUncut(v) == v.num * Seconds[v.unit] \* mutant: wider than an int
parseTimeString(v) == IF v.digits THEN Wrap(v.num * Seconds[v.unit]) ELSE 0
-----------------------------------------------------------------------------
(* What a line is to a loader. *)

Skipped(l) == l.text.word \in Comments

SetsDefault(st, l) == st = "timeouts" /\ l.default

Opens(st, l) ==
    /\ ~Skipped(l) /\ ~SetsDefault(st, l) /\ l.open
    /\ st \in {"time", "session"} => l.colon

BlockName(st, l) == IF st \in {"time", "session"} THEN l.key ELSE l.head

Closes(st, l) ==
    ~Skipped(l) /\ ~SetsDefault(st, l) /\ ~Opens(st, l) /\ l.close

ConfKeys == [time |-> {"allowed", "days"}, session |-> {"session_time"},
             ratelimit |-> {"n", "max_attempts", "x", "block_time"}]

(* A line in a block of timeouts is a timeout; elsewhere it needs a key. *)
Sets(st, l) ==
    /\ ~Skipped(l) /\ ~SetsDefault(st, l) /\ ~Opens(st, l) /\ ~l.close
    /\ st # "timeouts" => l.colon /\ l.key \in ConfKeys[st]

Counts(l) == l.key \in {"n", "max_attempts"}

(* The local variable after a line that sets something. *)
Assigned(st, c, l) ==
    CASE st = "timeouts" -> parseTimeString(l.text)
      [] st = "session"  -> parseTimeString(l.rest)
      [] st = "time" /\ l.key = "allowed" -> [c EXCEPT !.range = l.rest.word]
      [] st = "time" /\ l.key = "days"    -> [c EXCEPT !.days = l.rest.word]
      [] st = "ratelimit" /\ Counts(l)    -> [c EXCEPT !.n = l.rest.num]
      [] st = "ratelimit" /\ ~Counts(l)   -> [c EXCEPT !.x = parseTimeString(l.rest)]

(* std::stoi throws. *)
Throws(st, l) ==
    CASE st = "timeouts" -> l.text.digits /\ TooLarge(l.text)
      [] st = "time"     -> FALSE
      [] st = "ratelimit" /\ Counts(l) -> ~l.rest.number \/ TooLarge(l.rest)
      [] OTHER -> l.rest.digits /\ TooLarge(l.rest)
-----------------------------------------------------------------------------
ConfLineAt == confs[stage][at]
ReadingConf == stage \in ConfFiles /\ at <= Len(confs[stage])
NextConfLine == at' = at + 1 /\ UNCHANGED <<stage, confs>>

SkipConfLine ==
    /\ ReadingConf
    /\ \/ Skipped(ConfLineAt)
       \/ /\ stage \in Blocks /\ ~SetsDefault(stage, ConfLineAt)
          /\ ~Opens(stage, ConfLineAt) /\ ~Closes(stage, ConfLineAt)
          /\ ~(inBlock /\ Sets(stage, ConfLineAt))
    /\ NextConfLine /\ UNCHANGED <<blockVars, keptVars>>

(* "default:" anywhere in a line, in a block or in the name of one. *)
SetDefault ==
    /\ ReadingConf /\ ~Skipped(ConfLineAt) /\ SetsDefault(stage, ConfLineAt)
    /\ ~(ConfLineAt.rest.digits /\ TooLarge(ConfLineAt.rest))
    /\ defaultTimeout' = parseTimeString(ConfLineAt.rest)
    /\ NextConfLine /\ UNCHANGED <<blockVars, tables, patterns>>

OpenKeepsConfig == \* mutant: currentConfig is not reset
    /\ ReadingConf /\ stage \in Blocks /\ Opens(stage, ConfLineAt)
    /\ inBlock' = TRUE /\ current' = BlockName(stage, ConfLineAt)
    /\ NextConfLine /\ UNCHANGED <<config, keptVars>>

OpenBlock ==
    /\ ReadingConf /\ stage \in Blocks /\ Opens(stage, ConfLineAt)
    /\ inBlock' = TRUE /\ current' = BlockName(stage, ConfLineAt)
    /\ config' = IF stage = "timeouts" THEN config ELSE Fresh[stage]
    /\ NextConfLine /\ UNCHANGED keptVars

CloseBlock ==
    /\ ReadingConf /\ stage \in Blocks /\ Closes(stage, ConfLineAt)
    /\ tables' = IF inBlock /\ current # NoName
                 THEN [tables EXCEPT ![stage][current] = config] ELSE tables
    /\ inBlock' = FALSE /\ current' = NoName
    /\ NextConfLine /\ UNCHANGED <<config, defaultTimeout, patterns>>

SetAnywhere == \* mutant: inCommand, inGroup, inUser are not looked at
    /\ ReadingConf /\ stage \in Blocks /\ Sets(stage, ConfLineAt)
    /\ ~Throws(stage, ConfLineAt)
    /\ config' = Assigned(stage, config, ConfLineAt)
    /\ NextConfLine /\ UNCHANGED <<inBlock, current, keptVars>>

SetInBlock ==
    /\ ReadingConf /\ stage \in Blocks /\ inBlock /\ Sets(stage, ConfLineAt)
    /\ ~Throws(stage, ConfLineAt)
    /\ config' = Assigned(stage, config, ConfLineAt)
    /\ NextConfLine /\ UNCHANGED <<inBlock, current, keptVars>>

AbortAnywhere == \* mutant: inCommand, inGroup, inUser are not looked at
    /\ ReadingConf /\ ~Skipped(ConfLineAt) /\ stage \in Blocks
    /\ Sets(stage, ConfLineAt) /\ Throws(stage, ConfLineAt)
    /\ stage' = "aborted" /\ UNCHANGED <<confs, at, blockVars, keptVars>>

(* The exception leaves Config::load, and main. *)
Abort ==
    /\ ReadingConf /\ ~Skipped(ConfLineAt) /\ stage \in Blocks
    /\ \/ /\ SetsDefault(stage, ConfLineAt)
          /\ ConfLineAt.rest.digits /\ TooLarge(ConfLineAt.rest)
       \/ inBlock /\ Sets(stage, ConfLineAt) /\ Throws(stage, ConfLineAt)
    /\ stage' = "aborted" /\ UNCHANGED <<confs, at, blockVars, keptVars>>

AddPattern ==
    /\ ReadingConf /\ stage = "shell" /\ ~Skipped(ConfLineAt)
    /\ patterns' = Append(patterns, ConfLineAt.text.word)
    /\ NextConfLine /\ UNCHANGED <<blockVars, tables, defaultTimeout>>

(* Without a block "default" in permup.ratelimit, whatever else it says. *)
WithDefaultLimit(t) ==
    IF t["ratelimit"]["default"] = NoEntry
    THEN [t EXCEPT !["ratelimit"]["default"] = Fresh.ratelimit] ELSE t

PatternsAtEnd == IF confs["shell"] = <<>> THEN DefaultPatterns ELSE patterns

(* A loader returns, and the next one starts with variables of its own. *)
FinishConf ==
    /\ stage \in ConfFiles /\ at > Len(confs[stage])
    /\ stage' = Following[stage] /\ at' = 1
    /\ inBlock' = FALSE /\ current' = NoName
    /\ config' = IF stage' \in DOMAIN Fresh THEN Fresh[stage'] ELSE 0
    /\ tables' = IF stage = "ratelimit" THEN WithDefaultLimit(tables) ELSE tables
    /\ patterns' = IF stage = "shell" THEN PatternsAtEnd ELSE patterns
    /\ UNCHANGED <<confs, defaultTimeout>>

PermissionsDone ==
    /\ stage = "permissions" /\ done /\ stage' = Following[stage]
    /\ UNCHANGED <<confs, at, blockVars, keptVars>>

LoadConfs ==
    \/ PermissionsDone \/ SkipConfLine \/ SetDefault \/ OpenBlock \/ CloseBlock
    \/ SetInBlock \/ Abort \/ AddPattern \/ FinishConf

LoadNext ==
    \/ Next /\ UNCHANGED loadVars
    \/ LoadConfs /\ UNCHANGED vars

LoadSpec == LoadInit /\ [][LoadNext]_<<vars, loadVars>>
-----------------------------------------------------------------------------
(* The getters. *)

Listed == {p \in Names : tables["timeouts"][p] # NoEntry}
MatchingTimeouts(command) == {p \in Listed : <<command, p>> \in Matches}

getExactTimeout(command) == \* mutant: no pattern is tried
    IF command \in Listed THEN tables["timeouts"][command] ELSE defaultTimeout

(* The command as it stands; or else the first in the map that matches. *)
getCommandTimeout(command) ==
    LET matching == MatchingTimeouts(command) IN
    CASE command \in Listed -> tables["timeouts"][command]
      [] command \notin Listed /\ matching = {} -> defaultTimeout
      [] OTHER -> tables["timeouts"][CHOOSE p \in matching :
                      \A q \in matching : MapOrder[p] <= MapOrder[q]]

(* groups is the order in which getgrouplist names them. *)
getSessionTime(groups) ==
    LET found == {k \in 1..Len(groups) : tables["session"][groups[k]] # NoEntry} IN
    IF found = {} THEN 0
    ELSE tables["session"][groups[CHOOSE k \in found : \A j \in found : k <= j]]

getRateLimitConfig(user) ==
    LET limits == tables["ratelimit"] IN
    CASE limits[user] # NoEntry -> limits[user]
      [] limits[user] = NoEntry /\ limits["default"] # NoEntry -> limits["default"]
      [] OTHER -> Fresh.ratelimit
-----------------------------------------------------------------------------
(* Properties. *)

Settings(b) ==
    CASE b = "time"      -> [range : Words, days : Words]
      [] b = "ratelimit" -> [n : Ints, x : Ints]
      [] b = "session"   -> Ints
      [] b = "timeouts"  -> Longs   \* or what was on the stack

LoadTypeOK ==
    /\ stage \in ConfFiles \cup {"permissions", "loaded", "aborted"}
    /\ confs \in Confs /\ at \in Nat \ {0}
    /\ inBlock \in BOOLEAN /\ current \in Names
    /\ stage \in Blocks => config \in Settings(stage)
    /\ DOMAIN tables = Blocks
    /\ \A b \in Blocks :
        /\ DOMAIN tables[b] = Names
        /\ \A m \in Names : tables[b][m] \in Settings(b) \/ tables[b][m] = NoEntry
    /\ defaultTimeout \in Ints /\ patterns \in Seq(Words)

(* Lines i and j of file b open and close a block named m. *)
Block(b, i, j, m) ==
    /\ i < j /\ Opens(b, confs[b][i]) /\ BlockName(b, confs[b][i]) = m
    /\ Closes(b, confs[b][j])
    /\ \A k \in (i + 1)..(j - 1) : ~Opens(b, confs[b][k]) /\ ~Closes(b, confs[b][k])

(* Line k of file b is in a block. *)
InsideBlock(b, k) ==
    \E i \in 1..(k - 1) :
        /\ Opens(b, confs[b][i])
        /\ \A j \in (i + 1)..(k - 1) : ~Closes(b, confs[b][j])

(* The lines before k that set something, the lines after i among them, and *)
(* the last of some.                                                       *)
SetBefore(b, k) == {n \in 1..(k - 1) : InsideBlock(b, n) /\ Sets(b, confs[b][n])}
SetSince(b, i, k, keys) ==
    {n \in (i + 1)..(k - 1) : Sets(b, confs[b][n]) /\ confs[b][n].key \in keys}
LastOf(S) == CHOOSE n \in S : \A m \in S : m <= n

(* A command's timeout is the last value in its own block; but a block     *)
(* without a value gets that of whichever block had one last, and before   *)
(* any, what was on the stack.  It never gets the default.                 *)
TimeoutOrigin ==
    \A m \in Names : tables["timeouts"][m] # NoEntry =>
        \E i, j \in 1..Len(confs["timeouts"]) :
            /\ Block("timeouts", i, j, m)
            /\ LET set == SetBefore("timeouts", j) IN
                IF set = {} THEN tables["timeouts"][m] \in Garbage
                ELSE tables["timeouts"][m] =
                        parseTimeString(confs["timeouts"][LastOf(set)].text)

(* What the lines between i and k of a block make of its settings. *)
Said(b, i, k, keys, unsaid) ==
    LET set == SetSince(b, i, k, keys)
        rest == confs[b][LastOf(set)].rest
    IN  CASE set = {} -> unsaid
          [] set # {} /\ b = "time" -> rest.word
          [] set # {} /\ b # "time" /\ keys = {"n", "max_attempts"} -> rest.num
          [] OTHER -> parseTimeString(rest)

Result(b, i, k) ==
    CASE b = "time" -> [range |-> Said(b, i, k, {"allowed"}, NoWord),
                        days |-> Said(b, i, k, {"days"}, NoWord)]
      [] b = "session" -> Said(b, i, k, {"session_time"}, 0)
      [] b = "ratelimit" -> [n |-> Said(b, i, k, {"n", "max_attempts"}, 3),
                             x |-> Said(b, i, k, {"x", "block_time"}, 30)]

(* A group's times and session and a user's limits are those of a block of *)
(* their own, with the constructor's values for what it leaves out.        *)
SettingsFromOwnBlock ==
    \A b \in Blocks \ {"timeouts"}, m \in Names : tables[b][m] # NoEntry =>
        \/ b = "ratelimit" /\ m = "default" /\ tables[b][m] = Fresh.ratelimit
        \/ \E i, j \in 1..Len(confs[b]) :
                Block(b, i, j, m) /\ tables[b][m] = Result(b, i, j)

BadLine(b, k) ==
    /\ ~Skipped(confs[b][k])
    /\ \/ SetsDefault(b, confs[b][k]) /\ confs[b][k].rest.digits
                                     /\ TooLarge(confs[b][k].rest)
       \/ InsideBlock(b, k) /\ Sets(b, confs[b][k]) /\ Throws(b, confs[b][k])

(* Loading fails on a number that is none, or too large, where it counts,  *)
(* and on nothing else.                                                    *)
AbortsOnBadNumbers ==
    LET bad == \E b \in Blocks : \E k \in 1..Len(confs[b]) : BadLine(b, k)
    IN  (stage = "loaded" => ~bad) /\ (stage = "aborted" => bad)

(* Two commands that match the same patterns get the same timeout, unless  *)
(* two listed commands match: an exact entry is also found by matching.    *)
SpellingKeepsTimeout ==
    stage = "loaded" => \A c, d \in Names \cap {m[1] : m \in Matches} :
        (MatchingTimeouts(c) = MatchingTimeouts(d) /\ Cardinality(MatchingTimeouts(c)) <= 1)
            => getCommandTimeout(c) = getCommandTimeout(d)
=============================================================================
