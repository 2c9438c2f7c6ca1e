------------------------------ MODULE PermCfg ------------------------------
(***************************************************************************)
(* Config::loadPermissions (common/config.cpp): permup.cfg, read line by   *)
(* line into groupConfigs, and the decisions the daemon takes from it:     *)
(* isCommandAllowed for an execute request and getAllowedTargetUsers for   *)
(* a list request.                                                         *)
(*                                                                         *)
(* A line is what the loader's tests see of it: whether it is skipped,     *)
(* whether a colon, an opening and a closing brace occur in it, the word   *)
(* before the colon, the word after it, and the items between the braces.  *)
(* How a command matches a pattern (normalizeCommand, isSubstringMatch) is *)
(* the constant relation Matches.                                          *)
(***************************************************************************)
EXTENDS Naturals, Sequences, FiniteSets

CONSTANTS
    Files,       \* the files to load: sequences of lines
    Names,       \* words before a colon; group names among them
    Words,       \* words after a colon
    Items,       \* commands and user names in lists
    NoName,      \* the empty word, a member of Names
    NoConfig,    \* no entry in groupConfigs
    Matches,     \* isCommandMatch, as a set of pairs <<command, pattern>>
    Groups,      \* the sets of groups a calling user may be in
    Accounts     \* the users of the system, "root" among them

Line == [skip : BOOLEAN, colon : BOOLEAN, open : BOOLEAN, close : BOOLEAN,
         name : Names, word : Words, items : SUBSET Items]

ASSUME PermCfgAssumption ==
    /\ Files \subseteq Seq(Line)
    /\ NoName \in Names /\ {"adm", "wheel"} \subseteq Names
    /\ Groups \subseteq SUBSET Names
    /\ Accounts \subseteq Items /\ "root" \in Accounts

VARIABLES
    file,            \* the lines of permup.cfg
    pos,             \* the next one
    done,            \* loadPermissions has returned
    inGroup, currentGroup, currentConfig, groupConfigs

vars == <<file, pos, done, inGroup, currentGroup, currentConfig, groupConfigs>>

Config == [mode : {"DARKLIST", "WHITELIST"}, commands : SUBSET Items,
           except : SUBSET Items, blockedUsers : SUBSET Items,
           allowedUsers : SUBSET Items]

ASSUME NoConfigAssumption == NoConfig \notin Config

GroupConfig == [mode |-> "DARKLIST", commands |-> {}, except |-> {},
                blockedUsers |-> {}, allowedUsers |-> {}]

Init ==
    /\ file \in Files /\ pos = 1 /\ done = FALSE
    /\ inGroup = FALSE /\ currentGroup = NoName /\ currentConfig = GroupConfig
    /\ groupConfigs = [g \in Names |-> NoConfig]
-----------------------------------------------------------------------------
line == file[pos]
Reading == ~done /\ pos <= Len(file)
NextLine == pos' = pos + 1 /\ UNCHANGED <<file, done>>

SkipLine ==
    /\ Reading /\ line.skip
    /\ NextLine /\ UNCHANGED <<inGroup, currentGroup, currentConfig, groupConfigs>>

(* "name: {" outside a group, whatever else the line holds. *)
OpensGroup(l) == ~l.skip /\ l.colon /\ l.open

OpenGroupKeepsConfig == \* mutant: currentConfig is not reset
    /\ Reading /\ ~inGroup /\ OpensGroup(line)
    /\ currentGroup' = line.name /\ inGroup' = TRUE
    /\ NextLine /\ UNCHANGED <<currentConfig, groupConfigs>>

OpenGroup ==
    /\ Reading /\ ~inGroup /\ OpensGroup(line)
    /\ currentGroup' = line.name /\ currentConfig' = GroupConfig
    /\ inGroup' = TRUE
    /\ NextLine /\ UNCHANGED groupConfigs

OutsideLine ==
    /\ Reading /\ ~inGroup /\ ~line.skip /\ ~OpensGroup(line)
    /\ NextLine /\ UNCHANGED <<inGroup, currentGroup, currentConfig, groupConfigs>>

InGroupLine == Reading /\ inGroup /\ ~line.skip

(* Any line with a closing brace ends the group, before its key is seen. *)
CloseGroup ==
    /\ InGroupLine /\ line.close
    /\ groupConfigs' = IF currentGroup = NoName THEN groupConfigs
                       ELSE [groupConfigs EXCEPT ![currentGroup] = currentConfig]
    /\ inGroup' = FALSE /\ currentGroup' = NoName
    /\ NextLine /\ UNCHANGED currentConfig

\* mutant: keys are looked for before closing braces
KeyLineFirst(keys) == InGroupLine /\ line.colon /\ line.name \in keys
KeyLine(keys) == InGroupLine /\ ~line.close /\ line.colon /\ line.name \in keys

SetModeWord == \* mutant: the word itself is the mode
    /\ KeyLine({"mode"})
    /\ currentConfig' = [currentConfig EXCEPT !.mode = line.word]
    /\ NextLine /\ UNCHANGED <<inGroup, currentGroup, groupConfigs>>

SetMode ==
    /\ KeyLine({"mode"})
    /\ currentConfig' =
        [currentConfig EXCEPT !.mode =
            CASE line.word \in {"darklist", "blacklist"} -> "DARKLIST"
              [] line.word = "whitelist" -> "WHITELIST"
              [] OTHER -> @]
    /\ NextLine /\ UNCHANGED <<inGroup, currentGroup, groupConfigs>>

(* parseList: both braces have to be on the line. *)
parseList(list) == IF line.open /\ line.close THEN list \cup line.items ELSE list

SetList ==
    /\ \/ /\ KeyLine({"list"})
          /\ currentConfig' = [currentConfig EXCEPT !.commands = parseList(@)]
       \/ /\ KeyLine({"except"})
          /\ currentConfig' = [currentConfig EXCEPT !.except = parseList(@)]
       \/ /\ KeyLine({"blocked_users", "blockedUsers"})
          /\ currentConfig' = [currentConfig EXCEPT !.blockedUsers = parseList(@)]
       \/ /\ KeyLine({"allowed_users", "allowedUsers"})
          /\ currentConfig' = [currentConfig EXCEPT !.allowedUsers = parseList(@)]
    /\ NextLine /\ UNCHANGED <<inGroup, currentGroup, groupConfigs>>

Keys == {"mode", "list", "except", "blocked_users", "blockedUsers",
         "allowed_users", "allowedUsers"}

OtherLine ==
    /\ InGroupLine /\ ~line.close /\ (line.colon => line.name \notin Keys)
    /\ NextLine /\ UNCHANGED <<inGroup, currentGroup, currentConfig, groupConfigs>>

(* A file with nothing in it, or with no complete group, gives the two     *)
(* default groups.                                                         *)
Finish ==
    /\ ~done /\ pos > Len(file) /\ done' = TRUE
    /\ groupConfigs' = IF \A g \in Names : groupConfigs[g] = NoConfig
                       THEN [groupConfigs EXCEPT !["adm"] = GroupConfig,
                                                 !["wheel"] = GroupConfig]
                       ELSE groupConfigs
    /\ UNCHANGED <<file, pos, inGroup, currentGroup, currentConfig>>

Next ==
    \/ SkipLine \/ OpenGroup \/ OutsideLine \/ CloseGroup \/ SetMode \/ SetList
    \/ OtherLine \/ Finish

Spec == Init /\ [][Next]_vars
-----------------------------------------------------------------------------
(* The decisions, for a calling user other than root. *)

Configured(groups) == {g \in groups : groupConfigs[g] # NoConfig}

MatchesOne(command, list) == \E p \in list : <<command, p>> \in Matches

(* allowed_users first; blocked_users only without it. *)
TargetAdmitted(c, target) ==
    /\ c.allowedUsers # {} => target \in c.allowedUsers
    /\ c.allowedUsers = {} => target \notin c.blockedUsers

CommandBlocked(c, command) == c.mode = "WHITELIST" /\ MatchesOne(command, c.except)

CommandAllowed(c, command) ==
    \/ c.mode = "DARKLIST" /\ MatchesOne(command, c.except)
    \/ c.mode = "DARKLIST" /\ ~MatchesOne(command, c.commands)
    \/ /\ c.mode = "WHITELIST" /\ MatchesOne(command, c.commands)
       /\ ~CommandBlocked(c, command)

(* A whitelist without commands is left by "continue", before its block    *)
(* counts.                                                                 *)
isCommandAllowed(groups, command, target) ==
    LET asked == {groupConfigs[g] : g \in Configured(groups)}
        admitting == {c \in asked : TargetAdmitted(c, target)}
        counted == {c \in admitting : c.mode = "WHITELIST" => c.commands # {}}
    IN  /\ \E c \in counted : CommandAllowed(c, command)
        /\ ~ \E c \in counted : CommandBlocked(c, command)

(* What a configured group adds to the list; a user whose groups put no    *)
(* restriction gets every account.                                         *)
TargetsOf(c) ==
    IF c.allowedUsers # {} THEN c.allowedUsers ELSE Accounts \ c.blockedUsers

getAllowedTargetUsers(groups) ==
    LET asked == {groupConfigs[g] : g \in Configured(groups)} IN
    CASE groups = {} -> {"root"}
      [] groups # {} /\ \A c \in asked : c.allowedUsers = {} /\ c.blockedUsers = {}
            -> Accounts
      [] OTHER -> UNION {TargetsOf(c) : c \in asked}
-----------------------------------------------------------------------------
(* Properties. *)

TypeOK ==
    /\ file \in Files /\ pos \in Nat \ {0} /\ done \in BOOLEAN
    /\ inGroup \in BOOLEAN /\ currentGroup \in Names
    /\ currentConfig \in Config
    /\ groupConfigs \in [Names -> Config \cup {NoConfig}]

Unlisted(c) == /\ c.commands = {} /\ c.except = {}
               /\ c.blockedUsers = {} /\ c.allowedUsers = {}

(* Whatever the file says, every group is loaded with empty lists: a list  *)
(* on one line ends the group before parseList is called, and a list over  *)
(* several lines shows parseList no closing brace.                         *)
NoListIsLoaded ==
    \A g \in Names : groupConfigs[g] # NoConfig => Unlisted(groupConfigs[g])

Darklist(g) == groupConfigs[g] # NoConfig /\ groupConfigs[g].mode = "DARKLIST"

(* So a user may run every command as every user, or none as any, by       *)
(* whether one of the groups is loaded as a darklist; list_users offers    *)
(* every account to a user in any group at all.                            *)
AllOrNothing ==
    done => \A groups \in Groups :
        /\ \A command \in Items, target \in Items :
                isCommandAllowed(groups, command, target)
                    <=> \E g \in groups : Darklist(g)
        /\ getAllowedTargetUsers(groups) = IF groups = {} THEN {"root"} ELSE Accounts

(* A group is a whitelist only by a mode line of its own: nothing is left  *)
(* over from the group before.                                             *)
ModeFromOwnGroup ==
    \A g \in Names :
        (groupConfigs[g] # NoConfig /\ groupConfigs[g].mode = "WHITELIST") =>
            \E i, j \in 1..(pos - 1) :
                /\ i < j /\ OpensGroup(file[i]) /\ file[i].name = g
                /\ file[j].colon /\ file[j].name = "mode" /\ file[j].word = "whitelist"
                /\ \A k \in (i + 1)..j : file[k].close => file[k].skip

(* The group dev of the shipped file, a whitelist of docker, lets its      *)
(* members run docker.  The code does not: see the runs.                   *)
WhitelistAdmits == done => isCommandAllowed({"dev"}, "docker", "marek")
=============================================================================
