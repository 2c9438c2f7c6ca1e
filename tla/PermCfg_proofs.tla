--------------------------- MODULE PermCfg_proofs ---------------------------
(* Proofs about PermCfg, for every set of files, names, items and groups.  *)
EXTENDS PermCfg, TLAPS

(* The lists a file gives never reach groupConfigs because they never      *)
(* reach currentConfig.                                                    *)
NoListInv == TypeOK /\ Unlisted(currentConfig) /\ NoListIsLoaded

(* The line that is read next is a line. *)
LEMMA LineIsLine ==
  ASSUME TypeOK, Reading
  PROVE  /\ line \in Line /\ pos \in 1..Len(file)
         /\ line.name \in Names /\ line.items \subseteq Items
         /\ line.skip \in BOOLEAN /\ line.colon \in BOOLEAN
         /\ line.open \in BOOLEAN /\ line.close \in BOOLEAN
<1>1. file \in Seq(Line)
  BY PermCfgAssumption DEF TypeOK
<1>2. pos \in 1..Len(file)
  BY <1>1 DEF TypeOK, Reading
<1>3. line \in Line
  BY <1>1, <1>2 DEF line
<1>4. QED
  BY <1>2, <1>3 DEF Line

LEMMA GroupConfigType == GroupConfig \in Config /\ Unlisted(GroupConfig)
  BY DEF GroupConfig, Config, Unlisted

(* On a line that sets a key there is no closing brace, so parseList       *)
(* returns the list it was given.                                          *)
LEMMA KeyLineListKept ==
  ASSUME NEW keys, KeyLine(keys), TypeOK, NEW list
  PROVE  parseList(list) = list
  BY LineIsLine DEF KeyLine, InGroupLine, parseList

LEMMA NoNameType == NoName \in Names
  BY PermCfgAssumption

LEMMA TypeInit == Init => TypeOK
<1> SUFFICES ASSUME Init PROVE TypeOK
  OBVIOUS
<1>1. file \in Files /\ done \in BOOLEAN /\ inGroup \in BOOLEAN
  BY Zenon DEF Init
<1>2. currentGroup \in Names /\ currentConfig \in Config
  BY NoNameType, GroupConfigType DEF Init
<1>3. groupConfigs \in [Names -> Config \cup {NoConfig}]
  BY DEF Init
<1>4. pos \in Nat \ {0}
  BY DEF Init
<1>5. QED
  BY <1>1, <1>2, <1>3, <1>4 DEF TypeOK

(* A key line changes nothing of currentConfig but its mode. *)
LEMMA SetModeEffect ==
  ASSUME TypeOK, SetMode
  PROVE  /\ currentConfig' \in Config
         /\ Unlisted(currentConfig) => Unlisted(currentConfig)'
<1> DEFINE m == CASE line.word \in {"darklist", "blacklist"} -> "DARKLIST"
                  [] line.word = "whitelist" -> "WHITELIST"
                  [] OTHER -> currentConfig.mode
<1>1. currentConfig' = [currentConfig EXCEPT !.mode = m]
  BY DEF SetMode
<1>2. currentConfig \in Config
  BY DEF TypeOK
<1>3. m \in {"DARKLIST", "WHITELIST"}
  BY <1>2 DEF Config
<1> HIDE DEF m
<1>4. QED
  BY <1>1, <1>2, <1>3 DEF Config, Unlisted

LEMMA SetListEffect ==
  ASSUME TypeOK, SetList
  PROVE  currentConfig' = currentConfig
<1>1. currentConfig \in Config
  BY DEF TypeOK
<1>2. CASE /\ KeyLine({"list"})
           /\ currentConfig' = [currentConfig EXCEPT !.commands = parseList(@)]
  BY <1>1, <1>2, KeyLineListKept DEF Config
<1>3. CASE /\ KeyLine({"except"})
           /\ currentConfig' = [currentConfig EXCEPT !.except = parseList(@)]
  BY <1>1, <1>3, KeyLineListKept DEF Config
<1>4. CASE /\ KeyLine({"blocked_users", "blockedUsers"})
           /\ currentConfig' = [currentConfig EXCEPT !.blockedUsers = parseList(@)]
  BY <1>1, <1>4, KeyLineListKept DEF Config
<1>5. CASE /\ KeyLine({"allowed_users", "allowedUsers"})
           /\ currentConfig' = [currentConfig EXCEPT !.allowedUsers = parseList(@)]
  BY <1>1, <1>5, KeyLineListKept DEF Config
<1>6. QED
  BY <1>2, <1>3, <1>4, <1>5 DEF SetList

LEMMA NoListStep == NoListInv /\ [Next]_vars => NoListInv'
<1> SUFFICES ASSUME NoListInv, [Next]_vars PROVE NoListInv'
  OBVIOUS
<1> USE DEF NoListInv
<1>1. CASE SkipLine
  BY <1>1, LineIsLine DEF SkipLine, NextLine, Reading, TypeOK, Unlisted, NoListIsLoaded
<1>2. CASE OpenGroup
  BY <1>2, LineIsLine, GroupConfigType
  DEF OpenGroup, NextLine, Reading, TypeOK, Unlisted, NoListIsLoaded
<1>3. CASE OutsideLine
  BY <1>3 DEF OutsideLine, NextLine, TypeOK, Unlisted, NoListIsLoaded
<1>4. CASE CloseGroup
  <2>1. groupConfigs' \in [Names -> Config \cup {NoConfig}]
    BY <1>4 DEF CloseGroup, TypeOK
  <2>2. NoListIsLoaded'
    BY <1>4 DEF CloseGroup, TypeOK, Unlisted, NoListIsLoaded, NextLine
  <2>3. currentGroup' \in Names /\ inGroup' \in BOOLEAN
    BY <1>4, NoNameType DEF CloseGroup
  <2>4. file' \in Files /\ pos' \in Nat \ {0} /\ done' \in BOOLEAN
    BY <1>4 DEF CloseGroup, NextLine, TypeOK
  <2>5. currentConfig' \in Config /\ Unlisted(currentConfig)'
    BY <1>4 DEF CloseGroup, TypeOK, Unlisted
  <2>6. QED
    BY <2>1, <2>2, <2>3, <2>4, <2>5 DEF TypeOK
<1>5. CASE SetMode
  BY <1>5, SetModeEffect DEF SetMode, NextLine, TypeOK, NoListIsLoaded, Unlisted
<1>6. CASE SetList
  BY <1>6, SetListEffect DEF SetList, NextLine, TypeOK, NoListIsLoaded, Unlisted
<1>7. CASE OtherLine
  BY <1>7 DEF OtherLine, NextLine, TypeOK, Unlisted, NoListIsLoaded
<1>8. CASE Finish
  <2>1. groupConfigs' \in [Names -> Config \cup {NoConfig}]
    BY <1>8, GroupConfigType DEF Finish, TypeOK
  <2>2. NoListIsLoaded'
    BY <1>8, GroupConfigType DEF Finish, TypeOK, Unlisted, NoListIsLoaded
  <2>3. QED
    BY <1>8, <2>1, <2>2 DEF Finish, TypeOK, Unlisted
<1>9. CASE UNCHANGED vars
  BY <1>9 DEF vars, TypeOK, Unlisted, NoListIsLoaded
<1>10. QED
  BY <1>1, <1>2, <1>3, <1>4, <1>5, <1>6, <1>7, <1>8, <1>9 DEF Next

LEMMA NoListInit == Init => NoListInv
  BY TypeInit, GroupConfigType
  DEF Init, NoListInv, Unlisted, NoListIsLoaded

LEMMA NoListAlways == Spec => []NoListInv
  BY NoListInit, NoListStep, PTL DEF Spec

(* Type correctness of the loader, for every file: in particular the mode  *)
(* of a group is always one of the two the decisions ask about.            *)
THEOREM TypeCorrect == Spec => []TypeOK
  BY NoListAlways, PTL DEF NoListInv

(* loadPermissions gives no group a list, of commands, exceptions or       *)
(* users, whatever the file holds.                                         *)
THEOREM NoListEverLoaded == Spec => []NoListIsLoaded
  BY NoListAlways, PTL DEF NoListInv

(* Between groups without lists, the decisions look only at the mode. *)
LEMMA UnlistedDecides ==
  ASSUME TypeOK, NoListIsLoaded, NEW groups \in Groups,
         NEW command \in Items, NEW target \in Items
  PROVE  isCommandAllowed(groups, command, target) <=> \E g \in groups : Darklist(g)
<1> DEFINE asked == {groupConfigs[g] : g \in Configured(groups)}
           admitting == {c \in asked : TargetAdmitted(c, target)}
           counted == {c \in admitting : c.mode = "WHITELIST" => c.commands # {}}
<1>1. \A c \in asked : c \in Config /\ Unlisted(c)
  BY PermCfgAssumption DEF Configured, TypeOK, NoListIsLoaded
<1>2. admitting = asked
  BY <1>1 DEF TargetAdmitted, Unlisted
<1>3. counted = {c \in asked : c.mode = "DARKLIST"}
  BY <1>1, <1>2 DEF Unlisted, Config
<1>4. \A c \in counted : CommandAllowed(c, command) /\ ~CommandBlocked(c, command)
  BY <1>1, <1>3 DEF CommandAllowed, CommandBlocked, MatchesOne, Unlisted
<1>5. (\E c \in counted : TRUE) <=> \E g \in groups : Darklist(g)
  BY <1>3 DEF Configured, Darklist
<1>6. QED
  BY <1>4, <1>5 DEF isCommandAllowed

LEMMA UnlistedTargets ==
  ASSUME TypeOK, NoListIsLoaded, NEW groups \in Groups
  PROVE  getAllowedTargetUsers(groups) = IF groups = {} THEN {"root"} ELSE Accounts
<1>1. \A c \in {groupConfigs[g] : g \in Configured(groups)} : Unlisted(c)
  BY PermCfgAssumption DEF Configured, NoListIsLoaded
<1>2. CASE groups = {}
  BY <1>2 DEF getAllowedTargetUsers
<1>3. CASE groups # {}
  BY <1>1, <1>3 DEF getAllowedTargetUsers, Unlisted
<1>4. QED
  BY <1>2, <1>3

(* What a loaded permup.cfg grants a calling user other than root, for     *)
(* every file, command, target and set of groups: everything or nothing to *)
(* run, by the modes of his groups alone, and every account to act as.     *)
THEOREM LoadedGrantsAllOrNothing == Spec => []AllOrNothing
<1>1. TypeOK /\ NoListIsLoaded => AllOrNothing
  BY UnlistedDecides, UnlistedTargets DEF AllOrNothing
<1>2. QED
  BY <1>1, TypeCorrect, NoListEverLoaded, PTL
-----------------------------------------------------------------------------
(* The line that opened the group being read, and the lines since.         *)
Opener(i) ==
    /\ i \in 1..(pos - 1) /\ OpensGroup(file[i]) /\ file[i].name = currentGroup
    /\ \A k \in (i + 1)..(pos - 1) : file[k].close => file[k].skip

WhitelistLine(l) == l.colon /\ l.name = "mode" /\ l.word = "whitelist"

(* A group that is being read was opened by a line of its own, and is a    *)
(* whitelist only by a line since; ModeFromOwnGroup follows when it closes.*)
ModeInv ==
    /\ TypeOK /\ ModeFromOwnGroup
    /\ inGroup => \E i \in 1..(pos - 1) :
          /\ Opener(i)
          /\ currentConfig.mode = "WHITELIST" =>
                \E j \in (i + 1)..(pos - 1) : WhitelistLine(file[j])

LEMMA ModeStepSame ==
  ASSUME ModeInv, Reading, NextLine, line.close => line.skip,
         UNCHANGED <<inGroup, currentGroup, currentConfig, groupConfigs>>
  PROVE  ModeInv'
<1>1. TypeOK'
  BY LineIsLine DEF ModeInv, TypeOK, NextLine
<1>2. pos' = pos + 1 /\ pos \in Nat /\ file' = file
  BY DEF NextLine, ModeInv, TypeOK
<1>3. ModeFromOwnGroup'
  BY <1>2 DEF ModeInv, ModeFromOwnGroup, OpensGroup
<1>4. \A i : Opener(i) => Opener(i)'
  BY <1>2 DEF Opener, OpensGroup, line
<1>5. QED
  BY <1>1, <1>2, <1>3, <1>4 DEF ModeInv, WhitelistLine

LEMMA ModeStep == ModeInv /\ NoListInv /\ NoListInv' /\ [Next]_vars => ModeInv'
<1> SUFFICES ASSUME ModeInv, NoListInv, TypeOK', [Next]_vars PROVE ModeInv'
  BY DEF NoListInv
<1> TypeOK
  BY DEF ModeInv
<1> pos \in Nat
  BY DEF TypeOK
<1>1. CASE SkipLine
  BY <1>1, ModeStepSame DEF SkipLine
<1>2. CASE OpenGroup
  <2>1. pos' = pos + 1 /\ file' = file /\ currentGroup' = line.name
        /\ currentConfig'.mode = "DARKLIST" /\ groupConfigs' = groupConfigs
    BY <1>2 DEF OpenGroup, NextLine, GroupConfig
  <2>2. ModeFromOwnGroup'
    BY <2>1 DEF ModeInv, ModeFromOwnGroup, OpensGroup
  <2>3. \A i : i = pos => Opener(i)' /\ i \in 1..(pos' - 1)
    BY <1>2, <2>1, LineIsLine DEF Opener, OpenGroup, OpensGroup, line
  <2>4. \E i \in 1..(pos' - 1) : Opener(i)'
    BY <2>3
  <2>5. QED
    BY <2>1, <2>2, <2>4 DEF ModeInv
<1>3. CASE OutsideLine
  <2>1. pos' = pos + 1 /\ file' = file /\ groupConfigs' = groupConfigs /\ ~inGroup'
    BY <1>3 DEF OutsideLine, NextLine
  <2>2. QED
    BY <2>1 DEF ModeInv, ModeFromOwnGroup, OpensGroup
<1>4. CASE CloseGroup
  <2>1. /\ pos' = pos + 1 /\ file' = file /\ ~inGroup' /\ inGroup
        /\ \A g \in Names : groupConfigs'[g] =
              IF g = currentGroup /\ currentGroup # NoName THEN currentConfig
              ELSE groupConfigs[g]
    BY <1>4 DEF CloseGroup, InGroupLine, NextLine, TypeOK
  <2>2. PICK i \in 1..(pos - 1) :
          /\ Opener(i)
          /\ currentConfig.mode = "WHITELIST" =>
                \E j \in (i + 1)..(pos - 1) : WhitelistLine(file[j])
    BY <2>1 DEF ModeInv
  <2>3. ASSUME NEW g \in Names, groupConfigs'[g] # NoConfig,
               groupConfigs'[g].mode = "WHITELIST"
        PROVE  \E m, n \in 1..(pos' - 1) :
                /\ m < n /\ OpensGroup(file[m]) /\ file[m].name = g
                /\ file[n].colon /\ file[n].name = "mode" /\ file[n].word = "whitelist"
                /\ \A k \in (m + 1)..n : file[k].close => file[k].skip
    <3>1. CASE g = currentGroup /\ currentGroup # NoName
      <4>1. PICK j \in (i + 1)..(pos - 1) : WhitelistLine(file[j])
        BY <2>1, <2>2, <2>3, <3>1
      <4>2. i \in 1..(pos' - 1) /\ j \in 1..(pos' - 1) /\ i < j
        BY <2>1, <4>1
      <4>3. \A k \in (i + 1)..j : file[k].close => file[k].skip
        BY <2>2, <4>1 DEF Opener
      <4>4. QED
        BY <2>2, <3>1, <4>1, <4>2, <4>3 DEF Opener, WhitelistLine
    <3>2. CASE ~(g = currentGroup /\ currentGroup # NoName)
      <4>1. groupConfigs[g] # NoConfig /\ groupConfigs[g].mode = "WHITELIST"
        BY <2>1, <2>3, <3>2
      <4>2. QED
        BY <2>1, <4>1 DEF ModeInv, ModeFromOwnGroup
    <3>3. QED
      BY <3>1, <3>2
  <2>4. ModeFromOwnGroup'
    BY <2>1, <2>3 DEF ModeFromOwnGroup, OpensGroup
  <2>5. QED
    BY <2>1, <2>4 DEF ModeInv
<1>5. CASE SetMode
  <2>1. /\ pos' = pos + 1 /\ file' = file /\ UNCHANGED <<inGroup, currentGroup, groupConfigs>>
        /\ ~line.close /\ line.colon /\ line.name = "mode" /\ pos \in 1..Len(file)
    BY <1>5, LineIsLine DEF SetMode, KeyLine, InGroupLine, NextLine
  <2>2. ModeFromOwnGroup'
    BY <2>1 DEF ModeInv, ModeFromOwnGroup, OpensGroup
  <2>3. PICK i \in 1..(pos - 1) :
          /\ Opener(i)
          /\ currentConfig.mode = "WHITELIST" =>
                \E j \in (i + 1)..(pos - 1) : WhitelistLine(file[j])
    BY <1>5 DEF ModeInv, SetMode, KeyLine, InGroupLine
  <2>4. Opener(i)'
    BY <2>1, <2>3 DEF Opener, OpensGroup, line
  <2>5. currentConfig'.mode = "WHITELIST" =>
          line.word = "whitelist" \/ currentConfig.mode = "WHITELIST"
    <3> DEFINE m == CASE line.word \in {"darklist", "blacklist"} -> "DARKLIST"
                      [] line.word = "whitelist" -> "WHITELIST"
                      [] OTHER -> currentConfig.mode
    <3>1. currentConfig' = [currentConfig EXCEPT !.mode = m]
      BY <1>5 DEF SetMode
    <3>2. m = "WHITELIST" =>
            line.word = "whitelist" \/ currentConfig.mode = "WHITELIST"
      OBVIOUS
    <3> HIDE DEF m
    <3>3. currentConfig'.mode = m
      BY <3>1 DEF TypeOK, Config
    <3>4. QED
      BY <3>2, <3>3
  <2>6. currentConfig'.mode = "WHITELIST" =>
          \E j \in (i + 1)..(pos' - 1) : WhitelistLine(file'[j])
    <3>1. CASE line.word = "whitelist"
      <4>1. pos \in (i + 1)..(pos' - 1) /\ WhitelistLine(file'[pos])
        BY <2>1, <2>3, <3>1 DEF WhitelistLine, line
      <4>2. QED
        BY <4>1
    <3>2. CASE line.word # "whitelist"
      BY <2>1, <2>3, <2>5, <3>2
    <3>3. QED
      BY <3>1, <3>2
  <2>7. QED
    BY <2>1, <2>2, <2>4, <2>6 DEF ModeInv
<1>6. CASE SetList
  BY <1>6, SetListEffect, ModeStepSame, LineIsLine
  DEF SetList, KeyLine, InGroupLine
<1>7. CASE OtherLine
  BY <1>7, ModeStepSame DEF OtherLine, InGroupLine
<1>8. CASE Finish
  <2>1. \A g \in Names : groupConfigs'[g] # NoConfig /\ groupConfigs'[g].mode = "WHITELIST"
            => groupConfigs[g] # NoConfig /\ groupConfigs[g].mode = "WHITELIST"
    BY <1>8 DEF Finish, GroupConfig, TypeOK
  <2>2. UNCHANGED <<file, pos, inGroup, currentGroup, currentConfig>>
    BY <1>8 DEF Finish
  <2>3. ModeFromOwnGroup'
    BY <2>1, <2>2 DEF ModeInv, ModeFromOwnGroup, OpensGroup
  <2>4. QED
    BY <2>2, <2>3 DEF ModeInv, OpensGroup, Opener, WhitelistLine
<1>9. CASE UNCHANGED vars
  BY <1>9 DEF vars, ModeInv, ModeFromOwnGroup, OpensGroup, Opener, WhitelistLine
<1>10. QED
  BY <1>1, <1>2, <1>3, <1>4, <1>5, <1>6, <1>7, <1>8, <1>9 DEF Next

(* A group acts as a whitelist only when a mode line of its own says so,   *)
(* in every file: currentConfig carries nothing from one group to another. *)
THEOREM ModeComesFromOwnGroup == Spec => []ModeFromOwnGroup
<1>1. Init => ModeInv
  BY TypeInit DEF Init, ModeInv, ModeFromOwnGroup
<1>2. QED
  BY <1>1, ModeStep, NoListAlways, PTL DEF Spec, ModeInv
=============================================================================
