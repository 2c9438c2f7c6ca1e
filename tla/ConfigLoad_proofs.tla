------------------------- MODULE ConfigLoad_proofs --------------------------
(***************************************************************************)
(* Proofs about ConfigLoad, for all files, names and numbers, any width of *)
(* int and whatever is on the stack; about its commands, as CommandMatch   *)
(* compares them; and, at the end, about TimeRanges.                       *)
(***************************************************************************)
EXTENDS ConfigLoad, CommandMatch_proofs, TimeRanges, FiniteSetTheorems, TLAPS

LEMMA Assumed ==
  /\ \A c \in Confs : \A b \in ConfFiles : c[b] \in Seq(ConfLine)
  /\ Comments \subseteq Words /\ NoWord \in Words /\ NoName \in Names
  /\ DefaultPatterns \in Seq(Words) /\ IntMax \in Nat /\ IntMax >= 120
  /\ Garbage \subseteq Longs /\ Ints \subseteq Longs
BY ConfigLoadAssumption, PermCfgAssumption DEF Ints, Longs

(* What std::stoi accepts, and what int arithmetic makes of it, is an int. *)
LEMMA Wrapped ==
  ASSUME NEW n \in Int
  PROVE  Wrap(n) \in Ints
<1> DEFINE M == 2 * (IntMax + 1)
           k == n + IntMax + 1
<1>1. M \in Nat \ {0} /\ k \in Int /\ IntMax \in Nat
  BY Assumed
<1>2. Wrap(n) = (k % M) - (IntMax + 1)
  BY DEF Wrap
<1>3. M = 2 * (IntMax + 1)
  OBVIOUS
<1> HIDE DEF M, k
<1>4. k % M \in 0..(M - 1)
  BY <1>1
<1>5. QED
  BY <1>1, <1>2, <1>3, <1>4 DEF Ints

LEMMA Units ==
  ASSUME NEW u \in DOMAIN Seconds
  PROVE  Seconds[u] \in Nat
BY DEF Seconds

LEMMA ValueType ==
  ASSUME NEW v \in Value
  PROVE  /\ v.word \in Words /\ v.num \in Int
         /\ parseTimeString(v) \in Ints
         /\ ~TooLarge(v) => v.num \in Ints
<1>1. v.word \in Words /\ v.num \in Int /\ v.unit \in DOMAIN Seconds
  BY DEF Value
<1>2. v.num * Seconds[v.unit] \in Int
  BY <1>1, Units
<1>3. 0 \in Ints
  BY Assumed DEF Ints
<1>4. parseTimeString(v) \in Ints
  BY <1>2, <1>3, Wrapped DEF parseTimeString
<1>5. QED
  BY <1>1, <1>4 DEF TooLarge

(* The line that is read next is a line. *)
LEMMA LineType ==
  ASSUME LoadTypeOK, ReadingConf
  PROVE  /\ at \in 1..Len(confs[stage]) /\ confs[stage] \in Seq(ConfLine)
         /\ ConfLineAt = confs[stage][at]
         /\ ConfLineAt.text \in Value /\ ConfLineAt.rest \in Value
         /\ ConfLineAt.head \in Names /\ ConfLineAt.key \in Names
<1>1. confs[stage] \in Seq(ConfLine)
  BY Assumed DEF LoadTypeOK, ReadingConf
<1>2. at \in 1..Len(confs[stage])
  BY <1>1 DEF LoadTypeOK, ReadingConf
<1>3. ConfLineAt \in ConfLine
  BY <1>1, <1>2 DEF ConfLineAt
<1>4. QED
  BY <1>1, <1>2, <1>3 DEF ConfLine, ConfLineAt

(* The local variable, per loader. *)
LEMMA Settable ==
  /\ Settings("timeouts") = Longs /\ Settings("session") = Ints
  /\ Settings("time") = [range : Words, days : Words]
  /\ Settings("ratelimit") = [n : Ints, x : Ints]
<1>1. Settings("timeouts") = Longs
  BY DEF Settings
<1>2. Settings("session") = Ints
  BY DEF Settings
<1>3. Settings("time") = [range : Words, days : Words]
  BY DEF Settings
<1>4. Settings("ratelimit") = [n : Ints, x : Ints]
  BY DEF Settings
<1>5. QED
  BY <1>1, <1>2, <1>3, <1>4

LEMMA FreshType ==
  ASSUME NEW b \in Blocks \ {"timeouts"}
  PROVE  Fresh[b] \in Settings(b) /\ b \in DOMAIN Fresh
<1>1. 0 \in Ints /\ 3 \in Ints /\ 30 \in Ints
  BY Assumed DEF Ints
<1>2. Fresh["time"] \in Settings("time")
  BY Assumed, Settable DEF Fresh
<1>3. Fresh["session"] \in Settings("session")
  BY <1>1, Settable DEF Fresh
<1>4. Fresh["ratelimit"] \in Settings("ratelimit")
  BY <1>1, Settable DEF Fresh
<1>5. QED
  BY <1>2, <1>3, <1>4 DEF Blocks, Fresh

LEMMA AssignedType ==
  ASSUME LoadTypeOK, ReadingConf, stage \in Blocks, Sets(stage, ConfLineAt),
         ~Throws(stage, ConfLineAt)
  PROVE  Assigned(stage, config, ConfLineAt) \in Settings(stage)
<1> DEFINE l == ConfLineAt
<1>1. l.text \in Value /\ l.rest \in Value
  BY LineType
<1>2. config \in Settings(stage)
  BY DEF LoadTypeOK
<1>3. CASE stage = "timeouts"
  <2>1. Assigned("timeouts", config, l) = parseTimeString(l.text)
    BY DEF Assigned
  <2>2. QED
    BY <1>1, <1>3, <2>1, ValueType, Settable, Assumed
<1>4. CASE stage = "session"
  <2>1. Assigned("session", config, l) = parseTimeString(l.rest)
    BY DEF Assigned
  <2>2. QED
    BY <1>1, <1>4, <2>1, ValueType, Settable
<1>5. CASE stage = "time"
  <2>1. l.key \in {"allowed", "days"}
    BY <1>5 DEF Sets, ConfKeys
  <2>2. l.key = "allowed" =>
            Assigned("time", config, l) = [config EXCEPT !.range = l.rest.word]
    BY DEF Assigned
  <2>3. l.key = "days" => Assigned("time", config, l) = [config EXCEPT !.days = l.rest.word]
    BY DEF Assigned
  <2>4. l.rest.word \in Words
    BY <1>1, ValueType
  <2>5. config \in [range : Words, days : Words]
    BY <1>2, <1>5, Settable
  <2>6. [config EXCEPT !.range = l.rest.word] \in [range : Words, days : Words]
    BY <2>4, <2>5
  <2>7. [config EXCEPT !.days = l.rest.word] \in [range : Words, days : Words]
    BY <2>4, <2>5
  <2> HIDE DEF l
  <2>8. QED
    BY <1>5, <2>1, <2>2, <2>3, <2>6, <2>7, Settable DEF l
<1>6. CASE stage = "ratelimit"
  <2>1. Counts(l) => Assigned("ratelimit", config, l) = [config EXCEPT !.n = l.rest.num]
    BY DEF Assigned
  <2>2. ~Counts(l) => Assigned("ratelimit", config, l)
                        = [config EXCEPT !.x = parseTimeString(l.rest)]
    BY DEF Assigned
  <2>3. Counts(l) => ~TooLarge(l.rest)
    BY <1>6 DEF Throws
  <2>4. parseTimeString(l.rest) \in Ints /\ (Counts(l) => l.rest.num \in Ints)
    BY <1>1, <2>3, ValueType
  <2>5. config \in [n : Ints, x : Ints]
    BY <1>2, <1>6, Settable
  <2>6. Assigned("ratelimit", config, l) \in [n : Ints, x : Ints]
    BY <2>1, <2>2, <2>4, <2>5
  <2>7. QED
    BY <1>6, <2>6, Settable
<1>7. QED
  BY <1>3, <1>4, <1>5, <1>6 DEF Blocks

-----------------------------------------------------------------------------
(***************************************************************************)
(* Type correctness.                                                       *)
(***************************************************************************)

(* Until the permission file is read the other loaders have not begun. *)
NotBegun == stage = "permissions" => at = 1 /\ ~inBlock /\ config \in Garbage

LoadTyped == LoadTypeOK /\ NotBegun

(* A map with one entry set. *)
LEMMA EntrySet ==
  ASSUME LoadTypeOK, NEW b \in Blocks, NEW n \in Names, NEW v, NEW t,
         t = [tables EXCEPT ![b][n] = v]
  PROVE  /\ DOMAIN t = Blocks
         /\ \A d \in Blocks : DOMAIN t[d] = Names
         /\ \A d \in Blocks : \A m \in Names :
                t[d][m] = IF d = b /\ m = n THEN v ELSE tables[d][m]
BY DEF LoadTypeOK

TablesType(t) ==
    /\ DOMAIN t = Blocks
    /\ \A b \in Blocks :
        /\ DOMAIN t[b] = Names
        /\ \A m \in Names : t[b][m] \in Settings(b) \/ t[b][m] = NoEntry

LEMMA EntryType ==
  ASSUME LoadTypeOK, NEW b \in Blocks, NEW n \in Names, NEW v \in Settings(b), NEW t,
         t = [tables EXCEPT ![b][n] = v]
  PROVE  TablesType(t)
BY EntrySet DEF TablesType, LoadTypeOK

LEMMA Stages ==
  /\ \A st \in ConfFiles \cup {"permissions"} :
        /\ Following[st] \in ConfFiles \cup {"loaded"}
        /\ Following[st] \notin {"permissions", "aborted"}
  /\ Blocks \subseteq ConfFiles
  /\ {"permissions", "loaded", "aborted"} \cap ConfFiles = {}
BY DEF Following, ConfFiles, Blocks

(* A line that sets nothing keeps the types. *)
LEMMA SameTypes ==
  ASSUME LoadTyped, stage' \in ConfFiles \cup {"loaded", "aborted"},
         confs' = confs, at' \in Nat \ {0}, inBlock' \in BOOLEAN, current' \in Names,
         stage' \in Blocks => config' \in Settings(stage'),
         TablesType(tables'), defaultTimeout' \in Ints, patterns' \in Seq(Words)
  PROVE  LoadTyped'
BY Stages DEF LoadTyped, LoadTypeOK, NotBegun, TablesType

LEMMA LoadTypeInit == LoadInit => LoadTyped
<1> SUFFICES ASSUME LoadInit PROVE LoadTyped
  OBVIOUS
<1>1. stage = "permissions" /\ confs \in Confs /\ at = 1 /\ current = NoName
      /\ config \in Garbage /\ defaultTimeout = 120 /\ patterns = <<>>
  BY DEF LoadInit
<1>2. inBlock = FALSE /\ tables = [b \in Blocks |-> [m \in Names |-> NoEntry]]
  BY DEF LoadInit
<1>3. inBlock \in BOOLEAN
  BY <1>2, Zenon
<1>4. "permissions" \notin Blocks
  BY DEF Blocks
<1>5. 120 \in Ints /\ patterns \in Seq(Words) /\ current \in Names
  BY <1>1, Assumed DEF Ints
<1>6. LoadTypeOK
  BY <1>1, <1>2, <1>3, <1>4, <1>5 DEF LoadTypeOK
<1>7. QED
  BY <1>1, <1>2, <1>6 DEF LoadTyped, NotBegun

LEMMA LoadTypeLine ==
  ASSUME LoadTyped, SkipConfLine \/ SetDefault \/ AddPattern
  PROVE  LoadTyped'
<1>1. /\ ReadingConf /\ stage' = stage /\ confs' = confs /\ at' = at + 1
      /\ UNCHANGED <<inBlock, current, config, tables>>
  BY DEF SkipConfLine, SetDefault, AddPattern, NextConfLine, blockVars, keptVars
<1>2. stage \in ConfFiles
  BY <1>1 DEF ReadingConf
<1>3. /\ at \in Nat \ {0} /\ inBlock \in BOOLEAN /\ current \in Names
      /\ stage \in Blocks => config \in Settings(stage)
      /\ TablesType(tables) /\ defaultTimeout \in Ints /\ patterns \in Seq(Words)
  BY DEF LoadTyped, LoadTypeOK, TablesType
<1>4. defaultTimeout' \in Ints
  BY <1>1, <1>3, LineType, ValueType
  DEF SkipConfLine, SetDefault, AddPattern, keptVars, LoadTyped
<1>5. patterns' \in Seq(Words)
  <2>1. CASE patterns' = patterns
    BY <1>3, <2>1
  <2>2. CASE patterns' = Append(patterns, ConfLineAt.text.word)
    BY <1>1, <1>3, <2>2, LineType, ValueType DEF LoadTyped
  <2>3. QED
    BY <2>1, <2>2 DEF SkipConfLine, SetDefault, AddPattern, keptVars
<1>6. at' \in Nat \ {0}
  BY <1>1, <1>3
<1>7. TablesType(tables') /\ inBlock' \in BOOLEAN /\ current' \in Names
  BY <1>1, <1>3
<1>8. stage' \in Blocks => config' \in Settings(stage')
  BY <1>1, <1>3
<1>9. QED
  BY <1>1, <1>2, <1>4, <1>5, <1>6, <1>7, <1>8, SameTypes

LEMMA LoadTypeBlock ==
  ASSUME LoadTyped, OpenBlock \/ CloseBlock \/ SetInBlock
  PROVE  LoadTyped'
<1>1. /\ ReadingConf /\ stage' = stage /\ confs' = confs /\ at' = at + 1
      /\ stage \in Blocks /\ UNCHANGED <<defaultTimeout, patterns>>
  BY DEF OpenBlock, CloseBlock, SetInBlock, NextConfLine, keptVars
<1>2. /\ at \in Nat \ {0} /\ inBlock \in BOOLEAN /\ current \in Names
      /\ config \in Settings(stage)
      /\ TablesType(tables) /\ defaultTimeout \in Ints /\ patterns \in Seq(Words)
  BY <1>1 DEF LoadTyped, LoadTypeOK, TablesType
<1>3. inBlock' \in BOOLEAN
  BY <1>2, Zenon DEF OpenBlock, CloseBlock, SetInBlock
<1>4. BlockName(stage, ConfLineAt) \in Names /\ NoName \in Names
  BY <1>1, LineType, Assumed DEF BlockName, LoadTyped
<1>5. current' \in Names
  BY <1>2, <1>4 DEF OpenBlock, CloseBlock, SetInBlock
<1>6. config' \in Settings(stage)
  <2>1. CASE OpenBlock
    <3>1. config' = IF stage = "timeouts" THEN config ELSE Fresh[stage]
      BY <2>1 DEF OpenBlock
    <3>2. QED
      BY <1>1, <1>2, <3>1, FreshType
  <2>2. CASE CloseBlock
    BY <1>2, <2>2 DEF CloseBlock
  <2>3. CASE SetInBlock
    <3>1. /\ Sets(stage, ConfLineAt) /\ ~Throws(stage, ConfLineAt)
          /\ config' = Assigned(stage, config, ConfLineAt)
      BY <2>3 DEF SetInBlock
    <3>2. QED
      BY <1>1, <3>1, AssignedType DEF LoadTyped
  <2>4. QED
    BY <2>1, <2>2, <2>3
<1>7. TablesType(tables')
  <2>1. CASE tables' = tables
    BY <1>2, <2>1
  <2>2. CASE tables' = [tables EXCEPT ![stage][current] = config]
    BY <1>1, <1>2, <2>2, EntryType DEF LoadTyped
  <2>3. QED
    BY <2>1, <2>2 DEF OpenBlock, CloseBlock, SetInBlock, keptVars
<1>8. at' \in Nat \ {0} /\ stage' \in ConfFiles
  BY <1>1, <1>2, Stages
<1>9. QED
  BY <1>1, <1>2, <1>3, <1>5, <1>6, <1>7, <1>8, SameTypes

LEMMA LoadTypeStage ==
  ASSUME LoadTyped, Abort \/ FinishConf \/ PermissionsDone
  PROVE  LoadTyped'
<1>1. /\ at \in Nat \ {0} /\ inBlock \in BOOLEAN /\ current \in Names
      /\ TablesType(tables) /\ defaultTimeout \in Ints /\ patterns \in Seq(Words)
  BY DEF LoadTyped, LoadTypeOK, TablesType
<1>2. CASE Abort
  <2>1. stage' = "aborted" /\ UNCHANGED <<confs, at, inBlock, current, config, tables,
                                          defaultTimeout, patterns>>
    BY <1>2 DEF Abort, blockVars, keptVars
  <2>2. stage' \notin Blocks /\ inBlock' \in BOOLEAN
    BY <1>1, <2>1, Stages
  <2>3. QED
    BY <1>1, <2>1, <2>2, SameTypes
<1>3. CASE PermissionsDone
  <2>1. /\ stage = "permissions" /\ stage' = Following[stage]
        /\ UNCHANGED <<confs, at, inBlock, current, config>>
        /\ UNCHANGED <<tables, defaultTimeout, patterns>>
    BY <1>3 DEF PermissionsDone, blockVars, keptVars
  <2>2. stage' = "timeouts" /\ config \in Longs
    BY <2>1, Assumed DEF Following, LoadTyped, NotBegun
  <2>3. stage' \in ConfFiles /\ config' \in Settings(stage') /\ inBlock' \in BOOLEAN
    BY <1>1, <2>1, <2>2, Settable DEF ConfFiles, Blocks
  <2>4. QED
    BY <1>1, <2>1, <2>3, SameTypes
<1>4. CASE FinishConf
  <2>1. /\ stage \in ConfFiles /\ stage' = Following[stage] /\ at' = 1 /\ confs' = confs
        /\ current' = NoName /\ defaultTimeout' = defaultTimeout
        /\ config' = IF stage' \in DOMAIN Fresh THEN Fresh[stage'] ELSE 0
        /\ tables' = IF stage = "ratelimit" THEN WithDefaultLimit(tables) ELSE tables
        /\ patterns' = IF stage = "shell" THEN PatternsAtEnd ELSE patterns
    BY <1>4 DEF FinishConf
  <2>2. inBlock' \in BOOLEAN /\ current' \in Names
    <3>1. inBlock' = FALSE
      BY <1>4 DEF FinishConf
    <3>2. inBlock' \in BOOLEAN
      BY <3>1, Zenon
    <3>3. QED
      BY <2>1, <3>2, Assumed
  <2>3. stage' \in ConfFiles \cup {"loaded"} /\ stage' # "timeouts"
    BY <2>1 DEF ConfFiles, Blocks, Following
  <2>4. stage' \in Blocks => config' \in Settings(stage')
    <3>1. ASSUME stage' \in Blocks
          PROVE  config' = Fresh[stage'] /\ Fresh[stage'] \in Settings(stage')
      BY <2>1, <2>3, <3>1, FreshType
    <3>2. QED
      BY <3>1
  <2>5. TablesType(tables')
    <3>1. CASE tables' = tables
      BY <1>1, <3>1
    <3>2. CASE tables' = [tables EXCEPT !["ratelimit"]["default"] = Fresh.ratelimit]
      <4>1. /\ Fresh.ratelimit \in Settings("ratelimit")
            /\ "ratelimit" \in Blocks /\ "default" \in Names
        BY FreshType, ConfigLoadAssumption DEF Blocks
      <4>2. QED
        BY <3>2, <4>1, EntryType DEF LoadTyped
    <3>3. QED
      BY <2>1, <3>1, <3>2 DEF WithDefaultLimit
  <2>6. patterns' \in Seq(Words)
    BY <1>1, <2>1, Assumed DEF PatternsAtEnd
  <2>7. QED
    BY <1>1, <2>1, <2>2, <2>3, <2>4, <2>5, <2>6, SameTypes
<1>5. QED
  BY <1>2, <1>3, <1>4

LEMMA LoadTypeNext == LoadTyped /\ [LoadNext]_<<vars, loadVars>> => LoadTyped'
<1> SUFFICES ASSUME LoadTyped, [LoadNext]_<<vars, loadVars>> PROVE LoadTyped'
  OBVIOUS
<1>1. CASE UNCHANGED loadVars
  BY <1>1 DEF loadVars, fileVars, blockVars, keptVars, LoadTyped, LoadTypeOK, NotBegun
<1>2. CASE LoadConfs
  BY <1>2, LoadTypeLine, LoadTypeBlock, LoadTypeStage DEF LoadConfs
<1>3. QED
  BY <1>1, <1>2 DEF LoadNext

(* LoadTypeOK: the loaders' variables keep their types for any files, with *)
(* ints of any width, and any wider value on the stack.                    *)
THEOREM LoadTypeCorrect == LoadSpec => []LoadTypeOK
<1>1. LoadTyped => LoadTypeOK
  BY DEF LoadTyped
<1> QED
  BY <1>1, LoadTypeInit, LoadTypeNext, PTL DEF LoadSpec

LEMMA AlwaysLoadTyped == LoadSpec => []LoadTyped
  BY LoadTypeInit, LoadTypeNext, PTL DEF LoadSpec

-----------------------------------------------------------------------------
(***************************************************************************)
(* How a line moves a loader in and out of blocks.                         *)
(***************************************************************************)

LineOf(b, k) == confs[b][k]

LEMMA InsideNext ==
  ASSUME NEW b, NEW k \in Nat \ {0}
  PROVE  InsideBlock(b, k + 1)
            <=> Opens(b, LineOf(b, k)) \/ (InsideBlock(b, k) /\ ~Closes(b, LineOf(b, k)))
<1>1. ASSUME Opens(b, LineOf(b, k)) PROVE InsideBlock(b, k + 1)
  <2>1. k \in 1..(k + 1 - 1) /\ \A j \in (k + 1)..(k + 1 - 1) : ~Closes(b, confs[b][j])
    OBVIOUS
  <2>2. QED
    BY <1>1, <2>1 DEF InsideBlock, LineOf
<1>2. ASSUME InsideBlock(b, k), ~Closes(b, LineOf(b, k)) PROVE InsideBlock(b, k + 1)
  <2>1. PICK i \in 1..(k - 1) : /\ Opens(b, confs[b][i])
                                /\ \A j \in (i + 1)..(k - 1) : ~Closes(b, confs[b][j])
    BY <1>2 DEF InsideBlock
  <2>2. i \in 1..(k + 1 - 1)
    OBVIOUS
  <2>3. \A j \in (i + 1)..(k + 1 - 1) : j = k \/ j \in (i + 1)..(k - 1)
    OBVIOUS
  <2>4. \A j \in (i + 1)..(k + 1 - 1) : ~Closes(b, confs[b][j])
    BY <1>2, <2>1, <2>3 DEF LineOf
  <2>5. QED
    BY <2>1, <2>2, <2>4 DEF InsideBlock
<1>3. ASSUME InsideBlock(b, k + 1), ~Opens(b, LineOf(b, k))
      PROVE  InsideBlock(b, k) /\ ~Closes(b, LineOf(b, k))
  <2>1. PICK i \in 1..(k + 1 - 1) :
            /\ Opens(b, confs[b][i])
            /\ \A j \in (i + 1)..(k + 1 - 1) : ~Closes(b, confs[b][j])
    BY <1>3 DEF InsideBlock
  <2>2. i # k
    BY <1>3, <2>1 DEF LineOf
  <2>3. i \in 1..(k - 1) /\ k \in (i + 1)..(k + 1 - 1)
    BY <2>2
  <2>4. (i + 1)..(k - 1) \subseteq (i + 1)..(k + 1 - 1)
    OBVIOUS
  <2>5. QED
    BY <2>1, <2>3, <2>4 DEF InsideBlock, LineOf
<1>4. QED
  BY <1>1, <1>2, <1>3

(* Line i opened a block that is still open before line k. *)
OpenSince(b, i, k) ==
    /\ i \in 1..(k - 1) /\ Opens(b, confs[b][i])
    /\ \A j \in (i + 1)..(k - 1) : ~Opens(b, confs[b][j]) /\ ~Closes(b, confs[b][j])

LEMMA OpenNext ==
  ASSUME NEW b, NEW k \in Nat \ {0}
  PROVE  /\ Opens(b, LineOf(b, k)) => OpenSince(b, k, k + 1)
         /\ \A i : OpenSince(b, i, k) /\ ~Opens(b, LineOf(b, k)) /\ ~Closes(b, LineOf(b, k))
                    => OpenSince(b, i, k + 1)
<1>1. ASSUME Opens(b, LineOf(b, k)) PROVE OpenSince(b, k, k + 1)
  <2>1. k \in 1..(k + 1 - 1) /\ (k + 1)..(k + 1 - 1) = {}
    OBVIOUS
  <2>2. QED
    BY <1>1, <2>1 DEF OpenSince, LineOf
<1>2. ASSUME NEW i, OpenSince(b, i, k), ~Opens(b, LineOf(b, k)), ~Closes(b, LineOf(b, k))
      PROVE  OpenSince(b, i, k + 1)
  <2>1. i \in 1..(k + 1 - 1)
    BY <1>2 DEF OpenSince
  <2>2. \A j \in (i + 1)..(k + 1 - 1) : j = k \/ j \in (i + 1)..(k - 1)
    BY <2>1
  <2>3. QED
    BY <1>2, <2>1, <2>2 DEF OpenSince, LineOf
<1>3. QED
  BY <1>1, <1>2

LEMMA SetBeforeNext ==
  ASSUME NEW b, NEW k \in Nat \ {0}
  PROVE  SetBefore(b, k + 1) =
            SetBefore(b, k) \cup
                (IF InsideBlock(b, k) /\ Sets(b, LineOf(b, k)) THEN {k} ELSE {})
<1>1. 1..(k + 1 - 1) = (1..(k - 1)) \cup {k}
  OBVIOUS
<1>2. QED
  BY <1>1 DEF SetBefore, LineOf

LEMMA SetSinceNext ==
  ASSUME NEW b, NEW k \in Nat \ {0}, NEW i \in 1..(k - 1), NEW keys
  PROVE  SetSince(b, i, k + 1, keys) =
            SetSince(b, i, k, keys) \cup
                {n \in {k} : Sets(b, LineOf(b, k)) /\ LineOf(b, k).key \in keys}
<1>1. (i + 1)..(k + 1 - 1) = ((i + 1)..(k - 1)) \cup {k}
  OBVIOUS
<1>2. QED
  BY <1>1 DEF SetSince, LineOf

LEMMA LastOfAdded ==
  ASSUME NEW k \in Nat, NEW S, \A n \in S : n \in Nat /\ n < k
  PROVE  LastOf(S \cup {k}) = k
<1> DEFINE P(n) == n \in S \cup {k} /\ \A m \in S \cup {k} : m <= n
<1>1. P(k) /\ \A n \in S \cup {k} : P(n) => n = k
  OBVIOUS
<1>2. LastOf(S \cup {k}) = CHOOSE n \in S \cup {k} : \A m \in S \cup {k} : m <= n
  BY DEF LastOf
<1>3. QED
  BY <1>1, <1>2

(* What the lines of a block make of its settings, line by line. *)
SaidBy(b, keys, rest) ==
    CASE b = "time" -> rest.word
      [] b # "time" /\ keys = {"n", "max_attempts"} -> rest.num
      [] OTHER -> parseTimeString(rest)

LEMMA SaidNext ==
  ASSUME NEW b, NEW k \in Nat \ {0}, NEW i \in 1..(k - 1), NEW keys, NEW unsaid
  PROVE  Said(b, i, k + 1, keys, unsaid) =
            IF Sets(b, LineOf(b, k)) /\ LineOf(b, k).key \in keys
            THEN SaidBy(b, keys, LineOf(b, k).rest)
            ELSE Said(b, i, k, keys, unsaid)
<1>1. CASE Sets(b, LineOf(b, k)) /\ LineOf(b, k).key \in keys
  <2>1. SetSince(b, i, k + 1, keys) = SetSince(b, i, k, keys) \cup {k}
    BY <1>1, SetSinceNext
  <2>2. \A n \in SetSince(b, i, k, keys) : n \in Nat /\ n < k
    BY DEF SetSince
  <2>3. LastOf(SetSince(b, i, k + 1, keys)) = k /\ SetSince(b, i, k + 1, keys) # {}
    BY <2>1, <2>2, LastOfAdded
  <2>4. QED
    BY <1>1, <2>3 DEF Said, SaidBy, LineOf
<1>2. CASE ~(Sets(b, LineOf(b, k)) /\ LineOf(b, k).key \in keys)
  <2>1. SetSince(b, i, k + 1, keys) = SetSince(b, i, k, keys)
    BY <1>2, SetSinceNext
  <2>2. QED
    BY <1>2, <2>1 DEF Said
<1>3. QED
  BY <1>1, <1>2

LEMMA SaidFirst ==
  ASSUME NEW b, NEW i \in Nat \ {0}, NEW keys, NEW unsaid
  PROVE  Said(b, i, i + 1, keys, unsaid) = unsaid
<1>1. (i + 1)..(i + 1 - 1) = {}
  OBVIOUS
<1>2. SetSince(b, i, i + 1, keys) = {}
  BY <1>1 DEF SetSince
<1>3. QED
  BY <1>2 DEF Said

LEMMA Results ==
  ASSUME NEW i, NEW k
  PROVE  /\ Result("time", i, k) = [range |-> Said("time", i, k, {"allowed"}, NoWord),
                                    days |-> Said("time", i, k, {"days"}, NoWord)]
         /\ Result("session", i, k) = Said("session", i, k, {"session_time"}, 0)
         /\ Result("ratelimit", i, k) =
                [n |-> Said("ratelimit", i, k, {"n", "max_attempts"}, 3),
                 x |-> Said("ratelimit", i, k, {"x", "block_time"}, 30)]
BY DEF Result

LEMMA ResultFirst ==
  ASSUME NEW b \in Blocks \ {"timeouts"}, NEW i \in Nat \ {0}
  PROVE  Result(b, i, i + 1) = Fresh[b]
<1>1. b \in {"time", "session", "ratelimit"}
  BY DEF Blocks
<1>2. QED
  BY <1>1, SaidFirst, Results DEF Fresh

LEMMA ResultSame ==
  ASSUME NEW b \in Blocks \ {"timeouts"}, NEW k \in Nat \ {0}, NEW i \in 1..(k - 1),
         ~Sets(b, LineOf(b, k))
  PROVE  Result(b, i, k + 1) = Result(b, i, k)
<1>1. b \in {"time", "session", "ratelimit"}
  BY DEF Blocks
<1>2. \A keys, unsaid : Said(b, i, k + 1, keys, unsaid) = Said(b, i, k, keys, unsaid)
  BY SaidNext
<1>3. QED
  BY <1>1, <1>2, Results

LEMMA ResultSet ==
  ASSUME NEW b \in Blocks \ {"timeouts"}, NEW k \in Nat \ {0}, NEW i \in 1..(k - 1),
         Sets(b, LineOf(b, k))
  PROVE  Result(b, i, k + 1) = Assigned(b, Result(b, i, k), LineOf(b, k))
<1> DEFINE l == LineOf(b, k)
<1>1. \A keys, unsaid : Said(b, i, k + 1, keys, unsaid) =
            IF l.key \in keys THEN SaidBy(b, keys, l.rest) ELSE Said(b, i, k, keys, unsaid)
  BY SaidNext
<1>2. b \in {"time", "session", "ratelimit"} /\ l.key \in ConfKeys[b]
  BY DEF Blocks, Sets
<1> HIDE DEF l
<1>3. CASE b = "time"
  <2>1. \A keys : SaidBy("time", keys, l.rest) = l.rest.word
    BY DEF SaidBy
  <2>2. \A c : /\ l.key = "allowed" =>
                    Assigned("time", c, l) = [c EXCEPT !.range = l.rest.word]
               /\ l.key = "days" => Assigned("time", c, l) = [c EXCEPT !.days = l.rest.word]
    BY DEF Assigned
  <2>3. l.key \in {"allowed", "days"}
    BY <1>2, <1>3 DEF ConfKeys
  <2> DEFINE range == Said("time", i, k, {"allowed"}, NoWord)
             days == Said("time", i, k, {"days"}, NoWord)
  <2>4. /\ Said("time", i, k + 1, {"allowed"}, NoWord) =
                IF l.key = "allowed" THEN l.rest.word ELSE range
        /\ Said("time", i, k + 1, {"days"}, NoWord) =
                IF l.key = "days" THEN l.rest.word ELSE days
    BY <1>1, <1>3, <2>1
  <2>5. Result("time", i, k) = [range |-> range, days |-> days]
    BY Results
  <2> HIDE DEF range, days
  <2>6. Result("time", i, k + 1) =
            [range |-> IF l.key = "allowed" THEN l.rest.word ELSE range,
             days |-> IF l.key = "days" THEN l.rest.word ELSE days]
    BY <2>4, Results
  <2>7. Assigned("time", Result("time", i, k), l) = Result("time", i, k + 1)
    BY <2>2, <2>3, <2>5, <2>6
  <2>8. QED
    BY <1>3, <2>7 DEF l
<1>4. CASE b = "session"
  <2>1. SaidBy("session", {"session_time"}, l.rest) = parseTimeString(l.rest)
    BY DEF SaidBy
  <2>2. \A c : Assigned("session", c, l) = parseTimeString(l.rest)
    BY DEF Assigned
  <2>3. l.key \in {"session_time"}
    BY <1>2, <1>4 DEF ConfKeys
  <2>4. QED
    BY <1>1, <1>4, <2>1, <2>2, <2>3, Results DEF l
<1>5. CASE b = "ratelimit"
  <2>1. /\ SaidBy("ratelimit", {"n", "max_attempts"}, l.rest) = l.rest.num
        /\ SaidBy("ratelimit", {"x", "block_time"}, l.rest) = parseTimeString(l.rest)
    <3>1. {"x", "block_time"} # {"n", "max_attempts"}
      OBVIOUS
    <3>2. QED
      BY <3>1 DEF SaidBy
  <2>2. \A c : /\ Counts(l) => Assigned("ratelimit", c, l) = [c EXCEPT !.n = l.rest.num]
               /\ ~Counts(l) => Assigned("ratelimit", c, l)
                                    = [c EXCEPT !.x = parseTimeString(l.rest)]
    BY DEF Assigned
  <2>3. l.key \in {"n", "max_attempts", "x", "block_time"}
    BY <1>2, <1>5 DEF ConfKeys
  <2> DEFINE n == Said("ratelimit", i, k, {"n", "max_attempts"}, 3)
             x == Said("ratelimit", i, k, {"x", "block_time"}, 30)
  <2>4. /\ Said("ratelimit", i, k + 1, {"n", "max_attempts"}, 3) =
                IF Counts(l) THEN l.rest.num ELSE n
        /\ Said("ratelimit", i, k + 1, {"x", "block_time"}, 30) =
                IF Counts(l) THEN x ELSE parseTimeString(l.rest)
    BY <1>1, <1>5, <2>1, <2>3 DEF Counts
  <2>5. Result("ratelimit", i, k) = [n |-> n, x |-> x]
    BY Results
  <2> HIDE DEF n, x
  <2>6. Result("ratelimit", i, k + 1) =
            [n |-> IF Counts(l) THEN l.rest.num ELSE n,
             x |-> IF Counts(l) THEN x ELSE parseTimeString(l.rest)]
    BY <2>4, Results
  <2>7. Assigned("ratelimit", Result("ratelimit", i, k), l) = Result("ratelimit", i, k + 1)
    BY <2>2, <2>5, <2>6
  <2>8. QED
    BY <1>5, <2>7 DEF l
<1>6. QED
  BY <1>2, <1>3, <1>4, <1>5

-----------------------------------------------------------------------------
(***************************************************************************)
(* What each kind of line does to a loader of blocks.                      *)
(***************************************************************************)

Passes(b, l) ==
    /\ ~Opens(b, l) /\ ~Closes(b, l) /\ ~(inBlock /\ Sets(b, l))
    /\ UNCHANGED <<inBlock, current, config, tables>>

Opening(b, l) ==
    /\ Opens(b, l) /\ ~Sets(b, l)
    /\ inBlock' = TRUE /\ current' = BlockName(b, l) /\ tables' = tables
    /\ config' = IF b = "timeouts" THEN config ELSE Fresh[b]

Closing(b, l) ==
    /\ Closes(b, l) /\ ~Opens(b, l) /\ ~Sets(b, l)
    /\ inBlock' = FALSE /\ config' = config
    /\ tables' = IF inBlock /\ current # NoName
                 THEN [tables EXCEPT ![b][current] = config] ELSE tables

Setting(b, l) ==
    /\ inBlock /\ Sets(b, l) /\ ~Opens(b, l) /\ ~Closes(b, l) /\ ~Throws(b, l)
    /\ config' = Assigned(b, config, l)
    /\ UNCHANGED <<inBlock, current, tables>>

BlockLine ==
    /\ stage \in Blocks /\ UNCHANGED <<stage, confs>>
    /\ at \in 1..Len(confs[stage]) /\ at' = at + 1
    /\ \/ Passes(stage, LineOf(stage, at)) \/ Opening(stage, LineOf(stage, at))
       \/ Closing(stage, LineOf(stage, at)) \/ Setting(stage, LineOf(stage, at))

(* The other steps: one that leaves the loaders alone, a pattern, an       *)
(* abort, and the change from one loader to the next.                      *)
Aside == UNCHANGED loadVars

PatternLine ==
    /\ stage = "shell" /\ UNCHANGED <<stage, confs, tables>>

NextLoader ==
    /\ confs' = confs /\ at' = 1 /\ inBlock' = FALSE
    /\ \/ /\ stage = "permissions" /\ stage' = "timeouts"
          /\ UNCHANGED <<config, tables, patterns>> /\ config \in Garbage
       \/ /\ stage \in ConfFiles /\ stage' = Following[stage]
          /\ at > Len(confs[stage])
          /\ config' = IF stage' \in DOMAIN Fresh THEN Fresh[stage'] ELSE 0
          /\ tables' = IF stage = "ratelimit" THEN WithDefaultLimit(tables) ELSE tables
          /\ patterns' = IF stage = "shell" THEN PatternsAtEnd ELSE patterns

LEMMA LoadSteps ==
  ASSUME LoadTyped, [LoadNext]_<<vars, loadVars>>
  PROVE  Aside \/ BlockLine \/ PatternLine \/ Abort \/ NextLoader
<1>1. CASE UNCHANGED loadVars
  BY <1>1 DEF Aside
<1>2. ASSUME ReadingConf, NextConfLine, stage \in Blocks,
             \/ Passes(stage, ConfLineAt) \/ Opening(stage, ConfLineAt)
             \/ Closing(stage, ConfLineAt) \/ Setting(stage, ConfLineAt)
      PROVE  BlockLine
  BY <1>2, LineType DEF BlockLine, NextConfLine, LineOf, LoadTyped
<1>3. CASE SkipConfLine
  <2>1. CASE stage \in Blocks
    <3>1. Passes(stage, ConfLineAt)
      BY <1>3, <2>1
      DEF SkipConfLine, Passes, blockVars, keptVars, Opens, Closes, Sets
    <3>2. QED
      BY <1>2, <1>3, <2>1, <3>1 DEF SkipConfLine
  <2>2. CASE stage \notin Blocks
    BY <1>3, <2>2
    DEF SkipConfLine, ReadingConf, ConfFiles, PatternLine, NextConfLine, keptVars
  <2>3. QED
    BY <2>1, <2>2
<1>4. CASE SetDefault
  <2>1. stage = "timeouts" /\ stage \in Blocks
    BY <1>4 DEF SetDefault, SetsDefault, Blocks
  <2>2. Passes(stage, ConfLineAt)
    BY <1>4 DEF SetDefault, Passes, blockVars, Opens, Closes, Sets
  <2>3. QED
    BY <1>2, <1>4, <2>1, <2>2 DEF SetDefault
<1>5. CASE OpenBlock
  <2>1. Opening(stage, ConfLineAt)
    BY <1>5 DEF OpenBlock, Opening, keptVars, Sets
  <2>2. QED
    BY <1>2, <1>5, <2>1 DEF OpenBlock
<1>6. CASE CloseBlock
  <2>1. Closing(stage, ConfLineAt)
    BY <1>6 DEF CloseBlock, Closing, Closes, Sets
  <2>2. QED
    BY <1>2, <1>6, <2>1 DEF CloseBlock
<1>7. CASE SetInBlock
  <2>1. Setting(stage, ConfLineAt)
    BY <1>7 DEF SetInBlock, Setting, Closes, Sets, keptVars
  <2>2. QED
    BY <1>2, <1>7, <2>1 DEF SetInBlock
<1>8. CASE AddPattern
  BY <1>8 DEF AddPattern, PatternLine, NextConfLine
<1>9. CASE PermissionsDone
  <2>1. /\ stage = "permissions" /\ stage' = "timeouts"
        /\ UNCHANGED <<confs, at, inBlock, config, tables, patterns>>
    BY <1>9 DEF PermissionsDone, Following, blockVars, keptVars
  <2>2. at = 1 /\ inBlock = FALSE /\ config \in Garbage
    BY <2>1, Zenon DEF LoadTyped, NotBegun, LoadTypeOK
  <2>3. QED
    BY <2>1, <2>2 DEF NextLoader
<1>10. CASE FinishConf
  BY <1>10 DEF FinishConf, NextLoader
<1>11. QED
  BY <1>1, <1>3, <1>4, <1>5, <1>6, <1>7, <1>8, <1>9, <1>10 DEF LoadNext, LoadConfs

LEMMA AbortStep ==
  ASSUME Abort
  PROVE  stage \in Blocks /\ stage' = "aborted" /\ UNCHANGED <<confs, tables, patterns>>
BY DEF Abort, keptVars

LEMMA LoaderStep ==
  ASSUME NextLoader
  PROVE  /\ stage' # "permissions" /\ stage' # "aborted" /\ at' = 1 /\ ~inBlock'
         /\ stage' = "timeouts" => config' \in Garbage
BY DEF NextLoader, Following, ConfFiles, Blocks

(***************************************************************************)
(* The block a loader is in, and what its local variable stands for.       *)
(***************************************************************************)

(* From line i on, before line k, the lines of block m of file b have made *)
(* c of the settings.                                                      *)
MadeOf(b, i, k, m, c) ==
    /\ OpenSince(b, i, k) /\ BlockName(b, confs[b][i]) = m
    /\ b # "timeouts" => c = Result(b, i, k)

Within ==
  stage \in Blocks =>
    /\ inBlock <=> InsideBlock(stage, at)
    /\ inBlock => \E i \in 1..(at - 1) : MadeOf(stage, i, at, current, config)

LEMMA SameFiles ==
  ASSUME confs' = confs
  PROVE  /\ \A b, k : InsideBlock(b, k)' <=> InsideBlock(b, k)
         /\ \A b, i, k, m, c : MadeOf(b, i, k, m, c)' <=> MadeOf(b, i, k, m, c)
         /\ \A b, k : SetBefore(b, k)' = SetBefore(b, k)
         /\ \A b, i, j, m : Block(b, i, j, m)' <=> Block(b, i, j, m)
         /\ \A b, k : LineOf(b, k)' = LineOf(b, k)
<1>1. \A b, k : InsideBlock(b, k)' <=> InsideBlock(b, k)
  BY DEF InsideBlock
<1>2. \A b, i, k, m, c : MadeOf(b, i, k, m, c)' <=> MadeOf(b, i, k, m, c)
  BY DEF MadeOf, OpenSince, Result, Said, SetSince
<1>3. \A b, k : SetBefore(b, k)' = SetBefore(b, k)
  BY DEF SetBefore, InsideBlock
<1>4. \A b, i, j, m : Block(b, i, j, m)' <=> Block(b, i, j, m)
  BY DEF Block
<1>5. \A b, k : LineOf(b, k)' = LineOf(b, k)
  BY DEF LineOf
<1>6. QED
  BY <1>1, <1>2, <1>3, <1>4, <1>5

LEMMA MadeOfNext ==
  ASSUME NEW b \in Blocks, NEW k \in Nat \ {0}, NEW i \in 1..(k - 1), NEW m, NEW c,
         MadeOf(b, i, k, m, c), ~Opens(b, LineOf(b, k)), ~Closes(b, LineOf(b, k))
  PROVE  /\ ~Sets(b, LineOf(b, k)) => MadeOf(b, i, k + 1, m, c)
         /\ Sets(b, LineOf(b, k)) => MadeOf(b, i, k + 1, m, Assigned(b, c, LineOf(b, k)))
<1>1. OpenSince(b, i, k + 1)
  BY OpenNext DEF MadeOf
<1>2. CASE b = "timeouts"
  BY <1>1, <1>2 DEF MadeOf
<1>3. CASE b # "timeouts"
  BY <1>1, <1>3, ResultSame, ResultSet DEF MadeOf
<1>4. QED
  BY <1>2, <1>3

LEMMA WithinNext ==
  ASSUME LoadTyped, Within, [LoadNext]_<<vars, loadVars>>
  PROVE  Within'
<1>1. CASE Aside
  <2>1. UNCHANGED <<stage, confs, at, inBlock, current, config>>
    BY <1>1 DEF Aside, loadVars, fileVars, blockVars
  <2>2. QED
    BY <2>1, SameFiles DEF Within
<1>2. CASE PatternLine \/ Abort
  <2>1. stage' \notin Blocks
    BY <1>2, AbortStep DEF PatternLine, Blocks
  <2>2. QED
    BY <2>1 DEF Within
<1>3. CASE NextLoader
  <2>1. at' = 1 /\ ~inBlock'
    BY <1>3, LoaderStep
  <2>2. \A b : ~InsideBlock(b, 1)
    BY DEF InsideBlock
  <2>3. \A b : ~InsideBlock(b, at)'
    BY <1>3, <2>1, <2>2, SameFiles DEF NextLoader
  <2>4. QED
    BY <2>1, <2>3 DEF Within
<1>4. CASE BlockLine
  <2> DEFINE l == LineOf(stage, at)
  <2>1. /\ stage \in Blocks /\ stage' = stage /\ confs' = confs
        /\ at \in Nat \ {0} /\ at' = at + 1
    BY <1>4 DEF BlockLine, LoadTyped, LoadTypeOK
  <2>2. inBlock <=> InsideBlock(stage, at)
    BY <2>1 DEF Within
  <2>3. InsideBlock(stage, at + 1)
            <=> Opens(stage, l) \/ (InsideBlock(stage, at) /\ ~Closes(stage, l))
    BY <2>1, InsideNext
  <2>4. inBlock' <=> InsideBlock(stage, at + 1)
    BY <1>4, <2>2, <2>3 DEF BlockLine, Passes, Opening, Closing, Setting
  <2>5. ASSUME inBlock'
        PROVE  \E i \in 1..at : MadeOf(stage, i, at + 1, current', config')
    <3>1. CASE Opening(stage, l)
      <4>1. OpenSince(stage, at, at + 1) /\ BlockName(stage, confs[stage][at]) = current'
        BY <2>1, <3>1, OpenNext DEF Opening, LineOf
      <4>2. stage # "timeouts" => config' = Result(stage, at, at + 1)
        BY <2>1, <3>1, ResultFirst DEF Opening
      <4>3. at \in 1..at
        BY <2>1
      <4>4. QED
        BY <4>1, <4>2, <4>3 DEF MadeOf
    <3>2. CASE Passes(stage, l) \/ Setting(stage, l)
      <4>1. inBlock /\ ~Opens(stage, l) /\ ~Closes(stage, l) /\ current' = current
        BY <2>5, <3>2 DEF Passes, Setting
      <4>2. PICK i \in 1..(at - 1) : MadeOf(stage, i, at, current, config)
        BY <2>1, <4>1 DEF Within
      <4>3. MadeOf(stage, i, at + 1, current, config')
        BY <2>1, <3>2, <4>1, <4>2, MadeOfNext DEF Passes, Setting
      <4>4. i \in 1..at
        BY <2>1, <4>2
      <4>5. QED
        BY <4>1, <4>3, <4>4
    <3>3. QED
      BY <1>4, <2>5, <3>1, <3>2 DEF BlockLine, Closing
  <2>6. InsideBlock(stage, at)' <=> InsideBlock(stage, at + 1)
    BY <2>1, SameFiles
  <2>7. ASSUME NEW i \in 1..at
        PROVE  MadeOf(stage, i, at, current, config)'
                 <=> MadeOf(stage, i, at + 1, current', config')
    BY <2>1, SameFiles
  <2>8. 1..at = 1..(at' - 1)
    BY <2>1
  <2>9. QED
    BY <2>1, <2>4, <2>5, <2>6, <2>7, <2>8 DEF Within
<1>5. QED
  BY <1>1, <1>2, <1>3, <1>4, LoadSteps

LEMMA WithinInit == LoadInit => Within
  BY DEF LoadInit, Within, Blocks

LEMMA AlwaysWithin == LoadSpec => []Within
  BY WithinInit, WithinNext, AlwaysLoadTyped, PTL DEF LoadSpec

-----------------------------------------------------------------------------
(***************************************************************************)
(* Where what was kept comes from.                                         *)
(***************************************************************************)

LEMMA EntryStep ==
  ASSUME LoadTyped, [LoadNext]_<<vars, loadVars>>, NEW b \in Blocks, NEW m \in Names
  PROVE  \/ tables'[b][m] = tables[b][m]
         \/ /\ BlockLine /\ Closing(stage, LineOf(stage, at)) /\ inBlock
            /\ b = stage /\ m = current /\ tables'[b][m] = config
         \/ b = "ratelimit" /\ m = "default" /\ tables'[b][m] = Fresh.ratelimit
<1>1. CASE tables' = tables
  BY <1>1
<1>2. CASE BlockLine /\ tables' # tables
  <2>1. /\ Closing(stage, LineOf(stage, at)) /\ inBlock /\ stage \in Blocks
        /\ tables' = [tables EXCEPT ![stage][current] = config]
    BY <1>2 DEF BlockLine, Passes, Opening, Closing, Setting
  <2>2. current \in Names
    BY DEF LoadTyped, LoadTypeOK
  <2>3. DOMAIN tables = Blocks /\ \A d \in Blocks : DOMAIN tables[d] = Names
    BY DEF LoadTyped, LoadTypeOK
  <2>4. tables'[b][m] = IF b = stage /\ m = current THEN config ELSE tables[b][m]
    BY <2>1, <2>2, <2>3
  <2>5. QED
    BY <1>2, <2>1, <2>4
<1>3. CASE NextLoader /\ tables' # tables
  <2>1. tables' = [tables EXCEPT !["ratelimit"]["default"] = Fresh.ratelimit]
    BY <1>3 DEF NextLoader, WithDefaultLimit
  <2>2. "ratelimit" \in Blocks /\ "default" \in Names
    BY ConfigLoadAssumption DEF Blocks
  <2>3. tables'[b][m] = IF b = "ratelimit" /\ m = "default" THEN Fresh.ratelimit
                        ELSE tables[b][m]
    BY <2>1, <2>2, EntrySet DEF LoadTyped
  <2>4. QED
    BY <2>3
<1>4. QED
  BY <1>1, <1>2, <1>3, LoadSteps, AbortStep
  DEF Aside, loadVars, keptVars, PatternLine

LEMMA FilesKept ==
  ASSUME LoadTyped, [LoadNext]_<<vars, loadVars>>
  PROVE  confs' = confs
BY LoadSteps, AbortStep
DEF Aside, BlockLine, PatternLine, NextLoader, loadVars, fileVars

(* The block that a closing line ends. *)
LEMMA ClosedBlock ==
  ASSUME LoadTyped, Within, BlockLine, Closing(stage, LineOf(stage, at)), inBlock
  PROVE  \E i \in 1..Len(confs[stage]) :
            /\ Block(stage, i, at, current)
            /\ stage # "timeouts" => config = Result(stage, i, at)
<1>1. /\ stage \in Blocks /\ at \in 1..Len(confs[stage])
      /\ Closes(stage, LineOf(stage, at))
  BY DEF BlockLine, Closing
<1>2. confs[stage] \in Seq(ConfLine) /\ Len(confs[stage]) \in Nat
  BY <1>1, Assumed, Stages DEF LoadTyped, LoadTypeOK
<1>3. PICK i \in 1..(at - 1) : MadeOf(stage, i, at, current, config)
  BY <1>1 DEF Within
<1>4. i \in 1..Len(confs[stage]) /\ i < at
  BY <1>1, <1>2, <1>3
<1>5. Block(stage, i, at, current)
  BY <1>1, <1>3, <1>4 DEF MadeOf, OpenSince, Block, LineOf
<1>6. QED
  BY <1>3, <1>4, <1>5 DEF MadeOf

(* The value of the last line of permdown.cfg, before line k, that counts. *)
ValueBefore(k, c) ==
    LET set == SetBefore("timeouts", k) IN
    IF set = {} THEN c \in Garbage
    ELSE c = parseTimeString(confs["timeouts"][LastOf(set)].text)

LastValue == stage = "timeouts" => ValueBefore(at, config)

LEMMA ValueBeforeNext ==
  ASSUME NEW k \in Nat \ {0}, NEW c, ValueBefore(k, c)
  PROVE  IF InsideBlock("timeouts", k) /\ Sets("timeouts", LineOf("timeouts", k))
         THEN ValueBefore(k + 1, parseTimeString(LineOf("timeouts", k).text))
         ELSE ValueBefore(k + 1, c)
<1> DEFINE S == SetBefore("timeouts", k)
<1>1. CASE InsideBlock("timeouts", k) /\ Sets("timeouts", LineOf("timeouts", k))
  <2>1. SetBefore("timeouts", k + 1) = S \cup {k}
    BY <1>1, SetBeforeNext
  <2>2. \A n \in S : n \in Nat /\ n < k
    BY DEF SetBefore
  <2>3. LastOf(SetBefore("timeouts", k + 1)) = k /\ SetBefore("timeouts", k + 1) # {}
    BY <2>1, <2>2, LastOfAdded
  <2>4. QED
    BY <1>1, <2>3 DEF ValueBefore, LineOf
<1>2. CASE ~(InsideBlock("timeouts", k) /\ Sets("timeouts", LineOf("timeouts", k)))
  <2>1. SetBefore("timeouts", k + 1) = S
    <3>1. SetBefore("timeouts", k + 1) = S \cup {}
      BY <1>2, SetBeforeNext, Zenon
    <3>2. QED
      BY <3>1, Zenon
  <2>2. QED
    BY <1>2, <2>1 DEF ValueBefore
<1>3. QED
  BY <1>1, <1>2

LEMMA LastValueNext ==
  ASSUME LoadTyped, Within, LastValue, [LoadNext]_<<vars, loadVars>>
  PROVE  LastValue'
<1> SUFFICES ASSUME stage' = "timeouts" PROVE ValueBefore(at, config)'
  BY DEF LastValue
<1>f. \A k, c : ValueBefore(k, c)' <=> ValueBefore(k, c)
  BY FilesKept, SameFiles DEF ValueBefore
<1>1. CASE Aside
  BY <1>1, <1>f DEF Aside, loadVars, fileVars, blockVars, LastValue
<1>2. CASE PatternLine \/ Abort
  BY <1>2, AbortStep DEF PatternLine
<1>3. CASE NextLoader
  <2>1. at' = 1 /\ config' \in Garbage
    BY <1>3, LoaderStep
  <2>2. SetBefore("timeouts", 1) = {}
    BY DEF SetBefore
  <2>3. ValueBefore(1, config')
    BY <2>1, <2>2 DEF ValueBefore
  <2>4. QED
    BY <1>f, <2>1, <2>3
<1>4. CASE BlockLine
  <2> DEFINE l == LineOf(stage, at)
  <2>1. stage = "timeouts" /\ at \in Nat \ {0} /\ at' = at + 1
    BY <1>4 DEF BlockLine, LoadTyped, LoadTypeOK
  <2>2. ValueBefore(at, config) /\ (inBlock <=> InsideBlock("timeouts", at))
    BY <2>1 DEF LastValue, Within, Blocks
  <2>3. IF inBlock /\ Sets("timeouts", l) THEN ValueBefore(at + 1, parseTimeString(l.text))
        ELSE ValueBefore(at + 1, config)
    BY <2>1, <2>2, ValueBeforeNext
  <2>4. \A c : Assigned("timeouts", c, l) = parseTimeString(l.text)
    BY DEF Assigned
  <2>5. config' = IF inBlock /\ Sets("timeouts", l) THEN parseTimeString(l.text) ELSE config
    BY <1>4, <2>1, <2>4 DEF BlockLine, Passes, Opening, Closing, Setting
  <2>6. ValueBefore(at + 1, config')
    BY <2>3, <2>5
  <2>7. QED
    BY <1>f, <2>1, <2>6
<1>5. QED
  BY <1>1, <1>2, <1>3, <1>4, LoadSteps

HasOrigin(m, v) ==
    \E i, j \in 1..Len(confs["timeouts"]) : Block("timeouts", i, j, m) /\ ValueBefore(j, v)

LEMMA OriginNext ==
  ASSUME LoadTyped, Within, LastValue, TimeoutOrigin, [LoadNext]_<<vars, loadVars>>
  PROVE  TimeoutOrigin'
<1>1. \A m, v : HasOrigin(m, v)' <=> HasOrigin(m, v)
  BY FilesKept, SameFiles DEF HasOrigin, ValueBefore
<1>2. ASSUME NEW m \in Names, tables'["timeouts"][m] # NoEntry
      PROVE  HasOrigin(m, tables'["timeouts"][m])
  <2>1. CASE tables'["timeouts"][m] = tables["timeouts"][m]
    BY <1>2, <2>1 DEF TimeoutOrigin, HasOrigin, ValueBefore
  <2>2. CASE /\ BlockLine /\ Closing(stage, LineOf(stage, at)) /\ inBlock
             /\ stage = "timeouts" /\ m = current /\ tables'["timeouts"][m] = config
    <3>1. PICK i \in 1..Len(confs[stage]) : Block(stage, i, at, current)
      BY <2>2, ClosedBlock
    <3>2. at \in 1..Len(confs[stage])
      BY <2>2 DEF BlockLine
    <3>3. ValueBefore(at, config)
      BY <2>2 DEF LastValue
    <3>4. QED
      BY <2>2, <3>1, <3>2, <3>3 DEF HasOrigin
  <2>3. QED
    BY <2>1, <2>2, EntryStep DEF Blocks
<1>3. \A m \in Names : tables'["timeouts"][m] # NoEntry
                            => HasOrigin(m, tables["timeouts"][m])'
  BY <1>1, <1>2
<1>4. QED
  BY <1>3 DEF TimeoutOrigin, HasOrigin, ValueBefore

(* TimeoutOrigin: a command's timeout is the last value of its own block,  *)
(* or of whichever block had one last, or what was on the stack.           *)
THEOREM TimeoutsHaveOrigins == LoadSpec => []TimeoutOrigin
<1>1. LoadInit => LastValue /\ TimeoutOrigin
  BY DEF LoadInit, LastValue, TimeoutOrigin, Blocks
<1> QED
  BY <1>1, LastValueNext, OriginNext, AlwaysLoadTyped, AlwaysWithin, PTL DEF LoadSpec

HasBlock(b, m, c) ==
    \/ b = "ratelimit" /\ m = "default" /\ c = Fresh.ratelimit
    \/ \E i, j \in 1..Len(confs[b]) : Block(b, i, j, m) /\ c = Result(b, i, j)

LEMMA OwnBlockNext ==
  ASSUME LoadTyped, Within, SettingsFromOwnBlock, [LoadNext]_<<vars, loadVars>>
  PROVE  SettingsFromOwnBlock'
<1>1. \A b, m, c : HasBlock(b, m, c)' <=> HasBlock(b, m, c)
  <2>1. confs' = confs
    BY FilesKept
  <2>2. \A b, i, k : Result(b, i, k)' = Result(b, i, k)
    BY <2>1 DEF Result, Said, SetSince
  <2>3. QED
    BY <2>1, <2>2, SameFiles DEF HasBlock
<1>2. ASSUME NEW b \in Blocks \ {"timeouts"}, NEW m \in Names, tables'[b][m] # NoEntry
      PROVE  HasBlock(b, m, tables'[b][m])
  <2>1. CASE tables'[b][m] = tables[b][m]
    BY <1>2, <2>1 DEF SettingsFromOwnBlock, HasBlock
  <2>2. CASE /\ BlockLine /\ Closing(stage, LineOf(stage, at)) /\ inBlock
             /\ b = stage /\ m = current /\ tables'[b][m] = config
    <3>1. PICK i \in 1..Len(confs[stage]) :
            Block(stage, i, at, current) /\ config = Result(stage, i, at)
      BY <2>2, ClosedBlock
    <3>2. at \in 1..Len(confs[stage])
      BY <2>2 DEF BlockLine
    <3>3. QED
      BY <2>2, <3>1, <3>2 DEF HasBlock
  <2>3. CASE b = "ratelimit" /\ m = "default" /\ tables'[b][m] = Fresh.ratelimit
    BY <2>3 DEF HasBlock
  <2>4. QED
    BY <2>1, <2>2, <2>3, EntryStep
<1>3. \A b \in Blocks \ {"timeouts"}, m \in Names :
        tables'[b][m] # NoEntry => HasBlock(b, m, tables[b][m])'
  BY <1>1, <1>2
<1>4. QED
  BY <1>3 DEF SettingsFromOwnBlock, HasBlock

(* SettingsFromOwnBlock: a group's times and session and a user's limits   *)
(* are those of one block of their own.                                    *)
THEOREM SettingsAreTheirOwn == LoadSpec => []SettingsFromOwnBlock
<1>1. LoadInit => SettingsFromOwnBlock
  BY DEF LoadInit, SettingsFromOwnBlock
<1> QED
  BY <1>1, OwnBlockNext, AlwaysLoadTyped, AlwaysWithin, PTL DEF LoadSpec

-----------------------------------------------------------------------------
(***************************************************************************)
(* Bad numbers.                                                            *)
(***************************************************************************)

(* The files of blocks that are read when a loader runs. *)
ReadBefore == [permissions |-> {}, timeouts |-> {}, shell |-> {"timeouts"},
               time |-> {"timeouts"}, session |-> {"timeouts", "time"},
               ratelimit |-> {"timeouts", "time", "session"}, loaded |-> Blocks]

SomeBad(b) == \E k \in 1..Len(confs[b]) : BadLine(b, k)

BadBefore(b, n) == \E k \in 1..(n - 1) : BadLine(b, k)

GoodSoFar ==
    /\ stage # "aborted" => \A b \in ReadBefore[stage] : ~SomeBad(b)
    /\ stage \in Blocks => ~BadBefore(stage, at)
    /\ stage = "aborted" => \E b \in Blocks : SomeBad(b)

(* What a step reads, and whether it was bad. *)
GoodLine == stage \in Blocks /\ stage' = stage /\ at' = at + 1 /\ ~BadLine(stage, at)

FatalLine ==
    /\ stage \in Blocks /\ stage' = "aborted"
    /\ at \in 1..Len(confs[stage]) /\ BadLine(stage, at)

LastLine == stage \in ConfFiles /\ at > Len(confs[stage])
                                /\ stage' = Following[stage] /\ at' = 1

LEMMA BadSteps ==
  ASSUME LoadTyped, Within, [LoadNext]_<<vars, loadVars>>
  PROVE  \/ stage' = stage /\ at' = at
         \/ GoodLine \/ FatalLine \/ LastLine
         \/ stage = "shell" /\ stage' = stage
         \/ stage = "permissions" /\ stage' = "timeouts" /\ at' = 1
<1>1. ASSUME stage \in Blocks PROVE inBlock <=> InsideBlock(stage, at)
  BY <1>1 DEF Within
<1>2. CASE UNCHANGED loadVars
  BY <1>2 DEF loadVars, fileVars
<1>3. CASE SkipConfLine
  <2>1. CASE stage \in Blocks
    <3>1. ~BadLine(stage, at)
      BY <1>1, <1>3, <2>1 DEF SkipConfLine, ConfLineAt, BadLine
    <3>2. QED
      BY <1>3, <2>1, <3>1 DEF SkipConfLine, NextConfLine, GoodLine
  <2>2. CASE stage \notin Blocks
    BY <1>3, <2>2 DEF SkipConfLine, ReadingConf, ConfFiles, NextConfLine
  <2>3. QED
    BY <2>1, <2>2
<1>4. CASE SetDefault
  <2>1. stage \in Blocks
    BY <1>4 DEF SetDefault, SetsDefault, Blocks
  <2>2. ~BadLine(stage, at)
    BY <1>4 DEF SetDefault, ConfLineAt, BadLine, Sets
  <2>3. QED
    BY <1>4, <2>1, <2>2 DEF SetDefault, NextConfLine, GoodLine
<1>5. CASE OpenBlock
  <2>1. ~BadLine(stage, at)
    BY <1>5 DEF OpenBlock, ConfLineAt, BadLine, Opens, Sets
  <2>2. QED
    BY <1>5, <2>1 DEF OpenBlock, NextConfLine, GoodLine
<1>6. CASE CloseBlock
  <2>1. ~BadLine(stage, at)
    BY <1>6 DEF CloseBlock, ConfLineAt, BadLine, Closes, Sets
  <2>2. QED
    BY <1>6, <2>1 DEF CloseBlock, NextConfLine, GoodLine
<1>7. CASE SetInBlock
  <2>1. ~BadLine(stage, at)
    BY <1>7 DEF SetInBlock, ConfLineAt, BadLine, Sets
  <2>2. QED
    BY <1>7, <2>1 DEF SetInBlock, NextConfLine, GoodLine
<1>8. CASE Abort
  <2>1. BadLine(stage, at)
    BY <1>1, <1>8 DEF Abort, ConfLineAt, BadLine
  <2>2. stage \in Blocks /\ stage' = "aborted" /\ at <= Len(confs[stage])
    BY <1>8 DEF Abort, ReadingConf
  <2>3. at \in 1..Len(confs[stage])
    BY <2>2, LineType, <1>8 DEF Abort, LoadTyped
  <2>4. QED
    BY <2>1, <2>2, <2>3 DEF FatalLine
<1>9. CASE AddPattern
  BY <1>9 DEF AddPattern, NextConfLine
<1>10. CASE PermissionsDone
  <2>1. at = 1
    BY <1>10, Zenon DEF PermissionsDone, LoadTyped, NotBegun
  <2>2. QED
    BY <1>10, <2>1 DEF PermissionsDone, Following
<1>11. CASE FinishConf
  BY <1>11 DEF FinishConf, LastLine
<1>12. QED
  BY <1>2, <1>3, <1>4, <1>5, <1>6, <1>7, <1>8, <1>9, <1>10, <1>11
  DEF LoadNext, LoadConfs

LEMMA GoodNext ==
  ASSUME LoadTyped, Within, GoodSoFar, [LoadNext]_<<vars, loadVars>>
  PROVE  GoodSoFar'
<1>1. \A b, k : BadLine(b, k)' <=> BadLine(b, k)
  BY FilesKept, SameFiles DEF BadLine
<1>2. /\ \A b : SomeBad(b)' <=> SomeBad(b)
      /\ \A b, n : BadBefore(b, n)' <=> BadBefore(b, n)
  BY <1>1, FilesKept DEF SomeBad, BadBefore
<1>3. \A b : ~BadBefore(b, 1)
  BY DEF BadBefore
<1>4. CASE stage' = stage /\ at' = at
  BY <1>2, <1>4 DEF GoodSoFar
<1>5. CASE GoodLine
  <2>1. at \in Nat \ {0} /\ stage # "aborted" /\ stage' # "aborted"
    BY <1>5, Stages DEF GoodLine, LoadTyped, LoadTypeOK
  <2>2. 1..(at + 1 - 1) = (1..(at - 1)) \cup {at}
    BY <2>1
  <2>3. ~BadBefore(stage, at + 1)
    BY <1>5, <2>2 DEF GoodLine, GoodSoFar, BadBefore
  <2>4. QED
    BY <1>2, <1>5, <2>1, <2>3 DEF GoodLine, GoodSoFar
<1>6. CASE FatalLine
  <2>1. SomeBad(stage) /\ stage \in Blocks /\ stage' = "aborted" /\ stage' \notin Blocks
    BY <1>6, Stages DEF FatalLine, SomeBad
  <2>2. QED
    BY <1>2, <2>1 DEF GoodSoFar
<1>7. CASE LastLine
  <2>1. /\ stage \in ConfFiles /\ stage' = Following[stage] /\ at' = 1
        /\ stage # "aborted" /\ stage' # "aborted"
    BY <1>7, Stages DEF LastLine
  <2>2. ReadBefore[Following[stage]] \subseteq
            ReadBefore[stage] \cup (IF stage \in Blocks THEN {stage} ELSE {})
    BY <2>1 DEF ReadBefore, Following, ConfFiles, Blocks
  <2>3. ASSUME stage \in Blocks PROVE ~SomeBad(stage)
    <3>1. confs[stage] \in Seq(ConfLine) /\ at \in Nat
      BY <2>1, Assumed DEF LoadTyped, LoadTypeOK
    <3>2. Len(confs[stage]) \in Nat /\ Len(confs[stage]) < at
      BY <1>7, <3>1 DEF LastLine
    <3>3. \A k \in 1..Len(confs[stage]) : k \in 1..(at - 1)
      BY <3>1, <3>2
    <3>4. QED
      BY <2>3, <3>3 DEF GoodSoFar, BadBefore, SomeBad
  <2>4. \A b \in ReadBefore[stage'] : ~SomeBad(b)
    BY <2>1, <2>2, <2>3 DEF GoodSoFar
  <2>5. QED
    BY <1>2, <1>3, <2>1, <2>4 DEF GoodSoFar
<1>8. CASE stage = "shell" /\ stage' = stage
  BY <1>2, <1>8 DEF GoodSoFar, Blocks
<1>9. CASE stage = "permissions" /\ stage' = "timeouts" /\ at' = 1
  BY <1>2, <1>3, <1>9 DEF GoodSoFar, ReadBefore
<1>10. QED
  BY <1>4, <1>5, <1>6, <1>7, <1>8, <1>9, BadSteps

(* AbortsOnBadNumbers: loading fails on a number that is none or too large *)
(* where it counts, and on nothing else.                                   *)
THEOREM BadNumbersAbort == LoadSpec => []AbortsOnBadNumbers
<1>1. LoadInit => GoodSoFar
  BY DEF LoadInit, GoodSoFar, ReadBefore, Blocks
<1>2. GoodSoFar => AbortsOnBadNumbers
  BY DEF GoodSoFar, ReadBefore, SomeBad, AbortsOnBadNumbers
<1> QED
  BY <1>1, <1>2, GoodNext, AlwaysLoadTyped, AlwaysWithin, PTL DEF LoadSpec

(* A command that is listed is among the patterns it matches. *)
LEMMA OneMatch ==
  ASSUME NEW c \in Names \cap {m[1] : m \in Matches},
         NEW p, MatchingTimeouts(c) = {p}
  PROVE  getCommandTimeout(c) = tables["timeouts"][p]
<1>1. <<c, c>> \in Matches
  BY ConfigLoadAssumption
<1>2. CASE c \in Listed
  <2>1. c \in MatchingTimeouts(c)
    BY <1>1, <1>2 DEF MatchingTimeouts
  <2>2. QED
    BY <1>2, <2>1 DEF getCommandTimeout
<1>3. CASE c \notin Listed
  <2>1. p \in Names
    BY DEF MatchingTimeouts, Listed
  <2>2. MapOrder[p] <= MapOrder[p]
    BY <2>1, ConfigLoadAssumption
  <2>3. (CHOOSE q \in {p} : \A s \in {p} : MapOrder[q] <= MapOrder[s]) = p
    BY <2>2
  <2>4. getCommandTimeout(c) = tables["timeouts"][CHOOSE q \in {p} :
                                    \A s \in {p} : MapOrder[q] <= MapOrder[s]]
    BY <1>3 DEF getCommandTimeout
  <2>5. QED
    BY <2>3, <2>4
<1>4. QED
  BY <1>2, <1>3

LEMMA NoMatch ==
  ASSUME NEW c \in Names \cap {m[1] : m \in Matches}, MatchingTimeouts(c) = {}
  PROVE  getCommandTimeout(c) = defaultTimeout
<1>1. <<c, c>> \in Matches
  BY ConfigLoadAssumption
<1>2. c \notin Listed
  BY <1>1 DEF MatchingTimeouts
<1>3. QED
  BY <1>2 DEF getCommandTimeout

(* SpellingKeepsTimeout: commands that match the same pattern, and no      *)
(* other, get the same timeout.                                            *)
THEOREM OneMatchOneTimeout == LoadSpec => []SpellingKeepsTimeout
<1>1. ASSUME NEW c \in Names \cap {m[1] : m \in Matches},
             NEW d \in Names \cap {m[1] : m \in Matches},
             MatchingTimeouts(c) = MatchingTimeouts(d),
             Cardinality(MatchingTimeouts(c)) <= 1
      PROVE  getCommandTimeout(c) = getCommandTimeout(d)
  <2>1. MatchingTimeouts(c) \subseteq Names /\ IsFiniteSet(Names)
    BY ConfigLoadAssumption DEF MatchingTimeouts, Listed
  <2>2. IsFiniteSet(MatchingTimeouts(c))
    BY <2>1, FS_Subset
  <2>3. Cardinality(MatchingTimeouts(c)) \in Nat
    BY <2>2, FS_CardinalityType
  <2>4. CASE Cardinality(MatchingTimeouts(c)) = 0
    <3>1. MatchingTimeouts(c) = {}
      BY <2>2, <2>4, FS_EmptySet
    <3>2. QED
      BY <1>1, <3>1, NoMatch
  <2>5. CASE Cardinality(MatchingTimeouts(c)) = 1
    <3>1. PICK p : MatchingTimeouts(c) = {p}
      BY <2>2, <2>5, FS_Singleton
    <3>2. QED
      BY <1>1, <3>1, OneMatch
  <2>6. QED
    BY <1>1, <2>3, <2>4, <2>5
<1>2. SpellingKeepsTimeout
  BY <1>1 DEF SpellingKeepsTimeout
<1> QED
  BY <1>2, PTL

(* The names in S are commands, and Matches is isCommandMatch for them.    *)
MatchesAreTexts(S, spelled) ==
    \A c \in S, p \in Names :
        <<c, p>> \in Matches <=> p \in S /\ isCommandMatch(spelled[c], spelled[p])

(* Two spellings of a command find the same timeouts. *)
LEMMA SameTimeouts ==
  ASSUME NEW S \in SUBSET Names, NEW spelled \in [S -> Seq(Word)],
         MatchesAreTexts(S, spelled),
         NEW c \in S, NEW d \in S, spelled[d] \in OtherSpellings(spelled[c])
  PROVE  /\ c \in Names \cap {m[1] : m \in Matches}
         /\ MatchingTimeouts(c) = MatchingTimeouts(d)
<1>1. spelled[c] \in Seq(Word)
  OBVIOUS
<1>2. normalizeCommand(spelled[d]) = normalizeCommand(spelled[c])
  BY <1>1, SameNormalized
<1>3. \A p \in S : isCommandMatch(spelled[c], spelled[p])
                    <=> isCommandMatch(spelled[d], spelled[p])
  BY <1>2 DEF isCommandMatch
<1>4. \A p \in Names : <<c, p>> \in Matches <=> <<d, p>> \in Matches
  BY <1>3 DEF MatchesAreTexts
<1>5. MatchingTimeouts(c) = MatchingTimeouts(d)
  BY <1>4 DEF MatchingTimeouts, Listed
<1>6. isCommandMatch(spelled[c], spelled[c])
  BY <1>1, MatchesItself
<1>7. <<c, c>> \in Matches /\ <<c, c>>[1] = c
  BY <1>6 DEF MatchesAreTexts
<1>8. QED
  BY <1>5, <1>7

(* What the timeout of a spelling is to be. *)
SpellingsKeepTimeout(S, spelled) ==
    stage = "loaded" => \A c, d \in S :
        (spelled[d] \in OtherSpellings(spelled[c]) /\ Cardinality(MatchingTimeouts(c)) <= 1)
            => getCommandTimeout(c) = getCommandTimeout(d)

(* SpellingsKeepTimeout, of the loader and isCommandMatch together: rm     *)
(* -rf, rm -fr and rm -r -f get the same timeout from any permdown.cfg of  *)
(* which no two entries match them.                                        *)
THEOREM OtherSpellingsKeepTimeout ==
  ASSUME NEW CONSTANT S \in SUBSET Names, NEW CONSTANT spelled \in [S -> Seq(Word)],
         MatchesAreTexts(S, spelled)
  PROVE  LoadSpec => []SpellingsKeepTimeout(S, spelled)
<1>1. SpellingKeepsTimeout => SpellingsKeepTimeout(S, spelled)
  <2> SUFFICES ASSUME SpellingKeepsTimeout, stage = "loaded", NEW c \in S, NEW d \in S,
                      spelled[d] \in OtherSpellings(spelled[c]),
                      Cardinality(MatchingTimeouts(c)) <= 1
               PROVE  getCommandTimeout(c) = getCommandTimeout(d)
    BY DEF SpellingsKeepTimeout
  <2>1. /\ c \in Names \cap {m[1] : m \in Matches}
        /\ MatchingTimeouts(c) = MatchingTimeouts(d)
    BY SameTimeouts
  <2>2. d \in Names \cap {m[1] : m \in Matches}
    <3>1. isCommandMatch(spelled[d], spelled[d])
      BY MatchesItself
    <3>2. <<d, d>> \in Matches /\ <<d, d>>[1] = d
      BY <3>1 DEF MatchesAreTexts
    <3>3. QED
      BY <3>2
  <2>3. QED
    BY <2>1, <2>2 DEF SpellingKeepsTimeout
<1>2. QED
  BY <1>1, OneMatchOneTimeout, PTL

-----------------------------------------------------------------------------
(***************************************************************************)
(* The times of permup.time, at any minute of any day.                     *)
(***************************************************************************)

GroupTimes == Seq(TimeConfig \cup {NoBlock})
ClockOK == now \in MinutesOfDay /\ today \in DayNames /\ groupTimes \in GroupTimes \cup {NoTime}

LEMMA AlwaysClockOK == ClockSpec => []ClockOK
<1>1. ClockInit => ClockOK
  BY DEF ClockInit, ClockOK, DayNames, Days, MinutesOfDay
<1>2. ASSUME ClockOK, CheckTime PROVE ClockOK'
  <2>1. now' \in MinutesOfDay /\ groupTimes' \in GroupTimes
    BY <1>2, TimesAssumption DEF CheckTime, GroupTimes
  <2>2. today' \in DayNames
    BY <1>2 DEF CheckTime
  <2>3. QED
    BY <2>1, <2>2 DEF ClockOK
<1>3. ASSUME ClockOK, UNCHANGED clockVars PROVE ClockOK'
  BY <1>3 DEF ClockOK, clockVars
<1>4. QED
  BY <1>1, <1>2, <1>3, PTL DEF ClockSpec

(* Around a circle of n, from s it is no further to t than to e. *)
NoFurther(t, s, e, n) == (t - s) % n <= (e - s) % n

LEMMA HourCircle ==
  ASSUME NEW t \in MinutesOfDay, NEW s \in MinutesOfDay, NEW e \in MinutesOfDay
  PROVE  Between(t, s, e) <=> NoFurther(t, s, e, 1440)
<1>1. ASSUME NEW a \in -1439..1439
      PROVE  a % 1440 = IF a >= 0 THEN a ELSE a + 1440
  OBVIOUS
<1>2. t - s \in -1439..1439 /\ e - s \in -1439..1439
  BY DEF MinutesOfDay
<1>3. QED
  BY <1>1, <1>2 DEF Between, NoFurther, MinutesOfDay

LEMMA DayCircle ==
  ASSUME NEW t \in 1..7, NEW s \in 1..7, NEW e \in 1..7
  PROVE  Between(t, s, e) <=> NoFurther(t, s, e, 7)
<1>1. ASSUME NEW a \in -6..6 PROVE a % 7 = IF a >= 0 THEN a ELSE a + 7
  OBVIOUS
<1>2. t - s \in -6..6 /\ e - s \in -6..6
  OBVIOUS
<1>3. QED
  BY <1>1, <1>2 DEF Between, NoFurther

LEMMA DayIndex ==
  ASSUME NEW d \in DayNames
  PROVE  IndexOfDay(d) \in 1..7 /\ Days[IndexOfDay(d)] = d
<1>1. \E k \in 1..7 : Days[k] = d
  BY DEF DayNames
<1>2. QED
  BY <1>1 DEF IndexOfDay

(* A proper time is a minute of the day, or the one after its last. *)
LEMMA ProperMinute ==
  ASSUME NEW x \in TimeText, ProperTime(x)
  PROVE  MinuteOf(x) \in MinutesOfDay \cup {1440}
<1>1. CASE x.hour \in 0..23 /\ x.minute \in 0..59
  <2> DEFINE h == x.hour  m == x.minute
  <2>1. h \in 0..23 /\ m \in 0..59 /\ MinuteOf(x) = h * 60 + m
    BY <1>1 DEF MinuteOf
  <2> HIDE DEF h, m
  <2>2. h * 60 + m \in 0..1439
    BY <2>1
  <2>3. QED
    BY <2>1, <2>2 DEF MinutesOfDay
<1>2. CASE x.hour = 24 /\ x.minute = 0
  BY <1>2 DEF MinuteOf
<1>3. QED
  BY <1>1, <1>2 DEF ProperTime

(* 24:00 ends a day as 23:59 and begins one as 00:00. *)
LEMMA HoursAreCircular ==
  ASSUME now \in MinutesOfDay, NEW r \in TimeRange,
         ProperTime(r.start), ProperTime(r.end)
  PROVE  Between(now, MinuteOf(r.start), MinuteOf(r.end)) <=> InHours(r)
<1> DEFINE s == MinuteOf(r.start)
           e == MinuteOf(r.end)
           f == IF s = 1440 THEN 0 ELSE s
           l == IF e = 1440 THEN 1439 ELSE e
<1>1. r.start \in TimeText /\ r.end \in TimeText
  BY DEF TimeRange
<1>2. s \in MinutesOfDay \cup {1440} /\ e \in MinutesOfDay \cup {1440}
  BY <1>1, ProperMinute
<1>3. InHours(r) <=> ~(s = 1440 /\ e = 1440) /\ NoFurther(now, f, l, 1440)
  BY DEF InHours, NoFurther
<1> HIDE DEF s, e
<1>4. f \in MinutesOfDay /\ l \in MinutesOfDay
  BY <1>2 DEF MinutesOfDay
<1>5. Between(now, f, l) <=> NoFurther(now, f, l, 1440)
  BY <1>4, HourCircle
<1>6. Between(now, s, e) <=> ~(s = 1440 /\ e = 1440) /\ Between(now, f, l)
  BY <1>2 DEF Between, MinutesOfDay
<1>7. QED
  BY <1>3, <1>5, <1>6 DEF s, e

(* A day alone is a range that ends where it starts. *)
LEMMA DaysAreCircular ==
  ASSUME today \in DayNames, NEW S \in SUBSET DayRange
  PROVE  isDayInRange(S) <=> InDays(S)
<1> DEFINE Code(r) == \/ /\ r.dash /\ {r.start, r.end} \subseteq DayNames
                         /\ Between(IndexOfDay(today), IndexOfDay(r.start), IndexOfDay(r.end))
                      \/ ~r.dash /\ r.start = today
           Means(r) == LET last == IF r.dash THEN r.end ELSE r.start IN
                       /\ {r.start, last} \subseteq DayNames
                       /\ NoFurther(IndexOfDay(today), IndexOfDay(r.start), IndexOfDay(last), 7)
<1>1. ASSUME NEW r \in DayRange PROVE Code(r) <=> Means(r)
  <2> DEFINE t == IndexOfDay(today)
             s == IndexOfDay(r.start)
             e == IndexOfDay(r.end)
  <2>1. r.dash \in BOOLEAN
    BY DEF DayRange
  <2>2. CASE r.dash
    <3>1. CASE {r.start, r.end} \subseteq DayNames
      <4>1. t \in 1..7 /\ s \in 1..7 /\ e \in 1..7
        BY <3>1, DayIndex
      <4>2. Between(t, s, e) <=> NoFurther(t, s, e, 7)
        BY <4>1, DayCircle
      <4>3. QED
        BY <2>2, <3>1, <4>2
    <3>2. CASE ~({r.start, r.end} \subseteq DayNames)
      BY <2>2, <3>2
    <3>3. QED
      BY <3>1, <3>2
  <2>3. CASE ~r.dash
    <3>1. CASE r.start \in DayNames
      <4>1. t \in 1..7 /\ s \in 1..7 /\ (r.start = today <=> s = t)
        BY <3>1, DayIndex
      <4>2. Between(t, s, s) <=> NoFurther(t, s, s, 7)
        BY <4>1, DayCircle
      <4>3. Between(t, s, s) <=> s = t
        BY <4>1 DEF Between
      <4>4. QED
        BY <2>3, <3>1, <4>1, <4>2, <4>3
    <3>2. CASE r.start \notin DayNames
      BY <2>3, <3>2
    <3>3. QED
      BY <3>1, <3>2
  <2>4. QED
    BY <2>1, <2>2, <2>3
<1>2. isDayInRange(S) <=> \E r \in S : Code(r)
  BY DEF isDayInRange
<1>3. InDays(S) <=> \E r \in S : Means(r)
  BY DEF InDays, NoFurther
<1> HIDE DEF Code, Means
<1>4. QED
  BY <1>1, <1>2, <1>3

(* What a block decides. *)
LEMMA BlockDecides ==
  ASSUME ClockOK, NEW c \in TimeConfig, Understood(c)
  PROVE  /\ checkTimeConfig(c) \in {"yes", "no", "throws"}
         /\ checkTimeConfig(c) = "yes" <=> InTime(c)
         /\ checkTimeConfig(c) = "throws" <=> Faulty(c)
<1>1. /\ c.time \in TimeRange /\ c.days \in SUBSET DayRange
      /\ c.timeGiven \in BOOLEAN /\ c.daysGiven \in BOOLEAN
  BY DEF TimeConfig
<1>2. isDayInRange(c.days) <=> InDays(c.days)
  BY <1>1, DaysAreCircular DEF ClockOK
<1> DEFINE hours == IF c.timeGiven THEN isTimeInRange(c.time) ELSE "yes"
<1>3. /\ hours \in {"yes", "no", "throws"}
      /\ hours = "yes" <=> (c.timeGiven => Shaped(c.time) /\ ~Faulty(c) /\ InHours(c.time))
      /\ hours = "throws" <=> Faulty(c)
  <2>1. CASE ~c.timeGiven
    BY <2>1 DEF Faulty
  <2>2. CASE c.timeGiven /\ ~Shaped(c.time)
    BY <2>2 DEF Faulty, isTimeInRange
  <2>3. CASE c.timeGiven /\ Shaped(c.time) /\ Faulty(c)
    BY <2>3 DEF Faulty, isTimeInRange
  <2>4. CASE c.timeGiven /\ Shaped(c.time) /\ ~Faulty(c)
    <3>1. ProperTime(c.time.start) /\ ProperTime(c.time.end)
      BY <2>4 DEF Understood
    <3>2. Between(now, MinuteOf(c.time.start), MinuteOf(c.time.end)) <=> InHours(c.time)
      BY <1>1, <3>1, HoursAreCircular DEF ClockOK
    <3>3. isTimeInRange(c.time) = IF InHours(c.time) THEN "yes" ELSE "no"
      BY <2>4, <3>2 DEF isTimeInRange, Faulty
    <3>4. QED
      BY <2>4, <3>3
  <2>5. QED
    BY <2>1, <2>2, <2>3, <2>4
<1>4. checkTimeConfig(c) = IF hours = "yes" /\ c.daysGiven /\ ~isDayInRange(c.days)
                           THEN "no" ELSE hours
  BY DEF checkTimeConfig
<1> HIDE DEF hours
<1>5. Faulty(c) => ~(c.timeGiven => Shaped(c.time) /\ ~Faulty(c) /\ InHours(c.time))
  BY DEF Faulty
<1>6. QED
  BY <1>2, <1>3, <1>4, <1>5 DEF InTime

(* RangesAreCircular: a user is admitted by the first group whose times it *)
(* is in, be they around midnight, around Sunday or up to 24:00, unless    *)
(* the times of one before it cannot be read.                              *)
THEOREM TimesAreCircular == ClockSpec => []RangesAreCircular
<1> DEFINE G == {k \in 1..Len(groupTimes) : groupTimes[k] # NoBlock}
           yes == {k \in G : InTime(groupTimes[k])}
           bad == {k \in G : Faulty(groupTimes[k])}
           answer == isTimeAllowed("marek", groupTimes)
<1>1. ASSUME ClockOK, groupTimes # NoTime, groupTimes # <<>>,
             \A k \in G : Understood(groupTimes[k])
      PROVE  /\ answer = "yes" <=> \E k \in yes : \A j \in bad : k < j
             /\ answer = "throws" <=> \E k \in bad : \A j \in yes : k < j
  <2> DEFINE N == 1..Len(groupTimes)
             said == [k \in N |-> IF groupTimes[k] = NoBlock THEN "no"
                                  ELSE checkTimeConfig(groupTimes[k])]
             D == {k \in N : said[k] # "no"}
             first == CHOOSE k \in D : \A j \in D : k <= j
  <2>1. groupTimes \in GroupTimes
    BY <1>1 DEF ClockOK
  <2>2. N \subseteq Nat /\ \A k \in G : groupTimes[k] \in TimeConfig /\ k \in N
    BY <2>1 DEF GroupTimes
  <2>3. \A k \in G : /\ said[k] \in {"yes", "no", "throws"}
                     /\ said[k] = "yes" <=> k \in yes
                     /\ said[k] = "throws" <=> k \in bad
    BY <1>1, <2>2, BlockDecides
  <2>4. \A k \in N \ G : said[k] = "no" /\ k \notin yes /\ k \notin bad
    OBVIOUS
  <2>5. /\ D = {} => answer = "no"
        /\ D # {} => answer = said[first]
    BY <1>1 DEF isTimeAllowed
  <2>6. G \subseteq N /\ yes \subseteq G /\ bad \subseteq G
    OBVIOUS
  <2> HIDE DEF said, G, yes, bad, answer, N
  <2>7. D = yes \cup bad /\ D \subseteq Nat /\ yes \cap bad = {}
    BY <2>2, <2>3, <2>4, <2>6
  <2>8. CASE D = {}
    BY <2>5, <2>7, <2>8
  <2>9. CASE D # {}
    <3>1. first \in D /\ \A j \in D : first <= j
      BY <2>7, <2>9, LeastPlace
    <3>2. answer = said[first]
      BY <2>5, <2>9
    <3> HIDE DEF first, D
    <3>3. answer = "yes" <=> first \in yes
      BY <2>3, <2>6, <2>7, <3>1, <3>2
    <3>4. answer = "throws" <=> first \in bad
      BY <2>3, <2>6, <2>7, <3>1, <3>2
    <3>5. first \in yes <=> \E k \in yes : \A j \in bad : k < j
      BY <2>7, <3>1
    <3>6. first \in bad <=> \E k \in bad : \A j \in yes : k < j
      BY <2>7, <3>1
    <3>7. QED
      BY <3>3, <3>4, <3>5, <3>6
  <2>10. QED
    BY <2>8, <2>9
<1>2. ClockOK => RangesAreCircular
  BY <1>1 DEF RangesAreCircular
<1> QED
  BY <1>2, AlwaysClockOK, PTL
=============================================================================
