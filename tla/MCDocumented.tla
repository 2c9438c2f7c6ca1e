---------------------------- MODULE MCDocumented ----------------------------
(* What README.md says and the code does otherwise, in one history: the    *)
(* shipped files are loaded, with 9 for default_n, and janusz, a member of *)
(* dev, asks four times.  The daemon answers as the loaded permissions     *)
(* say.  Before his last request he has left dev, and is in no group.      *)
EXTENDS MCConfigLoad

VARIABLES
    pc, processes, runs, args, fd, sent, answer, allowed, password, typed, sessions,
    attempts, blockedUntil, terminal, clock, offered, received, given, interrupted,
    failures,       \* the refusals that janusz has had
    broken          \* the rules of README.md that were not kept

Janusz == "janusz"
MCDocAccounts == {"root", "marek", Janusz}
MCDocItems == LoadItems \cup MCDocAccounts
MCDocConfs == {[ShippedConfs EXCEPT !.ratelimit[2] = Key("default_n", Number(9, "none"))]}
ClientTexts == MCDocAccounts \cup {"", "docker", "pw", "no permission", "garbled"}
ClientLengths ==
    [t \in ClientTexts |->
        CASE t = "" -> 0 [] t = "pw" -> 2 [] t = "root" -> 4 [] t = "marek" -> 5
          [] t \in {"docker", Janusz} -> 6 [] t = "garbled" -> 7 [] t = "no permission" -> 13]
Docker(auth) == [target |-> "marek", auth |-> auth, command |-> "docker", listOnly |-> FALSE]

(* main makes one run of a Client. *)
Client == INSTANCE ClientRun WITH
    Texts <- ClientTexts, Length <- ClientLengths, Garbled <- "garbled",
    MaxPasswordLen <- 6, MaxLength <- 400, Caller <- Janusz,
    Arguments <- {Docker("marek"), Docker("root")}, Lines <- {<<"pw">>}, Offers <- {},
    SessionTime <- 0, Processes <- 4, RunsPerProcess <- 1, MaxClock <- 0, None <- "None"

loaderVars == <<vars, loadVars, asked, clockVars>>
clientVars == <<pc, processes, runs, args, fd, sent, answer, allowed, password, typed, sessions,
                attempts, blockedUntil, terminal, clock, offered, received, given, interrupted>>
-----------------------------------------------------------------------------
(* The rules of the files. *)
Spellings == {<<Rm, Flag(<<r, f>>)>>, <<Rm, Flag(<<f, r>>)>>, <<Rm, Flag(<<r>>), Flag(<<f>>)>>}

FileRules ==
    [whitelist |-> WhitelistAdmits,                   \* 4.1: dev may run docker
     substring |-> \A c \in Spellings :               \* 4.1: rm -r blocks rm -rf
                        isCommandMatch(c, <<Rm, Flag(<<r>>)>>),
     hash |-> "#" \in Range(patterns),                \* 4.3: "#" is a pattern
     no_entry |-> tables["time"]["wheel"] = NoEntry   \* 4.4: no restrictions
                    => isTimeAllowed("ola", <<NoBlock>>) = "yes",
     default_n |-> getRateLimitConfig("ola").n = 9]   \* 4.6: for all users

BrokenByFiles == {rule \in DOMAIN FileRules : ~FileRules[rule]}

(* 4.6: janusz is locked after n failed attempts. *)
AsksBeyondLimit == pc = "prompt" /\ failures >= getRateLimitConfig(Janusz).n

(* 5.2: with -h root all checks are skipped. *)
StopsRootAuth == pc = "check" /\ args.auth = "root" /\ pc' = "main"
-----------------------------------------------------------------------------
(* The history. *)
DocInit ==
    /\ file = ShippedFile /\ confs \in MCDocConfs
    /\ LoadInit /\ CommandInit /\ ClockInit /\ Client!Init
    /\ failures = 0 /\ broken = {}

DocLoad ==
    /\ LoadNext /\ UNCHANGED <<asked, clockVars, clientVars, failures>>
    /\ broken' = IF stage' = "loaded" THEN BrokenByFiles' ELSE {}

GroupsNow == IF processes = 4 THEN {} ELSE {"dev"}
AuthNow == IF processes = 4 THEN "root" ELSE "marek"

(* handleListUsersRequest and handleExecuteRequest, with what was loaded. *)
OfferMade ==
    LET users == SetToSeq(getAllowedTargetUsers(GroupsNow))
    IN  [targets |-> users, auths |-> users]

DaemonAnswers ==
    \/ Client!AnswerList(OfferMade)
    \/ /\ Client!AnswerExecute
       /\ Client!AnswerIs(Client!ERROR_RESPONSE)'
            <=> AuthNow # "root" /\ ~isCommandAllowed(GroupsNow, args.command, args.target)

ClientGoesOn ==
    \/ Client!Invoke \/ Client!Exit \/ Client!Run(Docker(AuthNow))
    \/ (Client!Connect \/ Client!Reconnect) /\ fd' = "open"
    \/ Client!SendListRequest \/ Client!ReadListAnswer \/ Client!CheckPermissions
    \/ Client!CheckLimit \/ Client!HasSession \/ Client!Prompt(<<"pw">>)
    \/ Client!SendExecuteRequest \/ Client!ReadRefusal

Request ==
    /\ stage = "loaded" /\ (DaemonAnswers \/ ClientGoesOn)
    /\ failures' = IF Client!ReadRefusal THEN failures + 1 ELSE failures
    /\ broken' = broken \cup (IF AsksBeyondLimit THEN {"lock"} ELSE {})
                       \cup (IF StopsRootAuth THEN {"root_auth"} ELSE {})
    /\ UNCHANGED loaderVars

DocSpec == DocInit /\ [][DocLoad \/ Request]_<<loaderVars, clientVars, failures, broken>>

(* README.md's rules are kept, by the loaders and by the client, up to the *)
(* end of the last request.  They are not: see the finding for each name   *)
(* in broken.                                                              *)
RulesOfTheManual == (processes = 4 /\ runs = 1 /\ pc = "main") => broken = {}
=============================================================================
