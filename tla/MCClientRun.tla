---------------------------- MODULE MCClientRun ----------------------------
(* An instance of ClientRun for TLC. *)
EXTENDS ClientRun

MCTexts == {"", "root", "marek", "jan", "ls", "pw", "my", "pass", "too long", "no permission",
            "garbled"}
MCLength ==
    [t \in MCTexts |->
        CASE t = "" -> 0 [] t = "ls" -> 2 [] t = "pw" -> 2 [] t = "my" -> 2
          [] t = "jan" -> 3 [] t = "root" -> 4 [] t = "pass" -> 4 [] t = "marek" -> 5
          [] t = "garbled" -> 7 [] t = "too long" -> 8 [] t = "no permission" -> 13]

Execute(target, auth) ==
    [target |-> target, auth |-> auth, command |-> "ls", listOnly |-> FALSE]
MCArguments == {Execute("root", "root"), Execute("jan", "marek"), Execute("root", "marek"),
                Execute("jan", "root"),
                [Execute("root", "root") EXCEPT !.listOnly = TRUE, !.command = ""]}
MCLines == {<<"">>, <<"pw">>, <<"my", "pass">>, <<"too long">>}
Both(users) == [targets |-> users, auths |-> users]
MCOffers == {Both(<<"root">>), Both(<<"marek", "jan">>),
             [targets |-> <<"jan">>, auths |-> <<"root", "marek">>],
             Both(<<"marek", "jan", "root", "marek">>)}
=============================================================================
