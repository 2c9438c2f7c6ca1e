----------------------------- MODULE MCPermCfg -----------------------------
(* Instances of PermCfg for TLC: every short file over the kinds of line   *)
(* that the loader tells apart, the shipped permup.cfg, and the example of *)
(* the README.                                                             *)
EXTENDS PermCfg, TLC

CONSTANT MaxLines       \* bound: the lines of a file

MCNames == {"", "adm", "wheel", "dev", "mode", "list", "except", "darklist",
            "whitelist", "blocked_users", "allowed_users"}
MCWords == {"", "darklist", "whitelist"}
MCItems == {"docker", "reboot", "root", "marek"}
MCGroups == SUBSET {"adm", "dev", "wheel", "list"}
MCAccounts == {"root", "marek"}
MCMatches == {<<x, x>> : x \in MCItems}

Text == [skip |-> FALSE, colon |-> FALSE, open |-> FALSE, close |-> FALSE,
         name |-> "", word |-> "", items |-> {}]
Comment == [Text EXCEPT !.skip = TRUE]
Opening(name) == [Text EXCEPT !.colon = TRUE, !.open = TRUE, !.name = name]
Closing == [Text EXCEPT !.close = TRUE]
OneLine(name, items) == [Opening(name) EXCEPT !.close = TRUE, !.items = items]
Mode(word) == [Text EXCEPT !.colon = TRUE, !.name = "mode", !.word = word]

LineKinds == {Text, Opening("adm"), Opening("dev"), Opening("list"),
              Opening("except"), Opening("blocked_users"),
              Opening("allowed_users"), Closing,
              OneLine("list", {"docker"}), Mode("whitelist"), Mode("darklist")}

(* conf/permup.cfg *)
ShippedFile ==
    <<Opening("adm"), Mode("darklist"), OneLine("list", {}), OneLine("except", {}),
      OneLine("blocked_users", {}), OneLine("allowed_users", {}), Closing,
      Opening("dev"), Mode("whitelist"),
      Opening("list"), Text, Text, Text, Closing,
      Opening("except"), Text, Text, Closing,
      Opening("allowed_users"), Text, Text, Closing, Closing>>
Shipped == {ShippedFile}

(* README.md, the example of section 4.1 *)
ExampleFile ==
    <<Opening("adm"), Opening("darklist"), Text, Text, Text, Closing,
      Opening("except"), Text, Text, Closing,
      Opening("blocked_users"), Text, Closing, Closing,
      Opening("dev"), Opening("whitelist"), Text, Text, Text, Closing,
      Opening("except"), Text, Text, Closing,
      Opening("allowed_users"), Text, Text, Closing, Closing>>

TwoGroupKinds == {Opening("adm"), Opening("dev"), Closing, Mode("whitelist")}

Loaded == UNION {[1..n -> LineKinds] : n \in 0..MaxLines}
            \cup UNION {[1..n -> TwoGroupKinds] : n \in 4..5}
            \cup {<<Comment>>, ShippedFile, ExampleFile}
=============================================================================
