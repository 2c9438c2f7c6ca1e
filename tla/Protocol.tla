------------------------------ MODULE Protocol ------------------------------
(***************************************************************************)
(* common/protocol.cpp and the readers beside it in client.cpp and         *)
(* daemon.cpp: what a message is on the wire, and what the other side      *)
(* makes of it.                                                            *)
(*                                                                         *)
(* Data is a sequence of cells, a 32-bit number in network order or the    *)
(* characters of one string (none, for an empty one), each with its number *)
(* of bytes.  A reader that is off by a field reads Garbled.               *)
(***************************************************************************)
EXTENDS Integers, Sequences

CONSTANTS
    Texts,          \* user names, commands, passwords and messages
    Length,         \* std::string::length
    Garbled,        \* what is read across a boundary
    MaxPasswordLen, \* MAX_PASSWORD_LEN
    MaxLength       \* the longest payload that a reader accepts

NoText == ""

ASSUME ProtocolAssumption ==
    /\ Garbled \in Texts /\ NoText \in Texts /\ "root" \in Texts
    /\ Length \in [Texts -> Nat]
    /\ MaxPasswordLen \in Nat /\ MaxLength \in Nat

LIST_USERS_REQUEST == 1
EXECUTE_REQUEST == 2
LIST_USERS_RESPONSE == 32769
EXECUTE_RESPONSE == 32770
ERROR_RESPONSE == 32771
MAGIC == 1347245392

Word(n) == <<[kind |-> "word", size |-> 4, value |-> n]>>
Text(t) == <<[kind |-> "text", size |-> Length[t], value |-> t]>>

Bytes(data) ==
    LET bytes[k \in 0..Len(data)] == IF k = 0 THEN 0 ELSE bytes[k - 1] + data[k].size
    IN  bytes[Len(data)]

serializeMessage(type, payload) ==
    Word(MAGIC) \o Word(type) \o Word(Bytes(payload)) \o Word(0) \o payload

buildListUsersRequest == serializeMessage(LIST_USERS_REQUEST, <<>>)

AuthLengthFirst(target, auth, command, password) == \* mutant: two lengths swapped
    IF Length[password] > MaxPasswordLen THEN <<>>
    ELSE serializeMessage(EXECUTE_REQUEST,
            Word(Length[auth]) \o Word(Length[target]) \o Word(Length[command])
            \o Word(Length[password])
            \o Text(target) \o Text(auth) \o Text(command) \o Text(password))

(* A password that is too long makes a request of no bytes. *)
buildExecuteRequest(target, auth, command, password) ==
    IF Length[password] > MaxPasswordLen THEN <<>>
    ELSE serializeMessage(EXECUTE_REQUEST,
            Word(Length[target]) \o Word(Length[auth]) \o Word(Length[command])
            \o Word(Length[password])
            \o Text(target) \o Text(auth) \o Text(command) \o Text(password))

(* Each name after its length. *)
Counted(users) ==
    [c \in 1..(2 * Len(users)) |->
        IF c % 2 = 1 THEN Word(Length[users[(c + 1) \div 2]])[1] ELSE Text(users[c \div 2])[1]]

buildListUsersResponse(targets, auths) ==
    serializeMessage(LIST_USERS_RESPONSE,
        Word(Len(targets)) \o Word(Len(auths)) \o Counted(targets) \o Counted(auths))

buildErrorResponse(code, message) ==
    serializeMessage(ERROR_RESPONSE, Word(code) \o Word(Length[message]) \o Text(message))

buildExecuteResponse(pid, status) ==
    serializeMessage(EXECUTE_RESPONSE, Word(pid) \o Word(status))
-----------------------------------------------------------------------------
(* Readers, by the place of a field in the data. *)

Number(data, c) == IF c <= Len(data) /\ data[c].kind = "word" THEN data[c].value ELSE 0

(* The string at c, if length is its length. *)
String(data, c, length) ==
    IF c <= Len(data) /\ data[c].kind = "text" /\ data[c].size = length
    THEN data[c].value ELSE Garbled

(* A header is four numbers. *)
Header(data) == [magic |-> Number(data, 1), type |-> Number(data, 2), length |-> Number(data, 3)]
Payload(data) == SubSeq(data, 5, Len(data))
HasHeader(data) == Bytes(data) >= 16
HasPayload(data) == Bytes(data) >= 16 + Header(data).length

(* count names, each after its length, from c on, or as many as are there. *)
ReadUsers(data, c, count) ==
    [k \in 1..count |-> String(data, c + 2 * k - 1, Number(data, c + 2 * k - 2))]

parseListUsersResponse(payload) ==
    LET targets == Number(payload, 1)
        auths == Number(payload, 2)
    IN  [ok |-> Len(payload) >= 2 + 2 * (targets + auths),
         targets |-> ReadUsers(payload, 3, targets),
         auths |-> ReadUsers(payload, 3 + 2 * targets, auths)]

(* handleExecuteRequest: four lengths, then four strings. *)
ExecuteRequestFits(payload) ==
    Bytes(payload) >= 16 + Number(payload, 1) + Number(payload, 2)
                         + Number(payload, 3) + Number(payload, 4)

ReadExecuteRequest(payload) ==
    [target   |-> String(payload, 5, Number(payload, 1)),
     auth     |-> String(payload, 6, Number(payload, 2)),
     command  |-> String(payload, 7, Number(payload, 3)),
     password |-> String(payload, 8, Number(payload, 4))]
=============================================================================
