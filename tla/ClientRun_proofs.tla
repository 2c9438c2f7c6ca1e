-------------------------- MODULE ClientRun_proofs --------------------------
(* Proofs about ClientRun, for every caller, command line, offer, password *)
(* and clock.                                                              *)
EXTENDS ClientRun, SequenceTheorems, TLAPS

(***************************************************************************)
(* What the other side reads from a message is what was put in it.         *)
(***************************************************************************)

(* Concatenations of cells, one at a time. *)
LEMMA Singleton ==
  ASSUME NEW S, NEW e \in S
  PROVE  <<e>> \in Seq(S) /\ Len(<<e>>) = 1 /\ <<e>>[1] = e
  OBVIOUS

LEMMA AddCell ==
  ASSUME NEW S, NEW s \in Seq(S), NEW e \in S
  PROVE  /\ s \o <<e>> \in Seq(S) /\ Len(s \o <<e>>) = Len(s) + 1
         /\ \A k \in 1..Len(s) : (s \o <<e>>)[k] = s[k]
         /\ (s \o <<e>>)[Len(s) + 1] = e
<1>1. <<e>> \in Seq(S) /\ Len(<<e>>) = 1 /\ <<e>>[1] = e /\ Len(s) \in Nat
  BY Singleton, LenProperties
<1>2. /\ s \o <<e>> \in Seq(S) /\ Len(s \o <<e>>) = Len(s) + Len(<<e>>)
      /\ \A k \in 1..Len(s) + Len(<<e>>) : (s \o <<e>>)[k] =
            IF k <= Len(s) THEN s[k] ELSE <<e>>[k - Len(s)]
  BY ONLY s \in Seq(S), <1>1, ConcatProperties
<1>3. QED
  BY <1>1, <1>2

LEMMA FourCells ==
  ASSUME NEW S, NEW a \in S, NEW b \in S, NEW c \in S, NEW d \in S
  PROVE  LET w == <<a>> \o <<b>> \o <<c>> \o <<d>>
         IN  w \in Seq(S) /\ Len(w) = 4 /\ w[1] = a /\ w[2] = b /\ w[3] = c /\ w[4] = d
<1> DEFINE w1 == <<a>>  w2 == w1 \o <<b>>  w3 == w2 \o <<c>>  w4 == w3 \o <<d>>
<1>1. w1 \in Seq(S) /\ Len(w1) = 1 /\ w1[1] = a
  BY Singleton
<1> HIDE DEF w1
<1>2. w2 \in Seq(S) /\ Len(w2) = 2 /\ w2[1] = a /\ w2[2] = b
  <2>1. w1 \in Seq(S)
    BY <1>1
  <2>2. /\ w2 \in Seq(S) /\ Len(w2) = Len(w1) + 1
        /\ \A k \in 1..Len(w1) : w2[k] = w1[k]
        /\ w2[Len(w1) + 1] = b
    BY ONLY b \in S, <2>1, AddCell
  <2> HIDE DEF w2
  <2>3. QED
    BY <1>1, <2>2
<1> HIDE DEF w2
<1>3. w3 \in Seq(S) /\ Len(w3) = 3 /\ w3[1] = a /\ w3[2] = b /\ w3[3] = c
  <2>1. w2 \in Seq(S)
    BY <1>2
  <2>2. /\ w3 \in Seq(S) /\ Len(w3) = Len(w2) + 1
        /\ \A k \in 1..Len(w2) : w3[k] = w2[k]
        /\ w3[Len(w2) + 1] = c
    BY ONLY c \in S, <2>1, AddCell
  <2> HIDE DEF w3
  <2>3. QED
    BY <1>2, <2>2
<1> HIDE DEF w3
<1>4. w4 \in Seq(S) /\ Len(w4) = 4 /\ w4[1] = a /\ w4[2] = b /\ w4[3] = c /\ w4[4] = d
  <2>1. w3 \in Seq(S)
    BY <1>3
  <2>2. /\ w4 \in Seq(S) /\ Len(w4) = Len(w3) + 1
        /\ \A k \in 1..Len(w3) : w4[k] = w3[k]
        /\ w4[Len(w3) + 1] = d
    BY ONLY d \in S, <2>1, AddCell
  <2> HIDE DEF w4
  <2>3. QED
    BY <1>3, <2>2
<1> HIDE DEF w4
<1>5. QED
  BY <1>4 DEF w4, w3, w2, w1

(* The header of a message, and the payload that follows it. *)
LEMMA HeaderAndPayload ==
  ASSUME NEW S, NEW payload \in Seq(S), NEW type
  PROVE  LET data == serializeMessage(type, payload)
         IN  data # <<>> /\ Header(data).type = type /\ Payload(data) = payload
<1> DEFINE cell(n) == [kind |-> "word", size |-> 4, value |-> n]
           T == S \cup {cell(MAGIC), cell(type), cell(Bytes(payload)), cell(0)}
           head == <<cell(MAGIC)>> \o <<cell(type)>> \o <<cell(Bytes(payload))>> \o <<cell(0)>>
           data == head \o payload
<1>1. data = serializeMessage(type, payload)
  BY DEF serializeMessage, Word
<1>2. head \in Seq(T) /\ Len(head) = 4 /\ head[2] = cell(type)
  BY FourCells, cell(MAGIC) \in T, cell(type) \in T, cell(Bytes(payload)) \in T, cell(0) \in T
<1>3. payload \in Seq(T) /\ Len(payload) \in Nat
  BY SeqMonotonic, LenProperties
<1> HIDE DEF head, T
<1>4. /\ data \in Seq(T) /\ Len(data) = 4 + Len(payload)
      /\ \A k \in 1..4 : data[k] = head[k]
      /\ \A k \in 5..(4 + Len(payload)) : data[k] = payload[k - 4]
  <2>1. /\ data \in Seq(T) /\ Len(data) = Len(head) + Len(payload)
        /\ \A k \in 1..Len(head) + Len(payload) : data[k] =
              IF k <= Len(head) THEN head[k] ELSE payload[k - Len(head)]
    BY ONLY ConcatProperties, <1>2, <1>3
  <2> HIDE DEF data
  <2>2. QED
    BY <1>2, <1>3, <2>1
<1> HIDE DEF data
<1>5. data[2] = cell(type) /\ 2 <= Len(data)
  <2>1. 2 \in 1..4
    OBVIOUS
  <2>2. QED
    BY <1>2, <1>3, <1>4, <2>1
<1>6. Header(data).type = type
  BY <1>5 DEF Header, Number
<1>7. data # <<>>
  BY <1>5
<1>8. Payload(data) = payload
  <2>1. \A k \in 5..Len(data) : data[k] \in T
    BY <1>4
  <2>2. /\ SubSeq(data, 5, Len(data)) \in Seq(T)
        /\ Len(SubSeq(data, 5, Len(data))) = Len(payload)
        /\ \A k \in 1..Len(payload) : SubSeq(data, 5, Len(data))[k] = data[k + 4]
    BY <1>3, <1>4, <2>1, SubSeqProperties
  <2>3. \A k \in 1..Len(payload) : data[k + 4] = payload[k]
    BY <1>3, <1>4
  <2> DEFINE rest == SubSeq(data, 5, Len(data))
  <2>4. rest \in Seq(T) /\ Len(rest) = Len(payload) /\ \A k \in 1..Len(rest) : rest[k] = payload[k]
    BY <2>2, <2>3
  <2> HIDE DEF rest
  <2>5. rest = payload
    BY <1>3, <2>4, SeqEqual
  <2>6. QED
    BY <2>5 DEF rest, Payload
<1>9. QED
  BY <1>1, <1>6, <1>7, <1>8

LEMMA EightCells ==
  ASSUME NEW S, NEW a \in S, NEW b \in S, NEW c \in S, NEW d \in S,
         NEW e \in S, NEW f \in S, NEW g \in S, NEW h \in S
  PROVE  LET w == <<a>> \o <<b>> \o <<c>> \o <<d>> \o <<e>> \o <<f>> \o <<g>> \o <<h>>
         IN  /\ w \in Seq(S) /\ Len(w) = 8
             /\ w[1] = a /\ w[2] = b /\ w[3] = c /\ w[4] = d
             /\ w[5] = e /\ w[6] = f /\ w[7] = g /\ w[8] = h
<1> DEFINE w4 == <<a>> \o <<b>> \o <<c>> \o <<d>>
           w5 == w4 \o <<e>>  w6 == w5 \o <<f>>  w7 == w6 \o <<g>>  w8 == w7 \o <<h>>
<1>1. w4 \in Seq(S) /\ Len(w4) = 4 /\ w4[1] = a /\ w4[2] = b /\ w4[3] = c /\ w4[4] = d
  BY FourCells
<1> HIDE DEF w4
<1>2. /\ w5 \in Seq(S) /\ Len(w5) = 5
      /\ w5[1] = a /\ w5[2] = b /\ w5[3] = c /\ w5[4] = d
      /\ w5[5] = e
  <2>1. w4 \in Seq(S)
    BY <1>1
  <2>2. /\ w5 \in Seq(S) /\ Len(w5) = Len(w4) + 1
        /\ \A k \in 1..Len(w4) : w5[k] = w4[k]
        /\ w5[Len(w4) + 1] = e
    BY ONLY e \in S, <2>1, AddCell
  <2> HIDE DEF w5
  <2>3. QED
    BY <1>1, <2>2
<1> HIDE DEF w5
<1>3. /\ w6 \in Seq(S) /\ Len(w6) = 6
      /\ w6[1] = a /\ w6[2] = b /\ w6[3] = c /\ w6[4] = d
      /\ w6[5] = e /\ w6[6] = f
  <2>1. w5 \in Seq(S)
    BY <1>2
  <2>2. /\ w6 \in Seq(S) /\ Len(w6) = Len(w5) + 1
        /\ \A k \in 1..Len(w5) : w6[k] = w5[k]
        /\ w6[Len(w5) + 1] = f
    BY ONLY f \in S, <2>1, AddCell
  <2> HIDE DEF w6
  <2>3. QED
    BY <1>2, <2>2
<1> HIDE DEF w6
<1>4. /\ w7 \in Seq(S) /\ Len(w7) = 7
      /\ w7[1] = a /\ w7[2] = b /\ w7[3] = c /\ w7[4] = d
      /\ w7[5] = e /\ w7[6] = f /\ w7[7] = g
  <2>1. w6 \in Seq(S)
    BY <1>3
  <2>2. /\ w7 \in Seq(S) /\ Len(w7) = Len(w6) + 1
        /\ \A k \in 1..Len(w6) : w7[k] = w6[k]
        /\ w7[Len(w6) + 1] = g
    BY ONLY g \in S, <2>1, AddCell
  <2> HIDE DEF w7
  <2>3. QED
    BY <1>3, <2>2
<1> HIDE DEF w7
<1>5. /\ w8 \in Seq(S) /\ Len(w8) = 8
      /\ w8[1] = a /\ w8[2] = b /\ w8[3] = c /\ w8[4] = d
      /\ w8[5] = e /\ w8[6] = f /\ w8[7] = g /\ w8[8] = h
  <2>1. w7 \in Seq(S)
    BY <1>4
  <2>2. /\ w8 \in Seq(S) /\ Len(w8) = Len(w7) + 1
        /\ \A k \in 1..Len(w7) : w8[k] = w7[k]
        /\ w8[Len(w7) + 1] = h
    BY ONLY h \in S, <2>1, AddCell
  <2> HIDE DEF w8
  <2>3. QED
    BY <1>4, <2>2
<1> HIDE DEF w8
<1>6. QED
  BY <1>5 DEF w8, w7, w6, w5, w4

(* A request that is made is read as it was made. *)
THEOREM RequestReadBack ==
  ASSUME NEW t, NEW a, NEW c, NEW p, ~(Length[p] > MaxPasswordLen)
  PROVE  LET data == buildExecuteRequest(t, a, c, p)
         IN  /\ data # <<>> /\ Header(data).type = EXECUTE_REQUEST
             /\ ReadExecuteRequest(Payload(data)) =
                   [target |-> t, auth |-> a, command |-> c, password |-> p]
<1> DEFINE word(n) == [kind |-> "word", size |-> 4, value |-> n]
           text(x) == [kind |-> "text", size |-> Length[x], value |-> x]
           S == {word(Length[t]), word(Length[a]), word(Length[c]), word(Length[p]),
                 text(t), text(a), text(c), text(p)}
           w == <<word(Length[t])>> \o <<word(Length[a])>> \o <<word(Length[c])>>
                \o <<word(Length[p])>> \o <<text(t)>> \o <<text(a)>> \o <<text(c)>> \o <<text(p)>>
<1>1. buildExecuteRequest(t, a, c, p) = serializeMessage(EXECUTE_REQUEST, w)
  BY DEF buildExecuteRequest, Word, Text
<1>2. /\ w \in Seq(S) /\ Len(w) = 8
      /\ w[1] = word(Length[t]) /\ w[2] = word(Length[a])
      /\ w[3] = word(Length[c]) /\ w[4] = word(Length[p])
      /\ w[5] = text(t) /\ w[6] = text(a) /\ w[7] = text(c) /\ w[8] = text(p)
  <2>1. /\ word(Length[t]) \in S /\ word(Length[a]) \in S /\ word(Length[c]) \in S
        /\ word(Length[p]) \in S /\ text(t) \in S /\ text(a) \in S /\ text(c) \in S
        /\ text(p) \in S
    OBVIOUS
  <2> HIDE DEF S, word, text
  <2>2. QED
    BY <2>1, EightCells
<1> HIDE DEF w, S
<1>3. /\ Number(w, 1) = Length[t] /\ Number(w, 2) = Length[a]
      /\ Number(w, 3) = Length[c] /\ Number(w, 4) = Length[p]
  BY <1>2 DEF Number
<1>4. /\ String(w, 5, Length[t]) = t /\ String(w, 6, Length[a]) = a
      /\ String(w, 7, Length[c]) = c /\ String(w, 8, Length[p]) = p
  BY <1>2 DEF String
<1>5. ReadExecuteRequest(w) = [target |-> t, auth |-> a, command |-> c, password |-> p]
  BY <1>3, <1>4 DEF ReadExecuteRequest
<1>6. QED
  BY <1>1, <1>2, <1>5, HeaderAndPayload

(* The names of an answer, each after its length. *)
LEMMA CountedCells ==
  ASSUME NEW S, NEW users \in Seq(Texts),
         \A n \in Nat : [kind |-> "word", size |-> 4, value |-> n] \in S,
         \A t \in Texts : [kind |-> "text", size |-> Length[t], value |-> t] \in S
  PROVE  /\ Counted(users) \in Seq(S) /\ Len(Counted(users)) = 2 * Len(users)
         /\ \A k \in 1..Len(users) :
              /\ Counted(users)[2 * k - 1] =
                    [kind |-> "word", size |-> 4, value |-> Length[users[k]]]
              /\ Counted(users)[2 * k] =
                    [kind |-> "text", size |-> Length[users[k]], value |-> users[k]]
<1> DEFINE word(n) == [kind |-> "word", size |-> 4, value |-> n]
           text(x) == [kind |-> "text", size |-> Length[x], value |-> x]
           cell(c) == IF c % 2 = 1 THEN word(Length[users[(c + 1) \div 2]]) ELSE text(users[c \div 2])
<1>1. Counted(users) = [c \in 1..(2 * Len(users)) |-> cell(c)]
  BY DEF Counted, Word, Text
<1>2. Len(users) \in Nat /\ \A k \in 1..Len(users) : users[k] \in Texts /\ Length[users[k]] \in Nat
  BY ProtocolAssumption, ElementOfSeq, LenProperties
<1>3. ASSUME NEW k \in 1..Len(users)
      PROVE  /\ 2 * k - 1 \in 1..(2 * Len(users)) /\ 2 * k \in 1..(2 * Len(users))
             /\ (2 * k - 1) % 2 = 1 /\ (2 * k) % 2 # 1
             /\ ((2 * k - 1) + 1) \div 2 = k /\ (2 * k) \div 2 = k
  BY <1>2
<1>4. ASSUME NEW c \in 1..(2 * Len(users)) PROVE cell(c) \in S
  <2>1. CASE c % 2 = 1
    <3>1. (c + 1) \div 2 \in 1..Len(users)
      BY <1>2, <2>1
    <3>2. QED
      BY <1>2, <2>1, <3>1
  <2>2. CASE c % 2 # 1
    <3>1. c \div 2 \in 1..Len(users)
      BY <1>2, <2>2
    <3>2. QED
      BY <1>2, <2>2, <3>1
  <2>3. QED
    BY <2>1, <2>2
<1>5. ASSUME NEW k \in 1..Len(users)
      PROVE  cell(2 * k - 1) = word(Length[users[k]]) /\ cell(2 * k) = text(users[k])
  BY <1>3
<1> HIDE DEF cell
<1>6. Counted(users) \in [1..(2 * Len(users)) -> S]
  BY <1>1, <1>4
<1>7. Counted(users) \in Seq(S) /\ Len(Counted(users)) = 2 * Len(users)
  BY <1>2, <1>6
<1>8. QED
  BY <1>1, <1>3, <1>5, <1>7

(* The names that are read are the names that were put, wherever they are. *)
LEMMA UsersReadBack ==
  ASSUME NEW users \in Seq(Texts), NEW data, NEW c \in Nat \ {0},
         Len(data) \in Nat, c + 2 * Len(users) <= Len(data) + 1,
         \A k \in 1..Len(users) :
            /\ data[c + 2 * k - 2] = [kind |-> "word", size |-> 4, value |-> Length[users[k]]]
            /\ data[c + 2 * k - 1] =
                 [kind |-> "text", size |-> Length[users[k]], value |-> users[k]]
  PROVE  ReadUsers(data, c, Len(users)) = users
<1>1. Len(users) \in Nat /\ users = [k \in 1..Len(users) |-> users[k]]
  BY LenProperties
<1>2. ASSUME NEW k \in 1..Len(users)
      PROVE  String(data, c + 2 * k - 1, Number(data, c + 2 * k - 2)) = users[k]
  <2> DEFINE i == c + 2 * k - 2
             j == c + 2 * k - 1
  <2>1. i \in Nat /\ j \in Nat /\ i <= Len(data) /\ j <= Len(data)
    BY <1>1
  <2>2. /\ data[i] = [kind |-> "word", size |-> 4, value |-> Length[users[k]]]
        /\ data[j] = [kind |-> "text", size |-> Length[users[k]], value |-> users[k]]
    OBVIOUS
  <2> HIDE DEF i, j
  <2>3. Number(data, i) = Length[users[k]]
    BY <2>1, <2>2 DEF Number
  <2>4. String(data, j, Length[users[k]]) = users[k]
    BY <2>1, <2>2 DEF String
  <2>5. QED
    BY <2>3, <2>4 DEF i, j
<1>3. ReadUsers(data, c, Len(users)) = [k \in 1..Len(users) |-> users[k]]
  BY <1>2 DEF ReadUsers
<1>4. QED
  BY <1>1, <1>3

(* The two lists of an answer are read as they were made. *)
THEOREM ListReadBack ==
  ASSUME NEW targets \in Seq(Texts), NEW auths \in Seq(Texts)
  PROVE  LET data == buildListUsersResponse(targets, auths)
         IN  /\ data # <<>> /\ Header(data).type = LIST_USERS_RESPONSE
             /\ parseListUsersResponse(Payload(data)) =
                   [ok |-> TRUE, targets |-> targets, auths |-> auths]
<1> DEFINE word(n) == [kind |-> "word", size |-> 4, value |-> n]
           text(x) == [kind |-> "text", size |-> Length[x], value |-> x]
           S == {word(n) : n \in Nat} \cup {text(t) : t \in Texts}
           nt == Len(targets)
           na == Len(auths)
           two == <<word(nt)>> \o <<word(na)>>
           ct == Counted(targets)
           ca == Counted(auths)
           front == two \o ct
           w == front \o ca
<1>1. nt \in Nat /\ na \in Nat
  BY LenProperties
<1>2. (\A n \in Nat : word(n) \in S) /\ (\A t \in Texts : text(t) \in S)
  OBVIOUS
<1>3. buildListUsersResponse(targets, auths) = serializeMessage(LIST_USERS_RESPONSE, w)
  BY DEF buildListUsersResponse, Word
<1>4. /\ ct \in Seq(S) /\ Len(ct) = 2 * nt
      /\ \A k \in 1..nt : ct[2 * k - 1] = word(Length[targets[k]]) /\ ct[2 * k] = text(targets[k])
  BY <1>2, CountedCells
<1>5. /\ ca \in Seq(S) /\ Len(ca) = 2 * na
      /\ \A k \in 1..na : ca[2 * k - 1] = word(Length[auths[k]]) /\ ca[2 * k] = text(auths[k])
  BY <1>2, CountedCells
<1>6. two \in Seq(S) /\ Len(two) = 2 /\ two[1] = word(nt) /\ two[2] = word(na)
  <2>1. word(nt) \in S /\ word(na) \in S
    BY <1>1, <1>2
  <2> DEFINE one == <<word(nt)>>
  <2>2. one \in Seq(S) /\ Len(one) = 1 /\ one[1] = word(nt)
    BY <2>1, Singleton
  <2> HIDE DEF one
  <2> HIDE DEF S, word
  <2> DEFINE both == one \o <<word(na)>>
  <2>3. /\ both \in Seq(S) /\ Len(both) = Len(one) + 1
        /\ \A k \in 1..Len(one) : both[k] = one[k]
        /\ both[Len(one) + 1] = word(na)
    BY ONLY <2>1, <2>2, AddCell
  <2> HIDE DEF both
  <2>4. both \in Seq(S) /\ Len(both) = 2 /\ both[1] = word(nt) /\ both[2] = word(na)
    BY <2>2, <2>3
  <2>5. QED
    BY <2>4 DEF both, one, word
<1> HIDE DEF S, two, ct, ca, word, text, nt, na
<1>7. /\ front \in Seq(S) /\ Len(front) = 2 + 2 * nt
      /\ \A k \in 1..2 : front[k] = two[k]
      /\ \A k \in 1..(2 * nt) : front[k + 2] = ct[k]
  <2>1. /\ front \in Seq(S) /\ Len(front) = Len(two) + Len(ct)
        /\ \A k \in 1..Len(two) + Len(ct) : front[k] =
              IF k <= Len(two) THEN two[k] ELSE ct[k - Len(two)]
    BY ONLY ConcatProperties, <1>4, <1>6
  <2> HIDE DEF front
  <2>2. QED
    BY <1>1, <1>4, <1>6, <2>1
<1> HIDE DEF front
<1>8. /\ w \in Seq(S) /\ Len(w) = 2 + 2 * nt + 2 * na
      /\ \A k \in 1..(2 + 2 * nt) : w[k] = front[k]
      /\ \A k \in 1..(2 * na) : w[k + (2 + 2 * nt)] = ca[k]
  <2>1. /\ w \in Seq(S) /\ Len(w) = Len(front) + Len(ca)
        /\ \A k \in 1..Len(front) + Len(ca) : w[k] =
              IF k <= Len(front) THEN front[k] ELSE ca[k - Len(front)]
    BY ONLY ConcatProperties, <1>5, <1>7
  <2> HIDE DEF w
  <2>2. QED
    BY <1>1, <1>5, <1>7, <2>1
<1> HIDE DEF w
<1>9. Number(w, 1) = nt /\ Number(w, 2) = na
  <2>1. w[1] = word(nt) /\ w[2] = word(na)
    <3>1. 1 \in 1..(2 + 2 * nt) /\ 2 \in 1..(2 + 2 * nt) /\ 1 \in 1..2 /\ 2 \in 1..2
      BY <1>1
    <3>2. w[1] = front[1] /\ w[2] = front[2]
      BY <1>8, <3>1
    <3>3. front[1] = two[1] /\ front[2] = two[2]
      BY <1>7, <3>1
    <3>4. QED
      BY <1>6, <3>2, <3>3
  <2>2. QED
    BY <1>1, <1>8, <2>1 DEF Number, word
<1>10. ReadUsers(w, 3, nt) = targets
  <2> DEFINE c == 3
  <2>1. ASSUME NEW k \in 1..nt
        PROVE  w[c + 2 * k - 2] = word(Length[targets[k]]) /\ w[c + 2 * k - 1] = text(targets[k])
    <3>1. /\ 2 * k - 1 \in 1..(2 * nt) /\ 2 * k \in 1..(2 * nt)
          /\ c + 2 * k - 2 = (2 * k - 1) + 2 /\ c + 2 * k - 1 = 2 * k + 2
          /\ (2 * k - 1) + 2 \in 1..(2 + 2 * nt) /\ 2 * k + 2 \in 1..(2 + 2 * nt)
      BY <1>1
    <3>2. w[c + 2 * k - 2] = front[(2 * k - 1) + 2] /\ w[c + 2 * k - 1] = front[2 * k + 2]
      BY <1>8, <3>1
    <3>3. front[(2 * k - 1) + 2] = ct[2 * k - 1] /\ front[2 * k + 2] = ct[2 * k]
      BY <1>7, <3>1
    <3>4. QED
      BY <1>4, <3>2, <3>3
  <2>2. c \in Nat \ {0} /\ Len(w) \in Nat /\ c + 2 * nt <= Len(w) + 1
    BY <1>1, <1>8
  <2> HIDE DEF c
  <2>3. ReadUsers(w, c, nt) = targets
    BY <2>1, <2>2, UsersReadBack DEF nt, word, text
  <2>4. QED
    BY <2>3 DEF c
<1>11. ReadUsers(w, 3 + 2 * nt, na) = auths
  <2> DEFINE c == 3 + 2 * nt
  <2>1. ASSUME NEW k \in 1..na
        PROVE  w[c + 2 * k - 2] = word(Length[auths[k]]) /\ w[c + 2 * k - 1] = text(auths[k])
    <3>1. /\ 2 * k - 1 \in 1..(2 * na) /\ 2 * k \in 1..(2 * na)
          /\ c + 2 * k - 2 = (2 * k - 1) + (2 + 2 * nt) /\ c + 2 * k - 1 = 2 * k + (2 + 2 * nt)
      BY <1>1
    <3>2. QED
      BY <1>5, <1>8, <3>1
  <2>2. c \in Nat \ {0} /\ Len(w) \in Nat /\ c + 2 * na <= Len(w) + 1
    BY <1>1, <1>8
  <2> HIDE DEF c
  <2>3. ReadUsers(w, c, na) = auths
    BY <2>1, <2>2, UsersReadBack DEF na, word, text
  <2>4. QED
    BY <2>3 DEF c
<1>12. parseListUsersResponse(w) = [ok |-> TRUE, targets |-> targets, auths |-> auths]
  <2>1. (Len(w) >= 2 + 2 * (nt + na)) = TRUE
    BY <1>1, <1>8
  <2>2. QED
    BY <1>9, <1>10, <1>11, <2>1, Zenon DEF parseListUsersResponse
<1>13. QED
  BY <1>3, <1>8, <1>12, HeaderAndPayload
-----------------------------------------------------------------------------
(***************************************************************************)
(* The client.                                                             *)
(***************************************************************************)

(* A run has counted at most one failure of its own, at its end. *)
Counted1 ==
    /\ pc \notin {"none", "main"} => attempts < runs
    /\ pc = "none" => attempts = 0

TypeInv == TypeOK /\ Counted1

LEMMA Bounds ==
  /\ SessionTime \in Nat /\ MaxClock \in Nat
  /\ Processes \in Nat /\ RunsPerProcess \in Nat
  /\ Lines \subseteq Seq(Texts) \ {<<>>} /\ NoText \in Texts
  BY ClientRunAssumption, ProtocolAssumption

LEMMA TypeInit == Init => TypeInv
<1> SUFFICES ASSUME Init PROVE TypeInv
  OBVIOUS
<1> USE Bounds
<1>1. sessions \in [Pairs -> Session \cup {None}] /\ given \in [Pairs -> Typed \cup {None}]
  BY DEF Init
<1>2. interrupted \in BOOLEAN /\ typed \in Seq(Texts)
  <2>1. interrupted = FALSE /\ typed = <<>>
    BY Zenon DEF Init
  <2>2. interrupted \in BOOLEAN
    BY <2>1, Zenon
  <2>3. typed \in Seq(Texts)
    BY <2>1
  <2>4. QED
    BY <2>2, <2>3
<1>3. /\ pc = "none" /\ processes = 0 /\ runs = 0 /\ args \in Arguments /\ fd = "closed"
      /\ password = NoText /\ attempts = 0 /\ blockedUntil = 0 /\ terminal = "cooked"
      /\ clock = 0 /\ offered = None
  BY Zenon DEF Init
<1>4. QED
  BY <1>1, <1>2, <1>3 DEF TypeInv, TypeOK, Counted1, Locations

LEMMA PairType ==
  ASSUME TypeOK PROVE Pair \in Pairs
  BY DEF TypeOK, Pairs, Pair

(* What Ended and Return leave. *)
LEMMA TypeEnded ==
  ASSUME TypeInv, Ended, terminal' \in {"cooked", "raw"}, interrupted' \in BOOLEAN, UNCHANGED clock
  PROVE  TypeInv'
<1> USE Bounds
<1>1. /\ sessions' \in [Pairs -> Session \cup {None}]
      /\ given' \in [Pairs -> Typed \cup {None}]
  BY DEF Ended
<1>2. /\ pc' = "none" /\ fd' = "closed" /\ password' = NoText /\ attempts' = 0
      /\ typed' = <<>>
      /\ blockedUntil' = 0 /\ offered' = None
      /\ processes' = processes /\ runs' = runs /\ args' = args /\ clock' = clock
  BY Zenon DEF Ended, countVars
<1>3. QED
  BY <1>1, <1>2 DEF TypeInv, TypeOK, Counted1, Locations

(* The word that is read for a password, and what is left of the line. *)
Read(line) == Head(IF typed = <<>> THEN line ELSE typed)

LEMMA WordRead ==
  ASSUME TypeOK, NEW line \in Lines, Prompt(line)
  PROVE  Read(line) \in Texts /\ typed' \in Seq(Texts)
<1> DEFINE words == IF typed = <<>> THEN line ELSE typed
<1>1. words \in Seq(Texts) /\ words # <<>>
  BY Bounds DEF TypeOK
<1>2. typed' = words \/ typed' = Tail(words)
  BY DEF Prompt
<1>3. Read(line) = Head(words)
  BY DEF Read
<1> HIDE DEF words
<1>4. Head(words) \in Texts /\ Tail(words) \in Seq(Texts)
  BY <1>1
<1>5. QED
  BY <1>1, <1>2, <1>3, <1>4

LEMMA TypeNext == TypeInv /\ [Next]_vars => TypeInv'
<1> SUFFICES ASSUME TypeInv, [Next]_vars PROVE TypeInv'
  OBVIOUS
<1> USE Bounds
<1> USE DEF TypeInv, TypeOK, Counted1, Locations, inputVars
<1>1. CASE Connect
  BY <1>1 DEF Connect, ConnectAt, Return, ownVars, userVars, countVars
<1>2. CASE SendListRequest
  BY <1>2 DEF SendListRequest, Write, ownVars, userVars, countVars
<1>3. CASE BrokenPipe
  BY <1>3, TypeEnded DEF BrokenPipe, userVars
<1>4. CASE NothingToWrite
  BY <1>4 DEF NothingToWrite, socketVars, ownVars, userVars, countVars
<1>5. CASE PollTimeout
  BY <1>5 DEF PollTimeout, Return, socketVars, ownVars, userVars, countVars
<1>6. CASE ReadListAnswer
  BY <1>6 DEF ReadListAnswer, socketVars, userVars, countVars
<1>7. CASE BadAnswer
  BY <1>7 DEF BadAnswer, Return, socketVars, ownVars, userVars, countVars
<1>8. CASE CheckPermissions
  BY <1>8 DEF CheckPermissions, socketVars, ownVars, userVars, countVars
<1>9. CASE CheckLimit
  BY <1>9 DEF CheckLimit, socketVars, userVars, countVars
<1>10. CASE HasSession
  BY <1>10 DEF HasSession, socketVars, ownVars, userVars, countVars
<1>11. CASE GetRemembered
  <2>1. password' \in Texts
    BY <1>11, PairType DEF GetRemembered, Valid, Session
  <2>2. QED
    BY <1>11, <2>1 DEF GetRemembered, socketVars, ownVars, userVars, countVars
<1>12. CASE Reconnect
  BY <1>12 DEF Reconnect, ConnectAt, Return, ownVars, userVars, countVars
<1>13. CASE SendExecuteRequest
  BY <1>13 DEF SendExecuteRequest, Write, ownVars, userVars, countVars
<1>14. CASE ReadRefusal
  BY <1>14 DEF ReadRefusal, recordFailedAttempt, Return, socketVars, userVars, countVars
<1>15. CASE ReadExecuteAnswer
  BY <1>15 DEF ReadExecuteAnswer, resetAttempts, socketVars, userVars, countVars
<1>16. CASE AnswerExecute
  BY <1>16 DEF AnswerExecute, KeepClient, ownVars, userVars, countVars
<1>17. CASE HangUp \/ ChildFirst \/ AnswerSecond
  BY <1>17 DEF HangUp, ChildFirst, AnswerSecond, KeepClient, ownVars, userVars, countVars
<1>18. ASSUME NEW offer \in Offers, AnswerList(offer) PROVE TypeInv'
  BY <1>18 DEF AnswerList, KeepClient, ownVars, userVars, countVars
<1>19. CASE ReceivePty
  BY <1>19 DEF ReceivePty, socketVars, ownVars, countVars
<1>20. CASE NoPty
  BY <1>20 DEF NoPty, Return, socketVars, ownVars, userVars, countVars
<1>21. CASE RelayEnds
  BY <1>21 DEF RelayEnds, Return, socketVars, ownVars, countVars
<1>22. CASE Invoke
  BY <1>22 DEF Invoke, socketVars, ownVars, userVars
<1>23. CASE Exit
  BY <1>23, TypeEnded DEF Exit, userVars
<1>24. CASE Signal
  <2>1. interrupted' \in BOOLEAN
    BY <1>24, Zenon DEF Signal
  <2>2. QED
    BY <1>24, <2>1, TypeEnded DEF Signal
<1>25. CASE Reset
  BY <1>25 DEF Reset, socketVars, ownVars, countVars
<1>26. ASSUME NEW a \in Arguments, Run(a) PROVE TypeInv'
  BY <1>26 DEF Run, ownVars, userVars
<1>27. ASSUME NEW line \in Lines, Prompt(line) PROVE TypeInv'
  <2> DEFINE p == Read(line)
  <2>1. Pair \in Pairs /\ p \in Texts /\ typed' \in Seq(Texts)
    BY <1>27, PairType, WordRead
  <2> HIDE DEF p
  <2>5. /\ pc = "prompt" /\ password' = p /\ pc' \in {"main", "reconnect"}
        /\ IF args.auth # "root" /\ SessionTime > 0 THEN StoreSession(p) ELSE UNCHANGED sessions
        /\ given' = [given EXCEPT ![Pair] = [password |-> p, at |-> clock]]
        /\ UNCHANGED <<socketVars, allowed, attempts, blockedUntil, userVars, countVars>>
    BY <1>27 DEF Prompt, Read, p
  <2>2. given' \in [Pairs -> Typed \cup {None}]
    BY <2>1, <2>5 DEF Typed
  <2>3. sessions' \in [Pairs -> Session \cup {None}]
    <3> DEFINE stored == [sessions EXCEPT ![Pair] = [password |-> p, expiresAt |-> clock + SessionTime]]
    <3>1. [password |-> p, expiresAt |-> clock + SessionTime] \in Session
      BY <2>1 DEF Session
    <3>2. stored \in [Pairs -> Session \cup {None}]
      BY <2>1, <3>1
    <3>3. CASE sessions' = [q \in Pairs |-> IF Valid(stored[q]) THEN stored[q] ELSE None]
      BY <3>2, <3>3
    <3>4. CASE UNCHANGED sessions
      BY <3>4
    <3>5. QED
      BY <2>5, <3>3, <3>4 DEF StoreSession
  <2>4. QED
    BY <2>1, <2>2, <2>3, <2>5 DEF socketVars, userVars, countVars
<1>28. CASE Tick
  BY <1>28 DEF Tick, socketVars, ownVars, countVars
<1>29. CASE UNCHANGED vars
  BY <1>29 DEF vars, socketVars, ownVars, userVars, countVars
<1>30. QED
  BY <1>1, <1>2, <1>3, <1>4, <1>5, <1>6, <1>7, <1>8, <1>9, <1>10, <1>11, <1>12, <1>13,
     <1>14, <1>15, <1>16, <1>17, <1>18, <1>19, <1>20, <1>21, <1>22, <1>23, <1>24, <1>25,
     <1>26, <1>27, <1>28, <1>29
  DEF Next, ClientStep, DaemonStep, TerminalStep, UserStep

(* TypeOK: every variable keeps its type, and the count of failures never  *)
(* passes the number of runs.                                              *)
THEOREM TypeCorrect == Spec => []TypeOK
<1>1. TypeInv => TypeOK
  BY DEF TypeInv
<1>2. QED
  BY TypeInit, TypeNext, <1>1, PTL DEF Spec
-----------------------------------------------------------------------------
(* What the client knows of the daemon.  From the answer to the list       *)
(* request on, the users that it goes by are those that were offered, and  *)
(* until it connects again nobody is at the other end who could change     *)
(* that; what it writes then is no list request.                           *)

Deciding == {"check", "limit", "password", "remembered", "prompt", "reconnect"}
Listed == Deciding \cup {"execute", "awaitExecute", "receive", "relay"}

AnswerCloses ==
    answer # <<>> =>
        \/ fd = "hungup"
        \/ answer = PtyByte /\ pc \in {"none", "main", "connect", "awaitExecute"}
NothingSent == pc \in {"list", "execute"} => sent = <<>> /\ answer = <<>>
ListAsked ==
    pc = "awaitList" =>
        /\ sent = buildListUsersRequest
        /\ answer # <<>> => /\ offered \in Offers
                            /\ answer = buildListUsersResponse(offered.targets, offered.auths)
OfferTaken ==
    pc \in Listed => /\ offered \in Offers
                     /\ allowed = [targets |-> offered.targets, auths |-> offered.auths]
NobodyThere == pc \in Deciding \cup {"receive", "relay"} => fd = "hungup"
Checked == pc \in Listed \ {"check"} => Admitted
ExecuteAsked ==
    pc = "awaitExecute" =>
        \/ sent = <<>>
        \/ /\ ~(Length[password] > MaxPasswordLen)
           /\ sent = buildExecuteRequest(args.target, args.auth, args.command, password)

AskInv ==
    /\ AnswerCloses /\ NothingSent /\ ListAsked /\ OfferTaken /\ NobodyThere
    /\ Checked /\ ExecuteAsked

LEMMA NoHeader ==
  Header(<<>>).type = 0 /\ Header(PtyByte).type = 0 /\ PtyByte # <<>>
<1>1. Header(<<>>).type = 0
  BY DEF Header, Number
<1>2. Len(PtyByte) = 1 /\ PtyByte # <<>>
  BY DEF PtyByte
<1>3. Header(PtyByte).type = 0
  BY <1>2 DEF Header, Number
<1>4. QED
  BY <1>1, <1>2, <1>3

LEMMA ListRequestType == Header(buildListUsersRequest).type = LIST_USERS_REQUEST
<1>1. <<>> \in Seq({})
  OBVIOUS
<1>2. QED
  BY <1>1, HeaderAndPayload DEF buildListUsersRequest

(* The types differ, so that an answer to one request is no other's. *)
LEMMA Types ==
  /\ LIST_USERS_REQUEST # 0 /\ EXECUTE_REQUEST # 0 /\ LIST_USERS_RESPONSE # 0
  /\ LIST_USERS_REQUEST # EXECUTE_REQUEST /\ EXECUTE_RESPONSE # 0
  BY DEF LIST_USERS_REQUEST, EXECUTE_REQUEST, LIST_USERS_RESPONSE, EXECUTE_RESPONSE

(* Who can be asked what, by where the client is. *)
LEMMA ListAnswerable ==
  ASSUME AskInv, Asked(LIST_USERS_REQUEST)
  PROVE  pc \notin Listed \cup {"list"}
<1>1. sent # <<>>
  BY NoHeader, Types DEF Asked
<1>2. fd = "open" /\ answer = <<>> /\ Header(sent).type = LIST_USERS_REQUEST
  BY DEF Asked, Serving
<1>3. pc # "awaitExecute"
  BY <1>1, <1>2, RequestReadBack, Types DEF AskInv, ExecuteAsked
<1>4. QED
  BY <1>1, <1>2, <1>3 DEF AskInv, NothingSent, NobodyThere, Listed, Deciding

LEMMA ExecuteAnswerable ==
  ASSUME AskInv, Asked(EXECUTE_REQUEST)
  PROVE  pc \notin Deciding \cup {"list", "awaitList", "execute", "receive", "relay"}
<1>1. sent # <<>>
  BY NoHeader, Types DEF Asked
<1>2. fd = "open" /\ answer = <<>> /\ Header(sent).type = EXECUTE_REQUEST
  BY DEF Asked, Serving
<1>3. pc # "awaitList"
  BY <1>2, ListRequestType, Types DEF AskInv, ListAsked
<1>4. QED
  BY <1>1, <1>2, <1>3 DEF AskInv, NothingSent, NobodyThere, Deciding

askVars == <<pc, args, fd, sent, answer, allowed, password, offered>>

LEMMA AskStutter ==
  ASSUME AskInv, UNCHANGED askVars
  PROVE  AskInv'
<1>1. /\ pc' = pc /\ args' = args /\ fd' = fd /\ sent' = sent /\ answer' = answer
      /\ allowed' = allowed /\ password' = password /\ offered' = offered
  BY DEF askVars
<1>2. QED
  BY <1>1 DEF AskInv, AnswerCloses, NothingSent, ListAsked, OfferTaken, NobodyThere,
              Checked, ExecuteAsked, Admitted

(* Outside of a connection there is not much to know. *)
LEMMA AskOutside ==
  ASSUME AskInv, pc' \in {"none", "main", "connect"},
         (fd' = fd /\ answer' = answer) \/ answer' = <<>>
  PROVE  AskInv'
  BY DEF AskInv, AnswerCloses, NothingSent, ListAsked, OfferTaken, NobodyThere, Checked,
         ExecuteAsked, Listed, Deciding

(* From one question to the next, before the client connects again. *)
LEMMA AskOn ==
  ASSUME AskInv, pc \in Deciding, pc' \in Deciding, pc' = "check" => pc = "check",
         pc = "check" => Admitted,
         fd' = fd, sent' = sent, answer' = answer, offered' = offered,
         allowed' = allowed, args' = args
  PROVE  AskInv'
<1>1. Admitted /\ Admitted'
  BY DEF AskInv, Checked, Listed, Admitted
<1>2. QED
  BY <1>1 DEF AskInv, AnswerCloses, NothingSent, ListAsked, OfferTaken, NobodyThere, Checked,
              ExecuteAsked, Listed, Deciding

(* Nor does the daemon's end change what it is asked. *)
LEMMA AskHungUp ==
  ASSUME AskInv, fd' = "hungup", pc' = pc, args' = args, sent' = sent, allowed' = allowed,
         password' = password, offered' = offered,
         answer' = answer \/ pc \notin {"list", "execute", "awaitList"}
  PROVE  AskInv'
<1>1. Admitted' = Admitted
  BY DEF Admitted
<1>2. QED
  BY <1>1 DEF AskInv, AnswerCloses, NothingSent, ListAsked, OfferTaken, NobodyThere, Checked,
              ExecuteAsked

LEMMA AskNext == TypeInv /\ AskInv /\ [Next]_vars => AskInv'
<1> SUFFICES ASSUME TypeInv, AskInv, [Next]_vars PROVE AskInv'
  OBVIOUS
<1> USE DEF inputVars
<1>1. CASE Connect
  <2>1. /\ pc = "connect" /\ answer' = <<>> /\ sent' = <<>>
        /\ pc' = "list" \/ pc' = "main"
    BY <1>1 DEF Connect, ConnectAt, Return
  <2>2. CASE pc' = "main"
    BY <2>1, <2>2, AskOutside
  <2>3. CASE pc' = "list"
    BY <2>1, <2>3 DEF AskInv, AnswerCloses, NothingSent, ListAsked, OfferTaken, NobodyThere,
                      Checked, ExecuteAsked, Listed, Deciding
  <2>4. QED
    BY <2>1, <2>2, <2>3
<1>2. CASE SendListRequest
  <2>1. /\ pc = "list" /\ pc' = "awaitList" /\ sent' = buildListUsersRequest
        /\ answer' = answer /\ fd' = fd
    BY <1>2 DEF SendListRequest, Write
  <2>2. QED
    BY <2>1 DEF AskInv, AnswerCloses, NothingSent, ListAsked, OfferTaken, NobodyThere,
                Checked, ExecuteAsked, Listed, Deciding
<1>3. CASE BrokenPipe
  BY <1>3, AskOutside DEF BrokenPipe, Ended
<1>4. CASE NothingToWrite
  <2>1. /\ pc = "execute" /\ pc' = "awaitExecute" /\ args' = args
        /\ fd' = fd /\ sent' = sent /\ answer' = answer /\ offered' = offered
        /\ allowed' = allowed
    BY <1>4 DEF NothingToWrite, socketVars, ownVars, countVars
  <2>2. Admitted' = Admitted
    BY <2>1 DEF Admitted
  <2>3. QED
    BY <2>1, <2>2 DEF AskInv, AnswerCloses, NothingSent, ListAsked, OfferTaken, NobodyThere,
                      Checked, ExecuteAsked, Listed, Deciding
<1>5. CASE PollTimeout
  BY <1>5, AskOutside DEF PollTimeout, Return, socketVars
<1>6. CASE ReadListAnswer
  <2>1. /\ pc = "awaitList" /\ Readable /\ AnswerIs(LIST_USERS_RESPONSE)
        /\ pc' \in {"main", "check"}
        /\ fd' = fd /\ sent' = sent /\ answer' = answer /\ offered' = offered
    BY <1>6 DEF ReadListAnswer, socketVars
  <2>2. answer # <<>> /\ answer # PtyByte
    BY <2>1, NoHeader, Types DEF AnswerIs
  <2>3. /\ offered \in Offers /\ fd = "hungup"
        /\ answer = buildListUsersResponse(offered.targets, offered.auths)
    BY <2>1, <2>2 DEF AskInv, ListAsked, AnswerCloses
  <2>4. offered.targets \in Seq(Texts) /\ offered.auths \in Seq(Texts)
    BY <2>3, ClientRunAssumption DEF Offer
  <2>5. parseListUsersResponse(Payload(answer)) =
          [ok |-> TRUE, targets |-> offered.targets, auths |-> offered.auths]
    BY <2>3, <2>4, ListReadBack
  <2>6. allowed' = [targets |-> offered.targets, auths |-> offered.auths]
    BY <1>6, <2>5 DEF ReadListAnswer
  <2>7. QED
    BY <2>1, <2>3, <2>6 DEF AskInv, AnswerCloses, NothingSent, ListAsked, OfferTaken,
                            NobodyThere, Checked, ExecuteAsked, Listed, Deciding
<1>7. CASE BadAnswer
  BY <1>7, AskOutside DEF BadAnswer, Return, socketVars
<1>8. CASE CheckPermissions
  <2>1. CASE Admitted
    BY <1>8, <2>1, AskOn DEF CheckPermissions, Deciding, socketVars, ownVars, countVars
  <2>2. CASE ~Admitted
    BY <1>8, <2>2, AskOutside DEF CheckPermissions, socketVars
  <2>3. QED
    BY <2>1, <2>2
<1>9. CASE CheckLimit
  <2>1. /\ pc = "limit" /\ pc' \in {"main", "password"} /\ args' = args
        /\ fd' = fd /\ sent' = sent /\ answer' = answer /\ offered' = offered
        /\ allowed' = allowed
    BY <1>9 DEF CheckLimit, socketVars, countVars
  <2>2. QED
    BY <2>1, AskOn, AskOutside DEF Deciding
<1>10. CASE HasSession
  BY <1>10, AskOn DEF HasSession, Deciding, socketVars, ownVars, countVars
<1>11. CASE GetRemembered
  BY <1>11, AskOn DEF GetRemembered, Deciding, socketVars, ownVars, countVars
<1>12. CASE Reconnect
  <2>1. /\ pc = "reconnect" /\ answer' = <<>> /\ sent' = <<>>
        /\ (pc' = "execute" /\ args' = args) \/ pc' = "main"
        /\ offered' = offered /\ allowed' = allowed
    BY <1>12 DEF Reconnect, ConnectAt, Return, ownVars, countVars
  <2>2. CASE pc' = "main"
    BY <2>1, <2>2, AskOutside
  <2>3. CASE pc' = "execute" /\ args' = args
    <3>1. Admitted' = Admitted
      BY <2>1, <2>3 DEF Admitted
    <3>2. QED
      BY <2>1, <2>3, <3>1 DEF AskInv, AnswerCloses, NothingSent, ListAsked, OfferTaken,
                              NobodyThere, Checked, ExecuteAsked, Listed, Deciding
  <2>4. QED
    BY <2>1, <2>2, <2>3
<1>13. CASE SendExecuteRequest
  <2>1. /\ pc = "execute" /\ pc' = "awaitExecute" /\ args' = args /\ password' = password
        /\ fd' = fd /\ answer' = answer /\ offered' = offered /\ allowed' = allowed
        /\ sent' = buildExecuteRequest(args.target, args.auth, args.command, password)
    BY <1>13 DEF SendExecuteRequest, Write, ownVars, countVars
  <2>2. Admitted' = Admitted
    BY <2>1 DEF Admitted
  <2>3. Length[password] > MaxPasswordLen => sent' = <<>>
    BY <2>1 DEF buildExecuteRequest
  <2>4. QED
    BY <2>1, <2>2, <2>3 DEF AskInv, AnswerCloses, NothingSent, ListAsked, OfferTaken,
                            NobodyThere, Checked, ExecuteAsked, Listed, Deciding
<1>14. CASE ReadRefusal
  BY <1>14, AskOutside DEF ReadRefusal, Return, socketVars
<1>15. CASE ReadExecuteAnswer
  <2>1. /\ pc = "awaitExecute" /\ pc' = "receive" /\ args' = args
        /\ fd' = fd /\ answer' = answer /\ offered' = offered /\ allowed' = allowed
    BY <1>15 DEF ReadExecuteAnswer, socketVars, countVars
  <2>2. fd = "hungup"
    BY <1>15, NoHeader, Types DEF ReadExecuteAnswer, Readable, AnswerIs, AskInv, AnswerCloses
  <2>3. Admitted' = Admitted
    BY <2>1 DEF Admitted
  <2>4. QED
    BY <2>1, <2>2, <2>3 DEF AskInv, AnswerCloses, NothingSent, ListAsked, OfferTaken,
                            NobodyThere, Checked, ExecuteAsked, Listed, Deciding
<1>16. CASE AnswerExecute
  <2>1. pc \notin {"list", "execute", "awaitList"}
    BY <1>16, ExecuteAnswerable DEF AnswerExecute
  <2>2. QED
    BY <1>16, <2>1, AskHungUp DEF AnswerExecute, KeepClient, ownVars, countVars
<1>17. CASE HangUp
  BY <1>17, AskHungUp DEF HangUp, KeepClient, ownVars, countVars
<1>31. CASE ChildFirst
  <2>1. pc \in {"none", "main", "connect", "awaitExecute"}
    BY <1>31, ExecuteAnswerable DEF ChildFirst, TypeInv, TypeOK, Locations, Deciding
  <2>2. /\ pc' = pc /\ args' = args /\ fd' = fd /\ sent' = sent /\ answer' = PtyByte
        /\ allowed' = allowed /\ password' = password /\ offered' = offered
    BY <1>31 DEF ChildFirst, KeepClient, ownVars, countVars
  <2>3. Admitted' = Admitted
    BY <2>2 DEF Admitted
  <2>4. QED
    BY <2>1, <2>2, <2>3 DEF AskInv, AnswerCloses, NothingSent, ListAsked, OfferTaken,
                            NobodyThere, Checked, ExecuteAsked, Listed, Deciding
<1>32. CASE AnswerSecond
  <2>1. pc \in {"none", "main", "connect", "awaitExecute"}
    BY <1>32, NoHeader DEF AnswerSecond, AskInv, AnswerCloses
  <2>2. QED
    BY <1>32, <2>1, AskHungUp DEF AnswerSecond, KeepClient, ownVars, countVars
<1>18. ASSUME NEW offer \in Offers, AnswerList(offer) PROVE AskInv'
  <2>1. pc \notin Listed \cup {"list"}
    BY <1>18, ListAnswerable DEF AnswerList
  <2>2. /\ pc' = pc /\ fd' = "hungup" /\ offered' = offer /\ sent' = sent
        /\ answer' = buildListUsersResponse(offer.targets, offer.auths)
    BY <1>18 DEF AnswerList, KeepClient
  <2>3. QED
    BY <2>1, <2>2 DEF AskInv, AnswerCloses, NothingSent, ListAsked, OfferTaken, NobodyThere,
                      Checked, ExecuteAsked, Listed, Deciding
<1>19. CASE ReceivePty
  <2>1. /\ pc = "receive" /\ pc' = "relay" /\ args' = args
        /\ fd' = fd /\ answer' = answer /\ offered' = offered /\ allowed' = allowed
    BY <1>19 DEF ReceivePty, socketVars, ownVars, countVars
  <2>2. Admitted' = Admitted
    BY <2>1 DEF Admitted
  <2>3. QED
    BY <2>1, <2>2 DEF AskInv, AnswerCloses, NothingSent, ListAsked, OfferTaken, NobodyThere,
                      Checked, ExecuteAsked, Listed, Deciding
<1>20. CASE NoPty
  BY <1>20, AskOutside DEF NoPty, Return, socketVars
<1>21. CASE RelayEnds
  BY <1>21, AskOutside DEF RelayEnds, Return, socketVars
<1>22. CASE Invoke
  BY <1>22, AskOutside DEF Invoke, socketVars
<1>23. CASE Exit
  BY <1>23, AskOutside DEF Exit, Ended
<1>24. CASE Signal
  BY <1>24, AskOutside DEF Signal, Ended
<1>25. CASE Reset
  BY <1>25, AskStutter DEF Reset, askVars, socketVars, ownVars, countVars
<1>26. ASSUME NEW a \in Arguments, Run(a) PROVE AskInv'
  BY <1>26, AskOutside DEF Run
<1>27. ASSUME NEW line \in Lines, Prompt(line) PROVE AskInv'
  <2>1. /\ pc = "prompt" /\ pc' \in {"main", "reconnect"} /\ args' = args
        /\ fd' = fd /\ sent' = sent /\ answer' = answer /\ offered' = offered
        /\ allowed' = allowed
    BY <1>27 DEF Prompt, socketVars, countVars
  <2>2. QED
    BY <2>1, AskOn, AskOutside DEF Deciding
<1>28. CASE Tick
  BY <1>28, AskStutter DEF Tick, askVars, socketVars, ownVars, countVars
<1>29. CASE UNCHANGED vars
  BY <1>29, AskStutter DEF vars, askVars, socketVars, ownVars, countVars
<1>30. QED
  BY <1>1, <1>2, <1>3, <1>4, <1>5, <1>6, <1>7, <1>8, <1>9, <1>10, <1>11, <1>12, <1>13,
     <1>14, <1>15, <1>16, <1>17, <1>18, <1>19, <1>20, <1>21, <1>22, <1>23, <1>24, <1>25,
     <1>26, <1>27, <1>28, <1>29, <1>31, <1>32
  DEF Next, ClientStep, DaemonStep, TerminalStep, UserStep

LEMMA AskInit == Init => AskInv
  BY DEF Init, AskInv, AnswerCloses, NothingSent, ListAsked, OfferTaken, NobodyThere,
         Checked, ExecuteAsked, Listed, Deciding

(* AskedWithinOffer: whatever the daemon offers, and whatever was offered  *)
(* to an earlier run of the same process, a request is made only for users *)
(* of this run's offer, for root, or by root.                              *)
THEOREM AskedWithinOfferHolds == Spec => []AskedWithinOffer
<1>1. AskInv => AskedWithinOffer
  BY DEF AskInv, OfferTaken, Checked, AskedWithinOffer, Admitted, Sending, Listed, Deciding
<1>2. QED
  BY TypeInit, TypeNext, AskInit, AskNext, <1>1, PTL DEF Spec
-----------------------------------------------------------------------------
(* Passwords: what a session holds was read for its pair of users, when    *)
(* it says so; what a run goes on with, and what the daemon has read of    *)
(* it, comes from there.                                                   *)

Asking == [target |-> args.target, auth |-> args.auth,
           command |-> args.command, password |-> password]

NotYetRead == pc = "execute" => received = None
ReadAsAsked == pc \in {"awaitExecute", "receive", "relay"} /\ received # None => received = Asking
Held == pc \in Sending => /\ password # NoText /\ given[Pair] # None
                          /\ password = given[Pair].password
OwnSession(q) ==
    sessions[q] # None => /\ q[2] # "root" /\ SessionTime > 0 /\ given[q] # None
                          /\ sessions[q].password = given[q].password
                          /\ sessions[q].expiresAt = given[q].at + SessionTime

ReqInv == NotYetRead /\ ReadAsAsked /\ Held /\ \A q \in Pairs : OwnSession(q)

reqVars == <<pc, args, password, received, given, sessions>>

LEMMA ReqOn ==
  ASSUME ReqInv, sessions' = sessions, given' = given,
         pc' \in Sending => (pc \in Sending /\ args' = args /\ password' = password),
         pc' = "execute" => received' = None,
         pc' \in {"awaitExecute", "receive", "relay"} => (received' = received /\ pc # "reconnect")
  PROVE  ReqInv'
<1>1. \A q \in Pairs : OwnSession(q)'
  BY DEF ReqInv, OwnSession
<1>2. NotYetRead' /\ ReadAsAsked' /\ Held'
  BY DEF ReqInv, NotYetRead, ReadAsAsked, Held, Sending, Asking, Pair
<1>3. QED
  BY <1>1, <1>2 DEF ReqInv

LEMMA ReqStutter ==
  ASSUME ReqInv, UNCHANGED reqVars
  PROVE  ReqInv'
<1>1. /\ pc' = pc /\ args' = args /\ password' = password /\ received' = received
      /\ given' = given /\ sessions' = sessions
  BY DEF reqVars
<1>2. \A q \in Pairs : OwnSession(q)'
  BY <1>1 DEF ReqInv, OwnSession
<1>3. NotYetRead' /\ ReadAsAsked' /\ Held'
  BY <1>1 DEF ReqInv, NotYetRead, ReadAsAsked, Held, Sending, Asking, Pair
<1>4. QED
  BY <1>2, <1>3 DEF ReqInv

(* With the process all of it goes. *)
LEMMA ReqEnded ==
  ASSUME Ended
  PROVE  ReqInv'
<1>1. pc' = "none" /\ sessions' = [p \in Pairs |-> None]
  BY DEF Ended
<1>2. QED
  BY <1>1 DEF ReqInv, NotYetRead, ReadAsAsked, Held, OwnSession, Sending

(* A password that is typed takes the place of the session's, if any. *)
LEMMA ReqPrompt ==
  ASSUME TypeInv, ReqInv, NEW line \in Lines, Prompt(line)
  PROVE  ReqInv'
<1> DEFINE p == Read(line)
           new == [password |-> p, at |-> clock]
           session == [password |-> p, expiresAt |-> clock + SessionTime]
<1>0. /\ pc = "prompt" /\ password' = p /\ args' = args
      /\ pc' = IF p = NoText THEN "main" ELSE "reconnect"
      /\ given' = [given EXCEPT ![Pair] = new]
      /\ IF args.auth # "root" /\ SessionTime > 0 THEN StoreSession(p) ELSE UNCHANGED sessions
  BY DEF Prompt, Read, countVars
<1>1. Pair \in Pairs /\ p \in Texts /\ clock \in Nat
  BY Bounds, PairType, WordRead DEF TypeInv, TypeOK
<1> HIDE DEF p
<1>2. new \in Typed /\ new # None
  BY <1>1, ClientRunAssumption DEF Typed
<1>3. /\ pc = "prompt" /\ password' = p /\ args' = args
      /\ pc' = IF p = NoText THEN "main" ELSE "reconnect"
      /\ given' = [given EXCEPT ![Pair] = new]
  BY <1>0
<1>4. /\ given \in [Pairs -> Typed \cup {None}]
      /\ sessions \in [Pairs -> Session \cup {None}]
  BY DEF TypeInv, TypeOK
<1> HIDE DEF new
<1>5. given'[Pair] = new /\ \A q \in Pairs : q # Pair => given'[q] = given[q]
  BY <1>1, <1>3, <1>4
<1>6. Pair' = Pair
  BY <1>3 DEF Pair
<1>7. NotYetRead' /\ ReadAsAsked' /\ Held'
  <2>1. new.password = p
    BY DEF new
  <2>2. given'[Pair'] = new
    BY <1>5, <1>6
  <2>3. QED
    BY <1>2, <1>3, <2>1, <2>2 DEF NotYetRead, ReadAsAsked, Held, Sending
<1>8. Pair[2] = args.auth
  BY DEF Pair
<1>9. ASSUME NEW q \in Pairs PROVE OwnSession(q)'
  <2>1. CASE args.auth # "root" /\ SessionTime > 0
    <3> DEFINE stored == [sessions EXCEPT ![Pair] = session]
    <3>1. sessions' = [r \in Pairs |-> IF Valid(stored[r]) THEN stored[r] ELSE None]
      BY <1>0, <2>1 DEF StoreSession
    <3>2. stored[Pair] = session /\ (q # Pair => stored[q] = sessions[q])
      BY <1>1, <1>4
    <3> HIDE DEF stored
    <3>3. sessions'[q] = None \/ sessions'[q] = stored[q]
      BY <3>1
    <3>4. CASE q = Pair
      <4>1. session.password = new.password /\ session.expiresAt = new.at + SessionTime
        BY DEF new
      <4> HIDE DEF session
      <4>2. sessions'[q] = None \/ sessions'[q] = session
        BY <3>2, <3>3, <3>4
      <4>3. given'[q] = new /\ q[2] # "root"
        BY <1>5, <1>8, <2>1, <3>4
      <4>4. QED
        BY <1>2, <2>1, <4>1, <4>2, <4>3 DEF OwnSession
    <3>5. CASE q # Pair
      <4>1. given'[q] = given[q] /\ (sessions'[q] = None \/ sessions'[q] = sessions[q])
        BY <1>5, <3>2, <3>3, <3>5
      <4>2. OwnSession(q)
        BY DEF ReqInv
      <4>3. QED
        BY <4>1, <4>2 DEF OwnSession
    <3>6. QED
      BY <3>4, <3>5
  <2>2. CASE ~(args.auth # "root" /\ SessionTime > 0)
    <3>1. sessions' = sessions
      BY <1>0, <2>2
    <3>2. OwnSession(q)
      BY DEF ReqInv
    <3>3. CASE q = Pair
      <4>1. sessions[q] = None
        BY <1>8, <2>2, <3>2, <3>3 DEF OwnSession
      <4>2. QED
        BY <3>1, <4>1 DEF OwnSession
    <3>4. CASE q # Pair
      <4>1. given'[q] = given[q]
        BY <1>5, <3>4
      <4>2. QED
        BY <3>1, <3>2, <4>1 DEF OwnSession
    <3>5. QED
      BY <3>3, <3>4
  <2>3. QED
    BY <2>1, <2>2
<1>10. QED
  BY <1>7, <1>9 DEF ReqInv

LEMMA ReqNext == TypeInv /\ AskInv /\ ReqInv /\ [Next]_vars => ReqInv'
<1> SUFFICES ASSUME TypeInv, AskInv, ReqInv, [Next]_vars PROVE ReqInv'
  OBVIOUS
<1> USE DEF inputVars
<1>1. CASE Connect
  BY <1>1, ReqOn DEF Connect, ConnectAt, Return, Sending, ownVars
<1>2. CASE SendListRequest
  BY <1>2, ReqOn DEF SendListRequest, Write, Sending, ownVars
<1>3. CASE BrokenPipe
  BY <1>3, ReqEnded DEF BrokenPipe
<1>4. CASE NothingToWrite
  BY <1>4, ReqOn DEF NothingToWrite, Sending, socketVars, ownVars, countVars
<1>5. CASE PollTimeout
  BY <1>5, ReqOn DEF PollTimeout, Return, Sending, ownVars
<1>6. CASE ReadListAnswer
  BY <1>6, ReqOn DEF ReadListAnswer, Sending
<1>7. CASE BadAnswer
  BY <1>7, ReqOn DEF BadAnswer, Return, Sending, ownVars
<1>8. CASE CheckPermissions
  BY <1>8, ReqOn DEF CheckPermissions, Sending, ownVars
<1>9. CASE CheckLimit
  BY <1>9, ReqOn DEF CheckLimit, Sending
<1>10. CASE HasSession
  BY <1>10, ReqOn DEF HasSession, Sending, ownVars
<1>11. CASE GetRemembered
  <2>1. CASE pc' = "prompt"
    BY <1>11, <2>1, ReqOn DEF GetRemembered, Sending, ownVars
  <2>2. CASE pc' # "prompt"
    <3>1. /\ pc' = "reconnect" /\ args' = args /\ Valid(sessions[Pair])
          /\ sessions[Pair].password # NoText /\ password' = sessions[Pair].password
          /\ given' = given /\ sessions' = sessions
      BY <1>11, <2>2 DEF GetRemembered, ownVars, countVars
    <3>2. OwnSession(Pair) /\ sessions[Pair] # None
      BY <3>1, PairType DEF ReqInv, Valid, TypeInv
    <3>3. Pair' = Pair
      BY <3>1 DEF Pair
    <3>4. given'[Pair'] = given[Pair]
      BY <3>1, <3>3
    <3>5. NotYetRead' /\ ReadAsAsked' /\ Held'
      BY <3>1, <3>2, <3>4 DEF NotYetRead, ReadAsAsked, Held, OwnSession
    <3>6. \A q \in Pairs : OwnSession(q)'
      BY <3>1 DEF ReqInv, OwnSession
    <3>7. QED
      BY <3>5, <3>6 DEF ReqInv
  <2>3. QED
    BY <2>1, <2>2
<1>12. CASE Reconnect
  BY <1>12, ReqOn DEF Reconnect, ConnectAt, Return, Sending, ownVars, countVars
<1>13. CASE SendExecuteRequest
  BY <1>13, ReqOn DEF SendExecuteRequest, Write, Sending, ownVars, countVars
<1>14. CASE ReadRefusal
  BY <1>14, ReqOn DEF ReadRefusal, Return, Sending
<1>15. CASE ReadExecuteAnswer
  BY <1>15, ReqOn DEF ReadExecuteAnswer, Sending, socketVars, countVars
<1>16. CASE AnswerExecute \/ ChildFirst
  <2>1. /\ pc' = pc /\ args' = args /\ password' = password /\ given' = given
        /\ sessions' = sessions /\ received' = ReadExecuteRequest(Payload(sent))
        /\ Asked(EXECUTE_REQUEST)
    BY <1>16 DEF AnswerExecute, ChildFirst, KeepClient, ownVars, countVars
  <2>2. pc \notin {"execute", "receive", "relay"}
    BY <2>1, ExecuteAnswerable
  <2>3. CASE pc = "awaitExecute"
    <3>1. sent # <<>>
      BY <2>1, NoHeader, Types DEF Asked
    <3>2. /\ ~(Length[password] > MaxPasswordLen)
          /\ sent = buildExecuteRequest(args.target, args.auth, args.command, password)
      BY <2>3, <3>1 DEF AskInv, ExecuteAsked
    <3>3. received' = Asking
      BY <2>1, <3>2, RequestReadBack DEF Asking
    <3>4. Asking' = Asking /\ Pair' = Pair
      BY <2>1 DEF Asking, Pair
    <3>5. NotYetRead' /\ ReadAsAsked'
      BY <2>1, <2>3, <3>3, <3>4 DEF NotYetRead, ReadAsAsked
    <3>6. Held' /\ \A q \in Pairs : OwnSession(q)'
      BY <2>1, <3>4 DEF ReqInv, Held, OwnSession
    <3>7. QED
      BY <3>5, <3>6 DEF ReqInv
  <2>4. CASE pc # "awaitExecute"
    BY <2>1, <2>2, <2>4, ReqOn DEF Sending
  <2>5. QED
    BY <2>3, <2>4
<1>17. CASE HangUp \/ AnswerSecond
  BY <1>17, ReqStutter DEF HangUp, AnswerSecond, KeepClient, reqVars, ownVars, countVars
<1>18. ASSUME NEW offer \in Offers, AnswerList(offer) PROVE ReqInv'
  BY <1>18, ReqStutter DEF AnswerList, KeepClient, reqVars, ownVars, countVars
<1>19. CASE ReceivePty
  BY <1>19, ReqOn DEF ReceivePty, Sending, socketVars, ownVars, countVars
<1>20. CASE NoPty
  BY <1>20, ReqOn DEF NoPty, Return, Sending, ownVars
<1>21. CASE RelayEnds
  BY <1>21, ReqOn DEF RelayEnds, Return, Sending, ownVars
<1>22. CASE Invoke
  BY <1>22, ReqOn DEF Invoke, Sending, ownVars
<1>23. CASE Exit
  BY <1>23, ReqEnded DEF Exit
<1>24. CASE Signal
  BY <1>24, ReqEnded DEF Signal
<1>25. CASE Reset
  BY <1>25, ReqStutter DEF Reset, reqVars, socketVars, ownVars, countVars
<1>26. ASSUME NEW a \in Arguments, Run(a) PROVE ReqInv'
  BY <1>26, ReqOn DEF Run, Sending, ownVars
<1>27. ASSUME NEW line \in Lines, Prompt(line) PROVE ReqInv'
  BY <1>27, ReqPrompt
<1>28. CASE Tick
  BY <1>28, ReqStutter DEF Tick, reqVars, socketVars, ownVars, countVars
<1>29. CASE UNCHANGED vars
  BY <1>29, ReqStutter DEF vars, reqVars, socketVars, ownVars, countVars
<1>30. QED
  BY <1>1, <1>2, <1>3, <1>4, <1>5, <1>6, <1>7, <1>8, <1>9, <1>10, <1>11, <1>12, <1>13,
     <1>14, <1>15, <1>16, <1>17, <1>18, <1>19, <1>20, <1>21, <1>22, <1>23, <1>24, <1>25,
     <1>26, <1>27, <1>28, <1>29
  DEF Next, ClientStep, DaemonStep, TerminalStep, UserStep

LEMMA ReqInit == Init => ReqInv
<1> SUFFICES ASSUME Init PROVE ReqInv
  OBVIOUS
<1>1. pc = "none" /\ sessions = [p \in Pairs |-> None]
  BY DEF Init
<1>2. QED
  BY <1>1 DEF ReqInv, NotYetRead, ReadAsAsked, Held, OwnSession, Sending

(* RequestFaithful: whatever names, commands and lines there are, the      *)
(* daemon reads what this run asks for, with the word that this process    *)
(* read last as the password of this pair of users.                        *)
THEOREM RequestFaithfulHolds == Spec => []RequestFaithful
<1>1. ReqInv => RequestFaithful
  BY DEF ReqInv, ReadAsAsked, Held, RequestFaithful, Asking, Sending
<1>2. QED
  BY TypeInit, TypeNext, AskInit, AskNext, ReqInit, ReqNext, <1>1, PTL DEF Spec

(* RememberedInTime: a remembered password is used for the pair of users   *)
(* it was read for, never for root, and for less than SessionTime.         *)
THEOREM RememberedInTimeHolds == Spec => RememberedInTime
<1> DEFINE A == (pc = "remembered" /\ pc' = "reconnect") =>
                    /\ args.auth # "root" /\ given[Pair] # None
                    /\ password' = given[Pair].password /\ clock < given[Pair].at + SessionTime
<1>1. TypeInv /\ ReqInv /\ [Next]_vars => [A]_vars
  <2> SUFFICES ASSUME TypeInv, ReqInv, Next, pc = "remembered", pc' = "reconnect"
               PROVE  A
    OBVIOUS
  <2>1. GetRemembered
    BY DEF Next, ClientStep, DaemonStep, TerminalStep, UserStep, Connect, SendListRequest,
           BrokenPipe, NothingToWrite, PollTimeout, ReadListAnswer, BadAnswer,
           CheckPermissions, CheckLimit, HasSession, Reconnect, ConnectAt, Write, Awaiting,
           SendExecuteRequest, ReadRefusal, ReadExecuteAnswer, AnswerExecute, ChildFirst, AnswerSecond, HangUp,
           AnswerList, KeepClient, ReceivePty, NoPty, RelayEnds, Invoke, Exit, Signal,
           Ended, Reset, Run, Prompt, Tick
  <2>2. Valid(sessions[Pair]) /\ password' = sessions[Pair].password
    BY <2>1 DEF GetRemembered
  <2>3. OwnSession(Pair) /\ Pair \in Pairs /\ Pair[2] = args.auth
    BY PairType DEF ReqInv, TypeInv, Pair
  <2>4. QED
    BY <2>2, <2>3 DEF OwnSession, Valid
<1>2. QED
  BY TypeInit, TypeNext, AskInit, AskNext, ReqInit, ReqNext, <1>1, PTL
  DEF Spec, RememberedInTime
-----------------------------------------------------------------------------
(* The terminal. *)

LEMMA TerminalNext == TerminalRestored /\ [Next]_vars => TerminalRestored'
  BY DEF TerminalRestored, Next, ClientStep, DaemonStep, TerminalStep, UserStep, Connect,
         SendListRequest, BrokenPipe, NothingToWrite, PollTimeout, ReadListAnswer, BadAnswer,
         CheckPermissions, CheckLimit, HasSession, GetRemembered, Reconnect, ConnectAt, Write,
         SendExecuteRequest, ReadRefusal, ReadExecuteAnswer, AnswerExecute, ChildFirst, AnswerSecond, HangUp, AnswerList,
         KeepClient, ReceivePty, NoPty, RelayEnds, Invoke, Exit, Signal, Ended, Reset, Run,
         Prompt, Tick, Awaiting, vars, userVars

(* TerminalRestored: a terminal that is raw is in use, or was in use when  *)
(* a signal came.                                                          *)
THEOREM TerminalRestoredHolds == Spec => []TerminalRestored
<1>1. Init => TerminalRestored
  BY DEF Init, TerminalRestored
<1>2. QED
  BY <1>1, TerminalNext, PTL DEF Spec
=============================================================================
