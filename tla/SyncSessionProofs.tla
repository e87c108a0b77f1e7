------------------------- MODULE SyncSessionProofs --------------------------
(***************************************************************************)
(* Proofs about a synchronization session, for any widths of the fields,   *)
(* any buffer of the connection and any set of versions.                   *)
(***************************************************************************)
EXTENDS SyncSession, SequenceTheorems, TLAPS

(***************************************************************************)
(* What the scripts amount to: how many bytes an end sends and receives    *)
(* before a position of its script.                                        *)
(***************************************************************************)
V == Width["version"]
A == Width["ack"]

\* The bytes of the first k fields of a frame.
FrameBase(k) ==
    (IF k > 0 THEN Width["nameLen"] ELSE 0) + (IF k > 1 THEN Width["name"] ELSE 0)
        + (IF k > 2 THEN Width["dataLen"] ELSE 0) + (IF k > 3 THEN Width["data"] ELSE 0)

SendBase(e, i) ==
    IF e = "client"
    THEN (IF i > 1 THEN V ELSE 0) + (IF i > 3 THEN V ELSE 0) + FrameBase(i - 4)
            + (IF i > 13 THEN A ELSE 0)
    ELSE (IF i > 2 THEN V ELSE 0) + (IF i > 8 THEN A ELSE 0) + FrameBase(i - 10)

RecvBase(e, i) ==
    IF e = "client"
    THEN (IF i > 2 THEN V ELSE 0) + (IF i > 8 THEN A ELSE 0) + FrameBase(i - 9)
    ELSE (IF i > 1 THEN V ELSE 0) + (IF i > 3 THEN V ELSE 0) + FrameBase(i - 4)
            + (IF i > 14 THEN A ELSE 0)

\* The positions at which an end sends, receives and merges.
Sends(e) == IF e = "client" THEN {1, 3, 4, 5, 6, 7, 13} ELSE {2, 8, 10, 11, 12, 13}
Recvs(e) == IF e = "client" THEN {2, 8, 9, 10, 11, 12} ELSE {1, 3, 4, 5, 6, 7, 14}
MergeAt(e) == IF e = "client" THEN 14 ELSE 9

\* The positions of a field, in either direction.
FieldPositions(e, f) ==
    IF f = "version" THEN 1 .. 3
    ELSE IF f = "nameLen" THEN {4, IF e = "client" THEN 9 ELSE 10}
    ELSE IF f = "name" THEN {5, IF e = "client" THEN 10 ELSE 11}
    ELSE IF f = "dataLen" THEN {6, IF e = "client" THEN 11 ELSE 12}
    ELSE IF f = "data" THEN {7, IF e = "client" THEN 12 ELSE 13}
    ELSE {8, IF e = "client" THEN 13 ELSE 14}

SendDue(e) == SendBase(e, pc[e]) + IF pc[e] \in Sends(e) THEN got[e] ELSE 0
RecvDue(e) == RecvBase(e, pc[e]) + IF pc[e] \in Recvs(e) THEN got[e] ELSE 0

(***************************************************************************)
(* The inductive invariant.                                                *)
(***************************************************************************)

\* The scripts have the same length.
PcInScript == pc \in [End -> 1 .. 18]

\* A field is left when its last byte is sent or received.
WithinField ==
    \A e \in End :
        IF pc[e] \in Sends(e) \cup Recvs(e) THEN got[e] < Width[FieldAt(e)] ELSE got[e] = 0

\* What is sent is what the script has sent.
SentIsDue == \A e \in End : sent[e] = SendDue(e)

\* A socket is closed by an end that is done with it.
ClosedIsDone == \A e \in End : ~open[e] => result[e] # "running" \/ pc[e] >= 16

\* An end that goes on has received all that its script has received, unless the
\* stream ended before; then it receives nothing any more.
ReceivedIsDue ==
    \A e \in End : result[e] = "running" =>
        \/ received[e] = RecvDue(e)
        \/ /\ received[e] < RecvDue(e)
           /\ ~open[Other(e)] /\ received[e] = sent[Other(e)]

\* The bytes counted for the frame are those after what comes before it.
TotalIsOfFrame ==
    /\ total["client"] = IF received["client"] <= V + A THEN 0 ELSE received["client"] - V - A
    /\ total["server"] = IF received["server"] <= V + V THEN 0
                         ELSE IF received["server"] <= V + V + FrameBytes
                         THEN received["server"] - V - V ELSE FrameBytes

\* The client acknowledges what it counted, after the frame; the server goes on
\* only if that is all.
AckIsTotal ==
    /\ acked["client"] = 0 \/ (acked["client"] = total["client"] /\ pc["client"] >= 13)
    /\ pc["server"] >= 15 => acked["client"] = FrameBytes

\* What was merged depends on what was counted.
MergedIsTotal ==
    \A e \in End :
        merged[e] = IF pc[e] <= MergeAt(e) THEN "no"
                    ELSE IF total[e] = FrameBytes THEN "all" ELSE "none"

\* Only an end that did everything reports success or calls hooks.
SuccessIsLast == \A e \in End : result[e] = "success" \/ notified[e] => pc[e] = 18

\* The checks an end has passed, unless the stream ended while it received what
\* it checked.
ChecksPassed ==
    /\ pc["server"] >= 2 => version["client"] = version["server"]
    /\ pc["client"] >= 3 => version["client"] = version["server"] \/ received["client"] < V
    /\ pc["server"] >= 7 => ~oversize["client"] \/ received["server"] < V + V + FrameBase(3)
    /\ pc["client"] >= 12 => ~oversize["server"] \/ received["client"] < V + A + FrameBase(3)
    /\ pc["client"] >= 10 => received["client"] >= V + A + FrameBase(1)

\* The stream ends within the client's frame only if the client gave up before it
\* had any answer to it.
CutClientIsGone ==
    pc["server"] >= 6 /\ received["server"] < V + V + FrameBase(pc["server"] - 4) =>
        received["client"] <= V /\ result["client"] # "running"

IInv ==
    /\ TypeOK
    /\ PcInScript
    /\ WithinField
    /\ SentIsDue
    /\ ClosedIsDone
    /\ ReceivedIsDue
    /\ TotalIsOfFrame
    /\ AckIsTotal
    /\ MergedIsTotal
    /\ SuccessIsLast
    /\ ChecksPassed
    /\ CutClientIsGone

-----------------------------------------------------------------------------
Opn == [op : {"send", "recv", "merge", "close", "stat", "hooks"}, field : Field]

\* What Ops and Act are sequences of.
LEMMA OpsFacts ==
    ASSUME NEW op \in {"send", "recv"}, NEW fields \in Seq(Field)
    PROVE  /\ Ops(op, fields) \in Seq(Opn)
           /\ Len(Ops(op, fields)) = Len(fields)
           /\ \A i \in 1 .. Len(fields) : Ops(op, fields)[i] = [op |-> op, field |-> fields[i]]
<1>1. Len(fields) \in Nat /\ \A i \in 1 .. Len(fields) : fields[i] \in Field
  BY LenProperties, ElementOfSeq
<1>2. \A i \in 1 .. Len(fields) : Ops(op, fields)[i] \in Opn
  BY <1>1 DEF Ops, Opn
<1> QED
  BY <1>1, <1>2, IsASeq DEF Ops

\* A local step of a script.
LEMMA ActFacts ==
    ASSUME NEW op \in {"merge", "close", "stat", "hooks"}
    PROVE  /\ Act(op) \in Seq(Opn)
           /\ Len(Act(op)) = 1
           /\ Act(op)[1] = [op |-> op, field |-> "data"]
<1>1. [op |-> op, field |-> "data"] \in Opn
  BY DEF Opn, Field
<1> QED
  BY <1>1 DEF Act

\* The operation on a single field.
LEMMA OpsOne ==
    ASSUME NEW op \in {"send", "recv"}, NEW f \in Field
    PROVE  /\ Ops(op, <<f>>) \in Seq(Opn)
           /\ Len(Ops(op, <<f>>)) = 1
           /\ Ops(op, <<f>>)[1] = [op |-> op, field |-> f]
<1> DEFINE t == <<f>>
<1>1. t \in Seq(Field) /\ Len(t) = 1 /\ t[1] = f
  OBVIOUS
<1> HIDE DEF t
<1>2. /\ Ops(op, t) \in Seq(Opn)
      /\ Len(Ops(op, t)) = 1
      /\ Ops(op, t)[1] = [op |-> op, field |-> f]
  BY <1>1, OpsFacts
<1> QED
  BY <1>2 DEF t

\* The operations on a frame.
LEMMA OpsFrame ==
    ASSUME NEW op \in {"send", "recv"}
    PROVE  LET o == Ops(op, FrameFields)
           IN  /\ o \in Seq(Opn) /\ Len(o) = 4
               /\ o[1] = [op |-> op, field |-> "nameLen"] /\ o[2] = [op |-> op, field |-> "name"]
               /\ o[3] = [op |-> op, field |-> "dataLen"] /\ o[4] = [op |-> op, field |-> "data"]
<1>1. /\ FrameFields \in Seq(Field) /\ Len(FrameFields) = 4
      /\ FrameFields[1] = "nameLen" /\ FrameFields[2] = "name"
      /\ FrameFields[3] = "dataLen" /\ FrameFields[4] = "data"
  BY DEF FrameFields, Field
<1> QED
  BY <1>1, OpsFacts

\* Concatenation, position by position.
LEMMA ConcatFacts ==
    ASSUME NEW s \in Seq(Opn), NEW t \in Seq(Opn)
    PROVE  /\ s \o t \in Seq(Opn)
           /\ Len(s \o t) = Len(s) + Len(t)
           /\ \A i \in 1 .. Len(s) : (s \o t)[i] = s[i]
           /\ \A i \in 1 .. Len(t) : (s \o t)[Len(s) + i] = t[i]
<1>1. /\ s \o t \in Seq(Opn)
      /\ Len(s \o t) = Len(s) + Len(t)
      /\ \A i \in 1 .. Len(s) + Len(t) :
            (s \o t)[i] = IF i <= Len(s) THEN s[i] ELSE t[i - Len(s)]
  BY ConcatProperties
<1> DEFINE c == s \o t
<1> HIDE DEF c
<1>2. /\ c \in Seq(Opn)
      /\ Len(c) = Len(s) + Len(t)
      /\ \A i \in 1 .. Len(s) + Len(t) : c[i] = IF i <= Len(s) THEN s[i] ELSE t[i - Len(s)]
  BY <1>1 DEF c
<1>3. ASSUME NEW i \in 1 .. Len(s) PROVE c[i] = s[i]
  BY <1>2
<1>4. ASSUME NEW i \in 1 .. Len(t) PROVE c[Len(s) + i] = t[i]
  <2>1. Len(s) \in Nat /\ Len(t) \in Nat
    BY LenProperties
  <2>2. Len(s) + i \in 1 .. Len(s) + Len(t) /\ ~(Len(s) + i <= Len(s)) /\ Len(s) + i - Len(s) = i
    BY <2>1
  <2> QED
    BY <1>2, <2>2
<1> QED
  BY <1>2, <1>3, <1>4 DEF c

\* Concatenation with one operation more.
LEMMA ConcatOne ==
    ASSUME NEW s \in Seq(Opn), NEW t \in Seq(Opn), Len(t) = 1
    PROVE  /\ s \o t \in Seq(Opn)
           /\ Len(s \o t) = Len(s) + 1
           /\ \A i \in 1 .. Len(s) : (s \o t)[i] = s[i]
           /\ (s \o t)[Len(s) + 1] = t[1]
<1> DEFINE c == s \o t
<1>1. /\ c \in Seq(Opn)
      /\ Len(c) = Len(s) + Len(t)
      /\ \A i \in 1 .. Len(s) : c[i] = s[i]
      /\ \A i \in 1 .. Len(t) : c[Len(s) + i] = t[i]
  BY ConcatFacts
<1> HIDE DEF c
<1>2. /\ c \in Seq(Opn) /\ Len(c) = Len(s) + 1 /\ (\A i \in 1 .. Len(s) : c[i] = s[i])
      /\ \A i \in 1 .. 1 : c[Len(s) + i] = t[i]
  BY <1>1
<1>3. c[Len(s) + 1] = t[1]
  BY <1>2
<1> QED
  BY <1>2, <1>3 DEF c

\* Concatenation with a message.
LEMMA ConcatFive ==
    ASSUME NEW s \in Seq(Opn), NEW t \in Seq(Opn), Len(t) = 5
    PROVE  /\ s \o t \in Seq(Opn)
           /\ Len(s \o t) = Len(s) + 5
           /\ \A i \in 1 .. Len(s) : (s \o t)[i] = s[i]
           /\ (s \o t)[Len(s) + 1] = t[1] /\ (s \o t)[Len(s) + 2] = t[2]
           /\ (s \o t)[Len(s) + 3] = t[3] /\ (s \o t)[Len(s) + 4] = t[4]
           /\ (s \o t)[Len(s) + 5] = t[5]
<1> DEFINE c == s \o t
<1>1. /\ c \in Seq(Opn)
      /\ Len(c) = Len(s) + Len(t)
      /\ \A i \in 1 .. Len(s) : c[i] = s[i]
      /\ \A i \in 1 .. Len(t) : c[Len(s) + i] = t[i]
  BY ConcatFacts
<1> HIDE DEF c
<1>2. /\ c \in Seq(Opn) /\ Len(c) = Len(s) + 5 /\ (\A i \in 1 .. Len(s) : c[i] = s[i])
      /\ \A i \in 1 .. 5 : c[Len(s) + i] = t[i]
  BY <1>1
<1>3. /\ c[Len(s) + 1] = t[1] /\ c[Len(s) + 2] = t[2] /\ c[Len(s) + 3] = t[3]
      /\ c[Len(s) + 4] = t[4] /\ c[Len(s) + 5] = t[5]
  BY <1>2
<1> QED
  BY <1>2, <1>3 DEF c

\* The handshakes.
LEMMA HandShakeFacts ==
    ASSUME NEW a \in {"send", "recv"}, NEW b \in {"send", "recv"}
    PROVE  LET h == Ops(a, <<"version">>) \o Ops(b, <<"version">>) \o Ops(a, <<"version">>)
           IN  /\ h \in Seq(Opn) /\ Len(h) = 3
               /\ h[1] = [op |-> a, field |-> "version"]
               /\ h[2] = [op |-> b, field |-> "version"]
               /\ h[3] = [op |-> a, field |-> "version"]
<1> DEFINE s == Ops(a, <<"version">>)
           r == Ops(b, <<"version">>)
           d == s \o r
           h == d \o s
<1>0. "version" \in Field
  BY DEF Field
<1>1. /\ s \in Seq(Opn) /\ Len(s) = 1 /\ s[1] = [op |-> a, field |-> "version"]
      /\ r \in Seq(Opn) /\ Len(r) = 1 /\ r[1] = [op |-> b, field |-> "version"]
  BY <1>0, OpsOne
<1> HIDE DEF s, r
<1>2. /\ d \in Seq(Opn) /\ Len(d) = Len(s) + 1
      /\ (\A i \in 1 .. Len(s) : d[i] = s[i]) /\ d[Len(s) + 1] = r[1]
  BY <1>1, ConcatOne
<1> HIDE DEF d
<1>3. /\ h \in Seq(Opn) /\ Len(h) = Len(d) + 1
      /\ (\A i \in 1 .. Len(d) : h[i] = d[i]) /\ h[Len(d) + 1] = s[1]
  BY <1>1, <1>2, ConcatOne
<1> HIDE DEF h
<1>4. /\ h \in Seq(Opn) /\ Len(h) = 3
      /\ h[1] = [op |-> a, field |-> "version"]
      /\ h[2] = [op |-> b, field |-> "version"]
      /\ h[3] = [op |-> a, field |-> "version"]
  BY <1>1, <1>2, <1>3
<1> QED
  BY <1>4 DEF s, r, d, h

\* The messages: a frame and its acknowledgement.
LEMMA MessageFacts ==
    ASSUME NEW op \in {"send", "recv"}, NEW back \in {"send", "recv"}
    PROVE  LET m == Ops(op, FrameFields) \o Ops(back, <<"ack">>)
           IN  /\ m \in Seq(Opn) /\ Len(m) = 5
               /\ m[1] = [op |-> op, field |-> "nameLen"] /\ m[2] = [op |-> op, field |-> "name"]
               /\ m[3] = [op |-> op, field |-> "dataLen"] /\ m[4] = [op |-> op, field |-> "data"]
               /\ m[5] = [op |-> back, field |-> "ack"]
<1> DEFINE o == Ops(op, FrameFields)
           b == Ops(back, <<"ack">>)
           m == o \o b
<1>0. "ack" \in Field
  BY DEF Field
<1>1. /\ o \in Seq(Opn) /\ Len(o) = 4
      /\ o[1] = [op |-> op, field |-> "nameLen"] /\ o[2] = [op |-> op, field |-> "name"]
      /\ o[3] = [op |-> op, field |-> "dataLen"] /\ o[4] = [op |-> op, field |-> "data"]
  BY OpsFrame
<1>2. b \in Seq(Opn) /\ Len(b) = 1 /\ b[1] = [op |-> back, field |-> "ack"]
  BY <1>0, OpsOne
<1> HIDE DEF o, b
<1>3. /\ m \in Seq(Opn) /\ Len(m) = Len(o) + 1
      /\ (\A i \in 1 .. Len(o) : m[i] = o[i]) /\ m[Len(o) + 1] = b[1]
  BY <1>1, <1>2, ConcatOne
<1> HIDE DEF m
<1>4. /\ m \in Seq(Opn) /\ Len(m) = 5
      /\ m[1] = [op |-> op, field |-> "nameLen"] /\ m[2] = [op |-> op, field |-> "name"]
      /\ m[3] = [op |-> op, field |-> "dataLen"] /\ m[4] = [op |-> op, field |-> "data"]
      /\ m[5] = [op |-> back, field |-> "ack"]
  BY <1>1, <1>2, <1>3
<1> QED
  BY <1>4 DEF o, b, m

\* The operations of the scripts.
S(f) == [op |-> "send", field |-> f]
R(f) == [op |-> "recv", field |-> f]
O(op) == [op |-> op, field |-> "data"]

\* The two messages, position by position.
LEMMA MessageScripts ==
    /\ sendNetworkMessage \in Seq(Opn) /\ Len(sendNetworkMessage) = 5
    /\ sendNetworkMessage[1] = S("nameLen")
    /\ sendNetworkMessage[2] = S("name")
    /\ sendNetworkMessage[3] = S("dataLen")
    /\ sendNetworkMessage[4] = S("data")
    /\ sendNetworkMessage[5] = R("ack")
    /\ receiveNetworkMessage \in Seq(Opn) /\ Len(receiveNetworkMessage) = 5
    /\ receiveNetworkMessage[1] = R("nameLen")
    /\ receiveNetworkMessage[2] = R("name")
    /\ receiveNetworkMessage[3] = R("dataLen")
    /\ receiveNetworkMessage[4] = R("data")
    /\ receiveNetworkMessage[5] = S("ack")
BY MessageFacts DEF sendNetworkMessage, receiveNetworkMessage, S, R

\* syncWithPeer, position by position.
LEMMA ClientScriptFacts ==
    /\ Len(ClientScript) = 17
    /\ ClientScript[1] = S("version") /\ ClientScript[2] = R("version")
    /\ ClientScript[3] = S("version") /\ ClientScript[4] = S("nameLen")
    /\ ClientScript[5] = S("name") /\ ClientScript[6] = S("dataLen")
    /\ ClientScript[7] = S("data") /\ ClientScript[8] = R("ack")
    /\ ClientScript[9] = R("nameLen") /\ ClientScript[10] = R("name")
    /\ ClientScript[11] = R("dataLen") /\ ClientScript[12] = R("data")
    /\ ClientScript[13] = S("ack") /\ ClientScript[14] = O("merge")
    /\ ClientScript[15] = O("close") /\ ClientScript[16] = O("stat")
    /\ ClientScript[17] = O("hooks")
<1> DEFINE h == clientHandShake
           s == sendNetworkMessage
           r == receiveNetworkMessage
           c1 == h \o s
           c2 == c1 \o r
           c3 == c2 \o Act("merge")
           c4 == c3 \o Act("close")
           c5 == c4 \o Act("stat")
           c6 == c5 \o Act("hooks")
<1>1. ClientScript = c6
  BY DEF ClientScript
<1>2. /\ h \in Seq(Opn) /\ Len(h) = 3
      /\ h[1] = S("version") /\ h[2] = R("version") /\ h[3] = S("version")
  BY HandShakeFacts DEF clientHandShake, S, R
<1>3. /\ s \in Seq(Opn) /\ Len(s) = 5 /\ r \in Seq(Opn) /\ Len(r) = 5
      /\ s[1] = S("nameLen") /\ s[2] = S("name") /\ s[3] = S("dataLen")
      /\ s[4] = S("data") /\ s[5] = R("ack")
      /\ r[1] = R("nameLen") /\ r[2] = R("name") /\ r[3] = R("dataLen")
      /\ r[4] = R("data") /\ r[5] = S("ack")
  BY MessageScripts
<1> HIDE DEF h, s, r
<1>4. /\ c1 \in Seq(Opn) /\ Len(c1) = Len(h) + 5
      /\ \A i \in 1 .. Len(h) : c1[i] = h[i]
      /\ c1[Len(h) + 1] = s[1] /\ c1[Len(h) + 2] = s[2] /\ c1[Len(h) + 3] = s[3]
      /\ c1[Len(h) + 4] = s[4] /\ c1[Len(h) + 5] = s[5]
  BY <1>2, <1>3, ConcatFive
<1> HIDE DEF c1
<1>5. /\ c2 \in Seq(Opn) /\ Len(c2) = Len(c1) + 5
      /\ \A i \in 1 .. Len(c1) : c2[i] = c1[i]
      /\ c2[Len(c1) + 1] = r[1] /\ c2[Len(c1) + 2] = r[2] /\ c2[Len(c1) + 3] = r[3]
      /\ c2[Len(c1) + 4] = r[4] /\ c2[Len(c1) + 5] = r[5]
  BY <1>4, <1>3, ConcatFive
<1> HIDE DEF c2
<1>6. /\ c3 \in Seq(Opn) /\ Len(c3) = Len(c2) + 1
      /\ \A i \in 1 .. Len(c2) : c3[i] = c2[i]
      /\ c3[Len(c2) + 1] = O("merge")
  BY <1>5, ActFacts, ConcatOne DEF O
<1> HIDE DEF c3
<1>7. /\ c4 \in Seq(Opn) /\ Len(c4) = Len(c3) + 1
      /\ \A i \in 1 .. Len(c3) : c4[i] = c3[i]
      /\ c4[Len(c3) + 1] = O("close")
  BY <1>6, ActFacts, ConcatOne DEF O
<1> HIDE DEF c4
<1>8. /\ c5 \in Seq(Opn) /\ Len(c5) = Len(c4) + 1
      /\ \A i \in 1 .. Len(c4) : c5[i] = c4[i]
      /\ c5[Len(c4) + 1] = O("stat")
  BY <1>7, ActFacts, ConcatOne DEF O
<1> HIDE DEF c5
<1>9. /\ c6 \in Seq(Opn) /\ Len(c6) = Len(c5) + 1
      /\ \A i \in 1 .. Len(c5) : c6[i] = c5[i]
      /\ c6[Len(c5) + 1] = O("hooks")
  BY <1>8, ActFacts, ConcatOne DEF O
<1> HIDE DEF c6
<1>10. Len(c1) = 8 /\ Len(c2) = 13 /\ Len(c3) = 14 /\ Len(c4) = 15 /\ Len(c5) = 16 /\ Len(c6) = 17
  BY <1>2, <1>3, <1>4, <1>5, <1>6, <1>7, <1>8, <1>9
<1> QED
  BY <1>1, <1>2, <1>3, <1>4, <1>5, <1>6, <1>7, <1>8, <1>9, <1>10

\* handleReqSyncConnection, position by position.
LEMMA ServerScriptFacts ==
    /\ Len(ServerScript) = 17
    /\ ServerScript[1] = R("version") /\ ServerScript[2] = S("version")
    /\ ServerScript[3] = R("version") /\ ServerScript[4] = R("nameLen")
    /\ ServerScript[5] = R("name") /\ ServerScript[6] = R("dataLen")
    /\ ServerScript[7] = R("data") /\ ServerScript[8] = S("ack")
    /\ ServerScript[9] = O("merge") /\ ServerScript[10] = S("nameLen")
    /\ ServerScript[11] = S("name") /\ ServerScript[12] = S("dataLen")
    /\ ServerScript[13] = S("data") /\ ServerScript[14] = R("ack")
    /\ ServerScript[15] = O("close") /\ ServerScript[16] = O("stat")
    /\ ServerScript[17] = O("hooks")
<1> DEFINE h == serverHandShake
           s == sendNetworkMessage
           r == receiveNetworkMessage
           c1 == h \o r
           c2 == c1 \o Act("merge")
           c3 == c2 \o s
           c4 == c3 \o Act("close")
           c5 == c4 \o Act("stat")
           c6 == c5 \o Act("hooks")
<1>1. ServerScript = c6
  BY DEF ServerScript
<1>2. /\ h \in Seq(Opn) /\ Len(h) = 3
      /\ h[1] = R("version") /\ h[2] = S("version") /\ h[3] = R("version")
  BY HandShakeFacts DEF serverHandShake, S, R
<1>3. /\ s \in Seq(Opn) /\ Len(s) = 5 /\ r \in Seq(Opn) /\ Len(r) = 5
      /\ s[1] = S("nameLen") /\ s[2] = S("name") /\ s[3] = S("dataLen")
      /\ s[4] = S("data") /\ s[5] = R("ack")
      /\ r[1] = R("nameLen") /\ r[2] = R("name") /\ r[3] = R("dataLen")
      /\ r[4] = R("data") /\ r[5] = S("ack")
  BY MessageScripts
<1> HIDE DEF h, s, r
<1>4. /\ c1 \in Seq(Opn) /\ Len(c1) = Len(h) + 5
      /\ \A i \in 1 .. Len(h) : c1[i] = h[i]
      /\ c1[Len(h) + 1] = r[1] /\ c1[Len(h) + 2] = r[2] /\ c1[Len(h) + 3] = r[3]
      /\ c1[Len(h) + 4] = r[4] /\ c1[Len(h) + 5] = r[5]
  BY <1>2, <1>3, ConcatFive
<1> HIDE DEF c1
<1>5. /\ c2 \in Seq(Opn) /\ Len(c2) = Len(c1) + 1
      /\ \A i \in 1 .. Len(c1) : c2[i] = c1[i]
      /\ c2[Len(c1) + 1] = O("merge")
  BY <1>4, ActFacts, ConcatOne DEF O
<1> HIDE DEF c2
<1>6. /\ c3 \in Seq(Opn) /\ Len(c3) = Len(c2) + 5
      /\ \A i \in 1 .. Len(c2) : c3[i] = c2[i]
      /\ c3[Len(c2) + 1] = s[1] /\ c3[Len(c2) + 2] = s[2] /\ c3[Len(c2) + 3] = s[3]
      /\ c3[Len(c2) + 4] = s[4] /\ c3[Len(c2) + 5] = s[5]
  BY <1>5, <1>3, ConcatFive
<1> HIDE DEF c3
<1>7. /\ c4 \in Seq(Opn) /\ Len(c4) = Len(c3) + 1
      /\ \A i \in 1 .. Len(c3) : c4[i] = c3[i]
      /\ c4[Len(c3) + 1] = O("close")
  BY <1>6, ActFacts, ConcatOne DEF O
<1> HIDE DEF c4
<1>8. /\ c5 \in Seq(Opn) /\ Len(c5) = Len(c4) + 1
      /\ \A i \in 1 .. Len(c4) : c5[i] = c4[i]
      /\ c5[Len(c4) + 1] = O("stat")
  BY <1>7, ActFacts, ConcatOne DEF O
<1> HIDE DEF c5
<1>9. /\ c6 \in Seq(Opn) /\ Len(c6) = Len(c5) + 1
      /\ \A i \in 1 .. Len(c5) : c6[i] = c5[i]
      /\ c6[Len(c5) + 1] = O("hooks")
  BY <1>8, ActFacts, ConcatOne DEF O
<1> HIDE DEF c6
<1>10. Len(c1) = 8 /\ Len(c2) = 9 /\ Len(c3) = 14 /\ Len(c4) = 15 /\ Len(c5) = 16 /\ Len(c6) = 17
  BY <1>2, <1>3, <1>4, <1>5, <1>6, <1>7, <1>8, <1>9
<1> QED
  BY <1>1, <1>2, <1>3, <1>4, <1>5, <1>6, <1>7, <1>8, <1>9, <1>10

\* What a position of a script says, as the positions of each operation and field.
LEMMA ScriptTable ==
    ASSUME NEW e \in End
    PROVE  /\ Len(Script(e)) = 17
           /\ \A i \in 1 .. 17 :
                /\ Script(e)[i].op = "send" <=> i \in Sends(e)
                /\ Script(e)[i].op = "recv" <=> i \in Recvs(e)
                /\ Script(e)[i].op = "merge" <=> i = MergeAt(e)
                /\ Script(e)[i].op = "close" <=> i = 15
                /\ Script(e)[i].op = "stat" <=> i = 16
                /\ Script(e)[i].op = "hooks" <=> i = 17
                /\ Script(e)[i].field \in Field
                /\ i \in Sends(e) \cup Recvs(e) =>
                      \A f \in Field : Script(e)[i].field = f <=> i \in FieldPositions(e, f)
<1>1. CASE e = "client"
  BY <1>1, ClientScriptFacts DEF Script, S, R, O, Sends, Recvs, MergeAt, FieldPositions, Field
<1>2. CASE e = "server"
  BY <1>2, ServerScriptFacts DEF Script, S, R, O, Sends, Recvs, MergeAt, FieldPositions, Field
<1> QED
  BY <1>1, <1>2 DEF End

\* The widths are positive.
LEMMA WidthFacts ==
    /\ \A f \in Field : Width[f] \in Nat /\ Width[f] > 0
    /\ V \in Nat /\ V > 0 /\ A \in Nat /\ A > 0
    /\ Width["nameLen"] \in Nat /\ Width["nameLen"] > 0
    /\ Width["name"] \in Nat /\ Width["name"] > 0
    /\ Width["dataLen"] \in Nat /\ Width["dataLen"] > 0
    /\ Width["data"] \in Nat /\ Width["data"] > 0
    /\ FrameBytes \in Nat /\ FrameBytes > 0
BY WidthAssumption DEF Field, V, A, FrameBytes

\* The bytes before a position are those before the one before it, and its own.
LEMMA BaseStep ==
    ASSUME NEW e \in End, NEW i \in 1 .. 17
    PROVE  /\ i \in Sends(e) =>
                /\ SendBase(e, i + 1) = SendBase(e, i) + Width[Script(e)[i].field]
                /\ RecvBase(e, i + 1) = RecvBase(e, i)
           /\ i \in Recvs(e) =>
                /\ RecvBase(e, i + 1) = RecvBase(e, i) + Width[Script(e)[i].field]
                /\ SendBase(e, i + 1) = SendBase(e, i)
           /\ i \notin Sends(e) \cup Recvs(e) =>
                SendBase(e, i + 1) = SendBase(e, i) /\ RecvBase(e, i + 1) = RecvBase(e, i)
           /\ ~(i \in Sends(e) /\ i \in Recvs(e))
<1>1. CASE e = "client"
  BY <1>1, ClientScriptFacts, WidthFacts
     DEF Script, S, R, Sends, Recvs, SendBase, RecvBase, FrameBase, V, A
<1>2. CASE e = "server"
  BY <1>2, ServerScriptFacts, WidthFacts
     DEF Script, S, R, Sends, Recvs, SendBase, RecvBase, FrameBase, V, A
<1> QED
  BY <1>1, <1>2 DEF End

\* What the bytes before a position amount to.
LEMMA BaseFacts ==
    ASSUME NEW i \in 1 .. 18
    PROVE  /\ \A e \in End : SendBase(e, i) \in Nat /\ RecvBase(e, i) \in Nat
           /\ i >= 14 => SendBase("client", i) = V + V + FrameBytes + A
           /\ i <= 9 => SendBase("server", i) <= V + A
           /\ i <= 8 => SendBase("server", i) <= V
           /\ SendBase("server", i) <= V + A + FrameBytes
           /\ i \in Sends("server") =>
                SendBase("server", i) + Width[ServerScript[i].field] <= V + A + FrameBytes
           /\ i <= 9 /\ i \in Sends("server") =>
                SendBase("server", i) + Width[ServerScript[i].field] <= V + A
<1>1. /\ \A e \in End : SendBase(e, i) \in Nat /\ RecvBase(e, i) \in Nat
      /\ i >= 14 => SendBase("client", i) = V + V + FrameBytes + A
      /\ i <= 9 => SendBase("server", i) <= V + A
      /\ i <= 8 => SendBase("server", i) <= V
      /\ SendBase("server", i) <= V + A + FrameBytes
  BY WidthFacts DEF End, SendBase, RecvBase, FrameBase, FrameBytes
<1>2. /\ i \in Sends("server") =>
                SendBase("server", i) + Width[ServerScript[i].field] <= V + A + FrameBytes
      /\ i <= 9 /\ i \in Sends("server") =>
                SendBase("server", i) + Width[ServerScript[i].field] <= V + A
  BY WidthFacts, ServerScriptFacts
     DEF S, R, Sends, SendBase, FrameBase, FrameBytes, V, A
<1> QED
  BY <1>1, <1>2

-----------------------------------------------------------------------------
\* What an end that is at an operation knows of its position.
LEMMA RunningFacts ==
    ASSUME TypeOK, PcInScript, NEW e \in End
    PROVE  /\ pc[e] \in 1 .. 18
           /\ Running(e, "send") => pc[e] \in 1 .. 17 /\ pc[e] \in Sends(e)
           /\ Running(e, "recv") => pc[e] \in 1 .. 17 /\ pc[e] \in Recvs(e)
           /\ Running(e, "merge") => pc[e] = MergeAt(e)
           /\ Running(e, "close") => pc[e] = 15
           /\ Running(e, "stat") => pc[e] = 16
           /\ Running(e, "hooks") => pc[e] = 17
           /\ \A op \in STRING : Running(e, op) => result[e] = "running"
           /\ pc[e] <= 17 => FieldAt(e) \in Field /\ FieldAt(e) = Script(e)[pc[e]].field
           /\ pc[e] \in Sends(e) \cup Recvs(e) =>
                \A f \in Field : FieldAt(e) = f <=> pc[e] \in FieldPositions(e, f)
<1>1. pc[e] \in 1 .. 18
  BY DEF PcInScript
<1>2. pc[e] \in Sends(e) \cup Recvs(e) => pc[e] \in 1 .. 17
  BY <1>1 DEF Sends, Recvs
<1>0. Len(Script(e)) = 17
  BY ScriptTable
<1>3. \A op \in STRING : Running(e, op) => result[e] = "running"
  BY DEF Running
<1>4. /\ Running(e, "send") => pc[e] \in 1 .. 17 /\ pc[e] \in Sends(e)
      /\ Running(e, "recv") => pc[e] \in 1 .. 17 /\ pc[e] \in Recvs(e)
      /\ Running(e, "merge") => pc[e] = MergeAt(e)
      /\ Running(e, "close") => pc[e] = 15
      /\ Running(e, "stat") => pc[e] = 16
      /\ Running(e, "hooks") => pc[e] = 17
  <2>1. \A i \in 1 .. 17 :
          /\ Script(e)[i].op = "send" <=> i \in Sends(e)
          /\ Script(e)[i].op = "recv" <=> i \in Recvs(e)
          /\ Script(e)[i].op = "merge" <=> i = MergeAt(e)
          /\ Script(e)[i].op = "close" <=> i = 15
          /\ Script(e)[i].op = "stat" <=> i = 16
          /\ Script(e)[i].op = "hooks" <=> i = 17
    BY ScriptTable
  <2> QED
    BY <1>0, <1>1, <2>1 DEF Running
<1>5. pc[e] <= 17 => FieldAt(e) \in Field /\ FieldAt(e) = Script(e)[pc[e]].field
  BY <1>1, ScriptTable DEF FieldAt
<1>6. pc[e] \in Sends(e) \cup Recvs(e) =>
         \A f \in Field : FieldAt(e) = f <=> pc[e] \in FieldPositions(e, f)
  BY <1>2, ScriptTable DEF FieldAt
<1> QED
  BY <1>1, <1>3, <1>4, <1>5, <1>6

\* Within the script, or at its end.
LEMMA PcBound ==
    ASSUME NEW p \in [End -> 1 .. 18]
    PROVE  \A e \in End : p[e] \in 1 .. (Len(Script(e)) + 1)
<1> TAKE e \in End
<1>1. Len(Script(e)) = 17
  BY ScriptTable
<1>2. p[e] \in 1 .. (17 + 1)
  OBVIOUS
<1> QED
  BY <1>1, <1>2

\* What the script has sent and received when an end goes on to the next position.
LEMMA AdvanceDue ==
    ASSUME PcInScript, got \in [End -> Nat], NEW e \in End, pc[e] <= 17, Advance(e)
    PROVE  /\ PcInScript' /\ got' \in [End -> Nat]
           /\ pc'[e] = pc[e] + 1 /\ got'[e] = 0
           /\ SendDue(e)' = SendBase(e, pc[e] + 1) /\ RecvDue(e)' = RecvBase(e, pc[e] + 1)
           /\ \A x \in End : x # e => /\ pc'[x] = pc[x] /\ got'[x] = got[x]
                                      /\ SendDue(x)' = SendDue(x) /\ RecvDue(x)' = RecvDue(x)
<1>1. /\ PcInScript' /\ got' \in [End -> Nat]
      /\ pc'[e] = pc[e] + 1 /\ got'[e] = 0
      /\ \A x \in End : x # e => pc'[x] = pc[x] /\ got'[x] = got[x]
  BY DEF PcInScript, Advance
<1>2. SendBase(e, pc[e] + 1) \in Nat /\ RecvBase(e, pc[e] + 1) \in Nat
  BY BaseFacts DEF PcInScript
<1> QED
  BY <1>1, <1>2 DEF SendDue, RecvDue

\* The other end.
LEMMA OtherFacts ==
    /\ Other("client") = "server" /\ Other("server") = "client"
    /\ \A e \in End : Other(e) \in End /\ Other(e) # e /\ Other(Other(e)) = e
                      /\ \A x \in End : x = e \/ x = Other(e)
BY DEF Other, End

\* A byte sent keeps the invariant.
LEMMA SendStep ==
    ASSUME IInv, NEW e \in End, Send(e)
    PROVE  IInv'
<1> USE DEF IInv
<1> DEFINE i == pc[e]
           w == Width[FieldAt(e)]
<1>1. /\ i \in 1 .. 17 /\ i \in Sends(e) /\ i \notin Recvs(e) /\ i <= 13
      /\ result[e] = "running" /\ open[e]
      /\ w \in Nat /\ w > 0 /\ w = Width[Script(e)[i].field] /\ got[e] \in Nat /\ got[e] < w
  <2>1. Running(e, "send") /\ result[e] = "running"
    BY DEF Send, Running
  <2>2. i \in 1 .. 17 /\ i \in Sends(e) /\ FieldAt(e) \in Field /\ w = Width[Script(e)[i].field]
    BY <2>1, RunningFacts
  <2>3. i \notin Recvs(e) /\ i <= 13
    BY <2>2 DEF Sends, Recvs, End
  <2>4. open[e]
    BY <2>1, <2>3 DEF ClosedIsDone, TypeOK
  <2>5. w \in Nat /\ w > 0
    BY <2>2, WidthFacts
  <2>6. got[e] \in Nat /\ got[e] < w
    BY <2>2 DEF WithinField, TypeOK
  <2> QED
    BY <2>1, <2>2, <2>3, <2>4, <2>5, <2>6
<1>2. /\ sent' = [sent EXCEPT ![e] = @ + 1]
      /\ acked' = [acked EXCEPT ![e] = IF FieldAt(e) = "ack" THEN total[e] ELSE @]
      /\ received' = received /\ total' = total /\ open' = open /\ result' = result
      /\ merged' = merged /\ changes' = changes /\ notified' = notified
      /\ version' = version /\ oversize' = oversize /\ isPeer' = isPeer
  BY DEF Send, outcome, constants
<1>3. /\ PcInScript' /\ got' \in [End -> Nat]
      /\ SendDue(e)' = SendDue(e) + 1 /\ RecvDue(e)' = RecvDue(e)
      /\ \A x \in End : x # e => /\ pc'[x] = pc[x] /\ got'[x] = got[x]
                                 /\ SendDue(x)' = SendDue(x) /\ RecvDue(x)' = RecvDue(x)
      /\ \/ pc'[e] = i /\ got'[e] = got[e] + 1 /\ got[e] + 1 < w
         \/ pc'[e] = i + 1 /\ got'[e] = 0
  <2>0. /\ SendDue(e) = SendBase(e, i) + got[e] /\ RecvDue(e) = RecvBase(e, i)
        /\ SendBase(e, i) \in Nat /\ RecvBase(e, i) \in Nat
    BY <1>1, BaseFacts DEF SendDue, RecvDue
  <2>1. CASE got[e] + 1 < w
    <3>1. pc' = pc /\ got' = [got EXCEPT ![e] = @ + 1]
      BY <2>1 DEF Send
    <3>2. got' \in [End -> Nat] /\ got'[e] = got[e] + 1 /\ \A x \in End : x # e => got'[x] = got[x]
      BY <3>1 DEF TypeOK
    <3> QED
      BY <1>1, <2>0, <2>1, <3>1, <3>2 DEF PcInScript, SendDue, RecvDue
  <2>2. CASE ~(got[e] + 1 < w)
    <3>1. Advance(e)
      BY <2>2 DEF Send
    <3>2. SendBase(e, i + 1) = SendBase(e, i) + w /\ RecvBase(e, i + 1) = RecvBase(e, i)
      BY <1>1, BaseStep
    <3>3. got \in [End -> Nat] /\ PcInScript /\ i <= 17
      BY <1>1 DEF TypeOK
    <3>4. /\ PcInScript' /\ got' \in [End -> Nat]
          /\ pc'[e] = i + 1 /\ got'[e] = 0
          /\ SendDue(e)' = SendBase(e, i + 1) /\ RecvDue(e)' = RecvBase(e, i + 1)
          /\ \A x \in End : x # e => /\ pc'[x] = pc[x] /\ got'[x] = got[x]
                                     /\ SendDue(x)' = SendDue(x) /\ RecvDue(x)' = RecvDue(x)
      BY <3>1, <3>3, AdvanceDue
    <3> QED
      BY <1>1, <2>0, <2>2, <3>2, <3>4
  <2> QED
    BY <2>1, <2>2
<1>4. /\ sent'[e] = sent[e] + 1 /\ sent' \in [End -> Nat]
      /\ \A x \in End : x # e => sent'[x] = sent[x] /\ acked'[x] = acked[x]
      /\ acked'[e] = IF FieldAt(e) = "ack" THEN total[e] ELSE acked[e]
      /\ acked' \in [End -> 0 .. FrameBytes]
  BY <1>2 DEF TypeOK
<1>5. \A x \in End : sent[x] \in Nat /\ received[x] \in Nat /\ received[x] <= sent[Other(x)]
  BY OtherFacts DEF TypeOK
<1>6. TypeOK'
  <2>1. \A x \in End : pc'[x] \in 1 .. (Len(Script(x)) + 1)
    BY <1>3, PcBound DEF PcInScript
  <2>2. \A x \in End : received'[x] <= sent'[Other(x)]
    BY <1>2, <1>4, <1>5, OtherFacts
  <2> QED
    BY <1>2, <1>3, <1>4, <2>1, <2>2 DEF TypeOK
<1>7. WithinField'
  <2> SUFFICES ASSUME NEW x \in End
               PROVE  IF pc'[x] \in Sends(x) \cup Recvs(x)
                      THEN got'[x] < Width[FieldAt(x)'] ELSE got'[x] = 0
    BY DEF WithinField
  <2>1. CASE x # e
    BY <1>3, <2>1 DEF WithinField, FieldAt
  <2>2. CASE x = e /\ pc'[e] = i
    BY <1>1, <1>3, <2>2 DEF FieldAt
  <2>3. CASE x = e /\ pc'[e] = i + 1
    <3>1. pc'[e] \in Sends(e) \cup Recvs(e) => pc'[e] \in 1 .. 17
      BY <1>1, <2>3 DEF Sends, Recvs
    <3>2. pc'[e] \in Sends(e) \cup Recvs(e) => FieldAt(e)' \in Field
      BY <3>1, ScriptTable DEF FieldAt
    <3> QED
      BY <1>1, <1>3, <2>3, <3>2, WidthFacts
  <2> QED
    BY <1>3, <2>1, <2>2, <2>3
<1>8. SentIsDue'
  BY <1>3, <1>4 DEF SentIsDue
<1>9. ClosedIsDone'
  BY <1>1, <1>2, <1>3 DEF ClosedIsDone, PcInScript
<1>10. ReceivedIsDue'
  <2> SUFFICES ASSUME NEW x \in End, result[x] = "running"
               PROVE  \/ received[x] = RecvDue(x)
                      \/ /\ received[x] < RecvDue(x) /\ ~open[Other(x)]
                         /\ received[x] = sent'[Other(x)]
    BY <1>2, <1>3 DEF ReceivedIsDue
  <2>1. CASE x = e
    BY <1>4, <2>1, OtherFacts DEF ReceivedIsDue
  <2>2. CASE x # e
    BY <1>1, <2>2, OtherFacts DEF ReceivedIsDue
  <2> QED
    BY <2>1, <2>2
<1>11. TotalIsOfFrame'
  BY <1>2 DEF TotalIsOfFrame
<1>12. AckIsTotal'
  <2>1. e = "client" => (FieldAt(e) = "ack" => i = 13)
    BY <1>1, RunningFacts DEF FieldPositions, Sends, Field
  <2> QED
    BY <1>1, <1>2, <1>3, <1>4, <2>1 DEF AckIsTotal, End, Sends, PcInScript
<1>13. MergedIsTotal'
  <2>1. \A x \in End : pc'[x] <= MergeAt(x) <=> pc[x] <= MergeAt(x)
    BY <1>1, <1>3 DEF MergeAt, Sends, End, PcInScript
  <2> QED
    BY <1>2, <2>1 DEF MergedIsTotal
<1>14. SuccessIsLast'
  BY <1>1, <1>2, <1>3 DEF SuccessIsLast
<1>15. ChecksPassed'
  BY <1>1, <1>2, <1>3 DEF ChecksPassed, Sends, End, PcInScript
<1>16. CutClientIsGone'
  BY <1>1, <1>2, <1>3 DEF CutClientIsGone, Sends, End, PcInScript, FrameBase
<1> QED
  BY <1>3, <1>6, <1>7, <1>8, <1>9, <1>10, <1>11, <1>12, <1>13, <1>14, <1>15, <1>16

\* An end that stops, on an error or because it is killed, keeps the invariant.
LEMMA StopStep ==
    ASSUME IInv, NEW e \in End, result[e] = "running",
           NEW r \in {"failure", "dead"}, result' = [result EXCEPT ![e] = r],
           open' = [open EXCEPT ![e] = FALSE],
           UNCHANGED <<pc, got, sent, received, total, acked, outcome, constants>>
    PROVE  IInv'
<1> USE DEF IInv
<1>1. /\ pc' = pc /\ got' = got /\ sent' = sent /\ received' = received /\ total' = total
      /\ acked' = acked /\ merged' = merged /\ changes' = changes /\ notified' = notified
      /\ version' = version /\ oversize' = oversize /\ isPeer' = isPeer
  BY DEF outcome, constants
<1>2. /\ result'[e] = r /\ \A x \in End : x # e => result'[x] = result[x] /\ open'[x] = open[x]
      /\ result' \in [End -> {"running", "success", "failure", "dead"}]
      /\ open' \in [End -> BOOLEAN] /\ open'[e] = FALSE
  BY DEF TypeOK
<1>3. TypeOK'
  BY <1>1, <1>2 DEF TypeOK
<1>4. PcInScript' /\ WithinField' /\ SentIsDue'
  BY <1>1 DEF PcInScript, WithinField, SentIsDue, SendDue, FieldAt
<1>5. ClosedIsDone'
  BY <1>1, <1>2 DEF ClosedIsDone
<1>6. ReceivedIsDue'
  BY <1>1, <1>2, OtherFacts DEF ReceivedIsDue, RecvDue
<1>7. TotalIsOfFrame' /\ AckIsTotal' /\ MergedIsTotal'
  BY <1>1 DEF TotalIsOfFrame, AckIsTotal, MergedIsTotal
<1>8. SuccessIsLast'
  BY <1>1, <1>2 DEF SuccessIsLast
<1>9. ChecksPassed' /\ CutClientIsGone'
  BY <1>1, <1>2 DEF ChecksPassed, CutClientIsGone, End
<1> QED
  BY <1>3, <1>4, <1>5, <1>6, <1>7, <1>8, <1>9

\* Leaving an operation that is neither a send nor a receive: nothing is due that
\* was not due before.
LEMMA AfterLocal ==
    ASSUME IInv, NEW e \in End, pc[e] \in {MergeAt(e), 15, 16, 17}, Advance(e),
           UNCHANGED <<sent, received, total, acked, constants>>,
           result[e] = "running", open'[e] => open[e],
           \A x \in End : x # e => /\ result'[x] = result[x] /\ open'[x] = open[x]
                                   /\ notified'[x] = notified[x],
           open[e] /\ ~open'[e] => pc[e] >= 15,
           result'[e] = "success" \/ notified'[e] => pc[e] = 17
    PROVE  /\ PcInScript' /\ got' \in [End -> Nat] /\ WithinField' /\ SentIsDue' /\ ClosedIsDone'
           /\ ReceivedIsDue' /\ TotalIsOfFrame' /\ AckIsTotal' /\ SuccessIsLast'
           /\ ChecksPassed' /\ CutClientIsGone'
           /\ pc'[e] = pc[e] + 1 /\ \A x \in End : x # e => pc'[x] = pc[x]
<1> USE DEF IInv
<1> DEFINE i == pc[e]
<1>1. /\ i \in 1 .. 17 /\ i \notin Sends(e) /\ i \notin Recvs(e)
      /\ e = "client" => i \in 14 .. 17
      /\ e = "server" => i \in {9, 15, 16, 17}
  BY DEF MergeAt, Sends, Recvs, End
<1>2. SendDue(e) = SendBase(e, i) /\ RecvDue(e) = RecvBase(e, i)
  BY <1>1, BaseFacts DEF SendDue, RecvDue
<1>3. SendBase(e, i + 1) = SendBase(e, i) /\ RecvBase(e, i + 1) = RecvBase(e, i)
  BY <1>1, BaseStep
<1>4. got \in [End -> Nat] /\ PcInScript /\ i <= 17
  <2>1. got \in [End -> Nat] /\ PcInScript
    BY Zenon DEF TypeOK
  <2> QED
    BY <1>1, <2>1
<1>5. /\ PcInScript' /\ got' \in [End -> Nat]
      /\ pc'[e] = i + 1 /\ got'[e] = 0
      /\ SendDue(e)' = SendBase(e, i + 1) /\ RecvDue(e)' = RecvBase(e, i + 1)
      /\ \A x \in End : x # e => /\ pc'[x] = pc[x] /\ got'[x] = got[x]
                                 /\ SendDue(x)' = SendDue(x) /\ RecvDue(x)' = RecvDue(x)
  BY <1>4, AdvanceDue
<1>6. \A x \in End : SendDue(x)' = SendDue(x) /\ RecvDue(x)' = RecvDue(x)
  BY <1>2, <1>3, <1>5
<1>7. /\ sent' = sent /\ received' = received /\ total' = total /\ acked' = acked
      /\ version' = version /\ oversize' = oversize
  BY DEF constants
<1>8. WithinField'
  <2> SUFFICES ASSUME NEW x \in End
               PROVE  IF pc'[x] \in Sends(x) \cup Recvs(x)
                      THEN got'[x] < Width[FieldAt(x)'] ELSE got'[x] = 0
    BY DEF WithinField
  <2>1. CASE x # e
    BY <1>5, <2>1 DEF WithinField, FieldAt
  <2>2. CASE x = e
    <3>1. pc'[e] \in Sends(e) \cup Recvs(e) => pc'[e] \in 1 .. 17
      BY <1>1, <1>5 DEF Sends, Recvs
    <3>2. pc'[e] \in Sends(e) \cup Recvs(e) => FieldAt(e)' \in Field
      BY <3>1, ScriptTable DEF FieldAt
    <3> QED
      BY <1>5, <2>2, <3>2, WidthFacts
  <2> QED
    BY <2>1, <2>2
<1>9. SentIsDue'
  BY <1>6, <1>7 DEF SentIsDue
<1>10. ClosedIsDone'
  BY <1>1, <1>5 DEF ClosedIsDone
<1>11. ReceivedIsDue'
  <2>1. \A x \in End : result'[x] = "running" => result[x] = "running"
    OBVIOUS
  <2>2. \A x \in End : ~open[x] => ~open'[x]
    OBVIOUS
  <2> QED
    BY <1>6, <1>7, <2>1, <2>2, OtherFacts DEF ReceivedIsDue
<1>12. TotalIsOfFrame'
  BY <1>7 DEF TotalIsOfFrame
<1>13. AckIsTotal'
  BY <1>1, <1>5, <1>7 DEF AckIsTotal, End, PcInScript
<1>14. SuccessIsLast'
  BY <1>5 DEF SuccessIsLast
<1>15. ChecksPassed'
  BY <1>1, <1>5, <1>7 DEF ChecksPassed, End, PcInScript
<1>16. CutClientIsGone'
  BY <1>1, <1>5, <1>7 DEF CutClientIsGone, End, PcInScript, FrameBase
<1> QED
  BY <1>5, <1>8, <1>9, <1>10, <1>11, <1>12, <1>13, <1>14, <1>15, <1>16

\* The merge keeps the invariant.
LEMMA MergeStep ==
    ASSUME IInv, NEW e \in End, Merge(e)
    PROVE  IInv'
<1> USE DEF IInv
<1>1. result[e] = "running" /\ pc[e] = MergeAt(e) /\ Advance(e)
  <2>1. Running(e, "merge") /\ result[e] = "running" /\ Advance(e)
    BY DEF Merge, Running
  <2> QED
    BY <2>1, RunningFacts
<1>2. /\ sent' = sent /\ received' = received /\ total' = total /\ acked' = acked
      /\ version' = version /\ oversize' = oversize /\ isPeer' = isPeer
      /\ open' = open /\ result' = result /\ notified' = notified
  BY DEF Merge, constants
<1>3. UNCHANGED <<sent, received, total, acked, constants>>
  BY <1>2 DEF constants
<1>4. /\ pc[e] < 15 /\ result[e] # "success" /\ ~notified[e]
      /\ merged' \in [End -> {"no", "all", "none"}] /\ changes' \in [End -> BOOLEAN]
      /\ merged'[e] = IF total[e] = FrameBytes THEN "all" ELSE "none"
      /\ \A x \in End : x # e => merged'[x] = merged[x]
  <2>1. pc[e] < 15 /\ result[e] # "success" /\ ~notified[e]
    BY <1>1 DEF MergeAt, SuccessIsLast
  <2>2. merged' = [merged EXCEPT ![e] = IF total[e] = FrameBytes THEN "all" ELSE "none"]
    BY DEF Merge
  <2>3. changes' = changes \/ \E some \in BOOLEAN : changes' = [changes EXCEPT ![e] = some]
    BY DEF Merge
  <2>4. changes' \in [End -> BOOLEAN]
    BY <2>3 DEF TypeOK
  <2> QED
    BY <2>1, <2>2, <2>4 DEF TypeOK
<1>5. /\ PcInScript' /\ got' \in [End -> Nat] /\ WithinField' /\ SentIsDue' /\ ClosedIsDone'
      /\ ReceivedIsDue' /\ TotalIsOfFrame' /\ AckIsTotal' /\ SuccessIsLast'
      /\ ChecksPassed' /\ CutClientIsGone'
      /\ pc'[e] = pc[e] + 1 /\ \A x \in End : x # e => pc'[x] = pc[x]
  <2>1. pc[e] \in {MergeAt(e), 15, 16, 17} /\ (open'[e] => open[e])
    BY <1>1, <1>2, <1>4
  <2>2. \A x \in End : x # e => /\ result'[x] = result[x] /\ open'[x] = open[x]
                                /\ notified'[x] = notified[x]
    BY <1>2, <1>4
  <2>3. open[e] /\ ~open'[e] => pc[e] >= 15
    BY <1>1, <1>2
  <2>4. result'[e] = "success" \/ notified'[e] => pc[e] = 17
    BY <1>1, <1>2, <1>4
  <2>5. IInv
    OBVIOUS
  <2> HIDE DEF IInv
  <2> QED
    BY <1>1, <1>3, <2>1, <2>2, <2>3, <2>4, <2>5, AfterLocal
<1>6. TypeOK'
  <2>1. \A x \in End : pc'[x] \in 1 .. (Len(Script(x)) + 1)
    BY <1>5, PcBound DEF PcInScript
  <2> QED
    BY <1>2, <1>4, <1>5, <2>1 DEF TypeOK
<1>7. MergedIsTotal'
  <2>1. ~(pc'[e] <= MergeAt(e))
    BY <1>1, <1>5 DEF MergeAt
  <2> QED
    BY <1>2, <1>4, <1>5, <2>1 DEF MergedIsTotal
<1> QED
  BY <1>5, <1>6, <1>7

\* Closing the socket keeps the invariant.
LEMMA CloseStep ==
    ASSUME IInv, NEW e \in End, Close(e)
    PROVE  IInv'
<1> USE DEF IInv
<1>1. result[e] = "running" /\ pc[e] = 15 /\ Advance(e)
  <2>1. Running(e, "close") /\ result[e] = "running" /\ Advance(e)
    BY DEF Close, Running
  <2> QED
    BY <2>1, RunningFacts
<1>2. /\ sent' = sent /\ received' = received /\ total' = total /\ acked' = acked
      /\ version' = version /\ oversize' = oversize /\ isPeer' = isPeer
      /\ result' = result /\ merged' = merged /\ changes' = changes /\ notified' = notified
  BY DEF Close, constants, outcome
<1>3. UNCHANGED <<sent, received, total, acked, constants>>
  BY <1>2 DEF constants
<1>4. /\ result[e] # "success" /\ ~notified[e]
      /\ open' \in [End -> BOOLEAN]
      /\ open'[e] = FALSE /\ \A x \in End : x # e => open'[x] = open[x]
  BY <1>1 DEF Close, SuccessIsLast, TypeOK
<1>5. /\ PcInScript' /\ got' \in [End -> Nat] /\ WithinField' /\ SentIsDue' /\ ClosedIsDone'
      /\ ReceivedIsDue' /\ TotalIsOfFrame' /\ AckIsTotal' /\ SuccessIsLast'
      /\ ChecksPassed' /\ CutClientIsGone'
      /\ pc'[e] = pc[e] + 1 /\ \A x \in End : x # e => pc'[x] = pc[x]
  <2>1. pc[e] \in {MergeAt(e), 15, 16, 17} /\ (open'[e] => open[e])
    BY <1>1, <1>2, <1>4
  <2>2. \A x \in End : x # e => /\ result'[x] = result[x] /\ open'[x] = open[x]
                                /\ notified'[x] = notified[x]
    BY <1>2, <1>4
  <2>3. open[e] /\ ~open'[e] => pc[e] >= 15
    BY <1>1, <1>2
  <2>4. result'[e] = "success" \/ notified'[e] => pc[e] = 17
    BY <1>1, <1>2, <1>4
  <2>5. IInv
    OBVIOUS
  <2> HIDE DEF IInv
  <2> QED
    BY <1>1, <1>3, <2>1, <2>2, <2>3, <2>4, <2>5, AfterLocal
<1>6. TypeOK'
  <2>1. \A x \in End : pc'[x] \in 1 .. (Len(Script(x)) + 1)
    BY <1>5, PcBound DEF PcInScript
  <2> QED
    BY <1>2, <1>4, <1>5, <2>1 DEF TypeOK
<1>7. MergedIsTotal'
  <2>1. ~(pc[e] <= MergeAt(e)) /\ ~(pc'[e] <= MergeAt(e))
    BY <1>1, <1>5 DEF MergeAt
  <2> QED
    BY <1>2, <1>5, <2>1 DEF MergedIsTotal
<1> QED
  BY <1>5, <1>6, <1>7

\* Calling the hooks keeps the invariant.
LEMMA NotifyHooksStep ==
    ASSUME IInv, NEW e \in End, NotifyHooks(e)
    PROVE  IInv'
<1> USE DEF IInv
<1>1. result[e] = "running" /\ pc[e] = 17 /\ Advance(e)
  <2>1. Running(e, "hooks") /\ result[e] = "running" /\ Advance(e)
    BY DEF NotifyHooks, Running
  <2> QED
    BY <2>1, RunningFacts
<1>2. /\ sent' = sent /\ received' = received /\ total' = total /\ acked' = acked
      /\ version' = version /\ oversize' = oversize /\ isPeer' = isPeer
      /\ open' = open /\ merged' = merged /\ changes' = changes
  BY DEF NotifyHooks, constants
<1>3. UNCHANGED <<sent, received, total, acked, constants>>
  BY <1>2 DEF constants
<1>4. /\ notified' \in [End -> BOOLEAN]
      /\ result' \in [End -> {"running", "success", "failure", "dead"}]
      /\ \A x \in End : x # e => notified'[x] = notified[x] /\ result'[x] = result[x]
  <2>1. notified' = [notified EXCEPT ![e] = isPeer[e] /\ changes[e]]
    BY DEF NotifyHooks
  <2>2. \E r \in {"success", "failure"} : result' = [result EXCEPT ![e] = r]
    BY DEF NotifyHooks
  <2>3. notified \in [End -> BOOLEAN] /\ isPeer \in [End -> BOOLEAN] /\ changes \in [End -> BOOLEAN]
    BY DEF TypeOK
  <2>4. notified' \in [End -> BOOLEAN] /\ \A x \in End : x # e => notified'[x] = notified[x]
    BY <2>1, <2>3
  <2> QED
    BY <2>2, <2>4 DEF TypeOK
<1>5. /\ PcInScript' /\ got' \in [End -> Nat] /\ WithinField' /\ SentIsDue' /\ ClosedIsDone'
      /\ ReceivedIsDue' /\ TotalIsOfFrame' /\ AckIsTotal' /\ SuccessIsLast'
      /\ ChecksPassed' /\ CutClientIsGone'
      /\ pc'[e] = pc[e] + 1 /\ \A x \in End : x # e => pc'[x] = pc[x]
  <2>1. pc[e] \in {MergeAt(e), 15, 16, 17} /\ (open'[e] => open[e])
    BY <1>1, <1>2, <1>4
  <2>2. \A x \in End : x # e => /\ result'[x] = result[x] /\ open'[x] = open[x]
                                /\ notified'[x] = notified[x]
    BY <1>2, <1>4
  <2>3. open[e] /\ ~open'[e] => pc[e] >= 15
    BY <1>1, <1>2
  <2>4. result'[e] = "success" \/ notified'[e] => pc[e] = 17
    BY <1>1, <1>2, <1>4
  <2>5. IInv
    OBVIOUS
  <2> HIDE DEF IInv
  <2> QED
    BY <1>1, <1>3, <2>1, <2>2, <2>3, <2>4, <2>5, AfterLocal
<1>6. TypeOK'
  <2>1. \A x \in End : pc'[x] \in 1 .. (Len(Script(x)) + 1)
    BY <1>5, PcBound DEF PcInScript
  <2> QED
    BY <1>2, <1>4, <1>5, <2>1 DEF TypeOK
<1>7. MergedIsTotal'
  <2>1. ~(pc[e] <= MergeAt(e)) /\ ~(pc'[e] <= MergeAt(e))
    BY <1>1, <1>5 DEF MergeAt
  <2> QED
    BY <1>2, <1>5, <2>1 DEF MergedIsTotal
<1> QED
  BY <1>5, <1>6, <1>7

\* The statistics keep the invariant, whether or not their file can be written.
LEMMA CollectStatStep ==
    ASSUME IInv, NEW e \in End, CollectStat(e)
    PROVE  IInv'
<1> USE DEF IInv
<1>1. result[e] = "running" /\ pc[e] = 16
  <2>1. Running(e, "stat") /\ result[e] = "running"
    BY DEF CollectStat, Running
  <2> QED
    BY <2>1, RunningFacts
<1>2. /\ sent' = sent /\ received' = received /\ total' = total /\ acked' = acked
      /\ merged' = merged /\ changes' = changes /\ notified' = notified
      /\ version' = version /\ oversize' = oversize /\ isPeer' = isPeer
  BY DEF CollectStat, constants, outcome
<1>3. UNCHANGED <<sent, received, total, acked, constants>>
  BY <1>2 DEF constants
<1>a. CASE Advance(e) /\ open' = open /\ result' = result
  <2>1. pc[e] \in {MergeAt(e), 15, 16, 17} /\ (open'[e] => open[e])
    BY <1>1, <1>a
  <2>2. \A x \in End : x # e => /\ result'[x] = result[x] /\ open'[x] = open[x]
                                /\ notified'[x] = notified[x]
    BY <1>2, <1>a
  <2>3. open[e] /\ ~open'[e] => pc[e] >= 15
    BY <1>a
  <2>4. result'[e] = "success" \/ notified'[e] => pc[e] = 17
    BY <1>1, <1>2, <1>a DEF SuccessIsLast
  <2>5. /\ PcInScript' /\ got' \in [End -> Nat] /\ WithinField' /\ SentIsDue' /\ ClosedIsDone'
        /\ ReceivedIsDue' /\ TotalIsOfFrame' /\ AckIsTotal' /\ SuccessIsLast'
        /\ ChecksPassed' /\ CutClientIsGone'
        /\ pc'[e] = pc[e] + 1 /\ \A x \in End : x # e => pc'[x] = pc[x]
    <3>1. IInv
      OBVIOUS
    <3> HIDE DEF IInv
    <3> QED
      BY <1>1, <1>3, <1>a, <2>1, <2>2, <2>3, <2>4, <3>1, AfterLocal
  <2>6. TypeOK'
    <3>1. \A x \in End : pc'[x] \in 1 .. (Len(Script(x)) + 1)
      BY <2>5, PcBound DEF PcInScript
    <3> QED
      BY <1>2, <1>a, <2>5, <3>1 DEF TypeOK
  <2>7. MergedIsTotal'
    <3>1. ~(pc[e] <= MergeAt(e)) /\ ~(pc'[e] <= MergeAt(e))
      BY <1>1, <2>5 DEF MergeAt
    <3> QED
      BY <1>2, <2>5, <3>1 DEF MergedIsTotal
  <2> QED
    BY <2>5, <2>6, <2>7
<1>b. CASE Fail(e) /\ pc' = pc /\ got' = got
  <2>1. result' = [result EXCEPT ![e] = "failure"] /\ open' = [open EXCEPT ![e] = FALSE]
    BY <1>b DEF Fail
  <2>2. UNCHANGED <<pc, got, sent, received, total, acked, outcome, constants>>
    BY <1>2, <1>b DEF outcome, constants
  <2>3. IInv
    OBVIOUS
  <2> HIDE DEF IInv
  <2> QED
    BY <1>1, <2>1, <2>2, <2>3, StopStep
<1> QED
  BY <1>a, <1>b DEF CollectStat

\* What the end has made sure of when it goes on after a field.
LEMMA FieldReceivedFacts ==
    ASSUME NEW e \in End, NEW n, FieldReceived(e, n), FieldAt(e) \in Field
    PROVE  \/ Fail(e) /\ pc' = pc /\ got' = got
           \/ /\ Advance(e) /\ open' = open /\ result' = result
              /\ FieldAt(e) = "version" /\ ChecksVersion(e) =>
                    IF n = Width[FieldAt(e)] THEN version[Other(e)] = version[e] ELSE e = "client"
              /\ FieldAt(e) = "nameLen" => n = Width[FieldAt(e)]
              /\ FieldAt(e) = "dataLen" /\ n = Width[FieldAt(e)] => ~oversize[Other(e)]
              /\ FieldAt(e) = "ack" => acked[Other(e)] = FrameBytes
<1>1. PICK valid \in FieldValid(e, n) :
         IF valid THEN Advance(e) /\ UNCHANGED <<open, result>>
         ELSE Fail(e) /\ UNCHANGED <<pc, got>>
  BY DEF FieldReceived
<1>2. CASE ~valid
  BY <1>1, <1>2
<1>3. CASE valid
  <2>1. Advance(e) /\ open' = open /\ result' = result
    BY <1>1, <1>3
  <2>2. ASSUME FieldAt(e) = "version", ChecksVersion(e)
        PROVE  IF n = Width[FieldAt(e)] THEN version[Other(e)] = version[e] ELSE e = "client"
    BY <1>3, <2>2, Zenon DEF FieldValid
  <2>3. ASSUME FieldAt(e) = "nameLen" PROVE n = Width[FieldAt(e)]
    BY <1>3, <2>3, Zenon DEF FieldValid
  <2>4. ASSUME FieldAt(e) = "dataLen", n = Width[FieldAt(e)] PROVE ~oversize[Other(e)]
    BY <1>3, <2>4, Zenon DEF FieldValid
  <2>5. ASSUME FieldAt(e) = "ack" PROVE acked[Other(e)] = FrameBytes
    BY <1>3, <2>5, Zenon DEF FieldValid
  <2> QED
    BY <2>1, <2>2, <2>3, <2>4, <2>5
<1> QED
  BY <1>2, <1>3

\* An end at a receive.
LEMMA AtReceive ==
    ASSUME IInv, NEW e \in End, Running(e, "recv")
    PROVE  /\ pc[e] \in 1 .. 17 /\ pc[e] \in Recvs(e) /\ pc[e] \notin Sends(e)
           /\ result[e] = "running" /\ ~notified[e] /\ FieldAt(e) \in Field
           /\ \A f \in Field : FieldAt(e) = f <=> pc[e] \in FieldPositions(e, f)
           /\ Width[FieldAt(e)] \in Nat /\ Width[FieldAt(e)] > 0
           /\ got[e] \in Nat /\ got[e] < Width[FieldAt(e)]
           /\ SendDue(e) = SendBase(e, pc[e]) /\ RecvDue(e) = RecvBase(e, pc[e]) + got[e]
           /\ SendBase(e, pc[e]) \in Nat /\ RecvBase(e, pc[e]) \in Nat
           /\ SendBase(e, pc[e] + 1) = SendBase(e, pc[e])
           /\ RecvBase(e, pc[e] + 1) = RecvBase(e, pc[e]) + Width[FieldAt(e)]
           /\ received[e] \in Nat /\ sent[Other(e)] \in Nat
           /\ \/ received[e] = RecvDue(e)
              \/ received[e] < RecvDue(e) /\ received[e] = sent[Other(e)]
<1> USE DEF IInv
<1>1. /\ pc[e] \in 1 .. 17 /\ pc[e] \in Recvs(e) /\ FieldAt(e) \in Field
      /\ FieldAt(e) = Script(e)[pc[e]].field
      /\ \A f \in Field : FieldAt(e) = f <=> pc[e] \in FieldPositions(e, f)
  BY RunningFacts
<1>2. result[e] = "running"
  BY DEF Running
<1>3. pc[e] \notin Sends(e)
  BY <1>1, BaseStep
<1>4. ~notified[e]
  BY <1>1 DEF SuccessIsLast
<1>5. Width[FieldAt(e)] \in Nat /\ Width[FieldAt(e)] > 0
  BY <1>1, WidthFacts
<1>6. got[e] \in Nat /\ got[e] < Width[FieldAt(e)]
  BY <1>1 DEF WithinField, TypeOK
<1>7. SendBase(e, pc[e]) \in Nat /\ RecvBase(e, pc[e]) \in Nat
  BY <1>1, BaseFacts
<1>8. /\ SendBase(e, pc[e] + 1) = SendBase(e, pc[e])
      /\ RecvBase(e, pc[e] + 1) = RecvBase(e, pc[e]) + Width[FieldAt(e)]
  BY <1>1, BaseStep
<1>9. SendDue(e) = SendBase(e, pc[e]) /\ RecvDue(e) = RecvBase(e, pc[e]) + got[e]
  BY <1>1, <1>3, <1>7 DEF SendDue, RecvDue
<1>10. received[e] \in Nat /\ sent[Other(e)] \in Nat
  BY OtherFacts DEF TypeOK
<1>11. \/ received[e] = RecvDue(e)
       \/ received[e] < RecvDue(e) /\ received[e] = sent[Other(e)]
  BY <1>2 DEF ReceivedIsDue
<1> QED
  BY <1>1, <1>2, <1>3, <1>4, <1>5, <1>6, <1>7, <1>8, <1>9, <1>10, <1>11

\* Where a receiving end stands in what it receives.
LEMMA RecvPlaces ==
    ASSUME NEW i \in 1 .. 17
    PROVE  /\ i \in Recvs("client") =>
                /\ i \in {2, 8, 9, 10, 11, 12}
                /\ i = 2 => RecvBase("client", i) = 0
                /\ i = 8 => RecvBase("client", i) = V
                /\ i >= 9 => RecvBase("client", i) = V + A + FrameBase(i - 9)
           /\ i \in Recvs("server") =>
                /\ i \in {1, 3, 4, 5, 6, 7, 14}
                /\ i = 1 => RecvBase("server", i) = 0
                /\ i = 3 => RecvBase("server", i) = V
                /\ i >= 4 => RecvBase("server", i) = V + V + FrameBase(i - 4)
BY WidthFacts DEF Recvs, RecvBase, FrameBase

\* The sizes of the beginnings of a frame.
LEMMA FrameFacts ==
    /\ FrameBase(0) = 0 /\ FrameBase(1) = Width["nameLen"]
    /\ FrameBase(2) = FrameBase(1) + Width["name"] /\ FrameBase(3) = FrameBase(2) + Width["dataLen"]
    /\ FrameBase(4) = FrameBase(3) + Width["data"] /\ FrameBase(4) = FrameBytes
    /\ \A k \in Int : k >= 4 => FrameBase(k) = FrameBytes
    /\ \A k \in Int : FrameBase(k) \in Nat
BY WidthFacts DEF FrameBase, FrameBytes

\* A short count of a field keeps the invariant, whether or not its caller takes it.
LEMMA ReceiveEofStep ==
    ASSUME IInv, NEW e \in End, ReceiveEof(e)
    PROVE  IInv'
<1> DEFINE i == pc[e]
           w == Width[FieldAt(e)]
<1>1. Running(e, "recv") /\ ~open[Other(e)] /\ received[e] = sent[Other(e)]
  BY DEF ReceiveEof
<1>2. /\ i \in 1 .. 17 /\ i \in Recvs(e) /\ i \notin Sends(e)
      /\ result[e] = "running" /\ ~notified[e] /\ FieldAt(e) \in Field
      /\ \A f \in Field : FieldAt(e) = f <=> i \in FieldPositions(e, f)
      /\ w \in Nat /\ w > 0 /\ got[e] \in Nat /\ got[e] < w
      /\ SendDue(e) = SendBase(e, i) /\ RecvDue(e) = RecvBase(e, i) + got[e]
      /\ SendBase(e, i) \in Nat /\ RecvBase(e, i) \in Nat
      /\ SendBase(e, i + 1) = SendBase(e, i) /\ RecvBase(e, i + 1) = RecvBase(e, i) + w
      /\ received[e] \in Nat /\ received[e] <= RecvDue(e)
  BY <1>1, AtReceive
<1>3. /\ sent' = sent /\ received' = received /\ total' = total /\ acked' = acked
      /\ merged' = merged /\ changes' = changes /\ notified' = notified
      /\ version' = version /\ oversize' = oversize /\ isPeer' = isPeer
  BY DEF ReceiveEof, constants, outcome
<1>a. CASE Fail(e) /\ pc' = pc /\ got' = got
  <2>1. result' = [result EXCEPT ![e] = "failure"] /\ open' = [open EXCEPT ![e] = FALSE]
    BY <1>a DEF Fail
  <2>2. UNCHANGED <<pc, got, sent, received, total, acked, outcome, constants>>
    BY <1>3, <1>a DEF outcome, constants
  <2> QED
    BY <1>2, <2>1, <2>2, StopStep
<1>b. CASE /\ Advance(e) /\ open' = open /\ result' = result
           /\ FieldAt(e) = "version" /\ ChecksVersion(e) => e = "client"
           /\ FieldAt(e) # "nameLen"
           /\ FieldAt(e) = "ack" => acked[Other(e)] = FrameBytes
  <2> USE DEF IInv
  <2>1. got \in [End -> Nat] /\ PcInScript /\ i <= 17
    <3>1. got \in [End -> Nat] /\ PcInScript
      BY Zenon DEF TypeOK
    <3> QED
      BY <1>2, <3>1
  <2>2. /\ PcInScript' /\ got' \in [End -> Nat]
        /\ pc'[e] = i + 1 /\ got'[e] = 0
        /\ SendDue(e)' = SendBase(e, i + 1) /\ RecvDue(e)' = RecvBase(e, i + 1)
        /\ \A x \in End : x # e => /\ pc'[x] = pc[x] /\ got'[x] = got[x]
                                   /\ SendDue(x)' = SendDue(x) /\ RecvDue(x)' = RecvDue(x)
    BY <1>b, <2>1, AdvanceDue
  <2>3. TypeOK'
    <3>1. \A x \in End : pc'[x] \in 1 .. (Len(Script(x)) + 1)
      BY <2>2, PcBound DEF PcInScript
    <3> QED
      BY <1>3, <1>b, <2>2, <3>1 DEF TypeOK
  <2>4. WithinField'
    <3> SUFFICES ASSUME NEW x \in End
                 PROVE  IF pc'[x] \in Sends(x) \cup Recvs(x)
                        THEN got'[x] < Width[FieldAt(x)'] ELSE got'[x] = 0
      BY DEF WithinField
    <3>1. CASE x # e
      BY <2>2, <3>1 DEF WithinField, FieldAt
    <3>2. CASE x = e
      <4>1. pc'[e] \in Sends(e) \cup Recvs(e) => pc'[e] \in 1 .. 17
        BY <1>2, <2>2 DEF Sends, Recvs
      <4>2. pc'[e] \in Sends(e) \cup Recvs(e) => FieldAt(e)' \in Field
        BY <4>1, ScriptTable DEF FieldAt
      <4> QED
        BY <2>2, <3>2, <4>2, WidthFacts
    <3> QED
      BY <3>1, <3>2
  <2>5. SentIsDue'
    BY <1>2, <1>3, <2>2 DEF SentIsDue
  <2>6. ClosedIsDone'
    BY <1>2, <1>b, <2>2 DEF ClosedIsDone
  <2>7. ReceivedIsDue'
    BY <1>1, <1>2, <1>3, <1>b, <2>2, OtherFacts DEF ReceivedIsDue
  <2>8. TotalIsOfFrame'
    BY <1>3 DEF TotalIsOfFrame
  <2>9. AckIsTotal'
    <3>1. e = "server" /\ i = 14 => FieldAt(e) = "ack"
      BY <1>2 DEF FieldPositions, Field
    <3> QED
      BY <1>2, <1>3, <1>b, <2>2, <3>1, RecvPlaces, OtherFacts DEF AckIsTotal, End, PcInScript
  <2>10. MergedIsTotal'
    <3>1. \A x \in End : pc'[x] <= MergeAt(x) <=> pc[x] <= MergeAt(x)
      BY <1>2, <2>2, RecvPlaces DEF MergeAt, End
    <3> QED
      BY <1>3, <3>1 DEF MergedIsTotal
  <2>11. SuccessIsLast'
    BY <1>2, <1>3, <1>b, <2>2 DEF SuccessIsLast
  <2>12. ChecksPassed'
    <3>1. CASE e = "client"
      <4>1. i # 9
        BY <1>2, <1>b, <3>1 DEF FieldPositions, Field
      <4>2. i = 2 => received[e] < V
        BY <1>2, <3>1, RecvPlaces DEF FieldPositions, Field, V
      <4>3. i = 11 => received[e] < V + A + FrameBase(3)
        <5>1. i = 11 => FieldAt(e) = "dataLen" /\ RecvBase(e, i) = V + A + FrameBase(2)
          BY <1>2, <3>1, RecvPlaces DEF FieldPositions, Field
        <5> QED
          BY <1>2, <5>1, WidthFacts, FrameFacts
      <4> QED
        BY <1>2, <1>3, <2>2, <3>1, <4>1, <4>2, <4>3, RecvPlaces DEF ChecksPassed, End
    <3>2. CASE e = "server"
      <4>1. i # 1
        BY <1>2, <1>b, <3>2 DEF FieldPositions, Field, ChecksVersion
      <4>2. i = 6 => received[e] < V + V + FrameBase(3)
        <5>1. i = 6 => FieldAt(e) = "dataLen" /\ RecvBase(e, i) = V + V + FrameBase(2)
          BY <1>2, <3>2, RecvPlaces DEF FieldPositions, Field
        <5> QED
          BY <1>2, <5>1, WidthFacts, FrameFacts
      <4> QED
        BY <1>2, <1>3, <2>2, <3>2, <4>1, <4>2, RecvPlaces DEF ChecksPassed, End
    <3> QED
      BY <3>1, <3>2 DEF End
  <2>13. CutClientIsGone'
    <3>1. CASE e = "client"
      BY <1>3, <1>b, <2>2, <3>1 DEF CutClientIsGone, End
    <3>2. CASE e = "server" /\ i \in 5 .. 7
      <4>1. sent["server"] <= V
        BY <1>2, <3>2, BaseFacts DEF SentIsDue, End
      <4>2. received["client"] <= V
        BY <4>1, WidthFacts, OtherFacts DEF TypeOK, End
      <4>3. received["server"] < V + V + FrameBytes + A
        BY <1>2, <3>2, RecvPlaces, FrameFacts, WidthFacts DEF FieldPositions, Field
      <4>4. ~(pc["client"] >= 16)
        <5>1. pc["client"] \in 1 .. 18 /\ "client" \in End
          BY DEF PcInScript, End
        <5>2. pc["client"] >= 16 => SendDue("client") = V + V + FrameBytes + A
          BY <5>1, BaseFacts, WidthFacts DEF SendDue, Sends
        <5> QED
          BY <1>1, <3>2, <4>3, <5>1, <5>2, OtherFacts, WidthFacts DEF SentIsDue
      <4>5. result["client"] # "running"
        BY <1>1, <3>2, <4>4, OtherFacts DEF ClosedIsDone, End
      <4> QED
        BY <1>3, <1>b, <4>2, <4>5 DEF CutClientIsGone
    <3>3. CASE e = "server" /\ i \in {1, 3, 4}
      <4>1. i # 4
        BY <1>2, <1>b, <3>3 DEF FieldPositions, Field
      <4> QED
        BY <2>2, <3>3, <4>1 DEF CutClientIsGone
    <3>4. CASE e = "server" /\ i = 14
      <4>1. FrameBase(pc'["server"] - 4) = FrameBase(pc["server"] - 4)
        BY <2>2, <3>4, FrameFacts
      <4> QED
        BY <1>3, <1>b, <2>2, <3>4, <4>1 DEF CutClientIsGone
    <3> QED
      BY <1>2, <3>1, <3>2, <3>3, <3>4, RecvPlaces DEF End
  <2> QED
    BY <2>2, <2>3, <2>4, <2>5, <2>6, <2>7, <2>8, <2>9, <2>10, <2>11, <2>12, <2>13
<1> QED
  <2>1. FieldReceived(e, got[e])
    BY DEF ReceiveEof
  <2>2. got[e] # w
    BY <1>2
  <2> QED
    BY <1>2, <1>a, <1>b, <2>1, <2>2, FieldReceivedFacts

\* A byte received keeps the invariant, whatever its caller makes of the field.
LEMMA ReceiveStep ==
    ASSUME IInv, NEW e \in End, Receive(e)
    PROVE  IInv'
<1> DEFINE i == pc[e]
           w == Width[FieldAt(e)]
<1>1. Running(e, "recv") /\ received[e] < sent[Other(e)]
  BY DEF Receive
<1>2. /\ i \in 1 .. 17 /\ i \in Recvs(e) /\ i \notin Sends(e)
      /\ result[e] = "running" /\ ~notified[e] /\ FieldAt(e) \in Field
      /\ \A f \in Field : FieldAt(e) = f <=> i \in FieldPositions(e, f)
      /\ w \in Nat /\ w > 0 /\ got[e] \in Nat /\ got[e] < w
      /\ SendDue(e) = SendBase(e, i) /\ RecvDue(e) = RecvBase(e, i) + got[e]
      /\ SendBase(e, i) \in Nat /\ RecvBase(e, i) \in Nat
      /\ SendBase(e, i + 1) = SendBase(e, i) /\ RecvBase(e, i + 1) = RecvBase(e, i) + w
      /\ received[e] \in Nat /\ sent[Other(e)] \in Nat /\ received[e] = RecvDue(e)
  BY <1>1, AtReceive
<1>3. /\ sent' = sent /\ acked' = acked
      /\ merged' = merged /\ changes' = changes /\ notified' = notified
      /\ version' = version /\ oversize' = oversize /\ isPeer' = isPeer
  BY DEF Receive, constants, outcome
<1> USE DEF IInv
<1>4. /\ received' \in [End -> Nat] /\ received'[e] = received[e] + 1
      /\ \A x \in End : x # e => received'[x] = received[x]
  <2>1. received' = [received EXCEPT ![e] = @ + 1]
    BY DEF Receive
  <2>2. received \in [End -> Nat]
    BY Zenon DEF TypeOK
  <2> QED
    BY <2>1, <2>2
<1>5. /\ got \in [End -> Nat] /\ PcInScript
      /\ total \in [End -> 0 .. FrameBytes] /\ open \in [End -> BOOLEAN]
      /\ result \in [End -> {"running", "success", "failure", "dead"}]
  BY Zenon DEF TypeOK
\* The three outcomes.
<1> DEFINE More == /\ got[e] + 1 < w /\ pc' = pc /\ got' = [got EXCEPT ![e] = @ + 1]
                   /\ open' = open /\ result' = result
           Refused == /\ got[e] + 1 = w /\ Fail(e) /\ pc' = pc /\ got' = got
           Taken == /\ got[e] + 1 = w /\ Advance(e) /\ open' = open /\ result' = result
                    /\ FieldAt(e) = "version" /\ ChecksVersion(e) => version[Other(e)] = version[e]
                    /\ FieldAt(e) = "dataLen" => ~oversize[Other(e)]
                    /\ FieldAt(e) = "ack" => acked[Other(e)] = FrameBytes
<1>6. More \/ Refused \/ Taken
  <2>1. CASE got[e] + 1 < w
    BY <2>1 DEF Receive
  <2>2. CASE ~(got[e] + 1 < w)
    <3>1. got[e] + 1 = w /\ FieldReceived(e, got[e] + 1)
      BY <1>2, <2>2 DEF Receive
    <3> QED
      BY <1>2, <3>1, FieldReceivedFacts
  <2> QED
    BY <2>1, <2>2
<1>7. /\ PcInScript' /\ got' \in [End -> Nat]
      /\ SendDue(e)' = SendDue(e) /\ (result'[e] = "running" => RecvDue(e)' = RecvDue(e) + 1)
      /\ \A x \in End : x # e => /\ pc'[x] = pc[x] /\ got'[x] = got[x]
                                 /\ SendDue(x)' = SendDue(x) /\ RecvDue(x)' = RecvDue(x)
                                 /\ result'[x] = result[x] /\ open'[x] = open[x]
      /\ open' \in [End -> BOOLEAN]
      /\ result' \in [End -> {"running", "success", "failure", "dead"}]
      /\ result'[e] \in {"running", "failure"} /\ (open[e] /\ ~open'[e] => result'[e] # "running")
      /\ (~open[e] => ~open'[e])
      /\ \/ pc'[e] = i /\ got'[e] < w
         \/ /\ pc'[e] = i + 1 /\ got'[e] = 0 /\ received'[e] = RecvBase(e, i) + w
            /\ FieldAt(e) = "version" /\ ChecksVersion(e) => version[Other(e)] = version[e]
            /\ FieldAt(e) = "dataLen" => ~oversize[Other(e)]
            /\ FieldAt(e) = "ack" => acked[Other(e)] = FrameBytes
  <2>1. CASE More
    <3>1. pc' = pc /\ open' = open /\ result' = result
      BY <2>1
    <3>2. /\ got' \in [End -> Nat] /\ got'[e] = got[e] + 1 /\ got'[e] < w
          /\ \A x \in End : x # e => got'[x] = got[x]
      BY <1>2, <1>5, <2>1
    <3>3. SendDue(e)' = SendDue(e) /\ RecvDue(e)' = RecvDue(e) + 1
      BY <1>2, <3>1, <3>2 DEF SendDue, RecvDue
    <3>4. \A x \in End : x # e => SendDue(x)' = SendDue(x) /\ RecvDue(x)' = RecvDue(x)
      BY <3>1, <3>2 DEF SendDue, RecvDue
    <3> QED
      BY <1>2, <1>5, <3>1, <3>2, <3>3, <3>4 DEF PcInScript
  <2>2. CASE Refused
    <3>1. pc' = pc /\ got' = got
      BY <2>2
    <3>2. /\ open' \in [End -> BOOLEAN] /\ ~open'[e]
          /\ result' \in [End -> {"running", "success", "failure", "dead"}]
          /\ result'[e] = "failure"
          /\ \A x \in End : x # e => result'[x] = result[x] /\ open'[x] = open[x]
      BY <1>5, <2>2 DEF Fail
    <3> QED
      BY <1>2, <1>5, <3>1, <3>2 DEF PcInScript, SendDue, RecvDue
  <2>3. CASE Taken
    <3>1. open' = open /\ result' = result
      BY <2>3
    <3>2. Advance(e) /\ i <= 17 /\ received'[e] = RecvBase(e, i) + w
      BY <1>2, <1>4, <2>3
    <3>3. /\ PcInScript' /\ got' \in [End -> Nat]
          /\ pc'[e] = i + 1 /\ got'[e] = 0
          /\ SendDue(e)' = SendBase(e, i + 1) /\ RecvDue(e)' = RecvBase(e, i + 1)
          /\ \A x \in End : x # e => /\ pc'[x] = pc[x] /\ got'[x] = got[x]
                                     /\ SendDue(x)' = SendDue(x) /\ RecvDue(x)' = RecvDue(x)
      BY <1>5, <3>2, AdvanceDue
    <3>4. SendDue(e)' = SendDue(e) /\ RecvDue(e)' = RecvDue(e) + 1
      BY <1>2, <2>3, <3>3
    <3>5. /\ FieldAt(e) = "version" /\ ChecksVersion(e) => version[Other(e)] = version[e]
          /\ FieldAt(e) = "dataLen" => ~oversize[Other(e)]
          /\ FieldAt(e) = "ack" => acked[Other(e)] = FrameBytes
      BY <2>3
    <3> QED
      BY <1>2, <1>5, <3>1, <3>2, <3>3, <3>4, <3>5
  <2> QED
    BY <1>6, <2>1, <2>2, <2>3
<1> HIDE DEF More, Refused, Taken
<1>8. total' = [total EXCEPT ![e] = IF FieldAt(e) \in {"version", "ack"} THEN @ ELSE @ + 1]
  BY DEF Receive, Count
<1>9. /\ \A x \in End : x # e => total'[x] = total[x]
      /\ total'[e] = IF FieldAt(e) \in {"version", "ack"} THEN total[e] ELSE total[e] + 1
      /\ total[e] \in 0 .. FrameBytes
  BY <1>5, <1>8
\* Where the byte belongs.
<1>10. ASSUME e = "client"
       PROVE  /\ i \in {2, 8} => received'[e] <= V + A /\ FieldAt(e) \in {"version", "ack"}
              /\ i \in 9 .. 12 => /\ received[e] >= V + A /\ received'[e] <= V + A + FrameBytes
                                  /\ FieldAt(e) \notin {"version", "ack"}
              /\ i \in {2, 8, 9, 10, 11, 12}
              /\ i = 2 => FieldAt(e) = "version" /\ ChecksVersion(e)
              /\ i >= 8 => received[e] >= V
              /\ i = 9 => RecvBase(e, i) + w = V + A + FrameBase(1)
              /\ i = 11 => FieldAt(e) = "dataLen"
              /\ i = 12 => received[e] >= V + A + FrameBase(3)
  <2>1. i \in {2, 8, 9, 10, 11, 12}
    BY <1>2, <1>10, RecvPlaces
  <2>2. /\ i = 2 => FieldAt(e) = "version" /\ ChecksVersion(e) /\ w = V /\ RecvBase(e, i) = 0
        /\ i = 8 => FieldAt(e) = "ack" /\ w = A /\ RecvBase(e, i) = V
        /\ i = 9 => FieldAt(e) = "nameLen" /\ RecvBase(e, i) = V + A + FrameBase(0)
        /\ i = 10 => FieldAt(e) = "name" /\ RecvBase(e, i) = V + A + FrameBase(1)
        /\ i = 11 => FieldAt(e) = "dataLen" /\ RecvBase(e, i) = V + A + FrameBase(2)
        /\ i = 12 => FieldAt(e) = "data" /\ RecvBase(e, i) = V + A + FrameBase(3)
    BY <1>2, <1>10, RecvPlaces DEF FieldPositions, Field, V, A, ChecksVersion
  <2> QED
    BY <1>2, <1>4, <2>1, <2>2, WidthFacts, FrameFacts
<1>11. ASSUME e = "server"
       PROVE  /\ i \in {1, 3} => received'[e] <= V + V /\ FieldAt(e) \in {"version", "ack"}
              /\ i \in 4 .. 7 => /\ received[e] >= V + V /\ received'[e] <= V + V + FrameBytes
                                 /\ FieldAt(e) \notin {"version", "ack"}
              /\ i = 14 => received[e] >= V + V + FrameBytes /\ FieldAt(e) = "ack"
              /\ i \in {1, 3, 4, 5, 6, 7, 14}
              /\ i = 1 => FieldAt(e) = "version" /\ ChecksVersion(e)
              /\ i = 6 => FieldAt(e) = "dataLen"
              /\ i >= 4 => RecvBase(e, i) + w >= V + V + FrameBase(i + 1 - 4)
              /\ i >= 7 => received[e] >= V + V + FrameBase(3)
  <2>1. i \in {1, 3, 4, 5, 6, 7, 14}
    BY <1>2, <1>11, RecvPlaces
  <2>2. /\ i = 1 => FieldAt(e) = "version" /\ ChecksVersion(e) /\ w = V /\ RecvBase(e, i) = 0
        /\ i = 3 => FieldAt(e) = "version" /\ w = V /\ RecvBase(e, i) = V
        /\ i = 4 => FieldAt(e) = "nameLen" /\ RecvBase(e, i) = V + V + FrameBase(0)
        /\ i = 5 => FieldAt(e) = "name" /\ RecvBase(e, i) = V + V + FrameBase(1)
        /\ i = 6 => FieldAt(e) = "dataLen" /\ RecvBase(e, i) = V + V + FrameBase(2)
        /\ i = 7 => FieldAt(e) = "data" /\ RecvBase(e, i) = V + V + FrameBase(3)
        /\ i = 14 => FieldAt(e) = "ack" /\ RecvBase(e, i) = V + V + FrameBase(10)
    BY <1>2, <1>11, RecvPlaces DEF FieldPositions, Field, V, A, ChecksVersion
  <2>3. FrameBase(10) = FrameBytes /\ FrameBase(11) = FrameBytes
    BY FrameFacts
  <2> QED
    BY <1>2, <1>4, <2>1, <2>2, <2>3, WidthFacts, FrameFacts
<1>12. TotalIsOfFrame'
  <2>1. CASE e = "client"
    BY <1>2, <1>4, <1>9, <1>10, <2>1, WidthFacts DEF TotalIsOfFrame, End
  <2>2. CASE e = "server"
    BY <1>2, <1>4, <1>9, <1>11, <2>2, WidthFacts DEF TotalIsOfFrame, End
  <2> QED
    BY <2>1, <2>2 DEF End
<1>13. total' \in [End -> 0 .. FrameBytes]
  <2>1. total'[e] \in 0 .. FrameBytes
    <3>1. CASE e = "client"
      BY <1>2, <1>4, <1>9, <1>10, <3>1, WidthFacts DEF TotalIsOfFrame
    <3>2. CASE e = "server"
      BY <1>2, <1>4, <1>9, <1>11, <3>2, WidthFacts DEF TotalIsOfFrame
    <3> QED
      BY <3>1, <3>2 DEF End
  <2> QED
    BY <1>5, <1>8, <2>1
<1>14. TypeOK'
  <2>1. \A x \in End : pc'[x] \in 1 .. (Len(Script(x)) + 1)
    BY <1>7, PcBound DEF PcInScript
  <2>2. \A x \in End : received'[x] <= sent'[Other(x)]
    <3>1. \A x \in End : received[x] <= sent[Other(x)]
      BY DEF TypeOK
    <3> QED
      BY <1>1, <1>2, <1>3, <1>4, <3>1
  <2> QED
    BY <1>3, <1>4, <1>7, <1>13, <2>1, <2>2 DEF TypeOK
<1>15. WithinField'
  <2> SUFFICES ASSUME NEW x \in End
               PROVE  IF pc'[x] \in Sends(x) \cup Recvs(x)
                      THEN got'[x] < Width[FieldAt(x)'] ELSE got'[x] = 0
    BY DEF WithinField
  <2>1. CASE x # e
    BY <1>7, <2>1 DEF WithinField, FieldAt
  <2>2. CASE x = e /\ pc'[e] = i
    BY <1>2, <1>7, <2>2 DEF FieldAt
  <2>3. CASE x = e /\ pc'[e] = i + 1
    <3>1. pc'[e] \in Sends(e) \cup Recvs(e) => pc'[e] \in 1 .. 17
      BY <1>2, <2>3 DEF Sends, Recvs
    <3>2. pc'[e] \in Sends(e) \cup Recvs(e) => FieldAt(e)' \in Field
      BY <3>1, ScriptTable DEF FieldAt
    <3> QED
      BY <1>2, <1>7, <2>3, <3>2, WidthFacts
  <2> QED
    BY <1>7, <2>1, <2>2, <2>3
<1>16. SentIsDue'
  BY <1>3, <1>7 DEF SentIsDue
<1>17. ClosedIsDone'
  <2>1. i <= 14
    BY <1>2, <1>10, <1>11 DEF End
  <2> QED
    BY <1>2, <1>7, <2>1 DEF ClosedIsDone
<1>18. ReceivedIsDue'
  BY <1>2, <1>3, <1>4, <1>7, OtherFacts DEF ReceivedIsDue
<1>19. AckIsTotal'
  <2>1. CASE e = "client"
    BY <1>2, <1>3, <1>7, <1>9, <1>10, <2>1 DEF AckIsTotal, End
  <2>2. CASE e = "server"
    BY <1>2, <1>3, <1>7, <1>9, <1>11, <2>2, OtherFacts DEF AckIsTotal, End
  <2> QED
    BY <2>1, <2>2 DEF End
<1>20. MergedIsTotal'
  <2>1. CASE e = "client"
    BY <1>2, <1>3, <1>7, <1>9, <1>10, <2>1 DEF MergedIsTotal, MergeAt, End
  <2>2. CASE e = "server"
    BY <1>2, <1>3, <1>7, <1>9, <1>11, <2>2 DEF MergedIsTotal, MergeAt, End
  <2> QED
    BY <2>1, <2>2 DEF End
<1>21. SuccessIsLast'
  BY <1>2, <1>3, <1>7 DEF SuccessIsLast
<1>22. ChecksPassed'
  <2>1. CASE e = "client"
    BY <1>2, <1>3, <1>4, <1>7, <1>10, <2>1, WidthFacts, FrameFacts, OtherFacts DEF ChecksPassed, End
  <2>2. CASE e = "server"
    BY <1>2, <1>3, <1>4, <1>7, <1>11, <2>2, WidthFacts, FrameFacts, OtherFacts DEF ChecksPassed, End
  <2> QED
    BY <2>1, <2>2 DEF End
<1>23. CutClientIsGone'
  <2>1. CASE e = "client"
    BY <1>2, <1>4, <1>7, <2>1 DEF CutClientIsGone, End
  <2>2. CASE e = "server" /\ pc'[e] = i
    BY <1>2, <1>4, <1>7, <2>2, FrameFacts, WidthFacts DEF CutClientIsGone, End, PcInScript
  <2>3. CASE e = "server" /\ pc'[e] = i + 1
    BY <1>2, <1>4, <1>7, <1>11, <2>3, FrameFacts, WidthFacts DEF CutClientIsGone, End, PcInScript
  <2> QED
    BY <1>7, <2>1, <2>2, <2>3 DEF End
<1> QED
  BY <1>7, <1>12, <1>14, <1>15, <1>16, <1>17, <1>18, <1>19, <1>20, <1>21, <1>22, <1>23

\* The invariant holds when the connection is made.
LEMMA InitIInv ==
    Init => IInv
<1> SUFFICES ASSUME Init PROVE IInv
  OBVIOUS
<1>1. /\ \A e \in End : /\ pc[e] = 1 /\ got[e] = 0 /\ sent[e] = 0 /\ received[e] = 0
                        /\ total[e] = 0 /\ acked[e] = 0 /\ open[e] /\ result[e] = "running"
                        /\ merged[e] = "no" /\ ~notified[e]
      /\ "client" \in End /\ "server" \in End
  BY DEF Init, End
<1>2. \A e \in End : SendBase(e, 1) = 0 /\ RecvBase(e, 1) = 0
  BY WidthFacts DEF SendBase, RecvBase, FrameBase, End
<1>3. PcInScript
  BY DEF Init, PcInScript
<1>4. TypeOK
  <2>1. \A e \in End : pc[e] \in 1 .. (Len(Script(e)) + 1)
    BY <1>3, PcBound DEF PcInScript
  <2>2. \A e \in End : received[e] <= sent[Other(e)]
    BY <1>1, OtherFacts
  <2>3. /\ got \in [End -> Nat] /\ sent \in [End -> Nat] /\ received \in [End -> Nat]
        /\ total \in [End -> 0 .. FrameBytes] /\ acked \in [End -> 0 .. FrameBytes]
    BY WidthFacts DEF Init
  <2>4. /\ open \in [End -> BOOLEAN] /\ changes \in [End -> BOOLEAN]
        /\ notified \in [End -> BOOLEAN]
        /\ result \in [End -> {"running", "success", "failure", "dead"}]
        /\ merged \in [End -> {"no", "all", "none"}]
        /\ version \in [End -> Version] /\ oversize \in [End -> BOOLEAN]
        /\ isPeer \in [End -> BOOLEAN] /\ isPeer["server"]
    BY DEF Init
  <2> QED
    BY <2>1, <2>2, <2>3, <2>4, Zenon DEF TypeOK
<1>5. WithinField
  <2>1. \A e \in End : FieldAt(e) \in Field
    BY <1>1, ScriptTable DEF FieldAt
  <2>2. \A e \in End : 1 \in Sends(e) \cup Recvs(e)
    BY DEF Sends, Recvs
  <2> QED
    BY <1>1, <2>1, <2>2, WidthFacts DEF WithinField
<1>6. SentIsDue /\ ReceivedIsDue
  BY <1>1, <1>2 DEF SentIsDue, ReceivedIsDue, SendDue, RecvDue
<1>7. ClosedIsDone /\ SuccessIsLast
  BY <1>1 DEF ClosedIsDone, SuccessIsLast
<1>8. TotalIsOfFrame /\ AckIsTotal /\ ChecksPassed /\ CutClientIsGone
  BY <1>1, WidthFacts DEF TotalIsOfFrame, AckIsTotal, ChecksPassed, CutClientIsGone
<1>9. MergedIsTotal
  BY <1>1 DEF MergedIsTotal, MergeAt
<1> QED
  BY <1>3, <1>4, <1>5, <1>6, <1>7, <1>8, <1>9 DEF IInv

\* Every step keeps the invariant.
LEMMA NextIInv ==
    IInv /\ [Next]_vars => IInv'
<1> SUFFICES ASSUME IInv, [Next]_vars PROVE IInv'
  OBVIOUS
<1>1. ASSUME NEW e \in End, MergeUnknownType(e) PROVE IInv'
  <2>1. /\ result[e] = "running"
        /\ UNCHANGED <<pc, got, sent, received, total, acked, outcome, constants>>
    BY <1>1 DEF MergeUnknownType, Running
  <2>2. result' = [result EXCEPT ![e] = "failure"] /\ open' = [open EXCEPT ![e] = FALSE]
    BY <1>1 DEF MergeUnknownType, Fail
  <2> QED
    BY <2>1, <2>2, StopStep
<1>2. ASSUME NEW e \in End, Step(e) PROVE IInv'
  BY <1>2, SendStep, ReceiveStep, ReceiveEofStep, MergeStep, CloseStep, CollectStatStep,
     NotifyHooksStep, <1>1 DEF Step
<1>3. ASSUME NEW e \in End, NetworkError(e) PROVE IInv'
  <2>1. /\ result[e] = "running"
        /\ UNCHANGED <<pc, got, sent, received, total, acked, outcome, constants>>
    BY <1>3 DEF NetworkError, Running
  <2>2. result' = [result EXCEPT ![e] = "failure"] /\ open' = [open EXCEPT ![e] = FALSE]
    BY <1>3 DEF NetworkError, Fail
  <2> QED
    BY <2>1, <2>2, StopStep
<1>4. ASSUME NEW e \in End, Die(e) PROVE IInv'
  BY <1>4, StopStep DEF Die
<1>5. ASSUME UNCHANGED vars PROVE IInv'
  <2>1. /\ pc' = pc /\ got' = got /\ sent' = sent /\ received' = received /\ total' = total
        /\ acked' = acked /\ open' = open /\ result' = result /\ merged' = merged
        /\ changes' = changes /\ notified' = notified
        /\ version' = version /\ oversize' = oversize /\ isPeer' = isPeer
    BY <1>5 DEF vars
  <2> QED
    BY <2>1 DEF IInv, TypeOK, PcInScript, WithinField, SentIsDue, SendDue, ClosedIsDone,
                ReceivedIsDue, RecvDue, TotalIsOfFrame, AckIsTotal, MergedIsTotal, SuccessIsLast, ChecksPassed,
                CutClientIsGone, FieldAt
<1> QED
  BY <1>1, <1>2, <1>3, <1>4, <1>5 DEF Next

\* The invariant holds throughout a session.
LEMMA Invariant ==
    Spec => []IInv
BY InitIInv, NextIInv, PTL DEF Spec

-----------------------------------------------------------------------------
(***************************************************************************)
(* The theorems.                                                           *)
(***************************************************************************)

\* Spec => []TypeOK: in particular no end receives what was not sent, and no count of
\* a frame that receiveNetworkMessage keeps or acknowledges exceeds the frame.
THEOREM TypeCorrect ==
    Spec => []TypeOK
<1>1. IInv => TypeOK
  BY DEF IInv
<1> QED
  BY <1>1, Invariant, PTL

\* A client that merged anything of the reply left its whole state merged at the
\* server, whatever is cut short or fails: it received bytes that the server sends
\* after its merge (handleReqSyncConnection), and the stream of a client that goes on
\* is not cut (syncWithPeer).
THEOREM SyncedAtServer ==
    Spec => []SyncedMeansServerMerged
<1>1. IInv => SyncedMeansServerMerged
  <2> SUFFICES ASSUME IInv, merged["client"] # "no" PROVE merged["server"] = "all"
    BY DEF SyncedMeansServerMerged
  <2> USE DEF IInv
  <2>0. "client" \in End /\ "server" \in End /\ pc["client"] \in 1 .. 18 /\ pc["server"] \in 1 .. 18
    BY DEF End, PcInScript
  <2>1. pc["client"] >= 15
    BY <2>0 DEF MergedIsTotal, MergeAt
  <2>2. received["client"] >= V + A + FrameBase(1)
    BY <2>0, <2>1 DEF ChecksPassed
  <2>3. /\ sent["server"] \in Nat /\ sent["server"] > V + A
        /\ received["client"] \in Nat /\ received["client"] > V
    <3>1. received["client"] \in Nat /\ sent["server"] \in Nat /\ received["client"] <= sent["server"]
      BY <2>0, OtherFacts DEF TypeOK
    <3> QED
      BY <2>2, <3>1, FrameFacts, WidthFacts
  <2>4. pc["server"] >= 10
    <3>1. sent["server"] = SendDue("server")
      BY <2>0 DEF SentIsDue
    <3>2. FieldAt("server") = ServerScript[pc["server"]].field
      BY DEF FieldAt, Script
    <3>3. pc["server"] \in Sends("server") =>
             got["server"] \in Nat /\ got["server"] < Width[ServerScript[pc["server"]].field]
      BY <2>0, <3>2 DEF WithinField, TypeOK
    <3>4. ASSUME pc["server"] <= 9 PROVE SendDue("server") <= V + A
      <4>1. CASE pc["server"] \in Sends("server")
        <5>1. pc["server"] \in {2, 8}
          BY <3>4, <4>1 DEF Sends
        <5>2. Width[ServerScript[pc["server"]].field] \in Nat
          BY <5>1, ServerScriptFacts, WidthFacts DEF S, V, A
        <5> QED
          BY <2>0, <3>3, <3>4, <4>1, <5>2, BaseFacts, WidthFacts DEF SendDue
      <4>2. CASE pc["server"] \notin Sends("server")
        BY <2>0, <3>4, <4>2, BaseFacts, WidthFacts DEF SendDue
      <4> QED
        BY <4>1, <4>2
    <3> QED
      BY <2>0, <2>3, <3>1, <3>4, WidthFacts
  <2>5. total["server"] = FrameBytes
    <3>1. received["server"] \in Nat
      BY <2>0 DEF TypeOK
    <3>2. FrameBase(pc["server"] - 4) = FrameBytes
      <4>1. pc["server"] - 4 \in Int /\ pc["server"] - 4 >= 4
        BY <2>0, <2>4
      <4> QED
        BY <4>1, FrameFacts
    <3>3. received["server"] >= V + V + FrameBytes
      BY <2>0, <2>3, <2>4, <3>1, <3>2, WidthFacts DEF CutClientIsGone
    <3> QED
      BY <3>1, <3>3, WidthFacts DEF TotalIsOfFrame
  <2> QED
    BY <2>0, <2>4, <2>5 DEF MergedIsTotal, MergeAt
<1> QED
  BY <1>1, Invariant, PTL

\* A server that reports success, or tells its hooks, answered a client that counted
\* all of the reply and merged no part of it for the whole: the server goes on only
\* with an acknowledgement of every byte (sendNetworkMessage).
THEOREM ServedIsReceived ==
    Spec => []ServedMeansReplyReceived
<1>1. IInv => ServedMeansReplyReceived
  <2> SUFFICES ASSUME IInv, result["server"] = "success" \/ notified["server"]
               PROVE  total["client"] = FrameBytes /\ merged["client"] # "none"
    BY DEF ServedMeansReplyReceived
  <2> USE DEF IInv
  <2>1. pc["server"] = 18
    BY DEF SuccessIsLast, End
  <2>2. total["client"] = FrameBytes
    BY <2>1, WidthFacts DEF AckIsTotal
  <2> QED
    BY <2>2 DEF MergedIsTotal, End
<1> QED
  BY <1>1, Invariant, PTL

\* Nothing is merged between programs of different versions, and all of a peer's
\* state only if it is not larger than the limit, whatever arrives in part
\* (clientHandShake, serverHandShake, receiveNetworkMessage).
THEOREM MergedIsAcceptable ==
    Spec => []OnlyAcceptableMerged
<1>1. IInv => OnlyAcceptableMerged
  <2> SUFFICES ASSUME IInv PROVE OnlyAcceptableMerged
    OBVIOUS
  <2> USE DEF IInv
  <2>0. /\ "client" \in End /\ "server" \in End /\ pc["client"] \in 1 .. 18 /\ pc["server"] \in 1 .. 18
        /\ received["client"] \in Nat /\ received["server"] \in Nat
    BY DEF End, PcInScript, TypeOK
  <2>1. /\ merged["client"] # "no" => pc["client"] >= 15
        /\ merged["server"] # "no" => pc["server"] >= 10
        /\ \A e \in End : merged[e] = "all" => merged[e] # "no" /\ total[e] = FrameBytes
    BY <2>0 DEF MergedIsTotal, MergeAt
  <2>2. /\ merged["client"] # "no" => version["client"] = version["server"]
        /\ merged["server"] # "no" => version["client"] = version["server"]
    BY <2>0, <2>1, WidthFacts, FrameFacts DEF ChecksPassed
  <2>3. merged["client"] = "all" => ~oversize["server"]
    <3>1. total["client"] = FrameBytes => received["client"] >= V + A + FrameBase(3)
      BY <2>0, WidthFacts, FrameFacts DEF TotalIsOfFrame
    <3> QED
      BY <2>0, <2>1, <3>1, WidthFacts, FrameFacts DEF ChecksPassed
  <2>4. merged["server"] = "all" => ~oversize["client"]
    <3>1. total["server"] = FrameBytes => received["server"] >= V + V + FrameBase(3)
      BY <2>0, WidthFacts, FrameFacts DEF TotalIsOfFrame
    <3> QED
      BY <2>0, <2>1, <3>1, WidthFacts, FrameFacts DEF ChecksPassed
  <2> QED
    BY <2>2, <2>3, <2>4, OtherFacts DEF OnlyAcceptableMerged, End
<1> QED
  BY <1>1, Invariant, PTL

=============================================================================
