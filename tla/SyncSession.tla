----------------------------- MODULE SyncSession -----------------------------
(***************************************************************************)
(* One synchronization session on the wire: syncWithPeer at the client and *)
(* handleReqSyncConnection at the server, down to the bytes of each field. *)
(*                                                                         *)
(* What an endpoint sends is fixed by its script, so a direction of the    *)
(* connection is the number of bytes sent and received: the position of a  *)
(* byte tells the field it belongs to.  A reader that finds the stream     *)
(* ended in the middle of a field gets a short count, not an error         *)
(* (AsyncSocket::recv), and each caller of recv has its own idea of what   *)
(* the rest of its buffer holds.  An endpoint may meet a network error at  *)
(* any send or receive, and its process may die at any point; the other    *)
(* end then sees the stream end or an error.                               *)
(***************************************************************************)
EXTENDS Integers, Sequences

CONSTANTS
    Width,      \* bytes of each field
    SocketBuf,  \* bytes the connection holds between a send and its receive
    Version     \* wire protocol versions deployed in the network

Field == {"version", "nameLen", "name", "dataLen", "data", "ack"}

End == {"client", "server"}

ASSUME WidthAssumption == Width \in [Field -> Nat \ {0}]
ASSUME SocketBufAssumption == SocketBuf \in Nat \ {0}

Other(e) == IF e = "client" THEN "server" ELSE "client"

-----------------------------------------------------------------------------
(***************************************************************************)
(* The scripts.                                                            *)
(***************************************************************************)
FrameFields == <<"nameLen", "name", "dataLen", "data">>

FrameBytes ==
    Width["nameLen"] + Width["name"] + Width["dataLen"] + Width["data"]

Ops(op, fields) == [i \in 1..Len(fields) |-> [op |-> op, field |-> fields[i]]]

Act(op) == <<[op |-> op, field |-> "data"]>>

\* sendNetworkMessage: the frame, then the peer's acknowledgement of its size.
sendNetworkMessage == Ops("send", FrameFields) \o Ops("recv", <<"ack">>)

\* receiveNetworkMessage: the frame, then its acknowledgement.
receiveNetworkMessage == Ops("recv", FrameFields) \o Ops("send", <<"ack">>)

\* Mutant: the client does not echo the version it received.
clientHandShakeNoEcho == Ops("send", <<"version">>) \o Ops("recv", <<"version">>)

clientHandShake ==
    Ops("send", <<"version">>) \o Ops("recv", <<"version">>) \o Ops("send", <<"version">>)

\* The second version the server receives only times the round trip.
serverHandShake ==
    Ops("recv", <<"version">>) \o Ops("send", <<"version">>) \o Ops("recv", <<"version">>)

\* syncWithPeer from the handshake on.
ClientScript ==
    clientHandShake \o sendNetworkMessage \o receiveNetworkMessage
        \o Act("merge") \o Act("close") \o Act("stat") \o Act("hooks")

\* Mutant: the reply is sent before the request is merged.
ServerScriptMergeLast ==
    serverHandShake \o receiveNetworkMessage \o sendNetworkMessage \o Act("merge")
        \o Act("close") \o Act("stat") \o Act("hooks")

\* handleReqSyncConnection.
ServerScript ==
    serverHandShake \o receiveNetworkMessage \o Act("merge") \o sendNetworkMessage
        \o Act("close") \o Act("stat") \o Act("hooks")

Script(e) == IF e = "client" THEN ClientScript ELSE ServerScript

-----------------------------------------------------------------------------
VARIABLES
    pc,        \* per end: position in the script
    got,       \* per end: bytes of the field at pc sent or received so far
    sent,      \* per end: bytes it has sent on the connection
    received,  \* per end: bytes it has received
    total,     \* per end: bytes counted for the frame it is receiving
    acked,     \* per end: the count it acknowledges, 0 before
    open,      \* per end: its socket is open
    result,    \* per end: "running", "success", "failure" or "dead"
    merged,    \* per end: "no", "all" of the peer's slice, or "none" of it
    changes,   \* per end: the merge counted significant changes
    notified,  \* per end: notifyHooks was called
    version,   \* per end: the version its program speaks
    oversize,  \* per end: its state is larger than DATA_MAX_LENGHT
    isPeer     \* per end: a daemon, not a command

vars == <<pc, got, sent, received, total, acked, open, result, merged, changes,
          notified, version, oversize, isPeer>>

TypeOK ==
    /\ \A e \in End : pc[e] \in 1..(Len(Script(e)) + 1)
    /\ got \in [End -> Nat]
    /\ sent \in [End -> Nat] /\ received \in [End -> Nat]
    /\ \A e \in End : received[e] <= sent[Other(e)]
    /\ total \in [End -> 0..FrameBytes] /\ acked \in [End -> 0..FrameBytes]
    /\ open \in [End -> BOOLEAN]
    /\ result \in [End -> {"running", "success", "failure", "dead"}]
    /\ merged \in [End -> {"no", "all", "none"}]
    /\ changes \in [End -> BOOLEAN] /\ notified \in [End -> BOOLEAN]
    /\ version \in [End -> Version] /\ oversize \in [End -> BOOLEAN]
    /\ isPeer \in [End -> BOOLEAN] /\ isPeer["server"]

Init ==
    /\ pc = [e \in End |-> 1]
    /\ got = [e \in End |-> 0]
    /\ sent = [e \in End |-> 0] /\ received = [e \in End |-> 0]
    /\ total = [e \in End |-> 0] /\ acked = [e \in End |-> 0]
    /\ open = [e \in End |-> TRUE]
    /\ result = [e \in End |-> "running"]
    /\ merged = [e \in End |-> "no"]
    /\ changes = [e \in End |-> FALSE] /\ notified = [e \in End |-> FALSE]
    /\ version \in [End -> Version] /\ oversize \in [End -> BOOLEAN]
    /\ isPeer \in {p \in [End -> BOOLEAN] : p["server"]}

Running(e, op) ==
    result[e] = "running" /\ pc[e] <= Len(Script(e)) /\ Script(e)[pc[e]].op = op

FieldAt(e) == Script(e)[pc[e]].field

\* Mutant: no version is checked.
ChecksVersionNever(e) == FALSE

\* The first version an end receives is checked, the server's second is not.
ChecksVersion(e) == pc[e] <= 2

Advance(e) ==
    /\ pc' = [pc EXCEPT ![e] = @ + 1]
    /\ got' = [got EXCEPT ![e] = 0]

\* Every error path closes the socket before it returns.
Fail(e) ==
    /\ result' = [result EXCEPT ![e] = "failure"]
    /\ open' = [open EXCEPT ![e] = FALSE]

constants == <<version, oversize, isPeer>>
outcome == <<merged, changes, notified>>

-----------------------------------------------------------------------------
(***************************************************************************)
(* Sending and receiving.                                                  *)
(***************************************************************************)

\* AsyncSocket::send moves one more byte of the field into the connection.
Send(e) ==
    /\ Running(e, "send")
    /\ open[Other(e)] => sent[e] - received[Other(e)] < SocketBuf
    /\ sent' = [sent EXCEPT ![e] = @ + 1]
    /\ IF got[e] + 1 < Width[FieldAt(e)]
       THEN /\ got' = [got EXCEPT ![e] = @ + 1]
            /\ UNCHANGED pc
       ELSE Advance(e)
    /\ acked' = [acked EXCEPT ![e] = IF FieldAt(e) = "ack" THEN total[e] ELSE @]
    /\ UNCHANGED <<received, total, open, result, outcome, constants>>

\* Mutant: the acknowledged count is not compared.
FieldValidAnyAck(e, n) ==
    {FieldAt(e) # "nameLen" \/ n = Width["nameLen"]}

\* What the caller of recv makes of a field of which n bytes arrived.
\* version: the server's buffer starts as 0, the client's as its own version, of
\* which the bytes that may be missing are the significant ones.
\* dataLen: a part of it reads as some other number, valid or not.
\* ack: sendNetworkMessage compares it with what it sent; a part of it is equal
\* to that only if the missing bytes are zero.
FieldValid(e, n) ==
    LET full == n = Width[FieldAt(e)]
    IN  CASE FieldAt(e) = "version" ->
               {~ChecksVersion(e) \/ IF full THEN version[Other(e)] = version[e]
                                     ELSE e = "client"}
          [] FieldAt(e) = "nameLen" -> {full}
          [] FieldAt(e) = "dataLen" ->
               IF full THEN {~oversize[Other(e)]}
               ELSE IF n = 0 THEN {FALSE} ELSE BOOLEAN
          [] FieldAt(e) = "ack" ->
               IF acked[Other(e)] # FrameBytes THEN {FALSE}
               ELSE IF full THEN {TRUE}
               ELSE IF n = 0 THEN {FALSE} ELSE BOOLEAN
          [] OTHER -> {TRUE}

\* recv returns for the field at pc: its caller counts the bytes and checks.
FieldReceived(e, n) ==
    \E valid \in FieldValid(e, n) :
        IF valid THEN Advance(e) /\ UNCHANGED <<open, result>>
        ELSE Fail(e) /\ UNCHANGED <<pc, got>>

\* Mutant: the acknowledgement is counted as a part of the frame.
CountAck(e) ==
    total' = [total EXCEPT ![e] = IF FieldAt(e) = "version" THEN @ ELSE @ + 1]

Count(e) ==
    total' = [total EXCEPT ![e] = IF FieldAt(e) \in {"version", "ack"} THEN @ ELSE @ + 1]

\* AsyncSocket::recv takes one more byte of the field.
Receive(e) ==
    /\ Running(e, "recv")
    /\ received[e] < sent[Other(e)]
    /\ received' = [received EXCEPT ![e] = @ + 1]
    /\ Count(e)
    /\ IF got[e] + 1 < Width[FieldAt(e)]
       THEN /\ got' = [got EXCEPT ![e] = @ + 1]
            /\ UNCHANGED <<pc, open, result>>
       ELSE FieldReceived(e, got[e] + 1)
    /\ UNCHANGED <<sent, acked, outcome, constants>>

\* The stream has ended: AsyncSocket::recv returns the bytes it has.
ReceiveEof(e) ==
    /\ Running(e, "recv")
    /\ ~open[Other(e)] /\ received[e] = sent[Other(e)]
    /\ FieldReceived(e, got[e])
    /\ UNCHANGED <<sent, received, total, acked, outcome, constants>>

\* The connection is reset or times out while the end sends or receives.
NetworkError(e) ==
    /\ Running(e, "send") \/ Running(e, "recv")
    /\ Fail(e)
    /\ UNCHANGED <<pc, got, sent, received, total, acked, outcome, constants>>

-----------------------------------------------------------------------------
(***************************************************************************)
(* Between and after the messages.                                         *)
(***************************************************************************)

\* toStateSlice yields nothing from a JSON text that is cut short; merge takes
\* what it yields and counts the significant changes.
Merge(e) ==
    /\ Running(e, "merge")
    /\ IF total[e] = FrameBytes
       THEN /\ merged' = [merged EXCEPT ![e] = "all"]
            /\ \E some \in BOOLEAN : changes' = [changes EXCEPT ![e] = some]
       ELSE /\ merged' = [merged EXCEPT ![e] = "none"]
            /\ UNCHANGED changes
    /\ Advance(e)
    /\ UNCHANGED <<sent, received, total, acked, open, result, notified, constants>>

\* merge finds the type unknown: never registered here, or erased meanwhile.
MergeUnknownType(e) ==
    /\ Running(e, "merge")
    /\ Fail(e)
    /\ UNCHANGED <<pc, got, sent, received, total, acked, outcome, constants>>

Close(e) ==
    /\ Running(e, "close")
    /\ open' = [open EXCEPT ![e] = FALSE]
    /\ Advance(e)
    /\ UNCHANGED <<sent, received, total, acked, result, outcome, constants>>

\* collectStat, which in a build with SHARED_STATE_STAT_FILE_LOCKING may fail on
\* the statistics file.
CollectStat(e) ==
    /\ Running(e, "stat")
    /\ \/ Advance(e) /\ UNCHANGED <<open, result>>
       \/ Fail(e) /\ UNCHANGED <<pc, got>>
    /\ UNCHANGED <<sent, received, total, acked, outcome, constants>>

\* A daemon calls the hooks after significant changes; without a hooks directory
\* notifyHooks returns false.
NotifyHooks(e) ==
    /\ Running(e, "hooks")
    /\ notified' = [notified EXCEPT ![e] = isPeer[e] /\ changes[e]]
    /\ \E ok \in (IF isPeer[e] /\ changes[e] THEN BOOLEAN ELSE {TRUE}) :
          result' = [result EXCEPT ![e] = IF ok THEN "success" ELSE "failure"]
    /\ Advance(e)
    /\ UNCHANGED <<sent, received, total, acked, open, merged, changes, constants>>

\* The process is killed; the kernel closes its socket.
Die(e) ==
    /\ result[e] = "running"
    /\ result' = [result EXCEPT ![e] = "dead"]
    /\ open' = [open EXCEPT ![e] = FALSE]
    /\ UNCHANGED <<pc, got, sent, received, total, acked, outcome, constants>>

Step(e) ==
    \/ Send(e) \/ Receive(e) \/ ReceiveEof(e)
    \/ Merge(e) \/ MergeUnknownType(e) \/ Close(e) \/ CollectStat(e) \/ NotifyHooks(e)

Ended == \A e \in End : result[e] # "running"

Next ==
    \/ \E e \in End : Step(e) \/ NetworkError(e) \/ Die(e)
    \/ Ended /\ UNCHANGED vars

\* A running end's coroutine is resumed when its socket is ready: it does not
\* stop by itself.  Errors and deaths need not happen.
Spec == Init /\ [][Next]_vars /\ \A e \in End : WF_vars(Step(e))

-----------------------------------------------------------------------------
(***************************************************************************)
(* Properties.                                                             *)
(***************************************************************************)

\* A client that gets past the merge of the reply, even of a reply cut short,
\* left its whole state merged at the server: the reply begins after the server's
\* merge, and a client that still receives has not cut its own message short.
SyncedMeansServerMerged ==
    merged["client"] # "no" => merged["server"] = "all"

\* A server that reports success, or gets as far as to tell its hooks, answered a
\* client that received the reply in full: it merged all of it, is about to, or
\* lost the type or died before.
ServedMeansReplyReceived ==
    result["server"] = "success" \/ notified["server"] =>
        /\ total["client"] = FrameBytes
        /\ merged["client"] # "none"

\* Whatever arrives in part, nothing is merged between programs of different wire
\* protocol versions ("Either side receiving a version different from its own MUST
\* fail"), and a state larger than DATA_MAX_LENGHT reaches nobody, nor is a part of
\* it taken for the whole, in either direction.
OnlyAcceptableMerged ==
    \A e \in End :
        /\ merged[e] # "no" => version["client"] = version["server"]
        /\ merged[e] = "all" => ~oversize[Other(e)]

\* Neither end waits for the other forever: whatever fails or dies, at whatever
\* byte, both calls return and both sockets are closed.
SessionEnds == <>[](Ended /\ \A e \in End : ~open[e])

=============================================================================
