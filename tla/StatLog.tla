------------------------------ MODULE StatLog -------------------------------
(***************************************************************************)
(* What the network statistics promise: a log per peer to which records    *)
(* are added one at a time, each addition dropping excessive and too old   *)
(* records.  Records are their time stamps.                                *)
(***************************************************************************)
EXTENDS Integers, Sequences, FiniteSetsExt

CONSTANTS
    Peer,        \* the keys of the map, peer addresses
    MaxRecords,  \* SHARED_STATE_NET_STAT_MAX_RECORDS
    MaxAge,      \* SHARED_STATE_NET_STAT_MAX_AGE
    IntLimit,    \* 2^31, the first number that is no int
    Time         \* bound: the time stamps there are

VARIABLE log

NoStats == [p \in Peer |-> <<>>]

\* The low half of what size() exceeds the limit by, which wraps as it is unsigned.
UnsignedExcess(size) ==
    IF size >= MaxRecords THEN size - MaxRecords ELSE size - MaxRecords + 2 * IntLimit

\* Mutant: std::max is that of size_t.
ExcessUnsigned(size) == UnsignedExcess(size)

\* It is converted to int.
Excess(size) ==
    IF UnsignedExcess(size) < IntLimit THEN UnsignedExcess(size)
    ELSE UnsignedExcess(size) - 2 * IntLimit

\* Mutant: one less is dropped.
KeepNewestOneMore(records) ==
    SubSeq(records, Max({1, Excess(Len(records))}), Len(records))

\* The first loop: drop from the front what exceeds the limit.
KeepNewest(records) ==
    SubSeq(records, Max({0, Excess(Len(records))}) + 1, Len(records))

\* The second loop: drop from the front as long as the front is too old.
DropTooOld(records, tNow) ==
    LET young == {i \in DOMAIN records : tNow - records[i] <= MaxAge}
    IN  IF young = {} THEN <<>> ELSE SubSeq(records, Min(young), Len(records))

Collected(stats, peer, tNow) ==
    [p \in Peer |->
        DropTooOld(KeepNewest(IF p = peer THEN Append(stats[p], tNow) ELSE stats[p]),
                   tNow)]

Init == log = NoStats

Record(peer, tNow) == log' = Collected(log, peer, tNow)

\* A process that dies at the wrong moment loses the log.
Forget == log' = NoStats

Next == (\E peer \in Peer, tNow \in Time : Record(peer, tNow)) \/ Forget

Spec == Init /\ [][Next]_log

=============================================================================
