--------------------------- MODULE ReplicatedMap ----------------------------
(***************************************************************************)
(* What the replication protocol promises of one data type, with nothing   *)
(* of sessions, slices or commands: every host has a view of one map, to   *)
(* which any host may publish.  A view gains entries that were published,  *)
(* with no more time than their author gives, and in exchange for an entry *)
(* only one that lasts at least as long.  It loses entries to age, and all *)
(* of them when its host restarts.                                         *)
(***************************************************************************)
EXTENDS Integers

CONSTANTS
    Host, StateKey, Data, Absent,
    Lifetime(_),  \* the time to live a host gives to what it publishes
    MaxFade       \* bound: the most seconds a view ages at once

VARIABLES view, published

Entry == [mAuthor : Host, mTtl : Nat, mData : Data]

Nothing == [k \in StateKey |-> Absent]

Views == [Host -> [StateKey -> Entry \cup {Absent}]]

\* An entry somebody published, with some of its time left.
Genuine(k, entry) ==
    /\ entry.mTtl \in 1 .. Lifetime(entry.mAuthor)
    /\ <<entry.mAuthor, k, entry.mData>> \in published

\* No view but the one of this host changes.
OnlyViewOf(n) == view' \in Views /\ \A m \in Host \ {n} : view'[m] = view[m]

Publish(n) ==
    /\ published \subseteq published'
    /\ published' \ published \subseteq {n} \X StateKey \X Data
    /\ UNCHANGED view

Learn(n) ==
    /\ OnlyViewOf(n)
    /\ \A k \in StateKey :
          LET old == view[n][k]
              new == view'[n][k]
          IN  \/ new = old
              \/ /\ new # Absent /\ Genuine(k, new)
                 /\ old # Absent => new.mTtl >= old.mTtl
    /\ UNCHANGED published

Fade(n, seconds) ==
    /\ OnlyViewOf(n)
    /\ \A k \in StateKey :
          LET old == view[n][k]
          IN  view'[n][k] = IF old = Absent \/ old.mTtl <= seconds THEN Absent
                            ELSE [old EXCEPT !.mTtl = @ - seconds]
    /\ UNCHANGED published

Forget(n) ==
    /\ view' = [view EXCEPT ![n] = Nothing]
    /\ UNCHANGED published

Init == view = [n \in Host |-> Nothing] /\ published = {}

HostNext(n) ==
    \/ Publish(n)
    \/ Learn(n)
    \/ \E seconds \in 1 .. MaxFade : Fade(n, seconds)
    \/ Forget(n)

Next == \E n \in Host : HostNext(n)

Spec == Init /\ [][Next]_<<view, published>>

=============================================================================
