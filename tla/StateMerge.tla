----------------------------- MODULE StateMerge -----------------------------
(***************************************************************************)
(* The state of one data type and the two operations that transform it:    *)
(* SharedState::merge and SharedState::bleach.                             *)
(*                                                                         *)
(* A std::map<StateKey, StateEntry> is a function that is total on the     *)
(* keys and yields Absent for a key the map does not hold.  JSON payloads  *)
(* (mData) are opaque: merge only ever compares them for equality.         *)
(***************************************************************************)
EXTENDS Integers, FiniteSets

CONSTANTS
    Host,       \* host names, what authorPlaceOlder() reads from /proc
    StateKey,   \* the keys of the replicated map
    Data,       \* the JSON values an entry may carry
    Absent      \* "the map has no entry for this key"

StateEntry == [mAuthor : Host, mTtl : Nat, mData : Data]

ASSUME AbsentIsNoEntry == Absent \notin StateEntry

State == [StateKey -> StateEntry \cup {Absent}]

EmptyState == [k \in StateKey |-> Absent]

Known(state) == {k \in StateKey : state[k] # Absent}

-----------------------------------------------------------------------------
(***************************************************************************)
(* merge.  An unknown key is always taken.  A known one is replaced when   *)
(* the received TTL is not lower, except that a remote peer may not raise  *)
(* the TTL of an entry this host authored.                                 *)
(***************************************************************************)

\* Mutant: the "something fishy is happening" guard is missing.
AcceptsFishyTtl(known, entry, isRemote, host) ==
    known = Absent \/ entry.mTtl >= known.mTtl

\* Mutant: the TTL counts for own entries only.
AcceptsOlder(known, entry, isRemote, host) ==
    \/ known = Absent
    \/ ~(isRemote /\ known.mAuthor = host /\ entry.mTtl > known.mTtl)

Accepts(known, entry, isRemote, host) ==
    \/ known = Absent
    \/ /\ ~(isRemote /\ known.mAuthor = host /\ entry.mTtl > known.mTtl)
       /\ entry.mTtl >= known.mTtl

\* Mutant: the host that merges an entry claims it as its own.
MergeEntryClaimed(known, entry, isRemote, host) ==
    IF entry # Absent /\ Accepts(known, entry, isRemote, host)
    THEN [entry EXCEPT !.mAuthor = host] ELSE known

\* What is stored for a key after merging the slice's entry for it.
MergeEntry(known, entry, isRemote, host) ==
    IF entry # Absent /\ Accepts(known, entry, isRemote, host)
    THEN entry ELSE known

merge(state, slice, isRemote, host) ==
    [k \in StateKey |-> MergeEntry(state[k], slice[k], isRemote, host)]

\* The keys merge counts in significantChanges, its return value.
significantChanges(state, slice, isRemote, host) ==
    {k \in Known(slice) :
        /\ Accepts(state[k], slice[k], isRemote, host)
        /\ state[k] = Absent \/ state[k].mData # slice[k].mData}

-----------------------------------------------------------------------------
(***************************************************************************)
(* bleach ages every entry by the given number of seconds and erases those *)
(* whose time is up.                                                       *)
(***************************************************************************)

\* Mutant: an entry whose TTL is exactly used up is kept.
BleachEntryLate(entry, times) ==
    IF entry = Absent \/ entry.mTtl < times
    THEN Absent
    ELSE [entry EXCEPT !.mTtl = @ - times]

BleachEntry(entry, times) ==
    IF entry = Absent \/ entry.mTtl <= times
    THEN Absent
    ELSE [entry EXCEPT !.mTtl = @ - times]

bleach(state, times) == [k \in StateKey |-> BleachEntry(state[k], times)]

=============================================================================
