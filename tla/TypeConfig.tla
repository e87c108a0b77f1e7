----------------------------- MODULE TypeConfig -----------------------------
(***************************************************************************)
(* The registered data types: the configuration file, the "register"       *)
(* processes that rewrite it in place, and the daemon that reloads it      *)
(* twice a second and creates and erases its per-type states accordingly.  *)
(*                                                                         *)
(* A file is read in one go, but written in two: open truncates it, the    *)
(* content follows.  Two processes that write it at once write from offset *)
(* 0 each, so the longer text may show behind the shorter one.             *)
(***************************************************************************)
EXTENDS Integers, FiniteSets

CONSTANTS
    Type,       \* names of data types
    Registrar,  \* "register" processes that may run at the same time
    NoType

ASSUME NoTypeAssumption == NoType \notin Type

VARIABLES
    confFile,    \* shared-state-async.conf
    registrar,   \* the "register" processes
    daemon,      \* the daemon's mTypeConf and mStates, and whether it runs
    syncing,     \* the type whose state syncWithPeer refers to while it connects
    dangling,    \* that state has been erased since
    registered,  \* history: the types a register process has written
    overlapped,  \* history: a register process wrote while another one ran
    cutShort     \* history: one ended between truncating and writing the file

history == <<registered, overlapped, cutShort>>

vars == <<confFile, registrar, daemon, syncing, dangling, history>>

TypeOK ==
    /\ confFile \in [status : {"missing", "empty", "corrupt", "valid"}, types : SUBSET Type]
    /\ registrar \in [Registrar -> [pc : {"off", "start", "load", "open", "write"},
                                    type : Type \cup {NoType},
                                    mTypeConf : SUBSET Type]]
    /\ daemon \in [alive : BOOLEAN, mTypeConf : SUBSET Type, mStates : SUBSET Type]
    /\ syncing \in Type \cup {NoType}
    /\ dangling \in BOOLEAN
    /\ registered \subseteq Type
    /\ overlapped \in BOOLEAN /\ cutShort \in BOOLEAN

Off == [pc |-> "off", type |-> NoType, mTypeConf |-> {}]

Stopped == [alive |-> FALSE, mTypeConf |-> {}, mStates |-> {}]

Init ==
    /\ confFile \in [status : {"missing", "valid"}, types : {{}}]
    /\ registrar = [r \in Registrar |-> Off]
    /\ daemon = Stopped
    /\ syncing = NoType /\ dangling = FALSE
    /\ registered = {} /\ overlapped = FALSE /\ cutShort = FALSE

-----------------------------------------------------------------------------
(***************************************************************************)
(* "register": the constructor of SharedStateCli loads the file, then      *)
(* SharedState::registerDataType loads it again, adds the type, rewrites.  *)
(***************************************************************************)

\* Mutant: the name of the type is not taken from the arguments.
RegisterUnnamed(r, t) ==
    /\ registrar[r] = Off
    /\ registrar' = [registrar EXCEPT ![r] =
                        [pc |-> "start", type |-> NoType, mTypeConf |-> {}]]
    /\ UNCHANGED <<confFile, daemon, syncing, dangling, history>>

\* A user runs "register" for a type.
Register(r, t) ==
    /\ registrar[r] = Off
    /\ registrar' = [registrar EXCEPT ![r] =
                        [pc |-> "start", type |-> t, mTypeConf |-> {}]]
    /\ UNCHANGED <<confFile, daemon, syncing, dangling, history>>

\* The constructor passes no errbub: it ends the process if loading fails.
RegisterStart(r) ==
    /\ registrar[r].pc = "start"
    /\ registrar' = [registrar EXCEPT ![r] =
          IF confFile.status = "valid"
          THEN [@ EXCEPT !.pc = "load", !.mTypeConf = confFile.types]
          ELSE Off]
    /\ UNCHANGED <<confFile, daemon, syncing, dangling, history>>

\* Mutant: the file is not loaded again, the type replaces all others.
RegisterLoadNothing(r) ==
    /\ registrar[r].pc = "load"
    /\ registrar' = [registrar EXCEPT ![r].pc = "open",
                                      ![r].mTypeConf = {registrar[r].type}]
    /\ UNCHANGED <<confFile, daemon, syncing, dangling, history>>

\* registerDataType loads again and survives a failure, which leaves mTypeConf
\* as it was, then adds the type.
RegisterLoad(r) ==
    /\ registrar[r].pc = "load"
    /\ LET known == IF confFile.status = "valid" THEN confFile.types
                    ELSE registrar[r].mTypeConf
       IN  registrar' = [registrar EXCEPT ![r].pc = "open",
                                          ![r].mTypeConf = known \cup {registrar[r].type}]
    /\ UNCHANGED <<confFile, daemon, syncing, dangling, history>>

\* Mutant: the process gives up after the file has been truncated.
RegisterOpenGivesUp(r) ==
    /\ registrar[r].pc = "open"
    /\ confFile' = [status |-> "empty", types |-> {}]
    /\ \/ registrar' = [registrar EXCEPT ![r].pc = "write"]
       \/ registrar' = [registrar EXCEPT ![r] = Off]
    /\ UNCHANGED <<daemon, syncing, dangling, history>>

\* The file is opened for writing, which truncates it; or that fails.
RegisterOpen(r) ==
    /\ registrar[r].pc = "open"
    /\ \/ /\ registrar' = [registrar EXCEPT ![r].pc = "write"]
          /\ confFile' = [status |-> "empty", types |-> {}]
       \/ /\ registrar' = [registrar EXCEPT ![r] = Off]
          /\ UNCHANGED confFile
    /\ UNCHANGED <<daemon, syncing, dangling, history>>

\* The content is written and the process exits.  If another process has written
\* in the meantime, the end of what it wrote may remain.
RegisterWrite(r) ==
    LET new == [status |-> "valid", types |-> registrar[r].mTypeConf]
        mixed == [status |-> "corrupt", types |-> {}]
    IN  /\ registrar[r].pc = "write"
        /\ confFile' \in IF confFile.status = "empty" THEN {new} ELSE {new, mixed}
        /\ registrar' = [registrar EXCEPT ![r] = Off]
        /\ registered' = registered \cup {registrar[r].type}
        /\ overlapped' = (overlapped \/ \E q \in Registrar \ {r} : registrar[q] # Off)
        /\ UNCHANGED <<daemon, syncing, dangling, cutShort>>

\* The process is killed, or its write fails unnoticed: ends with the file as it
\* is, possibly truncated.
RegisterCutShort(r) ==
    /\ registrar[r] # Off
    /\ registrar' = [registrar EXCEPT ![r] = Off]
    /\ cutShort' = (cutShort \/ registrar[r].pc = "write")
    /\ UNCHANGED <<confFile, daemon, syncing, dangling, registered, overlapped>>

-----------------------------------------------------------------------------
(***************************************************************************)
(* The daemon.                                                             *)
(***************************************************************************)

\* loadRegisteredTypes creates empty states for new types and erases those of
\* types that are gone.
Loaded(d, types) ==
    [alive |-> TRUE, mTypeConf |-> types,
     mStates |-> (d.mStates \cup types) \cap types]

\* The daemon starts: its constructor loads the file or ends the process.
DaemonStart ==
    /\ ~daemon.alive
    /\ confFile.status = "valid"
    /\ daemon' = Loaded(Stopped, confFile.types)
    /\ UNCHANGED <<confFile, registrar, syncing, dangling, history>>

\* An iteration of the bleach or of the peer loop begins with loading the file,
\* again without an errbub, so that a failure ends the process.
DaemonReload ==
    /\ daemon.alive
    /\ IF confFile.status = "valid"
       THEN /\ daemon' = Loaded(daemon, confFile.types)
            /\ dangling' = (syncing # NoType /\ (dangling \/ syncing \notin confFile.types))
            /\ UNCHANGED syncing
       ELSE /\ daemon' = Stopped
            /\ syncing' = NoType /\ dangling' = FALSE
    /\ UNCHANGED <<confFile, registrar, history>>

\* syncWithPeer takes a reference to the state of a type, then waits for the
\* connection and for the handshake.
SyncBegins(t) ==
    /\ daemon.alive /\ syncing = NoType
    /\ t \in daemon.mStates
    /\ syncing' = t /\ dangling' = FALSE
    /\ UNCHANGED <<confFile, registrar, daemon, history>>

\* It serializes the state it refers to, or connecting fails.
SyncContinues ==
    /\ syncing # NoType
    /\ syncing' = NoType /\ dangling' = FALSE
    /\ UNCHANGED <<confFile, registrar, daemon, history>>

Next ==
    \/ \E r \in Registrar :
          \/ \E t \in Type : Register(r, t)
          \/ RegisterStart(r) \/ RegisterLoad(r) \/ RegisterOpen(r) \/ RegisterWrite(r)
          \/ RegisterCutShort(r)
    \/ DaemonStart \/ DaemonReload
    \/ \E t \in Type : SyncBegins(t)
    \/ SyncContinues

Spec == Init /\ [][Next]_vars

-----------------------------------------------------------------------------
(***************************************************************************)
(* Properties.                                                             *)
(***************************************************************************)

\* As long as no two register processes overlapped, a type once registered is in
\* every configuration the daemon can load, so its state is never erased.
RegisteredTypesStay ==
    ~overlapped /\ confFile.status = "valid" => registered \subseteq confFile.types

\* As long as no two register processes overlapped, the state that syncWithPeer
\* refers to across its suspensions is still there when it uses it.
ReferenceStaysValid == dangling => overlapped

\* A reload that fails ends the daemon.  One finds the file empty or corrupt only
\* while a register process is rewriting it, or after one was cut short there or
\* two of them overlapped: a complete register never takes a daemon down that
\* does not look just then (loadRegisteredTypes, registerDataType).
ReloadFailsOnlyInRewrite ==
    [][daemon.alive /\ ~daemon'.alive =>
          cutShort \/ overlapped \/ \E r \in Registrar : registrar[r].pc = "write"]_vars

=============================================================================
