-------------------------- MODULE TypeConfigProofs --------------------------
(***************************************************************************)
(* Proofs about the registered types, for any set of types and any number  *)
(* of register processes.                                                  *)
(***************************************************************************)
EXTENDS TypeConfig, TLAPS

(***************************************************************************)
(* The inductive invariant.  overlapped becomes true whenever a process    *)
(* writes while another one runs, so as long as it is false nothing was    *)
(* written since any of the running ones started.                          *)
(***************************************************************************)

\* A register process that runs has its type from its arguments.
TypeGiven == \A r \in Registrar : registrar[r].pc # "off" => registrar[r].type \in Type

\* Nobody knows a type that was not registered, except that a register process
\* adds its own before it writes it.
NothingInvented ==
    /\ confFile.types \subseteq registered
    /\ \A r \in Registrar : registrar[r].mTypeConf \subseteq
          registered \cup IF registrar[r].pc \in {"open", "write"} THEN {registrar[r].type} ELSE {}
    /\ daemon.mStates \subseteq registered
    /\ syncing # NoType => syncing \in registered

\* A register process that has loaded the file knows all registered types.
NothingForgotten ==
    ~overlapped =>
        \A r \in Registrar :
            /\ registrar[r].pc \in {"load", "open", "write"} =>
                  registered \subseteq registrar[r].mTypeConf
            /\ registrar[r].pc \in {"open", "write"} =>
                  registrar[r].type \in registrar[r].mTypeConf

\* The file a register process is about to write is empty.
WritesToEmptyFile ==
    ~overlapped /\ (\E r \in Registrar : registrar[r].pc = "write") => confFile.status = "empty"

\* The file does not parse only while it is rewritten, or for good reason.
BrokenOnlyInRewrite ==
    /\ confFile.status \in {"empty", "corrupt"} =>
          cutShort \/ overlapped \/ \E r \in Registrar : registrar[r].pc = "write"
    /\ daemon.alive => confFile.status # "missing"

IInv ==
    /\ TypeOK
    /\ TypeGiven
    /\ NothingInvented
    /\ NothingForgotten
    /\ RegisteredTypesStay
    /\ ReferenceStaysValid
    /\ WritesToEmptyFile
    /\ BrokenOnlyInRewrite

-----------------------------------------------------------------------------
\* At first nothing is registered and nobody runs.
LEMMA InitIInv == Init => IInv
<1> SUFFICES ASSUME Init PROVE IInv
  OBVIOUS
<1>1. /\ confFile \in [status : {"missing", "valid"}, types : {{}}]
      /\ daemon \in [alive : {FALSE}, mTypeConf : {{}}, mStates : {{}}]
      /\ registrar \in [Registrar -> [pc : {"off"}, type : {NoType}, mTypeConf : {{}}]]
  BY DEF Init, Off, Stopped
<1>2. TypeOK
  BY <1>1 DEF Init, TypeOK
<1>3. TypeGiven /\ NothingForgotten /\ WritesToEmptyFile
  BY <1>1 DEF TypeGiven, NothingForgotten, WritesToEmptyFile
<1>4. NothingInvented
  BY <1>1 DEF Init, NothingInvented
<1>5. RegisteredTypesStay /\ ReferenceStaysValid /\ BrokenOnlyInRewrite
  BY <1>1 DEF Init, RegisteredTypesStay, ReferenceStaysValid, BrokenOnlyInRewrite
<1> QED
  BY <1>2, <1>3, <1>4, <1>5 DEF IInv

\* What a step of a register process that does not write leaves alone.
LEMMA RegistrarStep ==
    ASSUME IInv, NEW r \in Registrar,
           registrar' = [registrar EXCEPT ![r] = registrar'[r]],
           registrar'[r] \in [pc : {"off", "start", "load", "open"},
                              type : Type \cup {NoType}, mTypeConf : SUBSET Type],
           registrar'[r].pc # "off" => registrar'[r].type \in Type,
           registrar'[r].mTypeConf \subseteq registered \cup
              IF registrar'[r].pc = "open" THEN {registrar'[r].type} ELSE {},
           ~overlapped /\ registrar'[r].pc \in {"load", "open"} =>
              registered \subseteq registrar'[r].mTypeConf,
           registrar'[r].pc = "open" => registrar'[r].type \in registrar'[r].mTypeConf,
           registrar[r].pc = "write" => cutShort',
           cutShort \in BOOLEAN, cutShort => cutShort', cutShort' \in BOOLEAN,
           UNCHANGED <<confFile, daemon, syncing, dangling, registered, overlapped>>
    PROVE  IInv'
<1>1. /\ registrar' \in [Registrar -> [pc : {"off", "start", "load", "open", "write"},
                                      type : Type \cup {NoType}, mTypeConf : SUBSET Type]]
      /\ \A q \in Registrar \ {r} : registrar'[q] = registrar[q]
  BY DEF IInv, TypeOK
<1>2. TypeOK'
  BY <1>1 DEF IInv, TypeOK
<1>3. TypeGiven'
  BY <1>1 DEF IInv, TypeGiven
<1>4. NothingInvented'
  BY <1>1 DEF IInv, NothingInvented
<1>5. NothingForgotten'
  BY <1>1 DEF IInv, NothingForgotten
<1>6. RegisteredTypesStay' /\ ReferenceStaysValid'
  BY DEF IInv, RegisteredTypesStay, ReferenceStaysValid
<1>7. WritesToEmptyFile'
  BY <1>1 DEF IInv, WritesToEmptyFile
<1>8. BrokenOnlyInRewrite'
  BY <1>1 DEF IInv, BrokenOnlyInRewrite
<1> QED
  BY <1>2, <1>3, <1>4, <1>5, <1>6, <1>7, <1>8 DEF IInv

\* registerDataType: loading, opening and ending without a write.
LEMMA RegisterPreserves ==
    ASSUME IInv, NEW r \in Registrar,
           \/ \E t \in Type : Register(r, t)
           \/ RegisterStart(r) \/ RegisterLoad(r) \/ RegisterOpen(r) \/ RegisterCutShort(r)
    PROVE  IInv'
<1>0. /\ registrar[r] \in [pc : {"off", "start", "load", "open", "write"},
                           type : Type \cup {NoType}, mTypeConf : SUBSET Type]
      /\ registrar \in [Registrar -> [pc : {"off", "start", "load", "open", "write"},
                           type : Type \cup {NoType}, mTypeConf : SUBSET Type]]
      /\ confFile \in [status : {"missing", "empty", "corrupt", "valid"}, types : SUBSET Type]
      /\ cutShort \in BOOLEAN
      /\ Off \in [pc : {"off"}, type : {NoType}, mTypeConf : SUBSET Type]
      /\ Off.pc = "off" /\ Off.type = NoType /\ Off.mTypeConf = {}
  BY DEF IInv, TypeOK, Off
<1>1. CASE \E t \in Type : Register(r, t)
  <2> PICK t \in Type : Register(r, t)
    BY <1>1
  <2> QED
    BY <1>0, RegistrarStep DEF Register, history
<1>2. CASE RegisterStart(r)
  <2>1. CASE confFile.status = "valid"
    <3>1. registrar'[r] = [registrar[r] EXCEPT !.pc = "load", !.mTypeConf = confFile.types]
      BY <1>2, <1>0, <2>1 DEF RegisterStart
    <3>2. /\ registrar'[r] \in [pc : {"load"}, type : Type \cup {NoType}, mTypeConf : SUBSET Type]
          /\ registrar'[r].pc = "load" /\ registrar'[r].type = registrar[r].type
          /\ registrar'[r].mTypeConf = confFile.types
      BY <3>1, <1>0
    <3>3. /\ registrar[r].type \in Type
          /\ confFile.types \subseteq registered
          /\ ~overlapped => registered \subseteq confFile.types
      BY <1>2, <2>1 DEF RegisterStart, IInv, TypeGiven, NothingInvented, RegisteredTypesStay
    <3>4. /\ registrar' = [registrar EXCEPT ![r] = registrar'[r]]
          /\ registrar[r].pc = "start"
          /\ UNCHANGED <<confFile, daemon, syncing, dangling, registered, overlapped, cutShort>>
      BY <1>2, <1>0, <2>1 DEF RegisterStart, history
    <3> QED
      BY <3>2, <3>3, <3>4, <1>0, RegistrarStep
  <2>2. CASE confFile.status # "valid"
    BY <1>2, <1>0, <2>2, RegistrarStep DEF RegisterStart, history
  <2> QED
    BY <2>1, <2>2
<1>3. CASE RegisterLoad(r)
  <2> DEFINE known == IF confFile.status = "valid" THEN confFile.types ELSE registrar[r].mTypeConf
  <2>1. /\ registrar'[r] = [registrar[r] EXCEPT !.pc = "open",
                                               !.mTypeConf = known \cup {registrar[r].type}]
        /\ registrar' = [registrar EXCEPT ![r] = registrar'[r]]
        /\ registrar[r].pc = "load"
        /\ UNCHANGED <<confFile, daemon, syncing, dangling, registered, overlapped, cutShort>>
    BY <1>3, <1>0 DEF RegisterLoad, history
  <2>2. /\ registrar[r].type \in Type
        /\ known \subseteq registered
        /\ known \in SUBSET Type
        /\ ~overlapped => registered \subseteq known
    BY <2>1, <1>0 DEF IInv, TypeGiven, NothingInvented, NothingForgotten, RegisteredTypesStay
  <2> HIDE DEF known
  <2> DEFINE more == known \cup {registrar[r].type}
  <2>3. more \in SUBSET Type /\ registrar[r].type \in more
    BY <2>2
  <2> HIDE DEF more
  <2>4. /\ registrar'[r] \in [pc : {"open"}, type : Type, mTypeConf : SUBSET Type]
        /\ registrar'[r].pc = "open" /\ registrar'[r].type = registrar[r].type
        /\ registrar'[r].mTypeConf = more
    <3>1. registrar'[r] = [registrar[r] EXCEPT !.pc = "open", !.mTypeConf = more]
      BY <2>1 DEF more
    <3> QED
      BY <3>1, <2>2, <2>3, <1>0
  <2> QED
    BY <2>1, <2>2, <2>3, <2>4, <1>0, RegistrarStep DEF more
<1>4. CASE RegisterOpen(r)
  <2>1. CASE registrar' = [registrar EXCEPT ![r].pc = "write"]
    <3>1. /\ registrar'[r] \in [pc : {"write"}, type : Type, mTypeConf : SUBSET Type]
          /\ registrar'[r].type = registrar[r].type
          /\ registrar'[r].mTypeConf = registrar[r].mTypeConf
          /\ registrar[r].pc = "open"
          /\ \A q \in Registrar \ {r} : registrar'[q] = registrar[q]
          /\ registrar' \in [Registrar -> [pc : {"off", "start", "load", "open", "write"},
                                          type : Type \cup {NoType}, mTypeConf : SUBSET Type]]
      BY <1>4, <1>0, <2>1 DEF RegisterOpen, IInv, TypeGiven
    <3>2. /\ confFile' = [status |-> "empty", types |-> {}]
          /\ UNCHANGED <<daemon, syncing, dangling, registered, overlapped, cutShort>>
      <4>1. registrar'[r] # Off
        BY <3>1, <1>0
      <4> QED
        BY <1>4, <1>0, <4>1 DEF RegisterOpen, history
    <3>3. TypeOK' /\ TypeGiven'
      BY <3>1, <3>2 DEF IInv, TypeOK, TypeGiven
    <3>4. NothingInvented'
      BY <3>1, <3>2 DEF IInv, NothingInvented
    <3>5. NothingForgotten'
      BY <3>1, <3>2 DEF IInv, NothingForgotten
    <3>6. RegisteredTypesStay' /\ ReferenceStaysValid' /\ WritesToEmptyFile' /\ BrokenOnlyInRewrite'
      BY <3>1, <3>2 DEF IInv, RegisteredTypesStay, ReferenceStaysValid, WritesToEmptyFile,
                        BrokenOnlyInRewrite
    <3> QED
      BY <3>3, <3>4, <3>5, <3>6 DEF IInv
  <2>2. CASE registrar' = [registrar EXCEPT ![r] = Off] /\ UNCHANGED confFile
    BY <1>4, <1>0, <2>2, RegistrarStep DEF RegisterOpen, history
  <2> QED
    BY <1>4, <2>1, <2>2 DEF RegisterOpen
<1>5. CASE RegisterCutShort(r)
  BY <1>5, <1>0, RegistrarStep DEF RegisterCutShort
<1> QED
  BY <1>1, <1>2, <1>3, <1>4, <1>5

\* registerDataType writes the file.  Unless another process runs, the file was
\* empty and gets all the types that were registered and the new one.
LEMMA WritePreserves ==
    ASSUME IInv, NEW r \in Registrar, RegisterWrite(r)
    PROVE  IInv'
<1> DEFINE R == registrar[r]
<1>0. /\ R \in [pc : {"write"}, type : Type, mTypeConf : SUBSET Type]
      /\ R.mTypeConf \subseteq registered \cup {R.type}
      /\ ~overlapped => registered \cup {R.type} \subseteq R.mTypeConf
      /\ ~overlapped => confFile.status = "empty"
  BY DEF RegisterWrite, IInv, TypeOK, TypeGiven, NothingInvented, NothingForgotten,
         WritesToEmptyFile
<1>1. /\ registrar'[r].pc = "off" /\ registrar'[r].mTypeConf = {}
      /\ \A q \in Registrar \ {r} : registrar'[q] = registrar[q]
      /\ registrar' \in [Registrar -> [pc : {"off", "start", "load", "open", "write"},
                                      type : Type \cup {NoType}, mTypeConf : SUBSET Type]]
  BY DEF RegisterWrite, Off, IInv, TypeOK
<1>2. /\ registered' = registered \cup {R.type}
      /\ overlapped' \in BOOLEAN
      /\ overlapped => overlapped'
      /\ ~overlapped' => \A q \in Registrar \ {r} : registrar[q].pc = "off"
      /\ UNCHANGED <<daemon, syncing, dangling, cutShort>>
  <2>1. /\ registered' = registered \cup {R.type}
        /\ UNCHANGED <<daemon, syncing, dangling, cutShort>>
        /\ overlapped' = (overlapped \/ \E q \in Registrar \ {r} : registrar[q] # Off)
    BY DEF RegisterWrite
  <2>2. Off.pc = "off"
    BY DEF Off
  <2>3. overlapped \in BOOLEAN
    BY DEF IInv, TypeOK
  <2> QED
    BY <2>1, <2>2, <2>3, Zenon
<1>3. \/ confFile' = [status |-> "valid", types |-> R.mTypeConf]
      \/ confFile' = [status |-> "corrupt", types |-> {}] /\ overlapped
  BY <1>0 DEF RegisterWrite, IInv, TypeOK
<1> HIDE DEF R
<1>4. /\ confFile' \in [status : {"valid", "corrupt"}, types : SUBSET Type]
      /\ confFile'.types \subseteq registered'
      /\ confFile'.status = "corrupt" => overlapped'
      /\ ~overlapped' => registered' \subseteq confFile'.types
  BY <1>0, <1>2, <1>3
<1>5. TypeOK' /\ TypeGiven'
  BY <1>0, <1>1, <1>2, <1>4 DEF IInv, TypeOK, TypeGiven
<1>6. NothingInvented'
  BY <1>1, <1>2, <1>4 DEF IInv, NothingInvented
<1>7. NothingForgotten'
  BY <1>1, <1>2 DEF NothingForgotten
<1>8. RegisteredTypesStay' /\ ReferenceStaysValid'
  BY <1>2, <1>4 DEF IInv, RegisteredTypesStay, ReferenceStaysValid
<1>9. WritesToEmptyFile' /\ BrokenOnlyInRewrite'
  BY <1>1, <1>2, <1>4 DEF WritesToEmptyFile, BrokenOnlyInRewrite
<1> QED
  BY <1>5, <1>6, <1>7, <1>8, <1>9 DEF IInv

\* loadRegisteredTypes and the reference syncWithPeer keeps: what the daemon has a
\* state for has been registered, so a reload that succeeds finds it again.
LEMMA DaemonPreserves ==
    ASSUME IInv, DaemonStart \/ DaemonReload \/ (\E t \in Type : SyncBegins(t)) \/ SyncContinues
    PROVE  IInv'
<1>0. UNCHANGED <<confFile, registrar, registered, overlapped, cutShort>>
  BY DEF DaemonStart, DaemonReload, SyncBegins, SyncContinues, history
<1>1. TypeGiven' /\ NothingForgotten' /\ RegisteredTypesStay' /\ WritesToEmptyFile'
  BY <1>0 DEF IInv, TypeGiven, NothingForgotten, RegisteredTypesStay, WritesToEmptyFile
<1>2. /\ daemon' \in [alive : BOOLEAN, mTypeConf : SUBSET Type, mStates : SUBSET Type]
      /\ daemon'.mStates \subseteq registered
      /\ daemon'.alive => confFile.status # "missing"
  <2>1. CASE daemon' = Stopped
    BY <2>1 DEF Stopped
  <2>2. CASE confFile.status = "valid" /\ \E d : daemon' = Loaded(d, confFile.types)
    <3>1. PICK d : daemon' = Loaded(d, confFile.types)
      BY <2>2
    <3>2. /\ daemon'.mStates = (d.mStates \cup confFile.types) \cap confFile.types
          /\ daemon' = [alive |-> TRUE, mTypeConf |-> confFile.types, mStates |-> daemon'.mStates]
      BY <3>1 DEF Loaded
    <3>3. daemon'.mStates \subseteq confFile.types
      BY <3>2
    <3>4. confFile.types \in SUBSET Type /\ confFile.types \subseteq registered
      BY DEF IInv, TypeOK, NothingInvented
    <3> QED
      <4>1. daemon'.mStates \in SUBSET Type
        BY <3>3, <3>4
      <4> DEFINE S == daemon'.mStates
      <4>2. /\ S \in SUBSET Type /\ confFile.types \in SUBSET Type
            /\ daemon' = [alive |-> TRUE, mTypeConf |-> confFile.types, mStates |-> S]
        BY <4>1, <3>2, <3>4
      <4> HIDE DEF S
      <4>3. daemon' \in [alive : BOOLEAN, mTypeConf : SUBSET Type, mStates : SUBSET Type]
        BY <4>2
      <4> QED
        BY <4>3, <2>2, <3>3, <3>4
  <2>3. CASE UNCHANGED daemon
    BY <2>3 DEF IInv, TypeOK, NothingInvented, BrokenOnlyInRewrite
  <2> QED
    BY <2>1, <2>2, <2>3 DEF DaemonStart, DaemonReload, SyncBegins, SyncContinues
<1>3. /\ syncing' \in Type \cup {NoType}
      /\ syncing' # NoType => syncing' \in registered
  <2>1. CASE \E t \in Type : SyncBegins(t)
    BY <2>1 DEF SyncBegins, IInv, NothingInvented
  <2>2. CASE syncing' \in {syncing, NoType}
    BY <2>2 DEF IInv, TypeOK, NothingInvented
  <2> QED
    BY <2>1, <2>2 DEF DaemonStart, DaemonReload, SyncContinues
<1>4. dangling' \in BOOLEAN /\ (dangling' => overlapped)
  <2>1. CASE /\ confFile.status = "valid"
             /\ dangling' = (syncing # NoType /\ (dangling \/ syncing \notin confFile.types))
    <3>1. syncing # NoType /\ ~overlapped => syncing \in confFile.types /\ ~dangling
      BY <2>1 DEF IInv, NothingInvented, ReferenceStaysValid, RegisteredTypesStay
    <3>2. overlapped \in BOOLEAN /\ dangling \in BOOLEAN
      BY DEF IInv, TypeOK
    <3> QED
      BY <2>1, <3>1, <3>2, Zenon
  <2>2. CASE dangling' = FALSE \/ UNCHANGED dangling
    <3>1. dangling \in BOOLEAN /\ (dangling => overlapped)
      BY DEF IInv, TypeOK, ReferenceStaysValid
    <3>2. CASE dangling' = FALSE
      BY <3>2
    <3>3. CASE UNCHANGED dangling
      BY <3>1, <3>3
    <3> QED
      BY <2>2, <3>2, <3>3
  <2> QED
    BY <2>1, <2>2 DEF DaemonStart, DaemonReload, SyncBegins, SyncContinues
<1>5. TypeOK'
  BY <1>0, <1>2, <1>3, <1>4 DEF IInv, TypeOK
<1>6. NothingInvented'
  BY <1>0, <1>2, <1>3 DEF IInv, NothingInvented
<1>7. ReferenceStaysValid' /\ BrokenOnlyInRewrite'
  BY <1>0, <1>2, <1>4 DEF IInv, ReferenceStaysValid, BrokenOnlyInRewrite
<1> QED
  BY <1>1, <1>5, <1>6, <1>7 DEF IInv

\* Every step of a register process or of the daemon preserves the invariant.
LEMMA NextIInv == IInv /\ [Next]_vars => IInv'
<1> SUFFICES ASSUME IInv, [Next]_vars PROVE IInv'
  OBVIOUS
<1>1. ASSUME NEW r \in Registrar,
             \/ \E t \in Type : Register(r, t)
             \/ RegisterStart(r) \/ RegisterLoad(r) \/ RegisterOpen(r) \/ RegisterCutShort(r)
      PROVE  IInv'
  BY <1>1, RegisterPreserves
<1>2. ASSUME NEW r \in Registrar, RegisterWrite(r) PROVE IInv'
  BY <1>2, WritePreserves
<1>3. CASE DaemonStart \/ DaemonReload \/ (\E t \in Type : SyncBegins(t)) \/ SyncContinues
  BY <1>3, DaemonPreserves
<1>4. CASE UNCHANGED vars
  BY <1>4 DEF vars, history, IInv, TypeOK, TypeGiven, NothingInvented, NothingForgotten,
              RegisteredTypesStay, ReferenceStaysValid, WritesToEmptyFile, BrokenOnlyInRewrite
<1> QED
  BY <1>1, <1>2, <1>3, <1>4 DEF Next

\* The invariant holds in every reachable state.
LEMMA Invariance == Spec => []IInv
  BY InitIInv, NextIInv, PTL DEF Spec

-----------------------------------------------------------------------------
\* Spec => []TypeOK: in particular a register process that adds its type to what
\* it has read has one to add.
THEOREM TypeCorrect == Spec => []TypeOK
  BY Invariance, PTL DEF IInv

\* However many register processes there are, as long as none of them writes while
\* another runs every configuration that parses has all registered types, cut
\* short rewrites and failed loads notwithstanding (registerDataType).
THEOREM TypesStayRegistered == Spec => []RegisteredTypesStay
  BY Invariance, PTL DEF IInv

\* The reference to a state that syncWithPeer keeps over its suspensions dangles
\* only after two register processes overlapped (loadRegisteredTypes).
THEOREM ReferenceIsValid == Spec => []ReferenceStaysValid
  BY Invariance, PTL DEF IInv

\* A failed reload ends a daemon only during a rewrite, or after one was cut short
\* or two overlapped (loadRegisteredTypes, saveConfFile).
THEOREM ReloadFails == Spec => ReloadFailsOnlyInRewrite
<1>1. IInv /\ [Next]_vars =>
        [daemon.alive /\ ~daemon'.alive =>
          cutShort \/ overlapped \/ \E r \in Registrar : registrar[r].pc = "write"]_vars
  <2> SUFFICES ASSUME IInv, Next, daemon.alive, ~daemon'.alive
               PROVE  cutShort \/ overlapped \/ \E r \in Registrar : registrar[r].pc = "write"
    OBVIOUS
  <2>1. CASE DaemonReload
    <3>1. confFile.status # "valid"
      BY <2>1 DEF DaemonReload, Loaded
    <3> QED
      BY <3>1 DEF IInv, TypeOK, BrokenOnlyInRewrite
  <2>2. CASE ~DaemonReload
    BY <2>2 DEF Next, Register, RegisterStart, RegisterLoad, RegisterOpen, RegisterWrite,
                RegisterCutShort, DaemonStart, SyncBegins, SyncContinues
  <2> QED
    BY <2>1, <2>2
<1> QED
  BY <1>1, Invariance, PTL DEF Spec, ReloadFailsOnlyInRewrite

=============================================================================
