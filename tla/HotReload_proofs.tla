-------------------------- MODULE HotReload_proofs --------------------------
(***************************************************************************)
(* Invariants of the hot reload, for every set of runtimes and of files,   *)
(* every size of the pool, and every number of edits.                      *)
(***************************************************************************)
EXTENDS HotReload, DataLemmas

-----------------------------------------------------------------------------
(* Types. The parts of TypeOK: the files, the pool, the round, the Lua     *)
(* state of the runtimes.                                                  *)

FilesTypeOK ==
  /\ disk \in [Files -> Versions]
  /\ fsEvents \in Seq([op : Ops, file : Files, version : Versions])
  /\ modules \in [Files -> [version : 0..MaxVersion, disabled : BOOLEAN]]
  /\ missed \in BOOLEAN

PoolTypeOK ==
  /\ runtimes \in Seq(Runtimes) /\ IsInjective(runtimes) /\ Len(runtimes) <= PoolSize
  /\ phase \in [Runtimes -> {"none", "new", "up", "down"}]

RoundTypeOK ==
  /\ watcher \in {"off", "scanned", "idle", "pool", "rotate", "wait"}
  /\ m \in Caches \cup {None}
  /\ completes \in 0..(PoolSize - 1)
  /\ target \in Runtimes \cup {None}
  /\ event \in {"hotfix", "patch", None}
  /\ resultCh \in {"ok", "error", None}
  /\ pool \subseteq Runtimes /\ reached \subseteq Runtimes

LuaTypeOK ==
  /\ preload \in [Runtimes -> [Files -> 0..MaxVersion]]
  /\ loaded \in [Runtimes -> SUBSET Files]
  /\ exec \in [Runtimes -> [Files -> 0..MaxVersion]]
  /\ tried \in [Files -> SUBSET Versions]

LEMMA TypeParts == TypeOK <=> FilesTypeOK /\ PoolTypeOK /\ RoundTypeOK /\ LuaTypeOK
BY DEF TypeOK, FilesTypeOK, PoolTypeOK, RoundTypeOK, LuaTypeOK

\* The watcher has a file during a round, and a runtime from the moment it
\* takes one out of the pool; it waits for one event or for one answer. Only
\* the first runtime of a round is not sent "patch".
Control ==
  /\ m # None <=> watcher \in {"pool", "rotate", "wait"}
  /\ watcher \in {"rotate", "wait"} => target # None
  /\ event # None => watcher = "wait" /\ resultCh = None
  /\ resultCh # None => watcher = "wait"
  /\ m = None => completes = 0
  /\ event = "patch" => completes > 0

\* A runtime is at most once in the pool, also while the watcher holds it.
Registered ==
  /\ watcher = "rotate" => target \notin Range(runtimes)
  /\ \A r \in Runtimes : phase[r] = "none" => r \notin Range(runtimes) /\ r # target

Types == FilesTypeOK /\ PoolTypeOK /\ RoundTypeOK /\ LuaTypeOK /\ Control /\ Registered

LEMMA NoneDiffers ==
  /\ None \notin Runtimes
  /\ None \notin Caches
  /\ None \notin {"hotfix", "patch", "ok", "error"}
BY ReloadParameters

\* What the watcher sent is for a runtime, about a file.
LEMMA EventInRound ==
  ASSUME Types, event # None
  PROVE  /\ watcher = "wait" /\ resultCh = None
         /\ target \in Runtimes
         /\ m \in Caches
         /\ m.file \in Files /\ m.version \in Versions /\ m.disabled \in BOOLEAN
<1>1. watcher = "wait" /\ resultCh = None /\ target \in Runtimes /\ m \in Caches
  BY NoneDiffers DEF Types, Control, RoundTypeOK
<1>2. m.file \in Files /\ m.version \in Versions /\ m.disabled \in BOOLEAN
  BY <1>1 DEF Caches
<1> QED BY <1>1, <1>2

LEMMA InitType == Init => Types
<1> SUFFICES ASSUME Init PROVE Types
  OBVIOUS
<1>1. << >> \in Seq([op : Ops, file : Files, version : Versions])
  BY EmptyElements
<1>2. 1 \in Versions /\ 0 \in 0..MaxVersion /\ 0 \in 0..(PoolSize - 1)
  BY ReloadParameters DEF Versions
<1>3. FilesTypeOK
  <2>1. NoModule \in [version : 0..MaxVersion, disabled : BOOLEAN]
    BY <1>2 DEF NoModule
  <2> QED BY <1>1, <1>2, <2>1 DEF Init, FilesTypeOK
<1>4. PoolTypeOK /\ Range(runtimes) \subseteq Pooled
  <2> DEFINE n == Cardinality(Pooled)
  <2>1. n \in Nat /\ n <= PoolSize
    BY ReloadParameters, FS_CardinalityType
  <2>2. runtimes \in [1..n -> Pooled] /\ IsInjective(runtimes)
    BY DEF Init
  <2>3. DOMAIN runtimes = 1..n /\ \A i \in 1..n : runtimes[i] \in Pooled
    BY <2>2
  <2> HIDE DEF n
  <2>4. runtimes \in Seq(Runtimes) /\ Len(runtimes) = n
    BY <2>1, <2>2, <2>3, ReloadParameters
  <2>5. Range(runtimes) \subseteq Pooled
    BY <2>3 DEF Range
  <2>6. phase \in [Runtimes -> {"none", "new", "up", "down"}]
    BY DEF Init
  <2> QED BY <2>1, <2>2, <2>4, <2>5, <2>6 DEF PoolTypeOK
<1>5. RoundTypeOK /\ Control
  BY <1>2, NoneDiffers DEF Init, RoundTypeOK, Control
<1>6. LuaTypeOK
  BY <1>2 DEF Init, LuaTypeOK
<1>7. Registered
  <2>1. \A r \in Runtimes : phase[r] = "none" => r \notin Pooled
    BY DEF Init
  <2>2. watcher = "off" /\ target = None
    BY DEF Init
  <2> QED BY <1>4, <2>1, <2>2, NoneDiffers DEF Registered
<1> QED BY <1>3, <1>4, <1>5, <1>6, <1>7 DEF Types

LEMMA TypeEdit ==
  ASSUME Types, NEW f \in Files, NEW op \in Ops, Edit(f, op)
  PROVE  Types'
<1>1. /\ disk \in [Files -> Versions] /\ disk[f] \in Versions
      /\ disk[f] < MaxVersion
      /\ disk' = [disk EXCEPT ![f] = @ + 1]
  BY DEF Types, FilesTypeOK, Edit
<1>2. disk[f] + 1 \in Versions
  BY <1>1, ReloadParameters DEF Versions
<1>3. disk' \in [Files -> Versions]
  BY <1>1, <1>2
<1> DEFINE e == [op |-> op, file |-> f, version |-> disk[f] + 1]
<1>4. /\ e \in [op : Ops, file : Files, version : Versions]
      /\ fsEvents' = fsEvents \/ fsEvents' = Append(fsEvents, e)
  BY <1>2 DEF Edit
<1>5. fsEvents' \in Seq([op : Ops, file : Files, version : Versions])
  <2> DEFINE Reports == [op : Ops, file : Files, version : Versions]
  <2>1. fsEvents \in Seq(Reports) /\ e \in Reports
    BY <1>4 DEF Types, FilesTypeOK
  <2> HIDE DEF e, Reports
  <2>2. Append(fsEvents, e) \in Seq(Reports)
    BY <2>1, AppendElements
  <2>3. fsEvents' \in Seq(Reports)
    BY <1>4, <2>1, <2>2
  <2> QED BY <2>3 DEF Reports
<1>6. FilesTypeOK'
  BY <1>3, <1>5 DEF Types, FilesTypeOK, Edit
<1> QED BY <1>6 DEF Types, Edit, PoolTypeOK, RoundTypeOK, LuaTypeOK, Control, Registered,
                    round, lua

\* A runtime that joins was nowhere before.
LEMMA TypeRegister ==
  ASSUME Types, NEW r \in Runtimes, Register(r)
  PROVE  Types'
<1>1. /\ runtimes \in Seq(Runtimes) /\ IsInjective(runtimes)
      /\ Len(runtimes) < PoolSize
      /\ r \notin Range(runtimes) /\ r # target
      /\ runtimes' = Append(runtimes, r)
      /\ phase \in [Runtimes -> {"none", "new", "up", "down"}]
      /\ phase' = [phase EXCEPT ![r] = "new"]
  BY DEF Types, PoolTypeOK, Registered, Register
<1>2. /\ runtimes' \in Seq(Runtimes) /\ IsInjective(runtimes')
      /\ Len(runtimes') = Len(runtimes) + 1
      /\ Range(runtimes') = Range(runtimes) \cup {r}
  BY <1>1, AppendElements
<1>3. Len(runtimes') <= PoolSize
  BY <1>1, <1>2, LenProperties, ReloadParameters
<1>4. PoolTypeOK'
  BY <1>1, <1>2, <1>3 DEF PoolTypeOK
<1>5. Registered'
  <2>1. watcher' = watcher /\ target' = target
    BY DEF Register, round
  <2> QED BY <1>1, <1>2, <2>1 DEF Types, Registered
<1> QED BY <1>4, <1>5 DEF Types, Register, FilesTypeOK, RoundTypeOK, LuaTypeOK, Control,
                          round, lua

LEMMA TypeScan ==
  ASSUME Types, Scan
  PROVE  Types'
<1>1. FilesTypeOK'
  <2>1. PICK n \in 0..Len(Walk) :
          modules' = [f \in Files |->
            IF \E i \in 1..n : Walk[i] = f
            THEN [version |-> disk[f], disabled |-> disk[f] \in Marked[f]] ELSE NoModule]
    BY DEF Scan
  <2>2. /\ \A f \in Files : disk[f] \in 0..MaxVersion
        /\ 0 \in 0..MaxVersion
    BY ReloadParameters DEF Types, FilesTypeOK, Versions
  <2>3. modules' \in [Files -> [version : 0..MaxVersion, disabled : BOOLEAN]]
    BY <2>1, <2>2 DEF NoModule
  <2> QED BY <2>3 DEF Types, FilesTypeOK, Scan
<1> QED BY <1>1 DEF Types, Scan, PoolTypeOK, RoundTypeOK, LuaTypeOK, Control, Registered,
                    round, lua

LEMMA TypeRuntime ==
  ASSUME Types, Watch \/ \E r \in Runtimes : Startup(r) \/ Close(r)
  PROVE  Types'
<1>1. CASE Watch
  BY <1>1 DEF Types, Watch, FilesTypeOK, PoolTypeOK, RoundTypeOK, LuaTypeOK, Control,
              Registered, round, lua
<1>2. ASSUME NEW r \in Runtimes, Startup(r) \/ Close(r) PROVE Types'
  <2>1. /\ phase \in [Runtimes -> {"none", "new", "up", "down"}]
        /\ phase[r] # "none"
        /\ phase' = [phase EXCEPT ![r] = "up"] \/ phase' = [phase EXCEPT ![r] = "down"]
    BY <1>2 DEF Types, PoolTypeOK, Startup, Close
  <2>2. /\ phase' \in [Runtimes -> {"none", "new", "up", "down"}]
        /\ \A q \in Runtimes : phase'[q] = "none" => phase[q] = "none"
    BY <2>1
  <2>3. UNCHANGED <<disk, fsEvents, modules, runtimes, watcher, round, resultCh, lua, missed>>
    BY <1>2 DEF Startup, Close
  <2> QED BY <2>2, <2>3 DEF Types, FilesTypeOK, PoolTypeOK, RoundTypeOK, LuaTypeOK,
                            Control, Registered, round, lua
<1> QED BY <1>1, <1>2

\* A version that runs.
LEMMA TypeRan ==
  ASSUME LuaTypeOK, NEW r \in Runtimes, NEW f \in Files, NEW v \in Versions, Ran(r, f, v)
  PROVE  /\ exec' \in [Runtimes -> [Files -> 0..MaxVersion]]
         /\ tried' \in [Files -> SUBSET Versions]
         /\ exec'[r][f] = v
         /\ \A q \in Runtimes, g \in Files :
              q # r \/ g # f => exec'[q][g] = exec[q][g]
         /\ v \in tried'[f]
         /\ \A g \in Files : tried[g] \subseteq tried'[g]
<1>1. v \in 0..MaxVersion
  BY ReloadParameters DEF Versions
<1>2. /\ exec \in [Runtimes -> [Files -> 0..MaxVersion]]
      /\ tried \in [Files -> SUBSET Versions]
      /\ exec' = [exec EXCEPT ![r] = [exec[r] EXCEPT ![f] = v]]
      /\ tried' = [tried EXCEPT ![f] = @ \cup {v}]
  BY DEF LuaTypeOK, Ran
<1> QED BY <1>1, <1>2

\* The version that require runs.
RequiredVersion(r, f) == IF preload[r][f] # 0 THEN preload[r][f] ELSE modules[f].version

LEMMA RequireEffect ==
  ASSUME Types, NEW r \in Runtimes, NEW f \in Files, Require(r, f)
  PROVE  /\ RequiredVersion(r, f) \in Versions
         /\ Ran(r, f, RequiredVersion(r, f)) \/ UNCHANGED <<exec, tried>>
         /\ f \notin loaded[r]
         /\ loaded' = [loaded EXCEPT ![r] = @ \cup {f}]
         /\ UNCHANGED <<disk, fsEvents, modules, runtimes, phase, watcher, round, resultCh,
                        preload, missed>>
<1>1. preload[r][f] \in 0..MaxVersion /\ modules[f].version \in 0..MaxVersion
  BY DEF Types, FilesTypeOK, LuaTypeOK
<1>2. RequiredVersion(r, f) # 0
  BY DEF Require, RequiredVersion
<1>3. RequiredVersion(r, f) \in Versions
  BY <1>1, <1>2, ReloadParameters DEF RequiredVersion, Versions
<1> QED BY <1>3 DEF Require, RequiredVersion

LEMMA TypeRequire ==
  ASSUME Types, NEW r \in Runtimes, NEW f \in Files, Require(r, f)
  PROVE  Types'
<1>1. /\ exec' \in [Runtimes -> [Files -> 0..MaxVersion]]
      /\ tried' \in [Files -> SUBSET Versions]
  BY RequireEffect, TypeRan DEF Types, LuaTypeOK
<1>2. loaded' \in [Runtimes -> SUBSET Files]
  <2>1. loaded \in [Runtimes -> SUBSET Files] /\ loaded' = [loaded EXCEPT ![r] = @ \cup {f}]
    BY RequireEffect DEF Types, LuaTypeOK
  <2> QED BY <2>1
<1>3. LuaTypeOK'
  BY <1>1, <1>2, RequireEffect DEF Types, LuaTypeOK
<1> QED BY <1>3, RequireEffect DEF Types, FilesTypeOK, PoolTypeOK, RoundTypeOK, Control,
                                   Registered, round

\* The event in the runtime.
LEMMA HotfixEffect ==
  ASSUME Types, Hotfix
  PROVE  /\ event = "hotfix" /\ watcher = "wait" /\ resultCh = None
         /\ target \in Runtimes /\ m \in Caches /\ m.file \in Files
         /\ \/ /\ resultCh' = "ok"
               /\ m' \in Caches /\ m'.file = m.file /\ m'.version = disk[m.file]
               /\ m'.version \in Versions
               /\ Ran(target, m.file, m'.version)
            \/ /\ resultCh' = "error"
               /\ UNCHANGED <<m, exec, tried>>
         /\ event' = None
         /\ UNCHANGED <<disk, fsEvents, modules, runtimes, phase, watcher, completes, target,
                        preload, loaded, missed, pool, reached>>
<1>1. event = "hotfix" /\ event # None
  BY NoneDiffers DEF Hotfix
<1>2. /\ watcher = "wait" /\ resultCh = None
      /\ target \in Runtimes /\ m \in Caches /\ m.file \in Files
  BY <1>1, EventInRound
<1>3. disk[m.file] \in Versions
  BY <1>2 DEF Types, FilesTypeOK
<1> DEFINE n == [m EXCEPT !.version = disk[m.file]]
<1>4. n \in Caches /\ n.file = m.file /\ n.version = disk[m.file]
  BY <1>2, <1>3 DEF Caches
<1> HIDE DEF n
<1>5. \/ m' = n /\ Ran(target, m.file, disk[m.file]) /\ Answer("ok")
      \/ UNCHANGED <<m, exec, tried>> /\ Answer("error")
  BY DEF Hotfix, n
<1>6. UNCHANGED preload
  BY DEF Hotfix
<1> QED BY <1>1, <1>2, <1>3, <1>4, <1>5, <1>6 DEF Answer

LEMMA TypeHotfix ==
  ASSUME Types, Hotfix
  PROVE  Types'
<1>1. LuaTypeOK'
  <2>1. CASE UNCHANGED <<exec, tried>>
    BY <2>1, HotfixEffect DEF Types, LuaTypeOK
  <2>2. CASE Ran(target, m.file, m'.version) /\ m'.version \in Versions
    <3>1. target \in Runtimes /\ m.file \in Files /\ LuaTypeOK
      BY HotfixEffect DEF Types
    <3>2. /\ exec' \in [Runtimes -> [Files -> 0..MaxVersion]]
          /\ tried' \in [Files -> SUBSET Versions]
      BY <2>2, <3>1, TypeRan
    <3> QED BY <3>2, HotfixEffect DEF Types, LuaTypeOK
  <2> QED BY <2>1, <2>2, HotfixEffect
<1>2. RoundTypeOK' /\ Control'
  BY HotfixEffect, NoneDiffers DEF Types, RoundTypeOK, Control
<1> QED BY <1>1, <1>2, HotfixEffect DEF Types, FilesTypeOK, PoolTypeOK, Registered

LEMMA PatchEffect ==
  ASSUME Types, Patch
  PROVE  /\ event = "patch" /\ watcher = "wait" /\ resultCh = None
         /\ target \in Runtimes /\ m \in Caches /\ m.file \in Files
         /\ m.version \in Versions
         /\ preload' \in [Runtimes -> [Files -> 0..MaxVersion]]
         /\ preload'[target][m.file] = m.version
         /\ \A r \in Runtimes, f \in Files :
              r # target \/ f # m.file => preload'[r][f] = preload[r][f]
         /\ \/ Ran(target, m.file, m.version)
            \/ UNCHANGED <<exec, tried>>
         /\ resultCh' \in {"ok", "error"}
         /\ event' = None
         /\ UNCHANGED <<disk, fsEvents, modules, runtimes, phase, watcher, completes, target,
                        m, loaded, missed, pool, reached>>
<1>1. event = "patch" /\ event # None
  BY NoneDiffers DEF Patch
<1>2. /\ watcher = "wait" /\ resultCh = None
      /\ target \in Runtimes /\ m \in Caches /\ m.file \in Files /\ m.version \in Versions
  BY <1>1, EventInRound
<1>3. /\ preload' \in [Runtimes -> [Files -> 0..MaxVersion]]
      /\ preload'[target][m.file] = m.version
      /\ \A r \in Runtimes, f \in Files :
           r # target \/ f # m.file => preload'[r][f] = preload[r][f]
  <2>1. preload \in [Runtimes -> [Files -> 0..MaxVersion]] /\ m.version \in 0..MaxVersion
    BY <1>2, ReloadParameters DEF Types, LuaTypeOK, Versions
  <2>2. preload' = [preload EXCEPT ![target] = [preload[target] EXCEPT ![m.file] = m.version]]
    BY DEF Patch
  <2> QED BY <1>2, <2>1, <2>2
<1>4. \/ Ran(target, m.file, m.version) /\ Answer("ok")
      \/ UNCHANGED <<exec, tried>> /\ Answer("error")
      \/ UNCHANGED <<exec, tried>> /\ Answer("ok")
  BY DEF Patch
<1>5. UNCHANGED m
  BY DEF Patch
<1> QED BY <1>1, <1>2, <1>3, <1>4, <1>5 DEF Answer

LEMMA TypePatch ==
  ASSUME Types, Patch
  PROVE  Types'
<1>1. preload' \in [Runtimes -> [Files -> 0..MaxVersion]]
  BY PatchEffect
<1>2. LuaTypeOK'
  <2>1. CASE UNCHANGED <<exec, tried>>
    BY <1>1, <2>1, PatchEffect DEF Types, LuaTypeOK
  <2>2. CASE Ran(target, m.file, m.version)
    <3>1. target \in Runtimes /\ m.file \in Files /\ m.version \in Versions /\ LuaTypeOK
      BY PatchEffect DEF Types
    <3>2. /\ exec' \in [Runtimes -> [Files -> 0..MaxVersion]]
          /\ tried' \in [Files -> SUBSET Versions]
      BY <2>2, <3>1, TypeRan
    <3> QED BY <1>1, <3>2, PatchEffect DEF Types, LuaTypeOK
  <2> QED BY <2>1, <2>2, PatchEffect
<1>3. RoundTypeOK' /\ Control'
  BY PatchEffect, NoneDiffers DEF Types, RoundTypeOK, Control
<1> QED BY <1>2, <1>3, PatchEffect DEF Types, FilesTypeOK, PoolTypeOK, Registered

\* The watcher begins a round.
LEMMA TypeTakeEvent ==
  ASSUME Types, TakeEvent
  PROVE  Types'
<1> DEFINE Reports == [op : Ops, file : Files, version : Versions]
<1>1. /\ fsEvents \in Seq(Reports) /\ fsEvents # << >> /\ fsEvents' = Tail(fsEvents)
      /\ watcher = "idle"
  BY DEF Types, FilesTypeOK, TakeEvent
<1>2. Head(fsEvents) \in Reports /\ fsEvents' \in Seq(Reports)
  <2> HIDE DEF Reports
  <2> QED BY <1>1, TailElements
<1>3. PICK e \in Reports : e = Head(fsEvents)
  BY <1>2
<1>4. Read(e.file) \in Caches
  BY <1>3 DEF Types, FilesTypeOK, Read, Caches
<1>5. /\ \/ UNCHANGED <<watcher, m, pool>> /\ missed' \in {missed, TRUE}
         \/ /\ watcher' = "pool" /\ m' = Read(e.file)
            /\ pool' = Range(runtimes) /\ missed' = missed
      /\ UNCHANGED <<disk, modules, runtimes, phase, completes, target, event, reached,
                     resultCh, lua>>
  BY <1>3 DEF TakeEvent
<1>6. FilesTypeOK'
  BY <1>2, <1>5 DEF Types, FilesTypeOK
<1>7. Range(runtimes) \subseteq Runtimes
  BY RangeOfSeq DEF Types, PoolTypeOK, Range
<1> HIDE DEF Reports
<1>8. RoundTypeOK' /\ Control'
  BY <1>1, <1>4, <1>5, <1>7, NoneDiffers DEF Types, RoundTypeOK, Control
<1>9. PoolTypeOK' /\ LuaTypeOK'
  BY <1>5 DEF Types, PoolTypeOK, LuaTypeOK, lua
<1>10. Registered'
  BY <1>1, <1>5 DEF Types, Registered
<1> QED BY <1>6, <1>8, <1>9, <1>10 DEF Types

\* The pool loses its first runtime to the watcher, and gets it back.
LEMMA TypeTakeNext ==
  ASSUME Types, TakeNext
  PROVE  Types'
<1>1. /\ runtimes \in Seq(Runtimes) /\ IsInjective(runtimes) /\ runtimes # << >>
      /\ Len(runtimes) <= PoolSize
      /\ target' = Head(runtimes) /\ runtimes' = Tail(runtimes)
      /\ watcher = "pool" /\ watcher' = "rotate"
      /\ UNCHANGED <<disk, fsEvents, modules, phase, m, completes, event, pool, reached,
                     resultCh, lua, missed>>
  BY DEF Types, PoolTypeOK, TakeNext
<1>2. /\ target' \in Runtimes /\ runtimes' \in Seq(Runtimes) /\ IsInjective(runtimes')
      /\ Len(runtimes') = Len(runtimes) - 1
      /\ Range(runtimes) = {target'} \cup Range(runtimes')
      /\ target' \notin Range(runtimes')
  BY <1>1, TailElements
<1>3. Len(runtimes') <= PoolSize
  BY <1>1, <1>2, LenProperties, ReloadParameters
<1>4. PoolTypeOK'
  BY <1>1, <1>2, <1>3 DEF Types, PoolTypeOK
<1>5. RoundTypeOK' /\ Control'
  BY <1>1, <1>2, NoneDiffers DEF Types, RoundTypeOK, Control
<1>6. Registered'
  <2>1. \A r \in Runtimes : phase'[r] = "none" => r \notin {target'} \cup Range(runtimes')
    BY <1>1, <1>2 DEF Types, Registered
  <2> QED BY <1>2, <2>1 DEF Registered
<1> QED BY <1>1, <1>4, <1>5, <1>6 DEF Types, FilesTypeOK, LuaTypeOK, lua

LEMMA TypeSendToNext ==
  ASSUME Types, SendToNext
  PROVE  Types'
<1>1. /\ runtimes \in Seq(Runtimes) /\ IsInjective(runtimes)
      /\ Len(runtimes) < PoolSize
      /\ target \in Runtimes /\ target \notin Range(runtimes)
      /\ runtimes' = Append(runtimes, target)
      /\ watcher = "rotate" /\ watcher' = "wait"
      /\ event' = IF completes = 0 THEN "hotfix" ELSE "patch"
      /\ completes \in Nat
      /\ reached' = reached \cup {target}
      /\ UNCHANGED <<disk, fsEvents, modules, phase, m, completes, target, pool,
                     resultCh, lua, missed>>
  BY DEF Types, PoolTypeOK, RoundTypeOK, Control, Registered, SendToNext
<1>2. /\ runtimes' \in Seq(Runtimes) /\ IsInjective(runtimes')
      /\ Len(runtimes') = Len(runtimes) + 1
      /\ Range(runtimes') = Range(runtimes) \cup {target}
  BY <1>1, AppendElements
<1>3. Len(runtimes') <= PoolSize
  BY <1>1, <1>2, LenProperties, ReloadParameters
<1>4. PoolTypeOK'
  BY <1>1, <1>2, <1>3 DEF Types, PoolTypeOK
<1>5. RoundTypeOK' /\ Control'
  <2>1. event' \in {"hotfix", "patch"} /\ (event' = "patch" => completes > 0)
    BY <1>1
  <2> QED BY <1>1, <2>1, NoneDiffers DEF Types, RoundTypeOK, Control
<1>6. Registered'
  BY <1>1, <1>2 DEF Types, Registered
<1> QED BY <1>1, <1>4, <1>5, <1>6 DEF Types, FilesTypeOK, LuaTypeOK, lua

\* A result ends the round, with or without the version in the cache, or the
\* watcher goes on with the next runtime.
LEMMA ResultEffect ==
  ASSUME Types, TakeResult
  PROVE  /\ watcher = "wait" /\ resultCh \in {"ok", "error"}
         /\ m \in Caches /\ m.file \in Files /\ m.version \in Versions
         /\ resultCh' = None /\ event = None /\ event' = None
         /\ \/ resultCh = "error" /\ EndRound /\ UNCHANGED modules
            \/ resultCh = "ok" /\ completes + 1 >= Len(runtimes) /\ Add /\ EndRound
            \/ /\ resultCh = "ok" /\ completes + 1 < Len(runtimes)
               /\ completes' = completes + 1
               /\ watcher' = "pool"
               /\ UNCHANGED <<modules, m, target, event, pool, reached>>
         /\ UNCHANGED <<disk, fsEvents, runtimes, phase, lua, missed>>
<1>1. /\ watcher = "wait" /\ resultCh \in {"ok", "error"} /\ resultCh' = None
      /\ m \in Caches /\ event = None
  BY NoneDiffers DEF Types, Control, RoundTypeOK, TakeResult
<1>2. m.file \in Files /\ m.version \in Versions
  BY <1>1 DEF Caches
<1>3. completes \in Int /\ Len(runtimes) \in Int
  BY ReloadParameters, LenProperties DEF Types, RoundTypeOK, PoolTypeOK
<1>4. Discards(resultCh) <=> resultCh = "error"
  BY DEF Discards
<1>5. ReachedAll(completes + 1) <=> ~(completes + 1 < Len(runtimes))
  BY <1>3 DEF ReachedAll
<1>6. completes + 1 >= Len(runtimes) <=> ~(completes + 1 < Len(runtimes))
  BY <1>3
<1>7. UNCHANGED <<disk, fsEvents, runtimes, phase, lua, missed>>
  BY DEF TakeResult
<1>8. \/ resultCh = "error" /\ EndRound /\ UNCHANGED modules
      \/ resultCh = "ok" /\ completes + 1 >= Len(runtimes) /\ Add /\ EndRound
      \/ /\ resultCh = "ok" /\ completes + 1 < Len(runtimes)
         /\ completes' = completes + 1
         /\ watcher' = "pool"
         /\ UNCHANGED <<modules, m, target, event, pool, reached>>
  BY <1>1, <1>4, <1>5, <1>6 DEF TakeResult
<1>9. event' = event
  BY <1>8 DEF EndRound
<1> QED BY <1>1, <1>2, <1>7, <1>8, <1>9

\* What Add leaves in the cache.
LEMMA AddEffect ==
  ASSUME FilesTypeOK, m \in Caches, Add
  PROVE  /\ modules' \in [Files -> [version : 0..MaxVersion, disabled : BOOLEAN]]
         /\ modules'[m.file].version = m.version
         /\ \A f \in Files \ {m.file} : modules'[f] = modules[f]
<1> DEFINE old == modules[m.file]
           new == [version |-> m.version,
                   disabled |-> IF Cached(m.file) THEN old.disabled ELSE m.disabled]
<1>1. /\ modules \in [Files -> [version : 0..MaxVersion, disabled : BOOLEAN]]
      /\ m.file \in Files /\ m.version \in Versions /\ m.disabled \in BOOLEAN
  BY DEF FilesTypeOK, Caches
<1>2. m.version \in 0..MaxVersion /\ old.disabled \in BOOLEAN
  BY <1>1, ReloadParameters DEF Versions
<1>3. new \in [version : 0..MaxVersion, disabled : BOOLEAN] /\ new.version = m.version
  BY <1>1, <1>2
<1>4. modules' = [modules EXCEPT ![m.file] = new]
  BY DEF Add
<1> HIDE DEF new, old
<1> QED BY <1>1, <1>3, <1>4

LEMMA TypeTakeResult ==
  ASSUME Types, TakeResult
  PROVE  Types'
<1>1. FilesTypeOK'
  <2>1. modules' \in [Files -> [version : 0..MaxVersion, disabled : BOOLEAN]]
    <3>1. modules' = modules \/ Add
      BY ResultEffect
    <3>2. FilesTypeOK /\ m \in Caches
      BY ResultEffect DEF Types
    <3> QED BY <3>1, <3>2, AddEffect DEF FilesTypeOK
  <2> QED BY <2>1, ResultEffect DEF Types, FilesTypeOK
<1>2. PoolTypeOK' /\ LuaTypeOK'
  BY ResultEffect DEF Types, PoolTypeOK, LuaTypeOK, lua
<1>3. CASE EndRound
  <2>1. RoundTypeOK' /\ Control'
    BY <1>3, ResultEffect, ReloadParameters DEF Types, RoundTypeOK, Control, EndRound
  <2>2. Registered'
    <3>1. runtimes' = runtimes /\ phase' = phase /\ watcher' = "idle" /\ target' = None
      BY <1>3, ResultEffect DEF EndRound
    <3> QED BY <3>1, NoneDiffers DEF Types, Registered
  <2> QED BY <1>1, <1>2, <2>1, <2>2 DEF Types
<1>4. CASE /\ completes + 1 < Len(runtimes)
           /\ completes' = completes + 1
           /\ watcher' = "pool"
           /\ UNCHANGED <<m, target, event, pool, reached>>
  <2>1. completes' \in 0..(PoolSize - 1)
    <3>1. completes \in 0..(PoolSize - 1) /\ Len(runtimes) \in Nat /\ Len(runtimes) <= PoolSize
      BY LenProperties DEF Types, RoundTypeOK, PoolTypeOK
    <3> QED BY <1>4, <3>1, ReloadParameters
  <2>2. RoundTypeOK' /\ Control'
    BY <1>4, <2>1, ResultEffect DEF Types, RoundTypeOK, Control
  <2>3. Registered'
    BY <1>4, ResultEffect DEF Types, Registered
  <2> QED BY <1>1, <1>2, <2>2, <2>3 DEF Types
<1> QED BY <1>3, <1>4, ResultEffect

LEMMA TypeStep == Types /\ [Next]_vars => Types'
<1> SUFFICES ASSUME Types, [Next]_vars PROVE Types'
  OBVIOUS
<1>1. CASE \E f \in Files, op \in Ops : Edit(f, op)
  BY <1>1, TypeEdit
<1>2. CASE \E r \in Runtimes : Register(r)
  BY <1>2, TypeRegister
<1>3. CASE Watch \/ \E r \in Runtimes : Startup(r) \/ Close(r)
  BY <1>3, TypeRuntime
<1>4. CASE \E r \in Runtimes, f \in Files : Require(r, f)
  BY <1>4, TypeRequire
<1>5. CASE Scan
  BY <1>5, TypeScan
<1>6. CASE Hotfix \/ Patch
  BY <1>6, TypeHotfix, TypePatch
<1>7. CASE TakeEvent \/ TakeNext
  BY <1>7, TypeTakeEvent, TypeTakeNext
<1>8. CASE SendToNext \/ TakeResult
  BY <1>8, TypeSendToNext, TypeTakeResult
<1>9. CASE UNCHANGED vars
  BY <1>9 DEF vars, Types, FilesTypeOK, PoolTypeOK, RoundTypeOK, LuaTypeOK, Control,
              Registered, round, lua
<1> QED BY <1>1, <1>2, <1>3, <1>4, <1>5, <1>6, <1>7, <1>8, <1>9 DEF Next

\* The variables keep their types; every event has an answer before the next
\* one, and a runtime is in the pool at most once, so that the length of the
\* channel is a number of runtimes (runtime.go: NewRuntime, scripts.go:
\* OpenPackage).
THEOREM TypeCorrect == Spec => [](TypeOK /\ Control /\ Registered)
<1>1. Types => TypeOK /\ Control /\ Registered
  BY TypeParts DEF Types
<1> QED BY <1>1, InitType, TypeStep, PTL DEF Spec

-----------------------------------------------------------------------------
(* Versions that have run.                                                 *)

\* Once the first runtime of a round has answered, its version has run.
TriedInHand ==
  (resultCh = "ok" \/ completes > 0) /\ m # None => m.version \in tried[m.file]

TriedInv == Types /\ OnlyTriedVersionsSpread /\ TriedInHand

LEMMA TriedStep == TriedInv /\ [Next]_vars => TriedInv'
<1> SUFFICES ASSUME TriedInv, [Next]_vars
             PROVE  OnlyTriedVersionsSpread' /\ TriedInHand'
  BY TypeStep DEF TriedInv
<1> USE DEF TriedInv
\* Steps that leave the watcher, the round and the preload functions alone.
<1>1. ASSUME UNCHANGED <<round, preload, resultCh>>,
             \A f \in Files : tried[f] \subseteq tried'[f]
      PROVE  OnlyTriedVersionsSpread' /\ TriedInHand'
  <2>1. OnlyTriedVersionsSpread'
    BY <1>1 DEF OnlyTriedVersionsSpread
  <2>2. m # None => m.file \in Files
    BY DEF Types, RoundTypeOK, Caches
  <2> QED BY <1>1, <2>1, <2>2 DEF TriedInHand, round
<1>2. ASSUME NEW r \in Runtimes, NEW f \in Files, Require(r, f)
      PROVE  OnlyTriedVersionsSpread' /\ TriedInHand'
  <2>1. \A g \in Files : tried[g] \subseteq tried'[g]
    BY <1>2, RequireEffect, TypeRan DEF Types
  <2> QED BY <1>1, <1>2, <2>1, RequireEffect
<1>3. CASE \/ \E f \in Files, op \in Ops : Edit(f, op)
           \/ \E r \in Runtimes : Register(r) \/ Startup(r) \/ Close(r)
           \/ Scan \/ Watch
           \/ UNCHANGED vars
  BY <1>1, <1>3 DEF Edit, Register, Startup, Close, Scan, Watch, vars, lua
<1>4. CASE Hotfix
  <2>1. \A g \in Files : tried[g] \subseteq tried'[g]
    BY <1>4, HotfixEffect, TypeRan DEF Types
  <2>2. OnlyTriedVersionsSpread'
    BY <1>4, <2>1, HotfixEffect DEF OnlyTriedVersionsSpread
  <2>3. CASE resultCh' = "error" /\ UNCHANGED <<m, exec, tried>>
    BY <1>4, <2>2, <2>3, HotfixEffect, NoneDiffers DEF TriedInHand
  <2>4. CASE /\ m'.file = m.file /\ m'.version \in Versions
             /\ Ran(target, m.file, m'.version)
    <3>1. m'.version \in tried'[m'.file]
      <4>1. LuaTypeOK /\ target \in Runtimes /\ m.file \in Files
        BY <1>4, HotfixEffect DEF Types
      <4> QED BY <2>4, <4>1, TypeRan
    <3> QED BY <1>4, <2>2, <3>1, HotfixEffect, NoneDiffers DEF TriedInHand
  <2> QED BY <1>4, <2>3, <2>4, HotfixEffect
<1>5. CASE Patch
  <2>1. \A g \in Files : tried[g] \subseteq tried'[g]
    BY <1>5, PatchEffect, TypeRan DEF Types
  <2>2. completes > 0 /\ m # None /\ m.version \in tried[m.file]
    BY <1>5, PatchEffect, NoneDiffers DEF Types, Control, TriedInHand
  <2>3. OnlyTriedVersionsSpread'
    <3> SUFFICES ASSUME NEW r \in Runtimes, NEW f \in Files, preload'[r][f] # 0
                 PROVE  preload'[r][f] \in tried'[f]
      BY DEF OnlyTriedVersionsSpread
    <3>1. CASE r = target /\ f = m.file
      BY <1>5, <2>1, <2>2, <3>1, PatchEffect
    <3>2. CASE r # target \/ f # m.file
      BY <1>5, <2>1, <3>2, PatchEffect DEF OnlyTriedVersionsSpread
    <3> QED BY <3>1, <3>2
  <2> QED BY <1>5, <2>1, <2>2, <2>3, PatchEffect, NoneDiffers DEF TriedInHand
<1>6. CASE TakeEvent
  <2>1. /\ watcher = "idle" /\ m = None
        /\ UNCHANGED <<completes, event, resultCh, preload, tried>>
    BY <1>6 DEF TakeEvent, Types, Control, lua
  <2>2. completes = 0 /\ resultCh = None /\ event = None
    BY <2>1 DEF Types, Control
  <2> QED BY <2>1, <2>2, NoneDiffers DEF OnlyTriedVersionsSpread, TriedInHand
<1>7. CASE TakeNext
  BY <1>7 DEF TakeNext, OnlyTriedVersionsSpread, TriedInHand, lua
<1>8. CASE SendToNext
  <2>1. UNCHANGED <<completes, m, resultCh, preload, tried>>
    BY <1>8 DEF SendToNext, lua
  <2> QED BY <2>1 DEF OnlyTriedVersionsSpread, TriedInHand
<1>9. CASE TakeResult
  <2>1. /\ UNCHANGED <<preload, tried>> /\ event' = None /\ resultCh' = None
        /\ \/ m' = None
           \/ resultCh = "ok" /\ m' = m
    BY <1>9, ResultEffect DEF EndRound, lua
  <2> QED BY <2>1, NoneDiffers DEF OnlyTriedVersionsSpread, TriedInHand
<1> QED BY <1>2, <1>3, <1>4, <1>5, <1>6, <1>7, <1>8, <1>9 DEF Next

\* What require gets from package.preload in any runtime ran without an error in
\* some runtime: the round ends when its first attempt fails (scripts.go:
\* OpenPackage, localFileCache.patch).
THEOREM TriedFirst == Spec => []OnlyTriedVersionsSpread
<1>1. Init => TriedInv
  <2> SUFFICES ASSUME Init PROVE TriedInv
    OBVIOUS
  <2>1. OnlyTriedVersionsSpread
    BY DEF Init, OnlyTriedVersionsSpread
  <2>2. TriedInHand
    BY NoneDiffers DEF Init, TriedInHand
  <2> QED BY <2>1, <2>2, InitType DEF TriedInv
<1>2. TriedInv => OnlyTriedVersionsSpread
  BY DEF TriedInv
<1> QED BY <1>1, <1>2, TriedStep, PTL DEF Spec

-----------------------------------------------------------------------------
(* Versions never go back.                                                 *)

\* No runtime and no cache is ahead of version v of file f.
Behind(f, v) == /\ modules[f].version <= v
                /\ \A r \in Runtimes : exec[r][f] <= v /\ preload[r][f] <= v

\* Nobody is ahead of the disk, and nobody is ahead of the version in the
\* watcher's hand once a runtime has run it.
NobodyAhead ==
  /\ \A f \in Files : Behind(f, disk[f])
  /\ m # None => m.version <= disk[m.file]
  /\ (resultCh = "ok" \/ completes > 0) /\ m # None => Behind(m.file, m.version)

AheadInv == Types /\ NobodyAhead

LEMMA AheadInit == Init => AheadInv
<1> SUFFICES ASSUME Init PROVE NobodyAhead
  BY InitType DEF AheadInv
<1>1. \A f \in Files : Behind(f, disk[f])
  BY DEF Init, Behind, NoModule
<1>2. m = None
  BY DEF Init
<1> QED BY <1>1, <1>2 DEF NobodyAhead

\* A version that runs and is not ahead leaves nobody ahead.
LEMMA BehindRan ==
  ASSUME Types, NEW r \in Runtimes, NEW f \in Files, NEW v \in Versions, Ran(r, f, v),
         UNCHANGED modules,
         \A q \in Runtimes, g \in Files : preload'[q][g] = preload[q][g],
         NEW g \in Files, NEW w \in Versions, Behind(g, w), g = f => v <= w
  PROVE  Behind(g, w)'
<1>1. /\ exec'[r][f] = v
      /\ \A q \in Runtimes : q # r \/ g # f => exec'[q][g] = exec[q][g]
  BY TypeRan DEF Types
<1>2. \A q \in Runtimes : exec'[q][g] <= w
  BY <1>1 DEF Behind
<1> QED BY <1>2 DEF Behind

LEMMA AheadEdit ==
  ASSUME AheadInv, NEW f \in Files, NEW op \in Ops, Edit(f, op)
  PROVE  NobodyAhead'
<1>1. /\ disk \in [Files -> Versions]
      /\ disk' = [disk EXCEPT ![f] = @ + 1]
      /\ UNCHANGED <<modules, m, completes, resultCh, preload, exec>>
  BY DEF AheadInv, Types, FilesTypeOK, Edit, round, lua
<1>2. \A g \in Files : disk[g] \in Nat /\ disk'[g] \in Nat /\ disk[g] <= disk'[g]
  BY <1>1, ReloadParameters DEF Versions
<1>3. \A g \in Files : Behind(g, disk[g])'
  <2> SUFFICES ASSUME NEW g \in Files PROVE Behind(g, disk[g])'
    OBVIOUS
  <2>1. Behind(g, disk[g])
    BY DEF AheadInv, NobodyAhead
  <2>2. /\ modules[g].version \in Int
        /\ \A r \in Runtimes : exec[r][g] \in Int /\ preload[r][g] \in Int
    BY ReloadParameters DEF AheadInv, Types, FilesTypeOK, LuaTypeOK
  <2> QED BY <1>1, <1>2, <2>1, <2>2 DEF Behind
<1>4. m # None => m.version <= disk'[m.file]
  <2> SUFFICES ASSUME m # None PROVE m.version <= disk'[m.file]
    OBVIOUS
  <2>1. m.file \in Files /\ m.version \in Int
    BY ReloadParameters DEF AheadInv, Types, RoundTypeOK, Caches, Versions
  <2>2. m.version <= disk[m.file]
    BY DEF AheadInv, NobodyAhead
  <2> QED BY <1>2, <2>1, <2>2
<1>5. ((resultCh = "ok" \/ completes > 0) /\ m # None => Behind(m.file, m.version))'
  BY <1>1 DEF AheadInv, NobodyAhead, Behind
<1> QED BY <1>1, <1>3, <1>4, <1>5 DEF NobodyAhead

LEMMA AheadRequire ==
  ASSUME AheadInv, NEW r \in Runtimes, NEW f \in Files, Require(r, f)
  PROVE  NobodyAhead'
<1> DEFINE v == RequiredVersion(r, f)
<1>1. /\ v \in Versions
      /\ Ran(r, f, v) \/ UNCHANGED <<exec, tried>>
      /\ UNCHANGED <<disk, modules, preload, m, completes, resultCh>>
  BY RequireEffect DEF AheadInv, round
<1>2. \A w : Behind(f, w) => v <= w
  BY DEF Behind, RequiredVersion
<1> HIDE DEF v
<1>3. \A g \in Files, w \in Versions : Behind(g, w) => Behind(g, w)'
  <2> SUFFICES ASSUME NEW g \in Files, NEW w \in Versions, Behind(g, w)
               PROVE  Behind(g, w)'
    OBVIOUS
  <2>1. CASE Ran(r, f, v)
    <3>1. Types /\ v \in Versions /\ UNCHANGED modules /\ UNCHANGED preload
      BY <1>1 DEF AheadInv
    <3>2. g = f => v <= w
      BY <1>2
    <3>3. \A q \in Runtimes, h \in Files : preload'[q][h] = preload[q][h]
      BY <3>1
    <3> QED BY <2>1, <3>1, <3>2, <3>3, BehindRan
  <2>2. CASE UNCHANGED <<exec, tried>>
    BY <1>1, <2>2 DEF Behind
  <2> QED BY <1>1, <2>1, <2>2
<1>4. \A g \in Files : Behind(g, disk[g])'
  <2>1. \A g \in Files : disk[g] \in Versions /\ Behind(g, disk[g])
    BY DEF AheadInv, Types, FilesTypeOK, NobodyAhead
  <2> QED BY <1>1, <1>3, <2>1 DEF Behind
<1>5. ((resultCh = "ok" \/ completes > 0) /\ m # None => Behind(m.file, m.version))'
  <2>1. m # None => m.file \in Files /\ m.version \in Versions
    BY DEF AheadInv, Types, RoundTypeOK, Caches
  <2>2. (resultCh = "ok" \/ completes > 0) /\ m # None => Behind(m.file, m.version)
    BY DEF AheadInv, NobodyAhead
  <2> QED BY <1>1, <1>3, <2>1, <2>2 DEF Behind
<1>6. m # None => m.version <= disk[m.file]
  BY DEF AheadInv, NobodyAhead
<1> QED BY <1>1, <1>4, <1>5, <1>6 DEF NobodyAhead

LEMMA AheadHotfix ==
  ASSUME AheadInv, Hotfix
  PROVE  NobodyAhead'
<1>0. PICK f \in Files : f = m.file
  BY HotfixEffect DEF AheadInv
<1>1. /\ target \in Runtimes /\ f \in Files
      /\ UNCHANGED <<disk, modules, preload, completes>>
  BY <1>0, HotfixEffect DEF AheadInv
<1>2. CASE resultCh' = "error" /\ UNCHANGED <<m, exec, tried>>
  BY <1>1, <1>2 DEF AheadInv, NobodyAhead, Behind
<1>3. CASE /\ m'.file = f /\ m'.version = disk[f] /\ m'.version \in Versions
           /\ Ran(target, f, m'.version)
  <2>1. PICK v \in Versions : v = disk[f] /\ v = m'.version /\ Ran(target, f, v)
    BY <1>3
  <2>2. \A g \in Files : Behind(g, disk[g]) /\ disk[g] \in Versions
    BY DEF AheadInv, NobodyAhead, Types, FilesTypeOK
  <2>3. \A g \in Files : Behind(g, disk[g])'
    <3> SUFFICES ASSUME NEW g \in Files PROVE Behind(g, disk[g])'
      OBVIOUS
    <3>1. PICK w \in Versions : w = disk[g] /\ Behind(g, w)
      BY <2>2
    <3>2. g = f => v <= w
      <4>1. v <= v /\ w <= w
        BY DEF Versions
      <4> QED BY <2>1, <3>1, <4>1
    <3>3. Types
      BY DEF AheadInv
    <3>4. Behind(g, w)'
      BY <1>1, <2>1, <3>1, <3>2, <3>3, BehindRan
    <3> QED BY <1>1, <3>1, <3>4 DEF Behind
  <2>4. Behind(f, v)'
    BY <1>1, <2>1, <2>3 DEF Behind
  <2>5. m'.version <= disk'[m'.file]
    <3>1. v <= v
      BY DEF Versions
    <3> QED BY <1>1, <1>3, <2>1, <3>1
  <2> QED BY <1>0, <1>1, <1>3, <2>1, <2>3, <2>4, <2>5 DEF NobodyAhead, Behind
<1> QED BY <1>0, <1>2, <1>3, HotfixEffect DEF AheadInv

LEMMA AheadPatch ==
  ASSUME AheadInv, Patch
  PROVE  NobodyAhead'
<1>1. PICK f \in Files, v \in Versions : f = m.file /\ v = m.version
  BY PatchEffect DEF AheadInv
<1>2. /\ target \in Runtimes /\ completes > 0 /\ m # None
      /\ UNCHANGED <<disk, modules, completes, m>>
      /\ \/ Ran(target, f, v)
         \/ UNCHANGED exec
      /\ preload'[target][f] = v
      /\ \A r \in Runtimes, g \in Files : r # target \/ g # f => preload'[r][g] = preload[r][g]
  BY <1>1, PatchEffect, NoneDiffers DEF AheadInv, Types, Control
<1>3. /\ Behind(f, v) /\ v <= disk[f]
      /\ \A g \in Files : Behind(g, disk[g])
  BY <1>1, <1>2 DEF AheadInv, NobodyAhead
<1>4. \A r \in Runtimes, g \in Files :
        exec'[r][g] = exec[r][g] \/ (g = f /\ exec'[r][g] = v)
  BY <1>2, TypeRan DEF AheadInv, Types
<1>5. \A r \in Runtimes, g \in Files :
        preload'[r][g] = preload[r][g] \/ (g = f /\ preload'[r][g] = v)
  BY <1>2
<1>6. v <= v
  BY DEF Versions
<1>7. \A g \in Files : Behind(g, disk[g])'
  BY <1>2, <1>3, <1>4, <1>5 DEF Behind
<1>8. Behind(f, v)'
  BY <1>2, <1>3, <1>4, <1>5, <1>6 DEF Behind
<1> QED BY <1>1, <1>2, <1>3, <1>7, <1>8 DEF NobodyAhead, Behind

LEMMA AheadWatcher ==
  ASSUME AheadInv, TakeEvent \/ TakeNext \/ SendToNext \/ TakeResult
  PROVE  NobodyAhead'
<1>1. CASE TakeEvent
  <2>1. /\ m = None /\ watcher = "idle"
        /\ UNCHANGED <<disk, modules, completes, resultCh, exec, preload>>
        /\ \A f \in Files : Behind(f, disk[f])
    BY <1>1 DEF TakeEvent, lua, AheadInv, Types, Control, NobodyAhead
  <2>2. completes = 0 /\ resultCh = None
    BY <2>1 DEF AheadInv, Types, Control
  <2>3. fsEvents \in Seq([op : Ops, file : Files, version : Versions]) /\ fsEvents # << >>
    BY <1>1 DEF TakeEvent, AheadInv, Types, FilesTypeOK
  <2>4. PICK e \in [op : Ops, file : Files, version : Versions] : e = Head(fsEvents)
    BY <2>3, HeadTailProperties
  <2>5. m' = None \/ m' = Read(e.file)
    BY <1>1, <2>1, <2>4 DEF TakeEvent
  <2>6. m' # None => m'.version <= disk[m'.file]
    <3>1. disk[e.file] \in Int
      BY <2>4 DEF AheadInv, Types, FilesTypeOK, Versions
    <3> QED BY <2>5, <3>1 DEF Read
  <2> QED BY <2>1, <2>2, <2>6, NoneDiffers DEF NobodyAhead, Behind
<1>2. CASE TakeNext \/ SendToNext
  BY <1>2 DEF TakeNext, SendToNext, lua, AheadInv, NobodyAhead, Behind
<1>3. CASE TakeResult
  <2>1. /\ UNCHANGED <<disk, exec, preload>> /\ resultCh' = None
        /\ m \in Caches /\ m.file \in Files /\ m # None
        /\ \A f \in Files : Behind(f, disk[f])
        /\ m.version <= disk[m.file]
    BY <1>3, ResultEffect, NoneDiffers DEF AheadInv, lua, NobodyAhead
  <2>2. CASE EndRound /\ UNCHANGED modules
    BY <2>1, <2>2 DEF EndRound, NobodyAhead, Behind
  <2>3. CASE EndRound /\ Add
    <3>1. /\ modules'[m.file].version = m.version
          /\ \A f \in Files \ {m.file} : modules'[f] = modules[f]
      BY <2>1, <2>3, AddEffect DEF AheadInv, Types
    <3>2. \A f \in Files : Behind(f, disk[f])'
      BY <2>1, <3>1 DEF Behind
    <3> QED BY <2>3, <3>2 DEF EndRound, NobodyAhead
  <2>4. CASE resultCh = "ok" /\ UNCHANGED <<modules, m>>
    <3>1. Behind(m.file, m.version)
      BY <2>1, <2>4 DEF AheadInv, NobodyAhead
    <3> QED BY <2>1, <2>4, <3>1 DEF NobodyAhead, Behind
  <2> QED BY <1>3, <2>2, <2>3, <2>4, ResultEffect DEF AheadInv
<1> QED BY <1>1, <1>2, <1>3

LEMMA AheadStep == AheadInv /\ [Next]_vars => AheadInv'
<1> SUFFICES ASSUME AheadInv, [Next]_vars PROVE NobodyAhead'
  BY TypeStep DEF AheadInv
<1>1. CASE \E f \in Files, op \in Ops : Edit(f, op)
  BY <1>1, AheadEdit
<1>2. CASE Watch \/ (\E r \in Runtimes : Register(r) \/ Startup(r) \/ Close(r)) \/ UNCHANGED vars
  BY <1>2 DEF Watch, Register, Startup, Close, vars, round, lua, AheadInv, NobodyAhead, Behind
<1>3. CASE \E r \in Runtimes, f \in Files : Require(r, f)
  BY <1>3, AheadRequire
<1>4. CASE Scan
  <2>1. /\ watcher = "off" /\ UNCHANGED <<disk, m, completes, resultCh, exec, preload>>
        /\ \A f \in Files : modules'[f] = NoModule \/ modules'[f].version = disk[f]
    BY <1>4 DEF Scan, round, lua
  <2>2. m = None
    BY <2>1 DEF AheadInv, Types, Control
  <2>3. \A f \in Files : modules'[f].version <= disk[f]
    <3>1. \A f \in Files : disk[f] \in Nat
      BY ReloadParameters DEF AheadInv, Types, FilesTypeOK, Versions
    <3> QED BY <2>1, <3>1 DEF NoModule
  <2> QED BY <2>1, <2>2, <2>3 DEF AheadInv, NobodyAhead, Behind
<1>5. CASE Hotfix \/ Patch
  BY <1>5, AheadHotfix, AheadPatch
<1>6. CASE TakeEvent \/ TakeNext \/ SendToNext \/ TakeResult
  BY <1>6, AheadWatcher
<1> QED BY <1>1, <1>2, <1>3, <1>4, <1>5, <1>6 DEF Next

\* A step that changes what a runtime ran last, of a file it has loaded, runs a
\* version that nobody is ahead of.
LEMMA LoadedGoesOn ==
  ASSUME AheadInv, [Next]_vars, NEW r \in Runtimes, NEW f \in loaded[r]
  PROVE  exec'[r][f] >= exec[r][f]
<1>1. f \in Files /\ exec[r][f] \in Int
  BY ReloadParameters DEF AheadInv, Types, LuaTypeOK
<1>2. CASE exec'[r][f] = exec[r][f]
  BY <1>1, <1>2
<1>3. ASSUME NEW q \in Runtimes, NEW g \in Files, Require(q, g)
      PROVE  exec'[r][f] = exec[r][f]
  <2>1. /\ g \notin loaded[q] /\ RequiredVersion(q, g) \in Versions
        /\ Ran(q, g, RequiredVersion(q, g)) \/ UNCHANGED exec
    BY <1>3, RequireEffect DEF AheadInv
  <2>2. q # r \/ g # f
    BY <2>1
  <2> QED BY <1>1, <2>1, <2>2, TypeRan DEF AheadInv, Types
<1>4. CASE Hotfix
  <2>1. exec'[r][f] = exec[r][f] \/ (f = m.file /\ exec'[r][f] = disk[f])
    <3>1. /\ target \in Runtimes /\ m.file \in Files /\ LuaTypeOK
          /\ \/ UNCHANGED exec
             \/ /\ m'.version = disk[m.file] /\ m'.version \in Versions
                /\ Ran(target, m.file, m'.version)
      BY <1>4, HotfixEffect DEF AheadInv, Types
    <3> QED BY <1>1, <3>1, TypeRan
  <2>2. exec[r][f] <= disk[f] /\ disk[f] \in Int
    BY <1>1 DEF AheadInv, NobodyAhead, Behind, Types, FilesTypeOK, Versions
  <2> QED BY <1>1, <2>1, <2>2
<1>5. CASE Patch
  <2>1. exec'[r][f] = exec[r][f] \/ (f = m.file /\ exec'[r][f] = m.version)
    <3>1. /\ target \in Runtimes /\ m.file \in Files /\ m.version \in Versions /\ LuaTypeOK
          /\ Ran(target, m.file, m.version) \/ UNCHANGED exec
      BY <1>5, PatchEffect DEF AheadInv, Types
    <3> QED BY <1>1, <3>1, TypeRan
  <2>2. Behind(m.file, m.version) /\ m.version \in Versions
    BY <1>5, PatchEffect, NoneDiffers DEF AheadInv, NobodyAhead, Types, Control
  <2>3. f = m.file => exec[r][f] <= m.version
    BY <2>2 DEF Behind
  <2> QED BY <1>1, <2>1, <2>2, <2>3 DEF Versions
<1>6. CASE \/ \E g \in Files, op \in Ops : Edit(g, op)
           \/ \E q \in Runtimes : Register(q) \/ Startup(q) \/ Close(q)
           \/ Scan \/ Watch \/ TakeEvent \/ TakeNext \/ SendToNext \/ TakeResult
           \/ UNCHANGED vars
  <2>1. UNCHANGED exec
    BY <1>6 DEF Edit, Register, Startup, Close, Scan, Watch, TakeEvent, TakeNext, SendToNext,
                TakeResult, vars, lua
  <2> QED BY <1>2, <2>1
<1> QED BY <1>2, <1>3, <1>4, <1>5, <1>6 DEF Next

\* Loaded code never goes back to an older version: not by a hotfix, which reads
\* the disk again, and not by a patch, which carries what the first runtime of
\* the round read (scripts.go: localFileCache.hotfix, patch).
THEOREM OnlyForward == Spec => NeverGoesBack
<1>1. AheadInv /\ [Next]_vars =>
        [\A r \in Runtimes : \A f \in loaded[r] : exec'[r][f] >= exec[r][f]]_vars
  BY LoadedGoesOn
<1> QED BY <1>1, AheadInit, AheadStep, PTL DEF Spec, NeverGoesBack

-----------------------------------------------------------------------------
(* The round of the pool.                                                  *)

\* Runtimes of the pool that were sent their event in this round.
Sent == IF watcher = "wait" THEN completes + 1 ELSE completes

\* The runtimes still to come have not left the pool, and they are before the
\* ones that were put back: new ones join at the end.
Rotation ==
  watcher \in {"pool", "rotate", "wait"} =>
    /\ \A r \in pool \ reached : r \in Range(runtimes) \/ (watcher = "rotate" /\ r = target)
    /\ \A i \in 1..Len(runtimes) :
         runtimes[i] \in pool \ reached => i <= Len(runtimes) - Sent

RotationInv == Types /\ Rotation

LEMMA RotationRegister ==
  ASSUME RotationInv, NEW r \in Runtimes, Register(r)
  PROVE  Rotation'
<1>1. /\ runtimes \in Seq(Runtimes) /\ runtimes' = Append(runtimes, r)
      /\ r \notin Range(runtimes) /\ r # target
      /\ UNCHANGED <<watcher, pool, reached, completes, target>>
  BY DEF RotationInv, Types, PoolTypeOK, Registered, Register, round
<1>2. SUFFICES ASSUME watcher \in {"pool", "rotate", "wait"}
               PROVE  /\ \A q \in pool \ reached :
                           q \in Range(runtimes') \/ (watcher = "rotate" /\ q = target)
                      /\ \A i \in 1..Len(runtimes') :
                           runtimes'[i] \in pool \ reached => i <= Len(runtimes') - Sent
  BY <1>1 DEF Rotation, Sent
<1>3. /\ Len(runtimes') = Len(runtimes) + 1 /\ Len(runtimes) \in Nat
      /\ Range(runtimes') = Range(runtimes) \cup {r}
      /\ \A i \in 1..Len(runtimes) : runtimes'[i] = runtimes[i]
      /\ runtimes'[Len(runtimes) + 1] = r
  BY <1>1, AppendElements, AppendProperties, LenProperties
<1>4. r \notin pool \ reached
  BY <1>1, <1>2 DEF RotationInv, Rotation
<1>5. /\ \A q \in pool \ reached : q \in Range(runtimes) \/ (watcher = "rotate" /\ q = target)
      /\ \A i \in 1..Len(runtimes) :
           runtimes[i] \in pool \ reached => i <= Len(runtimes) - Sent
  BY <1>2 DEF RotationInv, Rotation
<1>6. Sent \in Int
  BY DEF Sent, RotationInv, Types, RoundTypeOK
<1>7. ASSUME NEW i \in 1..Len(runtimes'), runtimes'[i] \in pool \ reached
      PROVE  i <= Len(runtimes') - Sent
  <2>1. i \in 1..Len(runtimes) /\ runtimes[i] \in pool \ reached
    BY <1>3, <1>4, <1>7
  <2>2. i <= Len(runtimes) - Sent
    BY <1>5, <2>1
  <2> QED BY <1>3, <1>6, <2>1, <2>2
<1> QED BY <1>3, <1>5, <1>7

LEMMA RotationTakeEvent ==
  ASSUME RotationInv, TakeEvent
  PROVE  Rotation'
<1>1. /\ watcher = "idle" /\ m = None /\ UNCHANGED <<runtimes, completes>>
      /\ watcher' = "idle" \/ (watcher' = "pool" /\ pool' = Range(runtimes))
  BY DEF TakeEvent, RotationInv, Types, Control
<1>2. completes = 0
  BY <1>1 DEF RotationInv, Types, Control
<1>3. Len(runtimes) \in Nat
  BY LenProperties DEF RotationInv, Types, PoolTypeOK
<1>4. Sent' = 0
  BY <1>1, <1>2 DEF Sent
<1> QED BY <1>1, <1>3, <1>4 DEF Rotation

LEMMA RotationTakeNext ==
  ASSUME RotationInv, TakeNext
  PROVE  Rotation'
<1>1. /\ runtimes \in Seq(Runtimes) /\ runtimes # << >>
      /\ target' = Head(runtimes) /\ runtimes' = Tail(runtimes)
      /\ watcher = "pool" /\ watcher' = "rotate"
      /\ UNCHANGED <<pool, reached, completes>>
      /\ completes \in Nat
  BY DEF RotationInv, Types, PoolTypeOK, RoundTypeOK, TakeNext
<1>2. /\ Range(runtimes) = {target'} \cup Range(runtimes')
      /\ Len(runtimes') = Len(runtimes) - 1 /\ Len(runtimes) \in Nat
  BY <1>1, TailElements, LenProperties
<1>3. \A i \in 1..Len(runtimes') : runtimes'[i] = runtimes[i + 1] /\ i + 1 \in 1..Len(runtimes)
  BY <1>1, <1>2, HeadTailProperties, LenProperties
<1>4. /\ \A r \in pool \ reached : r \in Range(runtimes)
      /\ \A i \in 1..Len(runtimes) :
           runtimes[i] \in pool \ reached => i <= Len(runtimes) - completes
  BY <1>1 DEF RotationInv, Rotation, Sent
<1>5. ASSUME NEW i \in 1..Len(runtimes'), runtimes'[i] \in pool \ reached
      PROVE  i <= Len(runtimes') - completes
  <2>1. i + 1 <= Len(runtimes) - completes
    BY <1>3, <1>4, <1>5
  <2> QED BY <1>1, <1>2, <2>1
<1>6. Sent' = completes
  BY <1>1 DEF Sent
<1>7. \A r \in pool \ reached : r \in Range(runtimes') \/ r = target'
  BY <1>2, <1>4
<1> QED BY <1>1, <1>5, <1>6, <1>7 DEF Rotation

LEMMA RotationSendToNext ==
  ASSUME RotationInv, SendToNext
  PROVE  Rotation'
<1>1. /\ runtimes \in Seq(Runtimes) /\ target \in Runtimes
      /\ runtimes' = Append(runtimes, target)
      /\ watcher = "rotate" /\ watcher' = "wait"
      /\ reached' = reached \cup {target}
      /\ UNCHANGED <<pool, completes, target>>
      /\ completes \in Nat
  BY DEF RotationInv, Types, PoolTypeOK, RoundTypeOK, Control, SendToNext
<1>2. /\ Range(runtimes') = Range(runtimes) \cup {target}
      /\ Len(runtimes') = Len(runtimes) + 1 /\ Len(runtimes) \in Nat
      /\ \A i \in 1..Len(runtimes) : runtimes'[i] = runtimes[i]
      /\ runtimes'[Len(runtimes) + 1] = target
  BY <1>1, AppendElements, AppendProperties, LenProperties
<1>3. /\ \A r \in pool \ reached : r \in Range(runtimes) \/ r = target
      /\ \A i \in 1..Len(runtimes) :
           runtimes[i] \in pool \ reached => i <= Len(runtimes) - completes
  BY <1>1 DEF RotationInv, Rotation, Sent
<1>4. ASSUME NEW i \in 1..Len(runtimes'), runtimes'[i] \in pool \ reached'
      PROVE  i <= Len(runtimes') - (completes + 1)
  <2>1. i \in 1..Len(runtimes) /\ runtimes[i] \in pool \ reached
    BY <1>1, <1>2, <1>4
  <2>2. i <= Len(runtimes) - completes
    BY <1>3, <2>1
  <2> QED BY <1>1, <1>2, <2>1, <2>2
<1>5. Sent' = completes + 1
  BY <1>1 DEF Sent
<1>6. \A r \in pool \ reached' : r \in Range(runtimes')
  BY <1>1, <1>2, <1>3
<1> QED BY <1>1, <1>4, <1>5, <1>6 DEF Rotation

LEMMA RotationTakeResult ==
  ASSUME RotationInv, TakeResult
  PROVE  Rotation'
<1>1. CASE EndRound
  BY <1>1 DEF EndRound, Rotation
<1>2. CASE completes' = completes + 1 /\ watcher' = "pool" /\ UNCHANGED <<pool, reached, target>>
  <2>1. watcher = "wait" /\ UNCHANGED runtimes
    BY ResultEffect DEF RotationInv
  <2>2. Sent' = completes + 1 /\ Sent = completes + 1
    BY <1>2, <2>1 DEF Sent
  <2>3. /\ \A r \in pool \ reached : r \in Range(runtimes)
        /\ \A i \in 1..Len(runtimes) :
             runtimes[i] \in pool \ reached => i <= Len(runtimes) - (completes + 1)
    BY <2>1, <2>2 DEF RotationInv, Rotation
  <2> QED BY <1>2, <2>1, <2>2, <2>3 DEF Rotation
<1> QED BY <1>1, <1>2, ResultEffect DEF RotationInv

LEMMA RotationStep == RotationInv /\ [Next]_vars => RotationInv'
<1> SUFFICES ASSUME RotationInv, [Next]_vars PROVE Rotation'
  BY TypeStep DEF RotationInv
<1>1. CASE \E r \in Runtimes : Register(r)
  BY <1>1, RotationRegister
<1>2. CASE TakeEvent \/ TakeNext \/ SendToNext \/ TakeResult
  BY <1>2, RotationTakeEvent, RotationTakeNext, RotationSendToNext, RotationTakeResult
<1>3. ASSUME UNCHANGED <<watcher, pool, reached, runtimes, completes, target>>
      PROVE  Rotation'
  BY <1>3 DEF RotationInv, Rotation, Sent
<1>4. CASE Hotfix \/ Patch
  <2>1. UNCHANGED <<watcher, pool, reached, runtimes, completes, target>>
    BY <1>4, HotfixEffect, PatchEffect DEF RotationInv
  <2> QED BY <1>3, <2>1
<1>5. CASE \/ \E f \in Files, op \in Ops : Edit(f, op)
           \/ \E r \in Runtimes : Startup(r) \/ Close(r)
           \/ \E r \in Runtimes, f \in Files : Require(r, f)
           \/ UNCHANGED vars
  BY <1>3, <1>5 DEF Edit, Startup, Close, Require, vars, round
<1>6. CASE Scan \/ Watch
  BY <1>6 DEF Scan, Watch, Rotation
<1> QED BY <1>1, <1>2, <1>4, <1>5, <1>6 DEF Next

\* A step of a round that changes the cache has reached the whole pool: no
\* position of the queue is left for a runtime that was not sent its event.
LEMMA RoundComplete ==
  ASSUME RotationInv, [Next]_vars, watcher = "wait", modules' # modules
  PROVE  pool \subseteq reached
<1>1. TakeResult
  <2>1. CASE Hotfix \/ Patch
    BY <2>1, HotfixEffect, PatchEffect DEF RotationInv
  <2>2. CASE \/ \E f \in Files, op \in Ops : Edit(f, op)
             \/ \E r \in Runtimes : Register(r) \/ Startup(r) \/ Close(r)
             \/ \E r \in Runtimes, f \in Files : Require(r, f)
             \/ Scan \/ Watch \/ TakeEvent \/ TakeNext \/ SendToNext
             \/ UNCHANGED vars
    BY <2>2 DEF Edit, Register, Startup, Close, Require, Scan, Watch, TakeEvent, TakeNext,
                SendToNext, vars
  <2> QED BY <2>1, <2>2 DEF Next
<1>2. completes + 1 >= Len(runtimes)
  BY <1>1, ResultEffect DEF RotationInv
<1>3. /\ \A r \in pool \ reached : r \in Range(runtimes)
      /\ \A i \in 1..Len(runtimes) :
           runtimes[i] \in pool \ reached => i <= Len(runtimes) - (completes + 1)
  BY DEF RotationInv, Rotation, Sent
<1>4. completes \in Nat /\ Len(runtimes) \in Nat /\ DOMAIN runtimes = 1..Len(runtimes)
  BY LenProperties DEF RotationInv, Types, RoundTypeOK, PoolTypeOK
<1>5. \A i \in 1..Len(runtimes) : runtimes[i] \notin pool \ reached
  BY <1>2, <1>3, <1>4
<1> QED BY <1>3, <1>4, <1>5 DEF Range

\* The cache takes a version only after every runtime that was in the pool when
\* the round began was sent it, although the round is measured by the length of
\* a channel that rotates and that others join (scripts.go: OpenPackage).
THEOREM CacheLast == Spec => CacheFollowsThePool
<1>1. Init => RotationInv
  BY InitType DEF Init, RotationInv, Rotation
<1>2. RotationInv /\ [Next]_vars =>
        [watcher = "wait" /\ modules' # modules => pool \subseteq reached]_vars
  BY RoundComplete
<1> QED BY <1>1, <1>2, RotationStep, PTL DEF Spec, CacheFollowsThePool
=============================================================================
