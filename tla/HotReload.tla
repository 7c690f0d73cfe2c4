----------------------------- MODULE HotReload -----------------------------
(***************************************************************************)
(* The script module that runtimes share: the cache of Lua files, the      *)
(* goroutine that watches their directory, and the pool of runtimes it     *)
(* takes a changed file through, one runtime at a time (scripts.go).       *)
(*                                                                         *)
(* A runtime is the goroutine here that runs the one event the watcher has *)
(* sent it, and Lua code that calls require. A file's content is a version *)
(* number; 0 is no content.                                                *)
(***************************************************************************)
EXTENDS Integers, Sequences, FiniteSets, Functions

CONSTANTS Runtimes,    \* *Runtime values made on this script module
          Pooled,      \* those of them made before the first Startup
          Mortal,      \* those of them that may end
          Files,       \* .lua files of the directory
          MaxVersion,  \* bound on the edits of a file
          Marked,      \* versions of a file that begin with the marker
          Broken,      \* versions of a file whose Lua code may fail
          Walk,        \* the files in the order of filepath.Walk
          Unreadable,  \* those of them that os.ReadFile may fail to read
          PoolSize,    \* of the channel sm.runtimes: 1024
          Ops,         \* operations that fsnotify reports for an edit
          None

Versions == 1..MaxVersion
Caches == [file : Files, version : Versions, disabled : BOOLEAN]

ASSUME ReloadParameters == /\ Pooled \subseteq Runtimes
                           /\ Mortal \subseteq Runtimes
                           /\ None \notin Runtimes \cup Caches \cup {"hotfix", "patch", "ok", "error"}
                           /\ MaxVersion \in Nat \ {0}
                           /\ Marked \in [Files -> SUBSET Versions]
                           /\ Broken \in [Files -> SUBSET Versions]
                           /\ Range(Walk) = Files /\ IsInjective(Walk)
                           /\ Unreadable \subseteq Files
                           /\ PoolSize \in Nat \ {0}
                           /\ IsFiniteSet(Pooled) /\ Cardinality(Pooled) <= PoolSize
                           /\ Ops \subseteq {"Write", "Create"}

VARIABLES disk,       \* the content of each file
          fsEvents,   \* watcher.Events
          modules,    \* sm.modules: version and HotfixDisabled, by file
          runtimes,   \* the channel sm.runtimes
          phase,      \* of each runtime: none, new, up or down
          watcher,    \* where the goroutine of OpenPackage is
          m,          \* the localFileCache it takes round the pool
          completes,  \* runtimes it has been through
          target,     \* the runtime whose result it waits for
          event,      \* the event in the EventQueue of target
          resultCh,   \* its answer
          preload,    \* package.preload of each runtime
          loaded,     \* package.loaded of each runtime
          exec,       \* the version of a file each runtime ran last
          tried,      \* history: versions that ran without an error somewhere
          missed,     \* history: a changed file could not be read
          pool,       \* history: the runtimes the round began with
          reached     \* history: the runtimes the round was sent to

round == <<m, completes, target, event, pool, reached>>
lua == <<preload, loaded, exec, tried>>
vars == <<disk, fsEvents, modules, runtimes, phase, watcher, round, resultCh, lua, missed>>

NoModule == [version |-> 0, disabled |-> FALSE]

-----------------------------------------------------------------------------
Cached(f) == modules[f] # NoModule

\* The file the watcher has in hand, as os.ReadFile finds it now.
Read(f) == [file |-> f, version |-> disk[f], disabled |-> disk[f] \in Marked[f]]

\* Skip static files.
Skipped(op, f) == op = "Write" /\ modules[f].disabled

\* Fault: a first attempt that failed does not end the round.
DiscardsNever(answer) == FALSE

\* Fault: the rest of the pool is never tried.
DiscardsAlways(answer) == TRUE

\* Whether the watcher gives up the round.
Discards(answer) == answer = "error"

\* Faults: one runtime too few, and one too many.
ReachedEarly(n) == n >= Len(runtimes) - 1
ReachedLate(n) == n > Len(runtimes)

\* completes < len(sm.runtimes) no longer holds.
ReachedAll(n) == n >= Len(runtimes)

-----------------------------------------------------------------------------
Init == /\ disk = [f \in Files |-> 1]
        /\ fsEvents = << >>
        /\ modules = [f \in Files |-> NoModule]
        /\ runtimes \in {s \in [1..Cardinality(Pooled) -> Pooled] : IsInjective(s)}
        /\ phase = [r \in Runtimes |-> IF r \in Pooled THEN "new" ELSE "none"]
        /\ watcher = "off"
        /\ m = None
        /\ completes = 0
        /\ target = None
        /\ event = None
        /\ resultCh = None
        /\ preload = [r \in Runtimes |-> [f \in Files |-> 0]]
        /\ loaded = [r \in Runtimes |-> {}]
        /\ exec = [r \in Runtimes |-> [f \in Files |-> 0]]
        /\ tried = [f \in Files |-> {}]
        /\ missed = FALSE
        /\ pool = {}
        /\ reached = {}

\* Somebody saves a file; there is no event of it before AddRecursive.
Edit(f, op) == /\ disk[f] < MaxVersion
               /\ disk' = [disk EXCEPT ![f] = @ + 1]
               /\ fsEvents' = IF watcher \in {"off", "scanned"} THEN fsEvents
                              ELSE Append(fsEvents, [op |-> op, file |-> f, version |-> disk[f] + 1])
               /\ UNCHANGED <<modules, runtimes, phase, watcher, round, resultCh, lua, missed>>

-----------------------------------------------------------------------------
(* Runtimes.                                                               *)

\* NewRuntime waits for room in the pool.
Register(r) == /\ phase[r] = "none"
               /\ Len(runtimes) < PoolSize
               /\ phase' = [phase EXCEPT ![r] = "new"]
               /\ runtimes' = Append(runtimes, r)
               /\ UNCHANGED <<disk, fsEvents, modules, watcher, round, resultCh, lua, missed>>

\* OpenPackage, called by the first Startup: once.Do loads the files one after
\* the other, up to one that cannot be read.
Scan == /\ watcher = "off"
        /\ \E r \in Runtimes : phase[r] = "new"
        /\ \E n \in 0..Len(Walk) :
             /\ n < Len(Walk) => Walk[n + 1] \in Unreadable
             /\ modules' = [f \in Files |->
                  IF \E i \in 1..n : Walk[i] = f
                  THEN [version |-> disk[f], disabled |-> disk[f] \in Marked[f]] ELSE NoModule]
        /\ watcher' = "scanned"
        /\ UNCHANGED <<disk, fsEvents, runtimes, phase, round, resultCh, lua, missed>>

\* The end of once.Do: AddRecursive.
Watch == /\ watcher = "scanned"
         /\ watcher' = "idle"
         /\ UNCHANGED <<disk, fsEvents, modules, runtimes, phase, round, resultCh, lua, missed>>

\* The rest of Startup, once once.Do has returned.
Startup(r) == /\ phase[r] = "new"
              /\ watcher \notin {"off", "scanned"}
              /\ phase' = [phase EXCEPT ![r] = "up"]
              /\ UNCHANGED <<disk, fsEvents, modules, runtimes, watcher, round, resultCh, lua, missed>>

\* The event loop of a runtime ends; the pool keeps the runtime.
Close(r) == /\ r \in Mortal
            /\ phase[r] = "up"
            /\ phase' = [phase EXCEPT ![r] = "down"]
            /\ UNCHANGED <<disk, fsEvents, modules, runtimes, watcher, round, resultCh, lua, missed>>

\* A version runs to its end in a runtime.
Ran(r, f, v) == /\ exec' = [exec EXCEPT ![r][f] = v]
                /\ tried' = [tried EXCEPT ![f] = @ \cup {v}]

\* require of a file that is not loaded: package.preload first, then the cache.
\* Of one that raises an error package.loaded keeps a mark, which patch takes
\* for a loaded file.
Require(r, f) ==
  LET v == IF preload[r][f] # 0 THEN preload[r][f] ELSE modules[f].version IN
  /\ phase[r] = "up"
  /\ f \notin loaded[r]
  /\ v # 0
  /\ loaded' = [loaded EXCEPT ![r] = @ \cup {f}]
  /\ \/ Ran(r, f, v)
     \/ v \in Broken[f] /\ UNCHANGED <<exec, tried>>
  /\ UNCHANGED <<disk, fsEvents, modules, runtimes, phase, watcher, round, resultCh, preload,
                 missed>>

-----------------------------------------------------------------------------
(* The event of the watcher in the runtime it was sent to.                 *)

Answer(value) == /\ resultCh' = value
                 /\ event' = None
                 /\ UNCHANGED <<disk, fsEvents, modules, runtimes, phase, watcher,
                                completes, target, loaded, missed, pool, reached>>

\* Fault: the content that ran is not stored for the other runtimes.
HotfixForgets == LET f == m.file IN
  /\ event = "hotfix"
  /\ phase[target] = "up"
  /\ \/ /\ Ran(target, f, disk[f])
        /\ Answer("ok")
     \/ /\ disk[f] \in Broken[f] \/ f \in Unreadable
        /\ Answer("error")
        /\ UNCHANGED <<exec, tried>>
  /\ UNCHANGED <<m, preload>>

\* localFileCache.hotfix reads the file again and runs it.
Hotfix == LET f == m.file IN
  /\ event = "hotfix"
  /\ phase[target] = "up"
  /\ \/ /\ Ran(target, f, disk[f])
        /\ m' = [m EXCEPT !.version = disk[f]]
        /\ Answer("ok")
     \/ /\ disk[f] \in Broken[f] \/ f \in Unreadable
        /\ Answer("error")
        /\ UNCHANGED <<m, exec, tried>>
  /\ UNCHANGED preload

\* localFileCache.patch: the preload function, and a run if the file is loaded.
Patch == LET f == m.file IN
  /\ event = "patch"
  /\ phase[target] = "up"
  /\ preload' = [preload EXCEPT ![target][f] = m.version]
  /\ \/ /\ f \in loaded[target]
        /\ Ran(target, f, m.version)
        /\ Answer("ok")
     \/ /\ f \in loaded[target]
        /\ m.version \in Broken[f]
        /\ Answer("error")
        /\ UNCHANGED <<exec, tried>>
     \/ /\ f \notin loaded[target]
        /\ Answer("ok")
        /\ UNCHANGED <<exec, tried>>
  /\ UNCHANGED m

-----------------------------------------------------------------------------
(* The goroutine of OpenPackage.                                           *)

EndRound == /\ watcher' = "idle"
            /\ m' = None
            /\ completes' = 0
            /\ target' = None
            /\ pool' = {}
            /\ reached' = {}
            /\ UNCHANGED event

\* An event of fsnotify: read the file and begin a round of the pool.
TakeEvent ==
  /\ watcher = "idle"
  /\ fsEvents # << >>
  /\ fsEvents' = Tail(fsEvents)
  /\ LET e == Head(fsEvents) IN
     \/ /\ Skipped(e.op, e.file)
        /\ UNCHANGED <<watcher, m, pool, missed>>
     \/ /\ ~Skipped(e.op, e.file) /\ e.file \in Unreadable
        /\ missed' = TRUE
        /\ UNCHANGED <<watcher, m, pool>>
     \/ /\ ~Skipped(e.op, e.file)
        /\ watcher' = "pool"
        /\ m' = Read(e.file)
        /\ pool' = Range(runtimes)
        /\ UNCHANGED missed
  /\ UNCHANGED <<disk, modules, runtimes, phase, completes, target, event, reached,
                 resultCh, lua>>

\* The next runtime of the pool, which others may join before it is put back.
TakeNext == /\ watcher = "pool"
            /\ runtimes # << >>
            /\ target' = Head(runtimes)
            /\ runtimes' = Tail(runtimes)
            /\ watcher' = "rotate"
            /\ UNCHANGED <<disk, fsEvents, modules, phase, m, completes, event, pool,
                           reached, resultCh, lua, missed>>

\* Put it back, when there is room, and send it the event; the first runtime
\* decides for all.
SendToNext == /\ watcher = "rotate"
              /\ Len(runtimes) < PoolSize
              /\ runtimes' = Append(runtimes, target)
              /\ event' = IF completes = 0 THEN "hotfix" ELSE "patch"
              /\ reached' = reached \cup {target}
              /\ watcher' = "wait"
              /\ UNCHANGED <<disk, fsEvents, modules, phase, m, completes, target, pool,
                             resultCh, lua, missed>>

\* sm.add: HotfixDisabled keeps the value it had.
Add == modules' = [modules EXCEPT ![m.file] =
                     [version |-> m.version,
                      disabled |-> IF Cached(m.file) THEN @.disabled ELSE m.disabled]]

TakeResult ==
  /\ watcher = "wait"
  /\ resultCh # None
  /\ resultCh' = None
  /\ \/ /\ Discards(resultCh)
        /\ EndRound
        /\ UNCHANGED modules
     \/ /\ ~Discards(resultCh)
        /\ ReachedAll(completes + 1)
        /\ Add
        /\ EndRound
     \/ /\ ~Discards(resultCh)
        /\ ~ReachedAll(completes + 1)
        /\ completes' = completes + 1
        /\ watcher' = "pool"
        /\ UNCHANGED <<modules, m, target, event, pool, reached>>
  /\ UNCHANGED <<disk, fsEvents, runtimes, phase, lua, missed>>

-----------------------------------------------------------------------------
Next == \/ \E f \in Files, op \in Ops : Edit(f, op)
        \/ \E r \in Runtimes : Register(r) \/ Startup(r) \/ Close(r)
        \/ \E r \in Runtimes, f \in Files : Require(r, f)
        \/ Scan \/ Watch
        \/ Hotfix \/ Patch
        \/ TakeEvent \/ TakeNext \/ SendToNext \/ TakeResult

Spec == Init /\ [][Next]_vars

\* The watcher runs, a runtime that was made is started, and the event loop of
\* a runtime that is up dispatches what it is sent (MessagesRun of EventLoop).
Fairness == /\ WF_vars(Scan)
            /\ WF_vars(Watch)
            /\ \A r \in Runtimes : WF_vars(Startup(r))
            /\ WF_vars(Hotfix)
            /\ WF_vars(Patch)
            /\ WF_vars(TakeEvent)
            /\ WF_vars(TakeNext)
            /\ WF_vars(SendToNext)
            /\ WF_vars(TakeResult)

FairSpec == Spec /\ Fairness

-----------------------------------------------------------------------------
TypeOK ==
  /\ disk \in [Files -> Versions]
  /\ fsEvents \in Seq([op : Ops, file : Files, version : Versions])
  /\ modules \in [Files -> [version : 0..MaxVersion, disabled : BOOLEAN]]
  /\ runtimes \in Seq(Runtimes) /\ IsInjective(runtimes) /\ Len(runtimes) <= PoolSize
  /\ phase \in [Runtimes -> {"none", "new", "up", "down"}]
  /\ watcher \in {"off", "scanned", "idle", "pool", "rotate", "wait"}
  /\ m \in Caches \cup {None}
  /\ completes \in 0..(PoolSize - 1)
  /\ target \in Runtimes \cup {None}
  /\ event \in {"hotfix", "patch", None}
  /\ resultCh \in {"ok", "error", None}
  /\ preload \in [Runtimes -> [Files -> 0..MaxVersion]]
  /\ loaded \in [Runtimes -> SUBSET Files]
  /\ exec \in [Runtimes -> [Files -> 0..MaxVersion]]
  /\ tried \in [Files -> SUBSET Versions]
  /\ missed \in BOOLEAN
  /\ pool \subseteq Runtimes /\ reached \subseteq Runtimes

\* A version that failed its first attempt goes nowhere: what the other
\* runtimes get to require ran without an error in some runtime before.
OnlyTriedVersionsSpread ==
  \A r \in Runtimes, f \in Files : preload[r][f] # 0 => preload[r][f] \in tried[f]

\* The cache takes a version only when every runtime that was in the pool at
\* the beginning of the round has been sent it and has answered, although the pool
\* rotates, grows during the round and is measured by its length.
CacheFollowsThePool ==
  [][watcher = "wait" /\ modules' # modules => pool \subseteq reached]_vars

\* Loaded code never goes back to an older version, although a round carries
\* the content that the first runtime found on disk.
NeverGoesBack ==
  [][\A r \in Runtimes : \A f \in loaded[r] : exec'[r][f] >= exec[r][f]]_vars

-----------------------------------------------------------------------------
Changed(f, v) == \E i \in 1..Len(fsEvents) : fsEvents[i].file = f /\ fsEvents[i].version = v

\* A change of a cached file that is not static reaches every runtime that has
\* loaded it, while that runtime is up (README.md:21: hot reload when files
\* changed).
ChangesArrive ==
  \A f \in Files, v \in Versions, r \in Runtimes :
    /\ Changed(f, v)
    /\ Cached(f) /\ ~modules[f].disabled
    /\ f \in loaded[r]
    ~> exec[r][f] >= v \/ phase[r] = "down"

\* A runtime that joined took the last place in the pool while the watcher held
\* another one, which it waits for ever to put back.
Stuck == watcher = "rotate" /\ Len(runtimes) = PoolSize

\* The same of runtimes that all stay up, a pool that is not full, and versions
\* that are read and run, although files change and runtimes join and require
\* them during a round.
ChangesArriveWhileUp ==
  [](/\ resultCh # "error" /\ ~missed /\ ~Stuck
     /\ \A r \in Runtimes : phase[r] # "down") => ChangesArrive
=============================================================================
