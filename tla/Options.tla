------------------------------- MODULE Options -------------------------------
(***************************************************************************)
(* What a list of options makes of a runtime, and what its scripts find by *)
(* require and among the globals (option.go, option_zmq.go, runtime.go).   *)
(***************************************************************************)
EXTENDS Naturals, Sequences, Functions

CONSTANTS Offered,     \* options, each a [kind, name, value]
          MaxOptions,  \* bound on the length of a list of options
          Scripts,     \* names of the scripts in the cache
          Stdlib,      \* standard libraries that Startup opens as tables
          Base,        \* globals that the base library sets
          TableValues, \* values of options that Lua gets as tables
          Nothing      \* nil

Settings == {"logger", "context", "wait group", "script", "evaluation"}
Registries == {"module", "lib", "global"}

ASSUME OptionParameters ==
         /\ \A o \in Offered : /\ o = [kind |-> o.kind, name |-> o.name, value |-> o.value]
                               /\ o.kind \in Settings \cup Registries
         /\ MaxOptions \in Nat
         /\ "package" \in Stdlib /\ "_G" \in Base /\ Stdlib \cap Base = {}

VARIABLES runtime,  \* the fields that options set
          applied   \* history: the options NewRuntime has applied

Nowhere == [n \in {} |-> Nothing]
Entered(table, n, value) == [x \in {n} \cup DOMAIN table |-> IF x = n THEN value ELSE table[x]]

\* The options, by what they set.
With(r, o) == [r EXCEPT !.settings[o.kind] = o.value]
WithModule(r, o) == [r EXCEPT !.preloads = Entered(@, o.name, o.value)]
WithLib(r, o) == [r EXCEPT !.auxlibs = Entered(@, o.name, o.value)]
WithGlobal(r, o) == [r EXCEPT !.globals = Entered(@, o.name, o.value)]

apply(r, o) == CASE o.kind \in Settings -> With(r, o)
                 [] o.kind = "module"   -> WithModule(r, o)
                 [] o.kind = "lib"      -> WithLib(r, o)
                 [] o.kind = "global"   -> WithGlobal(r, o)

Default == [settings |-> [k \in Settings |-> k], preloads |-> Nowhere,
            auxlibs |-> Nowhere, globals |-> Nowhere]

OptionsInit == runtime = Default /\ applied = << >>

\* One turn of the loop of NewRuntime.
NewRuntime(o) == /\ Len(applied) < MaxOptions
                 /\ runtime' = apply(runtime, o)
                 /\ applied' = Append(applied, o)

OptionsNext == \E o \in Offered : NewRuntime(o)
OptionsSpec == OptionsInit /\ [][OptionsNext]_<<runtime, applied>>

GetField(table, n, without) == IF n \in DOMAIN table THEN table[n] ELSE without

\* Fault: the libraries are preloaded after the modules.
PreloadedLibsLast(r) ==
  [n \in DOMAIN r.preloads \cup DOMAIN r.auxlibs \cup {"runtime"} |->
     GetField(r.auxlibs, n, GetField(r.preloads, n, "exit"))]

\* The module "runtime" is preloaded first, then the libraries, then the modules.
Preloaded(r) ==
  [n \in DOMAIN r.preloads \cup DOMAIN r.auxlibs \cup {"runtime"} |->
     GetField(r.preloads, n, GetField(r.auxlibs, n, "exit"))]

\* RegisterModule of gopher-lua adds the functions of a library to the global
\* table of its name if there is one, and raises an error if there is another
\* value, which nothing recovers. The base library sets its globals whatever
\* they are.
Conflicts(r) == {n \in Stdlib : GetField(r.globals, n, Nothing) \notin TableValues \cup {Nothing}}

Global(r, n) ==
  LET given == GetField(r.globals, n, Nothing)
  IN IF n \in Base THEN "base"
     ELSE IF n \in Stdlib /\ given = Nothing THEN "standard" ELSE given

\* The libraries are opened in the order of a map's iteration, which is any:
\* when the package library is, _LOADED becomes a new table, and has in the end
\* the libraries opened later.
Later == SUBSET ((Stdlib \ {"package"}) \cup {"_G"})
Startup(r, later) == [preload |-> Preloaded(r), loaded |-> [n \in later |-> Global(r, n)]]

\* The first require of a name: what is loaded, else what the loaders find, in
\* their order.
require(started, n) ==
  GetField(started.loaded, n,
           GetField(started.preload, n, IF n \in Scripts THEN "script" ELSE Nothing))

-----------------------------------------------------------------------------
\* Two options that set the same thing.
Clash(o, p) == o.kind = p.kind /\ (o.kind \in Settings \/ o.name = p.name)

\* The value of the last option that sets what o sets, or what there is without.
LastOf(o, without) ==
  LET at == {i \in DOMAIN applied : Clash(applied[i], o)}
  IN IF at = {} THEN without ELSE applied[CHOOSE i \in at : \A j \in at : j <= i].value

LastNamed(kind, n, without) == LastOf([kind |-> kind, name |-> n], without)

\* Where no global of a standard library's name is another value than a table,
\* Startup comes to its end, and otherwise in no order of opening. Then scripts
\* find by require what the options say: a module hides a library of its name
\* whichever option came first, both hide "runtime" and a script of the name,
\* and of two options that set the same thing the last one stays; but a standard
\* library opened after the package library hides them all. Among the globals
\* they find what the options say unless the base library sets it, and standard
\* functions in the tables of the standard libraries.
OptionsSettle ==
  LET asked == Scripts \cup Stdlib \cup Base \cup {"runtime"} \cup {o.name : o \in Offered}
      given(n) == LastNamed("global", n, Nothing)
      fits(n) == given(n) = Nothing \/ given(n) \in TableValues
      standard(n) == IF n \in Base THEN "base"
                     ELSE IF given(n) = Nothing THEN "standard" ELSE given(n)
      script(n) == IF n \in Scripts THEN "script" ELSE Nothing
      builtin(n) == IF n = "runtime" THEN "exit" ELSE script(n)
  IN /\ Conflicts(runtime) = {} <=> \A n \in Stdlib : fits(n)
     /\ Conflicts(runtime) = {} =>
          \A n \in asked :
            /\ Global(runtime, n) = IF n \in Stdlib \cup Base THEN standard(n) ELSE given(n)
            /\ \A later \in Later :
                 require(Startup(runtime, later), n)
                   = IF n \in later THEN standard(n)
                     ELSE LastNamed("module", n, LastNamed("lib", n, builtin(n)))
     /\ \A k \in Settings : runtime.settings[k] = LastNamed(k, "", k)
=============================================================================
