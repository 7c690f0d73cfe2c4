----------------------------- MODULE ScriptNames -----------------------------
(***************************************************************************)
(* The list of names that the script module keeps sorted (ModuleNames, add *)
(* and List of scripts.go).                                                *)
(***************************************************************************)
EXTENDS Naturals, Sequences, FiniteSets, Functions

CONSTANTS Names,    \* of scripts: [id, init, dots], whether a name ends with
                    \* "init", and its dots
          MaxNames  \* bound on the length of the list

ASSUME NameParameters == /\ \A a \in Names : a.init \in BOOLEAN /\ a.dots \in Nat
                         /\ MaxNames \in Nat

VARIABLES names,   \* sm.names
          modules  \* the keys of sm.modules

-----------------------------------------------------------------------------
\* Fault: init scripts are not told apart.
LessDots(a, b) == a.dots < b.dots

\* ModuleNames.Less. Of an init name with more dots than another name, each is
\* less than the other.
Less(a, b) == (a.init /\ ~b.init) \/ a.dots < b.dots

\* What sort.Sort asks of Less: a strict order in which to be neither less nor
\* greater is to be equal.
Orders(S) == /\ \A a \in S : ~Less(a, a)
             /\ \A a, b, c \in S : /\ Less(a, b) /\ Less(b, c) => Less(a, c)
                                   /\ Less(a, c) => Less(a, b) \/ Less(b, c)

\* sort.Sort permutes the list, and sorts it if Less is such an order; it does
\* not promise to keep ties.
Sorted(list) ==
  {r \in {[i \in DOMAIN list |-> list[f[i]]] : f \in Bijection(DOMAIN list, DOMAIN list)} :
     Orders(Range(list)) => \A i, j \in DOMAIN r : i < j => ~Less(r[j], r[i])}

NamesInit == names = << >> /\ modules = {}

add(a) == /\ Len(names) < MaxNames
          /\ IF a \in modules THEN names' = names
             ELSE names' \in Sorted(Append(names, a))
          /\ modules' = modules \cup {a}

NamesNext == \E a \in Names : add(a)
NamesSpec == NamesInit /\ [][NamesNext]_<<names, modules>>

List == names

-----------------------------------------------------------------------------
\* No init script lies deeper than a script that is not one.
Consistent(S) == \A a, b \in S : a.init /\ ~b.init => a.dots <= b.dots

\* List has each script of the cache once, and init scripts in ascending depth
\* before all others (scripts.go:147), those in ascending depth too, whatever
\* order they were added in - where no init script lies deeper than another
\* script. Otherwise every add may turn the two round.
InitsFirst ==
  /\ Range(List) = modules /\ IsInjective(List)
  /\ Consistent(modules) =>
       \A i, j \in DOMAIN List : i < j =>
         \/ List[i].init /\ ~List[j].init
         \/ List[i].init = List[j].init /\ List[i].dots <= List[j].dots
=============================================================================
