---- MODULE MCLibraries ----
(* Instances of the modules that scripts call for a result, for TLC. *)
EXTENDS RedisCommands, LuaConv, Bits, Options, ScriptNames, TLC

CONSTANTS r1, r2, r3, c1, c2, counterKey, wholeKey, hashKey, textKey, fieldA, fieldB

ScriptOf == c1 :> r1 @@ c2 :> r2

\* LuaConv gives RedisCommands its conversions.
RedisEncode(v) == LET stored == Written(encode(LuaValue(v)))
                  IN IF stored = NoText THEN Refused ELSE stored
RedisDecode(stored) == decode(stored)
RedisNumber(stored) ==
  IF Is(stored, "json") /\ Is(stored[2], "int") THEN stored[2][2] \div 2 ELSE None
RedisText(i) == Json(<<"int", 2 * i>>)

One == LNumber(2)
Name == LString(Word("name"))
Array == LTable(LNumber(2) :> One)

Ask(fn, key, field, value) == [fn |-> fn, key |-> key, field |-> field, value |-> value]

\* A counter, a hash that is written whole, another hash, and a table that
\* go-redis refuses.
SmallScript ==
  c1 :> {Ask("incr", counterKey, None, None),
         Ask("hmset", wholeKey, None, fieldA :> One @@ fieldB :> One),
         Ask("hincrby", hashKey, fieldA, 3)} @@
  c2 :> {Ask("incrby", counterKey, None, 4),
         Ask("hmset", wholeKey, None, fieldA :> Name @@ fieldB :> Name),
         Ask("hgetall", wholeKey, None, None), Ask("set", textKey, None, Array)}

-----------------------------------------------------------------------------
Scalars == {LBool(TRUE), LNumber(2), LNumber(1), LNaN, LString(Word("w")),
            LString(Json(<<"int", 2>>)), <<"function">>, <<"userdata">>}

\* Keys: "a", "1", and the numbers 1, 2, 0, 1/2.
TableKeys == {LString(Word("a")), LString(Json(<<"int", 2>>)), LNumber(2), LNumber(4),
              LNumber(0), LNumber(1)}

Tables(keys, members) == {LTable(f) : f \in UNION {[D -> members] : D \in
                            {E \in SUBSET keys : Cardinality(E) <= 2}}}

Nested == Tables({LString(Word("a")), LNumber(2)},
                 {LNumber(1), LString(Json(<<"int", 2>>)), <<"function">>, EmptyTable}
                   \cup Tables({LString(Word("a")), LNumber(4)}, {LNumber(2), LNaN, <<"userdata">>}))

SmallValues == {LNil} \cup Scalars \cup Tables(TableKeys, Scalars) \cup Nested

-----------------------------------------------------------------------------
\* Names of a script, of a standard library, of a global of the base library,
\* and others; values of which Lua gets one as a table and one as nil.
Offer(kinds, of, values) ==
  {[kind |-> k, name |-> n, value |-> v] : k \in kinds, n \in of, v \in values}

Options3 == Offer({"module", "lib"}, {"json", "main", "os"}, {"x", "y"})
            \cup Offer({"module"}, {"runtime", "_G"}, {"x"})
            \cup Offer({"global"}, {"json", "os"}, {"x", "t", Nothing})
            \cup Offer({"global"}, {"print", "package"}, {"x"})
            \cup Offer({"context"}, {""}, {"x", "y"})

SmallNames == [id : 1..2, init : BOOLEAN, dots : 0..1]

-----------------------------------------------------------------------------
\* What this behaviour is about: a value to convert, calls of the bit libraries,
\* a list of options, the names of scripts, or scripts that use Redis.
VARIABLE given

redisVars == vars
optionVars == <<runtime, applied>>
nameVars == <<names, modules>>

MCInit == /\ Init /\ OptionsInit /\ NamesInit /\ BitsInit
          /\ \/ given \in {<<"redis">>, <<"bits">>, <<"options">>, <<"names">>}
             \/ \E v \in SmallValues : given = <<"value", v>>

MCNext == /\ UNCHANGED given
          /\ \/ given = <<"redis">> /\ Next /\ UNCHANGED <<optionVars, nameVars, operands>>
             \/ given = <<"bits">> /\ BitsNext /\ UNCHANGED <<redisVars, optionVars, nameVars>>
             \/ given = <<"options">> /\ OptionsNext /\ UNCHANGED <<redisVars, nameVars, operands>>
             \/ given = <<"names">> /\ NamesNext /\ UNCHANGED <<redisVars, optionVars, operands>>

MCSpec == MCInit /\ [][MCNext]_<<redisVars, optionVars, nameVars, operands, given>>

\* A script gets back from Go, from JSON and from Redis the value it gave, as
\* far as ComesBack of LuaConv says (luaconv.go, json.go, encode and decode).
ValuesComeBack == Is(given, "value") => ComesBack(given[2])
=============================================================================
