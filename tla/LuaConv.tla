------------------------------- MODULE LuaConv -------------------------------
(***************************************************************************)
(* Values on their way between Lua and Go (luaconv.go), JSON (json.go) and *)
(* Redis (encode and decode of module_redis.go), and into the fields of a  *)
(* log line (module_logger.go).                                            *)
(*                                                                         *)
(* A value is a tuple that begins with its type. Numbers are counted in    *)
(* halves. A text is a word that is no JSON, or the JSON of a Go value.    *)
(***************************************************************************)
EXTENDS Integers, Sequences, FiniteSets, FiniteSetsExt

\* Lua values.
LNil == <<"nil">>
LBool(b) == <<"boolean", b>>
LNumber(halves) == <<"number", halves>>
LNaN == <<"nan">>
LString(text) == <<"string", text>>
LTable(entries) == <<"table", entries>>

\* Texts.
Word(w) == <<"word", w>>
Json(go) == <<"json", go>>

Is(v, type) == v[1] = type
EmptyTable == LTable([k \in {} |-> LNil])

\* A table of an association; setting a field to nil leaves it out.
TableOf(keys, At(_)) == LTable([k \in {x \in keys : At(x) # LNil} |-> At(k)])

-----------------------------------------------------------------------------
\* A key that gopher-lua keeps in the array part, which MaxN measures.
ArrayKey(k) == Is(k, "number") /\ k[2] % 2 = 0 /\ k[2] > 0

MaxN(entries) == Max({0} \cup {k[2] \div 2 : k \in {x \in DOMAIN entries : ArrayKey(x)}})

RawGetInt(entries, i) ==
  IF LNumber(2 * i) \in DOMAIN entries THEN entries[LNumber(2 * i)] ELSE LNil

\* fmt.Sprint of a key that is a string, a number or a boolean.
Sprint(go) == IF Is(go, "string") THEN go[2] ELSE Json(go)

RECURSIVE LuaValue(_)

\* Keys of two types may have one text: ForEach comes to strings first, and the
\* later entry stays.
MapOf(entries) ==
  LET keyStr == [k \in DOMAIN entries |-> Sprint(LuaValue(k))]
      same(t) == {k \in DOMAIN entries : keyStr[k] = t}
      later(t) == {k \in same(t) : ~Is(k, "string")}
  IN <<"map", [t \in {keyStr[k] : k \in DOMAIN entries} |->
                LuaValue(entries[CHOOSE k \in IF later(t) = {} THEN same(t) ELSE later(t) : TRUE])]>>

SliceOf(entries) == <<"slice", [i \in 1..MaxN(entries) |-> LuaValue(RawGetInt(entries, i))]>>

\* A table is an array when it has a positive whole key: its other keys are lost.
OfTable(entries) == IF MaxN(entries) = 0 THEN MapOf(entries) ELSE SliceOf(entries)

LuaValue(v) ==
  CASE Is(v, "number") -> <<IF v[2] % 2 = 0 THEN "int" ELSE "float", v[2]>>
    [] Is(v, "table")  -> OfTable(v[2])
    [] Is(v, "function") -> <<"string", Word("function: 0xc000")>>
    [] Is(v, "userdata") -> <<"lua", v>>
    [] OTHER -> v

\* From Go. Types that the switch does not name become nil.
RECURSIVE Value(_)
Value(go) ==
  CASE go[1] \in {"nil", "boolean", "string", "nan"} -> go
    [] go[1] \in {"int", "float"} -> LNumber(go[2])
    [] Is(go, "map") -> LET at(k) == Value(go[2][k[2]])
                        IN TableOf({LString(t) : t \in DOMAIN go[2]}, at)
    [] Is(go, "slice") -> LET at(k) == Value(go[2][k[2] \div 2])
                          IN TableOf({LNumber(2 * i) : i \in DOMAIN go[2]}, at)
    [] OTHER -> LNil

-----------------------------------------------------------------------------
(* JSON.                                                                   *)

\* What json.Marshal refuses is in it.
RECURSIVE Marshals(_)
Marshals(go) == CASE go[1] \in {"nan", "lua"} -> FALSE
                  [] go[1] \in {"map", "slice"} ->
                       \A x \in DOMAIN go[2] : Marshals(go[2][x])
                  [] OTHER -> TRUE

\* json.Unmarshal into an interface{}: every number is a float64.
RECURSIVE Unmarshal(_)
Unmarshal(go) ==
  CASE Is(go, "int") -> <<"float", go[2]>>
    [] go[1] \in {"map", "slice"} -> <<go[1], [x \in DOMAIN go[2] |-> Unmarshal(go[2][x])]>>
    [] OTHER -> go

\* json.encode and json.decode, or the error they raise.
Raised == <<"raised">>
jsonEncode(v) == IF Marshals(LuaValue(v)) THEN LString(Json(LuaValue(v))) ELSE Raised
jsonDecode(v) == IF Is(v, "string") /\ Is(v[2], "json") THEN Value(Unmarshal(v[2][2]))
                 ELSE Raised

-----------------------------------------------------------------------------
(* Redis.                                                                  *)

NoText == <<"no text">>

\* encode() makes JSON of maps, and drops the error.
encode(go) == CASE Is(go, "map") /\ Marshals(go) -> <<"string", Json(go)>>
                [] Is(go, "map") /\ ~Marshals(go) -> <<"string", Word("")>>
                [] OTHER -> go

\* How go-redis writes an argument: it knows no slices and no Lua values.
Written(go) == CASE Is(go, "string") -> go[2]
                 [] go[1] \in {"int", "float"} -> Json(go)
                 [] Is(go, "boolean") -> Json(<<"int", IF go[2] THEN 2 ELSE 0>>)
                 [] Is(go, "nil") -> Word("")
                 [] Is(go, "nan") -> Word("NaN")
                 [] OTHER -> NoText

\* Fault: what is no JSON is dropped.
decodeStrict(text) == IF Is(text, "json") THEN Value(Unmarshal(text[2])) ELSE LNil

\* decode() reads as JSON whatever is JSON.
decode(text) == IF Is(text, "json") THEN Value(Unmarshal(text[2])) ELSE LString(text)

-----------------------------------------------------------------------------
(* The fields of a log line.                                               *)

\* The name of a key, or the failure of field.(string).
FieldName(key) == LET go == LuaValue(key) IN
  IF go[1] \in {"int", "string"} THEN Sprint(go) ELSE Raised

FieldTypes == {"int", "float", "nan", "string", "map", "slice", "boolean"}

\* collapse_to_log: values of other types get no field, whatever their key.
collapse_to_log(entries) ==
  LET kept == {k \in DOMAIN entries : LuaValue(entries[k])[1] \in FieldTypes}
  IN IF \E k \in kept : FieldName(k) = Raised THEN Raised
     ELSE <<"fields", {<<k, FieldName(k), LuaValue(entries[k])>> : k \in kept}>>

\* The fields that debug, info, warn and error write after the message.
LineFields(v) == CASE Is(v, "table") -> collapse_to_log(v[2])
                   [] Is(v, "string") -> <<"fields", {<<LNil, Word("content"), v>>}>>
                   [] OTHER -> <<"fields", {}>>

-----------------------------------------------------------------------------
(* What the conversions keep.                                              *)

Trip(v) == Value(LuaValue(v))

\* Scalars that come back, and tables that are an array or have string keys.
RECURSIVE Faithful(_)
Faithful(v) ==
  \/ v[1] \in {"nil", "boolean", "number", "string"}
  \/ /\ Is(v, "table")
     /\ \/ \A k \in DOMAIN v[2] : ArrayKey(k)
        \/ \A k \in DOMAIN v[2] : Is(k, "string")
     /\ \A k \in DOMAIN v[2] : Faithful(v[2][k])

\* From Redis come back whole and broken numbers, words that are no JSON, and
\* tables with string keys, whatever faithful values are in them.
Storable(v) == \/ Is(v, "number")
               \/ Is(v, "string") /\ Is(v[2], "word")
               \/ Is(v, "table") /\ Faithful(v) /\ \A k \in DOMAIN v[2] : Is(k, "string")

\* A script gets back from Go what it gave, if that was Faithful, also through
\* json.encode and json.decode, and through Redis if it was Storable; anything
\* else settles after one trip. The logger raises no error for a Faithful table,
\* and has one field for each of its entries.
ComesBack(v) ==
  /\ Trip(Trip(v)) = Trip(v)
  /\ Faithful(v) => Trip(v) = v /\ jsonDecode(jsonEncode(v)) = v
  /\ Storable(v) => decode(Written(encode(LuaValue(v)))) = v
  /\ Faithful(v) /\ Is(v, "table") =>
       LineFields(v) # Raised /\ Cardinality(LineFields(v)[2]) = Cardinality(DOMAIN v[2])
=============================================================================
