---------------------------- MODULE ValueCrossings ----------------------------
(***************************************************************************)
(* Values across the embedder's facade and the canonical ABI.  A host      *)
(* spells a list of values as JavaScript (embedder/values.ts); the facade  *)
(* prepares them, the canonical ABI lowers them, the guest hands them to   *)
(* another guest (Forward) or spoils them (Tamper), and they are lifted    *)
(* and given to the host again.                                            *)
(***************************************************************************)
EXTENDS CanonicalAbi

CONSTANTS Signatures,          \* the lists of types that cross
          Texts,               \* the strings
          Guests               \* the string encodings and pointer widths

VARIABLES call,     \* the types, the values, the leg, the encoding, the pointer width
          host,     \* what the host wrote, until it is prepared
          raw,      \* the values it was taken for
          mem,      \* the memory, the guests' together
          lanes,    \* the core values
          got,      \* what lifting gave
          stage, mangled, tampered
valueVars == <<call, host, raw, mem, lanes, got, stage, mangled, tampered>>

-----------------------------------------------------------------------------
(* What the host writes.  A field, a flag and a case go by their index.    *)
Undefined == [is |-> "undefined"]
Truth(b) == [is |-> "boolean", it |-> b]
Number(n) == [is |-> "number", it |-> n]
Bigint(n) == [is |-> "bigint", it |-> n]
Text(s) == [is |-> "string", it |-> s]
Surrogate == [is |-> "surrogate"]       \* a string of one lone surrogate
Label(i) == [is |-> "label", it |-> i]
Array(items) == [is |-> "array", it |-> items]
ByteArray(items) == [is |-> "bytes", it |-> items]
Object(f) == [is |-> "object", it |-> f]
InCase(kind, value) == [is |-> "case", kind |-> kind, it |-> value]     \* value is <<>> or <<v>>

Scalar(k, v) ==
  CASE k = "bool"            -> Truth(v)
    [] k = "char"            -> Text(<<v>>)
    [] k \in {"u64", "s64"} -> Bigint(v)
    [] OTHER                 -> Number(v)

IsOption(t) == t.k = "variant" /\ t.as = "option"

(* The canonical spelling of a value: the outermost option is its payload  *)
(* or undefined, an option right inside it is boxed, and a field without   *)
(* a value is absent.                                                      *)
RECURSIVE ToHost(_, _, _)
Payload(t, v) == [i \in 1..Len(v) - 1 |-> ToHost(t.cs[v[1]][1], v[i + 1], FALSE)]
ToHostOption(t, v, inOption) ==
  LET some == ToHost(t.cs[2][1], v[2], TRUE)
      isNone == v[1] = 1
  IN  CASE inOption /\ isNone  -> InCase(1, <<>>)
        [] inOption /\ ~isNone -> InCase(2, <<some>>)
        [] ~inOption           -> IF isNone THEN Undefined ELSE some
ToHost(t, v, inOption) ==
  CASE t.k \in Scalars -> Scalar(t.k, v)
    [] t.k = "string"  -> Text(v)
    [] t.k = "list"    -> IF t.e.k = "u8" THEN ByteArray(v)
                          ELSE Array([i \in DOMAIN v |-> ToHost(t.e, v[i], FALSE)])
    [] t.k = "record"  ->
         LET fields == [i \in DOMAIN v |-> ToHost(t.fs[i], v[i], FALSE)]
         IN  IF t.as = "tuple" THEN Array(fields)
             ELSE Object([i \in {j \in DOMAIN v : fields[j] # Undefined} |-> fields[i]])
    [] t.k = "variant" -> CASE t.as = "enum" -> Label(v[1])
                            [] IsOption(t)   -> ToHostOption(t, v, inOption)
                            [] OTHER         -> InCase(v[1], Payload(t, v))
    [] t.k = "flags"   -> Object([i \in 1..t.n |-> Truth(v[i])])

ToHosts(ts, vs) == [i \in DOMAIN ts |-> ToHost(ts[i], vs[i], FALSE)]

(* JavaScript's truth, of the values a host may put where a boolean goes.  *)
Truthy(h) ==
  CASE h.is = "undefined"          -> FALSE
    [] h.is = "boolean"            -> h.it
    [] h.is \in {"number", "bigint"} -> h.it # 0
    [] h.is = "string"             -> h.it # <<>>
    [] OTHER                       -> TRUE

Wide(k) == Power(Bytes[k])
InRange(k, n) ==
  IF k \in Signed THEN n \in -(Wide(k) \div 2) .. (Wide(k) \div 2) - 1 ELSE n \in 0..Wide(k) - 1

PrepareScalar(k, h) ==
  CASE k = "bool"   -> Good(Truthy(h))
    [] k = "char"   -> IF h.is = "string" /\ Len(h.it) = 1 /\ IsChar(h.it[1])
                       THEN Good(h.it[1]) ELSE Trap(h)
    [] k \in Floats -> IF h.is = "number" THEN Good(h.it) ELSE Trap(h)
    [] OTHER        -> IF h.is = (IF Bytes[k] = 8 THEN "bigint" ELSE "number") /\ InRange(k, h.it)
                       THEN Good(h.it) ELSE Trap(h)

Around(i, payload) == [payload EXCEPT !.v = <<i, @>>]

(* The value a host's spelling stands for, or a refusal. *)
RECURSIVE PrepareHostValue(_, _, _)
PrepareItems(ts, hs) == Together([i \in DOMAIN ts |-> PrepareHostValue(ts[i], hs[i], FALSE)])
PrepareBytes(h) ==
  CASE h.is = "bytes" -> Good(h.it)
    [] h.is = "array" -> Good([i \in DOMAIN h.it |-> IF h.it[i].is = "number" THEN h.it[i].it % Wide("u8") ELSE 0])
    [] OTHER          -> Trap(h)

PrepareRecord(t, h) ==
  LET field(i) == IF i \in DOMAIN h.it THEN h.it[i] ELSE Undefined
      missing == {i \in DOMAIN t.fs : i \notin DOMAIN h.it /\ ~IsOption(t.fs[i])}
  IN  IF t.as = "tuple"
        THEN IF h.is = "array" /\ Len(h.it) = Len(t.fs) THEN PrepareItems(t.fs, h.it) ELSE Trap(h)
      ELSE IF h.is # "object" \/ missing # {} THEN Trap(h)
      ELSE PrepareItems(t.fs, [i \in DOMAIN t.fs |-> field(i)])

PrepareTagged(t, h, inOption) ==
  IF h.is # "case" THEN Trap(h)
  ELSE IF h.kind \notin DOMAIN t.cs THEN Trap(h)
  ELSE IF t.cs[h.kind] = <<>> THEN Good(<<h.kind>>)
  ELSE IF h.it # <<>> THEN Around(h.kind, PrepareHostValue(t.cs[h.kind][1], h.it[1], inOption))
  ELSE IF IsOption(t) THEN Good(<<h.kind>>)
  ELSE Trap(h)

PrepareOption(t, h, inOption) ==
  IF inOption THEN PrepareTagged(t, h, TRUE)
  ELSE IF h = Undefined THEN Good(<<1>>)
  ELSE Around(2, PrepareHostValue(t.cs[2][1], h, TRUE))

PrepareHostValue(t, h, inOption) ==
  CASE t.k \in Scalars -> PrepareScalar(t.k, h)
    [] t.k = "string"  -> IF h = Surrogate THEN Good(<<"s">>)
                          ELSE IF h.is = "string" THEN Good(h.it) ELSE Trap(h)
    [] t.k = "list"    -> IF t.e.k = "u8" THEN PrepareBytes(h)
                          ELSE IF h.is # "array" THEN Trap(h)
                          ELSE PrepareItems([i \in DOMAIN h.it |-> t.e], h.it)
    [] t.k = "record"  -> PrepareRecord(t, h)
    [] t.k = "variant" -> CASE t.as = "enum"   -> IF h.is = "label" /\ h.it \in DOMAIN t.cs
                                                  THEN Good(<<h.it>>) ELSE Trap(h)
                            [] IsOption(t)     -> PrepareOption(t, h, inOption)
                            [] OTHER           -> PrepareTagged(t, h, FALSE)
    [] t.k = "flags"   -> IF h.is # "object" THEN Trap(h)
                          ELSE Good([i \in 1..t.n |-> i \in DOMAIN h.it /\ Truthy(h.it[i])])

-----------------------------------------------------------------------------
(* The values that a type's lifting may give. *)
IsScalar(k, v) ==
  CASE k = "bool"      -> v \in BOOLEAN
    [] k = "char"      -> v \in 0..5 \cup 8..9
    [] k \in Signed   -> v \in -(Wide(k) \div 2) .. (Wide(k) \div 2) - 1
    [] OTHER           -> v \in 0..Wide(k)-1

(* Loosely, as the facade sees it: any NaN and lone surrogates in a string *)
(* are for lowering to replace, the length of a fixed list for an          *)
(* assertion there, and the value of a boxed option may be left out.       *)
RECURSIVE IsValue(_, _, _)
IsValue(t, v, loosely) ==
  CASE t.k \in Floats  -> v \in 0..(IF loosely THEN Wide(t.k) - 1 ELSE CanonicalNan(t.k))
    [] t.k \in Scalars \ Floats -> IsScalar(t.k, v)
    [] t.k = "string"  -> \A i \in DOMAIN v : v[i] \in Chars \cup (IF loosely THEN {"s"} ELSE {})
    [] t.k = "list"    -> (loosely \/ t.n \in {Var, Len(v)}) /\ \A i \in DOMAIN v : IsValue(t.e, v[i], loosely)
    [] t.k = "record"  -> Len(v) = Len(t.fs) /\ \A i \in DOMAIN v : IsValue(t.fs[i], v[i], loosely)
    [] t.k = "variant" -> /\ v[1] \in DOMAIN t.cs
                          /\ \/ Len(v) = 1 + Len(t.cs[v[1]])
                             \/ loosely /\ IsOption(t) /\ Len(v) = 1
                          /\ \A i \in 2..Len(v) : IsValue(t.cs[v[1]][1], v[i], loosely)
    [] t.k = "flags"   -> \A i \in 1..t.n : v[i] \in BOOLEAN

(* A few values of each type, the ends of its range among them. *)
Sample ==
  [bool |-> BOOLEAN, u8 |-> {0, 1}, s8 |-> {-1, 0}, u16 |-> {1, 3}, s16 |-> {-2, 1},
   u32 |-> {9, 15}, s32 |-> {-8, 7}, u64 |-> {20, 255}, s64 |-> {-128, -1},
   f32 |-> {6, 15}, f64 |-> {20, 255}, char |-> {5, 8}]

Each(sets) == FoldLeft(LAMBDA acc, S : {Append(x, v) : x \in acc, v \in S}, {<<>>}, sets)

RECURSIVE Values(_)
ValuesOf(ts) == Each([i \in DOMAIN ts |-> Values(ts[i])])
Values(t) ==
  CASE t.k \in Scalars -> Sample[t.k]
    [] t.k = "string"  -> Texts
    [] t.k = "list"    -> UNION {Each([i \in 1..n |-> Values(t.e)]) :
                                   n \in IF t.n = Var THEN 0..2 ELSE {t.n}}
    [] t.k = "record"  -> ValuesOf(t.fs)
    [] t.k = "variant" -> UNION {{<<i>> \o p : p \in ValuesOf(t.cs[i])} : i \in DOMAIN t.cs}
    [] t.k = "flags"   -> [1..t.n -> BOOLEAN]

(* The value that comes back: no lone surrogate, and one NaN. *)
RECURSIVE Canonical(_, _)
Canonical(t, v) ==
  CASE t.k \in Floats  -> Canonicalized(t.k, v)
    [] t.k = "string"  -> WellFormed(v)
    [] t.k = "list"    -> [i \in DOMAIN v |-> Canonical(t.e, v[i])]
    [] t.k = "record"  -> [i \in DOMAIN v |-> Canonical(t.fs[i], v[i])]
    [] t.k = "variant" -> [i \in DOMAIN v |-> IF i = 1 THEN v[1] ELSE Canonical(t.cs[v[1]][1], v[i])]
    [] OTHER           -> v

(* The ways to write a value: a flag that is not set may be absent, a      *)
(* field of no value undefined, bytes an array of any numbers, a boolean   *)
(* anything that is true or false, and a case without a payload may have   *)
(* a value.                                                                *)
Truths(b) == {h \in {Truth(b), Number(IF b THEN 1 ELSE 0), Undefined} : Truthy(h) = b}
RECURSIVE Spellings(_, _, _)
SpellingsOf(ts, vs) == Each([i \in DOMAIN ts |-> Spellings(ts[i], vs[i], FALSE)])
Spellings(t, v, inOption) ==
  CASE t.k = "bool"    -> Truths(v)
    [] t.k \in Scalars \ {"bool"} -> {Scalar(t.k, v)}
    [] t.k = "string"  -> {Text(v)}
    [] t.k = "list"    -> IF t.e.k = "u8" THEN {ByteArray(v), Array([i \in DOMAIN v |-> Number(v[i] + Wide("u8"))])}
                          ELSE {Array(hs) : hs \in SpellingsOf([i \in DOMAIN v |-> t.e], v)}
    [] t.k = "record"  -> LET all == SpellingsOf(t.fs, v)
                              present(hs) == {i \in DOMAIN hs : ~IsOption(t.fs[i]) \/ hs[i] # Undefined}
                          IN  IF t.as = "tuple" THEN {Array(hs) : hs \in all}
                              ELSE {Object(hs) : hs \in all}
                                     \cup {Object([i \in present(hs) |-> hs[i]]) : hs \in all}
    [] t.k = "variant" ->
         LET payloads == IF Len(v) = 1 THEN {<<>>} ELSE {<<h>> : h \in Spellings(t.cs[v[1]][1], v[2], IsOption(t))}
             tagged == {InCase(v[1], p) : p \in payloads \cup (IF Len(v) = 1 THEN {<<Number(9)>>} ELSE {})}
         IN  CASE t.as = "enum" -> {Label(v[1])}
               [] IsOption(t) /\ ~inOption -> IF v[1] = 1 THEN {Undefined} ELSE {p[1] : p \in payloads}
               [] OTHER -> tagged
    [] t.k = "flags"   -> LET spelled == {Object(hs) : hs \in Each([i \in 1..t.n |-> Truths(v[i])])}
                          IN  spelled \cup {Object([i \in {j \in 1..t.n : v[j]} |-> Truth(TRUE)])}

(* What a host may write amiss: something else in some place, an item, a   *)
(* field or a payload left out.                                            *)
Amiss == {Undefined, Number(9), Bigint(300), Text(<<>>), Surrogate, Label(9), Array(<<>>),
          Object(<<>>), InCase(9, <<>>)}
LeftOut(h) ==
  CASE h.is = "array"  -> {Array(Tail(h.it)) : x \in {0} \ {Len(h.it)}}
    [] h.is = "object" -> {Object([j \in DOMAIN h.it \ {i} |-> h.it[j]]) : i \in DOMAIN h.it}
    [] h.is = "case" -> {InCase(h.kind, <<>>)}
    [] OTHER           -> {}
RECURSIVE Mangles(_)
Mangles(h) ==
  Amiss \cup LeftOut(h) \cup
  IF h.is \in {"array", "object", "case"}
    THEN UNION {{[h EXCEPT !.it[i] = m] : m \in Mangles(h.it[i])} : i \in DOMAIN h.it}
    ELSE {}

-----------------------------------------------------------------------------
(* Where a list of values crosses, and how many lanes it may take there:   *)
(* the arguments of an export, the results of an import, and both of an    *)
(* asynchronous import, whose results always go through the out parameter. *)
Legs == {"args", "results", "asyncArgs", "asyncResults"}
Limit(leg) ==
  CASE leg = "args"         -> MaxFlatParams
    [] leg = "results"      -> MaxFlatResults
    [] leg = "asyncArgs"    -> MaxFlatAsyncParams
    [] leg = "asyncResults" -> 0

Core(c) ==
  CASE c.leg = "args"         -> FlattenFunctype(c.ts, <<>>, FALSE, "lift", c.w)
    [] c.leg = "results"      -> FlattenFunctype(<<>>, c.ts, FALSE, "lower", c.w)
    [] c.leg = "asyncArgs"    -> FlattenFunctype(c.ts, <<>>, TRUE, "lower", c.w)
    [] c.leg = "asyncResults" -> FlattenFunctype(<<>>, c.ts, TRUE, "lower", c.w)

(* The block of the out parameter: the guest's first, when its signature   *)
(* has one.                                                                *)
Out(c) ==
  IF c.leg \in {"results", "asyncResults"} THEN IF Core(c).params # <<>> THEN 1 ELSE 0 ELSE 0

ValuesInit ==
  /\ \E i \in DOMAIN Signatures : \E vs \in ValuesOf(Signatures[i]) :
       /\ call = [ts |-> Signatures[i], vs |-> vs]
       /\ host \in SpellingsOf(Signatures[i], vs)
  /\ raw = <<>> /\ mem = <<>> /\ lanes = <<>>
  /\ got = Good(<<>>)
  /\ stage = "called"
  /\ mangled = FALSE /\ tampered = FALSE

(* The host writes something else for one of the values. *)
Mangle ==
  /\ stage = "called" /\ ~mangled
  /\ host = ToHosts(call.ts, call.vs)
  /\ \E i \in DOMAIN host : \E h \in Mangles(host[i]) : host' = [host EXCEPT ![i] = h]
  /\ mangled' = TRUE
  /\ UNCHANGED <<call, raw, mem, lanes, got, stage, tampered>>

(* All of the values are prepared before anything is lowered. *)
Prepare ==
  /\ stage = "called"
  /\ LET taken(r) == IF r.ok THEN raw' = r.v /\ stage' = "prepared"
                     ELSE raw' = raw /\ stage' = "refused"
     IN  taken(PrepareItems(call.ts, host))
  /\ host' = <<>>
  /\ UNCHANGED <<call, mem, lanes, got, mangled, tampered>>

(* On some leg, to some guest.  What a mangled spelling was taken for is a *)
(* value like another.                                                     *)
Crossed(r) == mem' = r.m /\ lanes' = r.lanes
LoweredFor(c, out) ==
  LowerFlatValues(IF out = 0 THEN <<>> ELSE TupleBlock(<<>>, Tuple(c.ts), c.w),
                  raw, c.ts, Limit(c.leg), out, c)
Lower ==
  /\ stage = "prepared" /\ ~mangled
  /\ \E leg \in Legs, g \in Guests : call' = call @@ [leg |-> leg, w |-> g.w, enc |-> g.enc]
  /\ Crossed(LoweredFor(call', Out(call')))
  /\ stage' = "lowered"
  /\ UNCHANGED <<host, raw, got, mangled, tampered>>

(* A string goes on to another guest, through an adapter and a transcoder, *)
(* between memories of 32 bits, or it traps there.                         *)
Forwards ==
  /\ stage = "lowered" /\ call.leg = "args" /\ call.w = 4
  /\ Len(call.ts) = 1 /\ call.ts[1].k = "string"
Passed == Source(mem, lanes[1].v, lanes[2].v, call.enc, Tag(call.w))

ForwardTraps ==
  /\ Forwards /\ ~Passed.ok
  /\ got' = Passed /\ stage' = "lifted"
  /\ UNCHANGED <<call, host, raw, mem, lanes, mangled, tampered>>

Forward ==
  /\ Forwards /\ Passed.ok
  /\ \E to \in {"utf8", "utf16", "latin1+utf16"} :
       /\ call' = [call EXCEPT !.enc = to]
       /\ Crossed(Pair(Transcoded(mem, lanes[1].v, lanes[2].v, call.enc, to, Tag(call.w)), call.w))
  /\ stage' = "forwarded"
  /\ UNCHANGED <<host, raw, got, mangled, tampered>>

(* A guest hands back a lane or a byte that is not what it was given. *)
Spoiled(cell) ==
  IF cell = Junk THEN {<<1>>} ELSE IF Len(cell) = 1 THEN {<<1 - cell[1]>>} ELSE {Low("s", 1), Low("a", 1)}
LaneValues(t) ==
  IF t \in {"i32", "f32"} THEN {0, 1, 3, 6, 10, 15} ELSE {1, 20, 31, 250}

Tamper ==
  /\ stage \in {"lowered", "forwarded"} /\ ~tampered
  /\ tampered' = TRUE
  /\ \/ \E i \in DOMAIN lanes : \E v \in LaneValues(lanes[i].t) :
          lanes' = [lanes EXCEPT ![i].v = v] /\ mem' = mem
     \/ \E b \in DOMAIN mem : \E i \in DOMAIN mem[b].cells : \E cell \in Spoiled(mem[b].cells[i]) :
          mem' = [mem EXCEPT ![b].cells[i] = cell] /\ lanes' = lanes
  /\ UNCHANGED <<call, host, raw, got, stage, mangled>>

(* The guest that was given an out parameter hands its pointer back. *)
Lift ==
  /\ stage \in {"lowered", "forwarded"}
  /\ LET received(out) == IF out = 0 THEN lanes ELSE <<Lane(PtrType(call.w), out)>>
     IN  got' = LiftFlatValues(mem, call.ts, received(Out(call)), Limit(call.leg), call)
  /\ stage' = "lifted"
  /\ UNCHANGED <<call, host, raw, mem, lanes, mangled, tampered>>

ValuesNext == Mangle \/ Prepare \/ Lower \/ Forward \/ ForwardTraps \/ Tamper \/ Lift

-----------------------------------------------------------------------------
(* What crosses comes back: however the host spells its values, and through *)
(* every encoding, pointer width and spill, it is given the canonical       *)
(* spelling of what it meant, with lone surrogates replaced and every NaN   *)
(* the canonical one.                                                       *)
RoundTrip ==
  stage = "lifted" /\ ~tampered =>
    /\ got.ok
    /\ ToHosts(call.ts, got.v) \in
         SpellingsOf(call.ts, [i \in DOMAIN call.ts |-> Canonical(call.ts[i], call.vs[i])])

(* Whatever a guest hands back, lifting gives a value of the type or        *)
(* traps, and whatever a host writes, the facade takes it for a value of    *)
(* the type or refuses: no case out of range, no surrogate for a char, no   *)
(* integer wider than its type, no field left out.                          *)
OnlyValues ==
  /\ stage = "lifted" /\ got.ok => \A i \in DOMAIN call.ts : IsValue(call.ts[i], got.v[i], FALSE)
  /\ stage = "prepared" => \A i \in DOMAIN call.ts : IsValue(call.ts[i], raw[i], TRUE)

(* Nothing is stored past the block that was asked for, nor off the         *)
(* alignment it was asked with: what an operand's realloc promises is what  *)
(* its stores need, for every shape, encoding and pointer width.            *)
WritesFit == \A b \in DOMAIN mem : mem[b].sound /\ Len(mem[b].cells) = mem[b].size

(* Values cross whole, only values cross, and they stay in their blocks. *)
ValuesCross == RoundTrip /\ OnlyValues /\ WritesFit
=============================================================================
