----------------------------- MODULE CanonicalAbi -----------------------------
(***************************************************************************)
(* Component values at the canonical ABI: the byte layout of a type        *)
(* (cabi/layout.ts), its flat core types (flatten.ts), lowering into core  *)
(* values and memory (lower.ts, store.ts, bulk_lists.ts) and lifting back  *)
(* (lift.ts, load.ts), with the spill of a long list of values through     *)
(* memory (values.ts).                                                     *)
(*                                                                         *)
(* A byte has ByteValues values instead of 256, and every width, threshold *)
(* and limit that the code derives from bytes scales with it.  A float is  *)
(* its bit pattern.  A pointer is the number of a block.                   *)
(***************************************************************************)
EXTENDS CanonicalStrings

CONSTANTS MaxFlatParams, MaxFlatAsyncParams, MaxFlatResults

ASSUME LimitsAssumption == {MaxFlatParams, MaxFlatAsyncParams, MaxFlatResults} \subseteq Nat

-----------------------------------------------------------------------------
(* Types, and the shapes the specialised ones stand for. *)
Var == -1
Prim(k) == [k |-> k]
List(t) == [k |-> "list", e |-> t, n |-> Var]
Fixed(t, n) == [k |-> "list", e |-> t, n |-> n]
Record(ts) == [k |-> "record", fs |-> ts, as |-> "record"]
Variant(cases) == [k |-> "variant", cs |-> cases, as |-> "variant"]   \* a case is <<>> or <<type>>
Flags(n) == [k |-> "flags", n |-> n]

Tuple(ts) == [Record(ts) EXCEPT !.as = "tuple"]
Enum(n) == [Variant([i \in 1..n |-> <<>>]) EXCEPT !.as = "enum"]
Option(t) == [Variant(<< <<>>, <<t>> >>) EXCEPT !.as = "option"]
Result(ok, error) == [Variant(<<ok, error>>) EXCEPT !.as = "result"]
Map(key, value) == List(Tuple(<<key, value>>))

ByteValues == 2
Power(n) == ByteValues ^ n

Bytes == [bool |-> 1, u8 |-> 1, s8 |-> 1, u16 |-> 2, s16 |-> 2, u32 |-> 4, s32 |-> 4,
          f32 |-> 4, char |-> 4, u64 |-> 8, s64 |-> 8, f64 |-> 8]
Scalars == DOMAIN Bytes
Signed == {"s8", "s16", "s32", "s64"}
Floats == {"f32", "f64"}

DiscSize(n) == IF n <= Power(1) THEN 1 ELSE IF n <= Power(2) THEN 2 ELSE 4
FlagBytes(n) == IF n <= 1 THEN 1 ELSE IF n <= 2 THEN 2 ELSE 4   \* a byte holds one flag

(* NaNs: the top quarter of the patterns, of which one is canonical. *)
CanonicalNan(k) == (3 * Power(Bytes[k])) \div 4
IsNan(k, bits) == bits >= CanonicalNan(k)
Canonicalized(k, bits) == IF IsNan(k, bits) THEN CanonicalNan(k) ELSE bits

(* The scalar values that are a char: not the surrogates, not past the end. *)
IsChar(i) == i \in 0..9 \ {6, 7}

-----------------------------------------------------------------------------
(* Layout. *)
AlignTo(p, a) == ((p + a - 1) \div a) * a
Payloads(t) == {t.cs[i][1] : i \in {j \in DOMAIN t.cs : t.cs[j] # <<>>}}

RECURSIVE Align(_, _), Size(_, _)
CaseAlign(t, w) == Max({1} \cup {Align(p, w) : p \in Payloads(t)})
Align(t, w) ==
  CASE t.k \in Scalars -> Bytes[t.k]
    [] t.k = "string"  -> w
    [] t.k = "list"    -> IF t.n = Var THEN w ELSE Align(t.e, w)
    [] t.k = "record"  -> Max({1} \cup {Align(f, w) : f \in {t.fs[i] : i \in DOMAIN t.fs}})
    [] t.k = "variant" -> Max({DiscSize(Len(t.cs)), CaseAlign(t, w)})
    [] t.k = "flags"   -> FlagBytes(t.n)

(* Where each field of a record is, and where the last one ends. *)
Placed(fs, w) ==
  FoldLeft(LAMBDA acc, f : LET at == AlignTo(acc.end, Align(f, w))
                           IN  [at |-> Append(acc.at, at), end |-> at + Size(f, w)],
           [at |-> <<>>, end |-> 0], fs)
PayloadAt(t, w) == AlignTo(DiscSize(Len(t.cs)), CaseAlign(t, w))

Size(t, w) ==
  CASE t.k \in Scalars -> Bytes[t.k]
    [] t.k = "string"  -> 2 * w
    [] t.k = "list"    -> IF t.n = Var THEN 2 * w ELSE t.n * Size(t.e, w)
    [] t.k = "record"  -> AlignTo(Placed(t.fs, w).end, Align(t, w))
    [] t.k = "variant" -> AlignTo(PayloadAt(t, w) + Max({0} \cup {Size(p, w) : p \in Payloads(t)}),
                                  Align(t, w))
    [] t.k = "flags"   -> FlagBytes(t.n)

-----------------------------------------------------------------------------
(* Flattening. *)
Join(a, b) == IF a = b THEN a ELSE IF {a, b} = {"i32", "f32"} THEN "i32" ELSE "i64"

PtrType(w) == IF w = 4 THEN "i32" ELSE "i64"
LaneOf(k) == CASE k \in {"u64", "s64"} -> "i64" [] k \in Floats -> k [] OTHER -> "i32"

Joined(a, b) ==
  [i \in 1..Max({Len(a), Len(b)}) |->
     IF i > Len(a) THEN b[i] ELSE IF i > Len(b) THEN a[i] ELSE Join(a[i], b[i])]

RECURSIVE FlattenType(_, _)
FlattenTypes(ts, w) == FlattenSeq([i \in 1..Len(ts) |-> FlattenType(ts[i], w)])
FlattenPayloads(cs, w) ==
  FoldLeft(LAMBDA flat, c : Joined(flat, FlattenTypes(c, w)), <<>>, cs)
FlattenType(t, w) ==
  CASE t.k \in Scalars -> <<LaneOf(t.k)>>
    [] t.k = "string"  -> <<PtrType(w), PtrType(w)>>
    [] t.k = "list"    -> IF t.n = Var THEN <<PtrType(w), PtrType(w)>>
                          ELSE FlattenTypes([i \in 1..t.n |-> t.e], w)
    [] t.k = "record"  -> FlattenTypes(t.fs, w)
    [] t.k = "variant" -> <<"i32">> \o FlattenPayloads(t.cs, w)
    [] t.k = "flags"   -> <<"i32">>

Spills(ts, w, max) == Len(FlattenTypes(ts, w)) > max

(* The core signature of a function, from its flat parameters and results. *)
CoreSignature(params, results, ptr, async, context) ==
  LET spilled(flat, max) == IF Len(flat) > max THEN ptr ELSE flat
      out(max) == IF Len(results) > max THEN ptr ELSE <<>>
  IN  CASE ~async /\ context = "lift" ->
             [params |-> spilled(params, MaxFlatParams), results |-> spilled(results, MaxFlatResults)]
        [] ~async /\ context = "lower" ->
             [params |-> spilled(params, MaxFlatParams) \o out(MaxFlatResults),
              results |-> IF Len(results) > MaxFlatResults THEN <<>> ELSE results]
        [] async /\ context = "lift" ->
             [params |-> spilled(params, MaxFlatParams), results |-> <<"i32">>]
        [] async /\ context = "lower" ->
             [params |-> spilled(params, MaxFlatAsyncParams) \o out(0), results |-> <<"i32">>]
FlattenFunctype(params, results, async, context, w) ==
  CoreSignature(FlattenTypes(params, w), FlattenTypes(results, w), <<PtrType(w)>>, async, context)

-----------------------------------------------------------------------------
(* Integers in memory. *)
Digits(n, k) == [i \in 1..k |-> <<(n \div Power(i - 1)) % ByteValues>>]
Value(cells) ==
  FoldLeft(LAMBDA acc, i : acc + Power(i - 1) * (IF cells[i] = Junk THEN 1 ELSE cells[i][1]),
           0, [i \in 1..Len(cells) |-> i])
Tag(w) == Power(w) \div 2

(* The bits of a scalar, and the scalar of bits that may not be its own. *)
Bits(k, v) ==
  CASE k = "bool"      -> IF v THEN 1 ELSE 0
    [] k \in Floats   -> Canonicalized(k, v)
    [] OTHER           -> v % Power(Bytes[k])

Good(v) == [ok |-> TRUE, v |-> v]
Trap(v) == [ok |-> FALSE, v |-> v]

FromBits(k, bits) ==
  LET n == bits % Power(Bytes[k])
  IN  CASE k = "bool"      -> Good(bits # 0)
        [] k = "char"      -> IF IsChar(bits) THEN Good(bits) ELSE Trap(bits)
        [] k \in Floats   -> Good(Canonicalized(k, n))
        [] k \in Signed   -> Good(IF 2 * n >= Power(Bytes[k]) THEN n - Power(Bytes[k]) ELSE n)
        [] OTHER           -> Good(n)

(* Flags: the first label is the lowest bit. *)
PackFlags(v) == FoldLeft(LAMBDA acc, i : acc + (IF v[i] THEN 2 ^ (i - 1) ELSE 0),
                         0, [i \in 1..Len(v) |-> i])
UnpackFlags(bits, n) == [i \in 1..n |-> (bits \div (2 ^ (i - 1))) % 2 = 1]

-----------------------------------------------------------------------------
(* Storing into memory.  e is the encoding and the pointer width of the    *)
(* guest.  A store that is not aligned, or not in the block that has been  *)
(* asked for, spoils the block.                                            *)
At(m, b, at, n) == SubSeq(m[b].cells, at + 1, at + n)
Checked(m, b, at, t, e) ==
  IF at % Align(t, e.w) = 0 /\ m[b].align % Align(t, e.w) = 0 /\ at + Size(t, e.w) <= m[b].size
    THEN m ELSE [m EXCEPT ![b].sound = FALSE]

(* A list of numbers is written and read at once, through a typed array. *)
Bulk(k) == k \in Scalars \ {"char"}
StoreNumericList(m, vs, k, b, at) ==
  Written(m, b, at, FlattenSeq([i \in 1..Len(vs) |-> Digits(Bits(k, vs[i]), Bytes[k])]))

StorePair(s, b, at, e) ==
  Written(s.m, b, at, Digits(s.ptr, e.w) \o Digits(s.units, e.w))

RECURSIVE Store(_, _, _, _, _, _)
StoreElements(m, vs, t, b, at, e) ==
  IF Bulk(t.k) THEN StoreNumericList(m, vs, t.k, b, at)
  ELSE FoldLeft(LAMBDA acc, i : Store(acc, vs[i], t, b, at + (i - 1) * Size(t, e.w), e),
                m, [i \in 1..Len(vs) |-> i])

(* Elements in a block of their own: the memory, the pointer, the count. *)
StoreListIntoRange(m, vs, t, e) ==
  LET b == Len(m) + 1
  IN  [m |-> StoreElements(Allocated(m, Align(t, e.w), Len(vs) * Size(t, e.w)), vs, t, b, 0, e),
       ptr |-> b, units |-> Len(vs)]

StoreRecord(m, v, t, b, at, e) ==
  FoldLeft(LAMBDA acc, i : Store(acc, v[i], t.fs[i], b, at + Placed(t.fs, e.w).at[i], e),
           m, [i \in 1..Len(v) |-> i])

(* The index of the case, then its payload. *)
StorePayload(disc, v, ts, b, at, e) ==
  IF ts = <<>> THEN disc ELSE Store(disc, v[2], ts[1], b, at, e)
StoreVariant(m, v, t, b, at, e) ==
  StorePayload(Written(m, b, at, Digits(v[1] - 1, DiscSize(Len(t.cs)))),
               v, t.cs[v[1]], b, at + PayloadAt(t, e.w), e)

StoreAt(m, v, t, b, at, e) ==
  CASE t.k \in Scalars -> Written(m, b, at, Digits(Bits(t.k, v), Bytes[t.k]))
    [] t.k = "string"  -> StorePair(StoreString(m, v, e.enc, Tag(e.w)), b, at, e)
    [] t.k = "list"    -> IF t.n = Var THEN StorePair(StoreListIntoRange(m, v, t.e, e), b, at, e)
                          ELSE StoreElements(m, v, t.e, b, at, e)
    [] t.k = "record"  -> StoreRecord(m, v, t, b, at, e)
    [] t.k = "variant" -> StoreVariant(m, v, t, b, at, e)
    [] t.k = "flags"   -> Written(m, b, at, Digits(PackFlags(v), FlagBytes(t.n)))
Store(m, v, t, b, at, e) == StoreAt(Checked(m, b, at, t, e), v, t, b, at, e)

-----------------------------------------------------------------------------
(* Loading from memory.  A trap anywhere is a trap of the whole. *)
LoadNumericList(m, n, k, b, at) ==
  Good([i \in 1..n |-> FromBits(k, Value(At(m, b, at + (i - 1) * Bytes[k], Bytes[k]))).v])

Together(parts) ==
  FoldLeft(LAMBDA acc, p : [ok |-> acc.ok /\ p.ok, v |-> Append(acc.v, p.v)], Good(<<>>), parts)

RECURSIVE Load(_, _, _, _, _)
LoadElements(m, n, t, b, at, e) ==
  IF Bulk(t.k) THEN LoadNumericList(m, n, t.k, b, at)
  ELSE Together([i \in 1..n |-> Load(m, t, b, at + (i - 1) * Size(t, e.w), e)])
LoadListFromRange(m, ptr, n, t, e) ==
  IF ptr \notin DOMAIN m THEN Trap(<<>>)
  ELSE IF n * Size(t, e.w) > Len(m[ptr].cells) THEN Trap(<<>>)
  ELSE LoadElements(m, n, t, ptr, 0, e)

LoadRecord(m, t, b, at, e) ==
  Together([i \in DOMAIN t.fs |-> Load(m, t.fs[i], b, at + Placed(t.fs, e.w).at[i], e)])

(* The value of the case of this index, if there is one, around what its   *)
(* payload gives, if it has one.                                           *)
CaseValue(t, index, payload) ==
  IF index >= Len(t.cs) THEN Trap(<<>>)
  ELSE IF t.cs[index + 1] = <<>> THEN Good(<<index + 1>>)
  ELSE [payload EXCEPT !.v = <<index + 1, @>>]

LoadCase(m, t, index, b, at, e) == CaseValue(t, index, Load(m, t.cs[index + 1][1], b, at, e))
LoadVariant(m, t, b, at, e) ==
  LoadCase(m, t, Value(At(m, b, at, DiscSize(Len(t.cs)))), b, at + PayloadAt(t, e.w), e)

(* What a pointer and a count stand for, in memory or among the lanes. *)
LoadRange(m, t, ptr, units, e) ==
  IF t.k = "string" THEN LoadString(m, ptr, units, e.enc, Tag(e.w))
  ELSE LoadListFromRange(m, ptr, units, t.e, e)
IsRange(t) == t.k = "string" \/ (t.k = "list" /\ t.n = Var)

Load(m, t, b, at, e) ==
  CASE t.k \in Scalars -> FromBits(t.k, Value(At(m, b, at, Bytes[t.k])))
    [] IsRange(t)      -> LoadRange(m, t, Value(At(m, b, at, e.w)), Value(At(m, b, at + e.w, e.w)), e)
    [] t.k = "list" /\ ~IsRange(t) -> LoadElements(m, t.n, t.e, b, at, e)
    [] t.k = "record"  -> LoadRecord(m, t, b, at, e)
    [] t.k = "variant" -> LoadVariant(m, t, b, at, e)
    [] t.k = "flags"   -> Good(UnpackFlags(Value(At(m, b, at, FlagBytes(t.n))), t.n))

-----------------------------------------------------------------------------
(* Lowering into core values. *)
Lane(t, v) == [t |-> t, v |-> v]
Pair(s, w) ==
  [m |-> s.m, lanes |-> <<Lane(PtrType(w), s.ptr), Lane(PtrType(w), s.units)>>]
LaneBits(k, v) ==
  IF k \in Signed THEN v % Power(IF LaneOf(k) = "i64" THEN 8 ELSE 4) ELSE Bits(k, v)

(* A payload's lane in the lane that the cases share: the same bits. *)
Widens(have, want) ==
  <<have, want>> \in {<<"f32", "i32">>, <<"i32", "i64">>, <<"f32", "i64">>, <<"f64", "i64">>}
ToShared(lane, want) == IF Widens(lane.t, want) THEN Lane(want, lane.v) ELSE lane

RECURSIVE LowerFlat(_, _, _, _)
LowerFlatTypes(m, vs, ts, e) ==
  FoldLeft(LAMBDA acc, i : LET r == LowerFlat(acc.m, vs[i], ts[i], e)
                           IN  [r EXCEPT !.lanes = acc.lanes \o @],
           [m |-> m, lanes |-> <<>>], [i \in 1..Len(vs) |-> i])

(* The lanes of the case, in those that the cases share. *)
Shared(index, r, shared) ==
  LET lane(i) == IF i <= Len(r.lanes) THEN ToShared(r.lanes[i], shared[i]) ELSE Lane(shared[i], 0)
  IN  [r EXCEPT !.lanes = <<Lane("i32", index)>> \o [i \in DOMAIN shared |-> lane(i)]]
LowerFlatVariant(m, v, t, e) ==
  Shared(v[1] - 1, LowerFlatTypes(m, SubSeq(v, 2, Len(v)), t.cs[v[1]], e),
         FlattenPayloads(t.cs, e.w))

LowerFlat(m, v, t, e) ==
  CASE t.k \in Scalars -> [m |-> m, lanes |-> <<Lane(LaneOf(t.k), LaneBits(t.k, v))>>]
    [] t.k = "string"  -> Pair(StoreString(m, v, e.enc, Tag(e.w)), e.w)
    [] t.k = "list"    -> IF t.n = Var THEN Pair(StoreListIntoRange(m, v, t.e, e), e.w)
                          ELSE LowerFlatTypes(m, v, [i \in 1..t.n |-> t.e], e)
    [] t.k = "record"  -> LowerFlatTypes(m, v, t.fs, e)
    [] t.k = "variant" -> LowerFlatVariant(m, v, t, e)
    [] t.k = "flags"   -> [m |-> m, lanes |-> <<Lane("i32", PackFlags(v))>>]

(* Too many lanes go through a tuple in memory: the caller's, when it gave *)
(* the out parameter (0 when it gave none), or one asked for.              *)
TupleBlock(m, t, w) == Allocated(m, Align(t, w), Size(t, w))
LowerFlatValues(m, vs, ts, max, out, e) ==
  IF ~Spills(ts, e.w, max) THEN LowerFlatTypes(m, vs, ts, e)
  ELSE [m |-> Store(IF out = 0 THEN TupleBlock(m, Tuple(ts), e.w) ELSE m, vs, Tuple(ts),
                    IF out = 0 THEN Len(m) + 1 ELSE out, 0, e),
        lanes |-> IF out = 0 THEN <<Lane(PtrType(e.w), Len(m) + 1)>> ELSE <<>>]

-----------------------------------------------------------------------------
(* Lifting core values. *)

(* A shared lane, read as the lane of the case. *)
FromShared(lane, want) ==
  LET bits == IF want \in {"i32", "f32"} THEN lane.v % Power(4) ELSE lane.v
  IN  IF Widens(want, lane.t) THEN Lane(want, IF want \in Floats THEN Canonicalized(want, bits) ELSE bits)
      ELSE lane

RECURSIVE LiftFlat(_, _, _, _)
LiftFlatTypes(m, ts, ls, e) ==
  LET from(i) == Len(FlattenTypes(SubSeq(ts, 1, i - 1), e.w))
      part(i) == SubSeq(ls, from(i) + 1, from(i + 1))
  IN  Together([i \in DOMAIN ts |-> LiftFlat(m, ts[i], part(i), e)])

LiftFlatVariant(m, t, ls, e) ==
  LET payload == t.cs[ls[1].v + 1][1]
      coerced(own) == [i \in DOMAIN own |-> FromShared(ls[i + 1], own[i])]
  IN  CaseValue(t, ls[1].v, LiftFlat(m, payload, coerced(FlattenType(payload, e.w)), e))

LiftFlat(m, t, ls, e) ==
  CASE t.k \in Scalars -> IF ls[1].t = LaneOf(t.k) THEN FromBits(t.k, ls[1].v) ELSE Trap(<<>>)
    [] IsRange(t)      -> LoadRange(m, t, ls[1].v, ls[2].v, e)
    [] t.k = "list" /\ ~IsRange(t) -> LiftFlatTypes(m, [i \in 1..t.n |-> t.e], ls, e)
    [] t.k = "record"  -> LiftFlatTypes(m, t.fs, ls, e)
    [] t.k = "variant" -> LiftFlatVariant(m, t, ls, e)
    [] t.k = "flags"   -> Good(UnpackFlags(ls[1].v, t.n))

LiftFlatValues(m, ts, ls, max, e) ==
  IF ~Spills(ts, e.w, max) THEN LiftFlatTypes(m, ts, ls, e)
  ELSE IF ls[1].v \notin DOMAIN m THEN Trap(<<>>)
  ELSE IF Size(Tuple(ts), e.w) > Len(m[ls[1].v].cells) THEN Trap(<<>>)
  ELSE Load(m, Tuple(ts), ls[1].v, 0, e)
=============================================================================
