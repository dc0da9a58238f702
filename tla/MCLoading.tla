------------------------------ MODULE MCLoading ------------------------------
(***************************************************************************)
(* What lies between a component's bytes and the values its calls carry,   *)
(* one scene at a time: the artifact cache, the compiled modules, the      *)
(* choice of providers, the plan and its instantiation, the calls of an    *)
(* import, the values that cross, the handles of futures and of streams,   *)
(* the activation a built-in runs for.                                     *)
(* The variables of the other scenes rest in one initial state.            *)
(***************************************************************************)
EXTENDS ValueCrossings, ArtifactCaches, ModuleCache, ImportVersions, HostCalls, Instantiation,
        FutureHandles, StreamHandles, Activations

VARIABLE scene

loadingVars == <<scene, cacheVars, moduleVars, versionVars, hostVars, linkVars, valueVars,
                 futureVars, handleVars, activationVars>>

(* Keys of imports: versions, tracks, and what is neither.                 *)
Version(a, b, c, pre, build) ==
    [base |-> "a", ver |-> [form |-> "semver", num |-> <<a, b, c>>, pre |-> pre, build |-> build]]
TrackKey(t) == [base |-> "a", ver |-> [form |-> "track", track |-> t]]

MCKeys ==
    {Version(1, 0, 0, <<>>, ""), Version(1, 2, 0, <<>>, ""), Version(1, 2, 0, <<>>, "b"),
     Version(1, 1, 9, <<>>, ""), Version(1, 3, 0, <<"rc">>, ""), Version(0, 2, 3, <<>>, ""),
     Version(0, 2, 10, <<>>, ""), Version(0, 0, 1, <<>>, ""), Version(2, 0, 0, <<>>, ""),
     TrackKey(<<1>>), TrackKey(<<0, 2>>)} \cup
    {[base |-> "a", ver |-> [form |-> f]] : f \in {"none", "zero", "other"}} \cup
    {[base |-> "b", ver |-> [form |-> "none"]]}

-----------------------------------------------------------------------------
(* Signatures in which every kind of type occurs, flat and spilled.        *)
P(k) == Prim(k)

MCTexts == {<<>>, <<"a">>, <<"e", "a">>, <<"a", "z">>, <<"e", "y", "a">>,
            <<"a", "e", "w">>, <<"s", "a">>, <<"w", "e">>}

MCGuests == [w : {4}, enc : {"utf8", "utf16"}] \cup [w : {4, 8}, enc : {"latin1+utf16"}]

MCSignatures ==
  << <<P("string")>>,
     <<P("bool"), P("u8"), P("s8"), P("char")>>,
     <<P("u64"), P("s16"), P("s32")>>,
     <<P("u16"), P("f32"), P("s64"), P("f64")>>,
     <<Variant(<< <<P("f32")>>, <<P("u32")>>, <<P("f64")>>, <<>> >>), P("s8")>>,
     <<Variant(<< <<P("s16")>>, <<Tuple(<<P("u8"), P("s64")>>)>> >>)>>,
     <<Option(P("string")), Flags(2)>>,
     <<Result(<<P("char")>>, <<P("f32")>>), Enum(3), Flags(2)>>,
     <<Enum(5), Flags(4)>>,
     <<List(P("u16")), P("bool")>>,
     <<Fixed(P("u8"), 2), List(P("char"))>>,
     <<List(Option(P("s32"))), P("u8")>>,
     <<List(Record(<<P("u8"), P("f64")>>))>>,
     <<Map(P("u8"), P("bool")), P("f32")>>,
     <<Record(<<P("bool"), P("string"), P("u16")>>)>>,
     <<Option(Option(P("bool"))), Record(<<Option(P("u16")), P("bool")>>)>> >>

-----------------------------------------------------------------------------
(* Plans: a chain of three guests, the last of which exports, with a FACT  *)
(* adapter between neighbours; and one such plan with every fault of a     *)
(* kind in turn.                                                           *)
Own == {"task-return", "waitable-set-wait", "subtask-cancel", "lower-import"}
Links == {"enter-sync-call", "sync-start-call", "async-start-call"}

Tramp(kind, k) ==
    [kind |-> kind, index |-> k, instance |-> 1, options |-> 1, type |-> 1, lowered |-> 1,
     async |-> TRUE, results |-> 1, resultType |-> Null, callback |-> 1]
Item == [name |-> "f", space |-> "func"]
Exp(k) == [kind |-> "export", instance |-> k, item |-> Item]
Tra(k) == [kind |-> "trampoline", index |-> k]
Guest == [kind |-> "embedded", offset |-> 0, len |-> 8, imports |-> 2]
Leaf == [Guest EXCEPT !.imports = 1]
Adapter(e, t) == [kind |-> "adapter", file |-> "a", len |-> 8, imports |-> 2,
    intrinsics |-> <<[module |-> "m", name |-> "f", category |-> "c", def |-> Exp(e)],
                     [module |-> "m", name |-> "t", category |-> "c", def |-> Tra(t)]>>]
Inst(m, i, args) == [op |-> "instantiate-module", module |-> m, instance |-> i, args |-> args]
Options(async, callback) ==
    [instance |-> 1, stringEncoding |-> "utf8", memory |-> Null, realloc |-> Null,
     postReturn |-> Null, callback |-> callback, async |-> async, cancellable |-> FALSE,
     coreType |-> [params |-> <<>>, results |-> <<>>]]
U8 == [kind |-> "u8"]
Types(async) ==
    <<[kind |-> "func", params |-> <<U8, [kind |-> "own", resource |-> 1]>>,
       results |-> <<[kind |-> "result", parts |-> <<U8>>]>>, async |-> async]>>

\* own: what each guest imports besides its neighbour; link: how the adapters
\* call; lift: how the last guest is lifted.
Plan(own, link, lift) ==
    [formatVersion |-> 6,
     modules |-> <<Leaf, Guest, Guest, Adapter(1, 4), Adapter(3, 5)>>,
     trampolines |-> [k \in 1..5 |-> Tramp(IF k < 4 THEN own[k] ELSE link[k - 3], k)],
     initializers |->
        <<[op |-> "lower-import", index |-> 1, import |-> 1],
          Inst(1, 1, <<Tra(1)>>),
          [op |-> "extract-callback", index |-> 1, def |-> Exp(1)],
          Inst(4, Null, <<Exp(1), Tra(4)>>),
          Inst(2, 2, <<Exp(2), Tra(2)>>),
          Inst(5, Null, <<Exp(3), Tra(5)>>),
          Inst(3, 3, <<Exp(4), Tra(3)>>)>>,
     canonicalOptions |-> <<Options(lift # "sync", IF lift = "stackful" THEN Null ELSE 1)>>,
     types |-> Types(lift # "sync"), resourceTables |-> <<"r">>,
     streamTables |-> <<>>, futureTables |-> <<>>, errorContextTables |-> <<>>,
     imports |-> <<[name |-> "h", path |-> <<>>, kind |-> "func", type |-> 1]>>,
     importedResources |-> <<>>,
     exports |-> <<[kind |-> "lifted-func", name |-> "run", coreDef |-> Exp(5),
                    options |-> 1, type |-> 1]>>]

Input(wire, func, requested, engine, start, fault) ==
    [wire |-> wire, hosts |-> <<func>>, requested |-> requested, engine |-> engine,
     start |-> start, fault |-> fault]

Linkings ==
    {Input(Plan(own, link, lift), func, "auto", TRUE, 0, "none") :
        own \in [1..3 -> Own], link \in [1..2 -> Links], lift \in {"sync", "stackful"},
        func \in {"plain", "suspending"}}
Starts ==
    {Input(Plan(<<own, "task-return", "task-return">>, link, "callback"), "suspending",
           "auto", TRUE, 1, "none") : own \in Own, link \in [1..2 -> Links]}
Modes ==
    {Input(Plan(<<"waitable-set-wait", "lower-import", "task-return">>, link, lift),
           func, mode[1], mode[2], 2, "none") :
        link \in [1..2 -> Links], lift \in {"sync", "callback"}, func \in {"plain", "missing"},
        mode \in {<<"on", TRUE>>, <<"off", TRUE>>, <<"auto", FALSE>>}}

(* -- faults -------------------------------------------------------------------- *)

Sound == Plan(<<"lower-import", "task-return", "waitable-set-wait">>,
              <<"async-start-call", "enter-sync-call">>, "callback")
Without(o, f) == [g \in DOMAIN o \ {f} |-> o[g]]

\* The loader's tables, less one required field of one entry, or of one of the
\* definitions an initializer holds.
Missing ==
    {Without(Sound, t) : t \in Tables \cup {"formatVersion"}} \cup
    UNION {{[Sound EXCEPT ![t][i] = Without(Sound[t][i], f)] :
               f \in DOMAIN Sound[t][i] \ {"imports", "async", "callback", "results", "instance",
                                           "resultType", "type"}} :
               t \in {"initializers", "modules"}, i \in 1..5} \cup
    {[Sound EXCEPT !.trampolines[i] = Without(Sound.trampolines[i], f)] :
        i \in 1..2, f \in {"kind", "index"}} \cup
    {[Sound EXCEPT !.trampolines[1] = Without(Sound.trampolines[1], f)] :
        f \in {"lowered", "options", "type"}} \cup
    {[Sound EXCEPT !.canonicalOptions[1] = Without(Sound.canonicalOptions[1], f)] :
        f \in DOMAIN Sound.canonicalOptions[1]} \cup
    {[Sound EXCEPT !.exports[1] = Without(Sound.exports[1], f)] : f \in DOMAIN Sound.exports[1]} \cup
    {[Sound EXCEPT !.imports[1] = Without(Sound.imports[1], f)] : f \in {"name", "path", "kind"}} \cup
    {[Sound EXCEPT !.initializers[4].args[1] = Without(Exp(1), f)] : f \in DOMAIN Exp(1)} \cup
    {[Sound EXCEPT !.initializers[4].args[2] = Without(Tra(4), f)] : f \in DOMAIN Tra(4)} \cup
    {[Sound EXCEPT !.initializers[3].def.item = Without(Item, f)] : f \in DOMAIN Item}

\* References out of range, and initializers that come too late.
Swap(i) == [Sound EXCEPT !.initializers[i] = Sound.initializers[i + 1],
                         !.initializers[i + 1] = Sound.initializers[i]]
Misordered ==
    {Swap(i) : i \in {1, 2, 3, 4, 5, 6}} \cup
    {[Sound EXCEPT !.initializers[1].import = 9],
     [Sound EXCEPT !.initializers[2].module = 9],
     [Sound EXCEPT !.initializers[2].args = <<>>],
     [Sound EXCEPT !.initializers[4].args[1].instance = 9],
     [Sound EXCEPT !.initializers[4].args[2].index = 3],
     [Sound EXCEPT !.initializers[5].args[2].index = 9],
     [Sound EXCEPT !.trampolines[1].type = 9],
     [Sound EXCEPT !.trampolines[4].callback = 9],
     [Sound EXCEPT !.trampolines[2].kind = "resource-transfer-own"],
     [Sound EXCEPT !.exports[1].coreDef.instance = 9],
     [Sound EXCEPT !.exports[1].options = 9],
     [Sound EXCEPT !.types[1].params[2].resource = 9],
     [Sound EXCEPT !.modules[1].len = -1],
     [Sound EXCEPT !.formatVersion = 5],
     [Sound EXCEPT !.canonicalOptions[1].cancellable = TRUE]}

Faults == {Input(w, "plain", "auto", TRUE, 0, "missing") : w \in Missing} \cup
          {Input(w, "plain", "auto", TRUE, 0, "order") : w \in Misordered}

MCInputs == Linkings \cup Starts \cup Modes \cup Faults

-----------------------------------------------------------------------------
(* The scenes.                                                             *)
CacheRests == /\ backend = "none" /\ present = FALSE /\ entry = Empty
              /\ tmp = [p \in Procs |-> Empty] /\ seen = [p \in Procs |-> Empty]
              /\ at = [p \in Procs |-> "start"] /\ faults = 0 /\ crashes = 0
ModulesRest == /\ given = [i \in Insts |-> [plan |-> "p", bytes |-> "a"]]
               /\ slot = [pl \in Plans |-> 0] /\ jobs = <<>>
               /\ doing = [i \in Insts |-> "start"] /\ uses = [i \in Insts |-> 0]
               /\ denied = 0
VersionsRest == /\ record = <<>> /\ registered = 0 /\ outcome = "registering"
                /\ tracks = [t \in {} |-> NoKey] /\ unversioned = [b \in {} |-> NoKey]
LinkRests == /\ input = [wire |-> [initializers |-> <<>>], fault |-> "none"]
             /\ phase = "load" /\ next = 1 /\ insts = <<>> /\ lowerings = <<>>
             /\ extracted = {} /\ blockingFuncs = {} /\ wrapFuncs = {}
             /\ suspendableFuncs = {} /\ stack = <<>> /\ refused = "no"
ValuesRest == /\ call = [ts |-> <<>>, vs |-> <<>>] /\ host = <<>> /\ raw = <<>> /\ mem = <<>>
              /\ lanes = <<>> /\ got = Good(<<>>) /\ stage = "called"
              /\ mangled = FALSE /\ tampered = FALSE

FutureRests == /\ origin = "guest" /\ reader = "call" /\ hops = 0
               /\ up = [e \in Sides |-> TRUE] /\ fut = Fresh /\ hand = Handle("deferred")
               /\ prod = [pc |-> "done", owned |-> FALSE, made |-> 0, released |-> 0]
HandlesRest == /\ source = "pair" /\ holder = "host" /\ turns = 0 /\ sound = TRUE
               /\ pair = [bound |-> FALSE, dropped |-> FALSE] /\ wr = NoWriter
               /\ rd = [there |-> FALSE, dropped |-> FALSE, eos |-> FALSE, asked |-> FALSE]
               /\ lo = [dropped |-> FALSE, poisoned |-> FALSE, w |-> "none", r |-> "none",
                        len |-> 0, got |-> 0, room |-> 0, put |-> 0, taken |-> 0,
                        cause |-> "none"]
ActivationsRest ==
    /\ hopping = TRUE /\ adjacent = TRUE /\ exclusive = TRUE /\ misled = FALSE
    /\ homeOf = [t \in Threads |-> "a"] /\ where = [t \in Threads |-> "new"]
    /\ chain = [t \in Threads |-> <<>>] /\ park = [t \in Threads |-> NotParked]
    /\ nested = {} /\ owed = {} /\ haunts = {} /\ frames = <<>> /\ brackets = <<>>
    /\ claims = <<>> /\ microtasks = <<>> /\ tails = <<>>
    /\ called = 0 /\ born = 0 /\ trips = 0

Init ==
    /\ scene \in {"cache", "modules", "versions", "calls",
                  "linking", "values", "futures", "streams", "activations"}
    /\ IF scene = "cache" THEN CacheInit ELSE CacheRests
    /\ IF scene = "modules" THEN ModuleInit ELSE ModulesRest
    /\ IF scene = "versions" THEN VersionInit ELSE VersionsRest
    /\ HostInit
    /\ IF scene = "linking" THEN LinkInit ELSE LinkRests
    /\ IF scene = "values" THEN ValuesInit ELSE ValuesRest
    /\ IF scene = "futures" THEN FutureInit ELSE FutureRests
    /\ IF scene = "streams" THEN HandlesInit ELSE HandlesRest
    /\ IF scene = "activations" THEN ActivationsInit ELSE ActivationsRest

Next ==
    /\ UNCHANGED scene
    /\ \/ scene = "cache" /\ CacheNext
          /\ UNCHANGED <<moduleVars, versionVars, hostVars, linkVars, valueVars, futureVars, handleVars, activationVars>>
       \/ scene = "modules" /\ ModuleNext
          /\ UNCHANGED <<cacheVars, versionVars, hostVars, linkVars, valueVars, futureVars, handleVars, activationVars>>
       \/ scene = "versions" /\ VersionNext
          /\ UNCHANGED <<cacheVars, moduleVars, hostVars, linkVars, valueVars, futureVars, handleVars, activationVars>>
       \/ scene = "calls" /\ HostNext
          /\ UNCHANGED <<cacheVars, moduleVars, versionVars, linkVars, valueVars, futureVars, handleVars, activationVars>>
       \/ scene = "linking" /\ LinkNext
          /\ UNCHANGED <<cacheVars, moduleVars, versionVars, hostVars, valueVars, futureVars, handleVars, activationVars>>
       \/ scene = "values" /\ ValuesNext
          /\ UNCHANGED <<cacheVars, moduleVars, versionVars, hostVars, linkVars, futureVars, handleVars, activationVars>>
       \/ scene = "futures" /\ FutureNext
          /\ UNCHANGED <<cacheVars, moduleVars, versionVars, hostVars, linkVars, valueVars, handleVars, activationVars>>
       \/ scene = "streams" /\ HandlesNext
          /\ UNCHANGED <<cacheVars, moduleVars, versionVars, hostVars, linkVars, valueVars, futureVars, activationVars>>
       \/ scene = "activations" /\ ActivationsNext
          /\ UNCHANGED <<cacheVars, moduleVars, versionVars, hostVars, linkVars, valueVars, futureVars, handleVars>>

Spec == Init /\ [][Next]_loadingVars
=============================================================================
