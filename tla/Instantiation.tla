---------------------------- MODULE Instantiation ----------------------------
(***************************************************************************)
(* instantiateComponent (runtime/src/exec/executor.ts): a plan is loaded,  *)
(* its initializers run strictly in order and its exports are built; then  *)
(* the host calls in.                                                      *)
(*                                                                         *)
(* Under JSPI an import that may suspend is wrapped as Suspending, and the *)
(* engine traps it unless the innermost entry from JavaScript into wasm,   *)
(* with nothing but wasm frames above it, was promising.  The executor     *)
(* gathers, module by module, which functions need a promising entry; a    *)
(* FACT start call asks it for each callee.  The physical stack below      *)
(* holds those activations.  The plan is a wire document, possibly one     *)
(* with a fault: what the loader lets through, the executor runs into.     *)
(* Core instance k exports one function, named k here, and an adapter      *)
(* also re-exports the callee it is built around.                          *)
(***************************************************************************)
EXTENDS PlanLoader

CONSTANTS Inputs   \* set of [wire, hosts, requested, engine, start, fault]

VARIABLES
    input,         \* the plan document and what the embedder gives with it
    phase,         \* load, run, ready, or how instantiation failed
    next,          \* index of the initializer that runs next
    insts,         \* the core instances: what each one's imports are
    lowerings,     \* lowered index -> plan import
    extracted,     \* indices of the callbacks extracted so far
    blockingFuncs, wrapFuncs, suspendableFuncs,
    stack,         \* activations and wasm frames, innermost last
    refused        \* where a Suspending import was called out of place

linkVars == <<input, phase, next, insts, lowerings, extracted, blockingFuncs,
              wrapFuncs, suspendableFuncs, stack, refused>>

(* -- which suspension discipline (jspi/bridge.ts) ---------------------------- *)

\* trampolineNeedsSuspension: does the declaration block by itself?
NeedsSuspension(t, wire) ==
    \/ t.kind \in {"sync-start-call", "waitable-set-wait"} \cup ThreadKinds
    \/ /\ t.kind \in {"subtask-cancel", "stream-cancel-read", "stream-cancel-write",
                      "future-cancel-read", "future-cancel-write"}
       /\ ~t.async
    \/ /\ t.kind \in {"stream-read", "stream-write", "future-read", "future-write"}
       /\ ~wire.canonicalOptions[t.options].async

\* trampolineCanBlock: must it be wrapped?  A start call, a bracket and a
\* cancellation may park their caller though they never block by themselves.
CanBlock(t, wire) == \/ t.kind \in {"async-start-call", "enter-sync-call", "subtask-cancel"}
                     \/ NeedsSuspension(t, wire)

\* planNeedsSuspension: a stackful asynchronous lift or a blocking trampoline.
PlanNeedsSuspension(wire) ==
    \/ \E i \in DOMAIN wire.canonicalOptions :
          wire.canonicalOptions[i].async /\ wire.canonicalOptions[i].callback = Null
    \/ \E i \in DOMAIN wire.trampolines : NeedsSuspension(wire.trampolines[i], wire)

\* chooseMode: an explicit false wins, and an engine without JSPI stays plain.
Jspi == /\ input.requested # "off" /\ input.engine
        /\ \/ input.requested = "on"
           \/ PlanNeedsSuspension(input.wire)
           \/ \E h \in DOMAIN input.hosts : input.hosts[h] = "suspending"

(* -- resolving definitions --------------------------------------------------- *)

\* A field a wire object lacks reads as undefined, which selects nothing.
Unset == -1
Get(o, f) == IF f \in DOMAIN o THEN o[f] ELSE Unset

Trampolines == input.wire.trampolines

Implemented == {"lower-import", "enter-sync-call", "sync-start-call", "async-start-call",
                "subtask-cancel", "waitable-set-wait", "task-return", "stream-read"}

\* funcType and resolveOptions: the indices name a function type and options.
Typed(o) == /\ Get(o, "type") \in DOMAIN input.wire.types
            /\ input.wire.types[o.type].kind = "func"
            /\ Get(o, "options") \in DOMAIN input.wire.canonicalOptions

\* buildLoweredImport: the lowering has been made, and names a host function.
Lowered(t) == /\ Get(t, "lowered") \in DOMAIN lowerings
              /\ lowerings[t.lowered] \in DOMAIN input.wire.imports
              /\ input.hosts[lowerings[t.lowered]] # "missing"
              /\ Typed(t)

\* trampoline: the factory refuses kinds it does not implement, and what the
\* declaration names must have been extracted before.
TrampolineBuilt(t) ==
    /\ t.kind \in Implemented
    /\ t.kind = "lower-import" => Lowered(t)
    /\ t.kind \in {"sync-start-call", "async-start-call"} =>
          t.callback \in extracted \cup {Null}

\* resolveCoreDef and resolveCoreExport; anything else is a PlanError.
Resolves(def) ==
    \/ /\ def.kind = "export" /\ Get(def, "instance") \in DOMAIN insts
       /\ Has(def.item, {"name"})
    \/ /\ def.kind = "trampoline" /\ Get(def, "index") \in DOMAIN Trampolines
       /\ TrampolineBuilt(Trampolines[def.index])

Branded(t) == t.kind = "lower-import" /\ input.hosts[lowerings[t.lowered]] = "suspending"

\* importValue: what a core instance gets for the definition.
Wired(def) ==
    IF def.kind = "export" THEN [kind |-> "wasm", fn |-> def.instance]
    ELSE LET t == Trampolines[def.index]
             wrap == Jspi /\ IF t.kind = "lower-import" THEN Branded(t)
                             ELSE CanBlock(t, input.wire)
         IN  [kind |-> IF wrap THEN "suspending" ELSE "js", fn |-> def.index]

\* Slip: a wasm function is no evidence.
SawBlocking_direct(def) ==
    /\ def.kind = "trampoline" /\ Jspi
    /\ LET t == Trampolines[def.index] IN Branded(t) \/ NeedsSuspension(t, input.wire)

\* ... and the evidence it leaves, of blocking or of being wrapped only.
SawBlocking(def) ==
    IF def.kind = "export" THEN def.instance \in blockingFuncs
    ELSE Jspi /\ LET t == Trampolines[def.index]
                 IN  Branded(t) \/ NeedsSuspension(t, input.wire)
SawWrap(def) ==
    IF def.kind = "export" THEN def.instance \in wrapFuncs
    ELSE Wired(def).kind = "suspending" /\ ~SawBlocking(def)

(* -- running the initializers -------------------------------------------------- *)

LinkInit ==
    /\ input \in Inputs
    /\ phase = "load" /\ next = 1
    /\ insts = <<>> /\ lowerings = <<>> /\ extracted = {}
    /\ blockingFuncs = {} /\ wrapFuncs = {} /\ suspendableFuncs = {}
    /\ stack = <<>> /\ refused = "no"

Fails(how) == /\ phase' = how
              /\ UNCHANGED <<next, insts, lowerings, extracted, blockingFuncs,
                             wrapFuncs, suspendableFuncs>>

\* The objects a step dereferences are there: undefined may be an index, but
\* looking into it is a TypeError.
DefThere(def) == Has(def, {"kind"}) /\ (def.kind = "export" => Has(def, {"item"}))
ModuleOf(i) == input.wire.modules[i.module]
Instance(i) == Get(i, "instance")
IsAdapter(i) == Instance(i) = Null /\ ModuleOf(i).kind = "adapter"

Dereferences(i) ==
    CASE i.op = "instantiate-module" ->
            Get(i, "module") \in DOMAIN input.wire.modules =>
               /\ Has(i, {"args"}) /\ \A a \in DOMAIN i.args : DefThere(i.args[a])
               /\ IsAdapter(i) => Has(ModuleOf(i), {"intrinsics"})
      [] i.op = "extract-callback" -> Has(i, {"def"}) /\ DefThere(i.def)
      [] OTHER -> TRUE

\* loadPlan runs first; the facade and the executor then share its result.
Loading == /\ phase = "load"
           /\ IF LoadPlan(input.wire) THEN phase' = "run" /\ UNCHANGED <<next, insts, lowerings,
                    extracted, blockingFuncs, wrapFuncs, suspendableFuncs>>
              ELSE Fails("PlanError")
           /\ UNCHANGED <<input, stack, refused>>

Current == input.wire.initializers[next]
Running(op) == /\ phase = "run" /\ next <= Len(input.wire.initializers)
               /\ "op" \in DOMAIN Current /\ Current.op = op
               /\ UNCHANGED <<input, stack>>

\* An initializer that dereferences what is missing.
Crash == /\ phase = "run" /\ next <= Len(input.wire.initializers)
         /\ ~("op" \in DOMAIN Current /\ Dereferences(Current))
         /\ Fails("TypeError") /\ UNCHANGED <<input, stack, refused>>

\* The module exists, there is one argument per import, and an adapter's
\* arguments are those of its manifest.
Instantiable(i) ==
    /\ Get(i, "module") \in DOMAIN input.wire.modules
    /\ Len(i.args) = ModuleOf(i).imports
    /\ IsAdapter(i) => [a \in DOMAIN i.args |-> ModuleOf(i).intrinsics[a].def] = i.args
    /\ \A a \in DOMAIN i.args : Resolves(i.args[a])

\* The functions a new core instance exports: its own, and an adapter's callee.
Exports(i, self) ==
    {self} \cup IF Instance(i) = Null THEN {i.args[1].instance} ELSE {}


\* Evidence marks every function export; evidence of wrapping only asks a
\* promising entry for a guest's functions, not for an adapter's callee.
Evidence(i, self) ==
    LET blocking == \E a \in DOMAIN i.args : SawBlocking(i.args[a])
        wrapped == \E a \in DOMAIN i.args : SawWrap(i.args[a])
        marked == Exports(i, self)
    IN  /\ blockingFuncs' = blockingFuncs \cup IF blocking THEN marked ELSE {}
        /\ wrapFuncs' = wrapFuncs \cup IF wrapped /\ ~blocking THEN marked ELSE {}
        /\ suspendableFuncs' = suspendableFuncs \cup
              IF blocking \/ (wrapped /\ Instance(i) # Null) THEN marked ELSE {}

\* A start function that calls a Suspending import traps: instantiation is
\* never promising.
StartTraps(i, wired) == /\ input.start = i.module
                        /\ \E a \in DOMAIN wired : wired[a].kind = "suspending"

InstantiateModule ==
    /\ Running("instantiate-module") /\ Dereferences(Current)
    /\ LET i == Current
       IN  \/ ~Instantiable(i) /\ Fails("PlanError") /\ UNCHANGED refused
           \/ /\ Instantiable(i)
              /\ LET wired == [a \in DOMAIN i.args |-> Wired(i.args[a])]
                 IN  \/ StartTraps(i, wired) /\ Fails("Trap") /\ refused' = "start"
                     \/ /\ ~StartTraps(i, wired)
                        /\ insts' = Append(insts, wired)
                        /\ Evidence(i, Len(insts'))
                        /\ next' = next + 1
                        /\ UNCHANGED <<phase, lowerings, extracted, refused>>

LowerImport ==
    /\ Running("lower-import")
    /\ lowerings' = (Get(Current, "index") :> Get(Current, "import")) @@ lowerings
    /\ next' = next + 1
    /\ UNCHANGED <<phase, insts, extracted, blockingFuncs, wrapFuncs, suspendableFuncs, refused>>

ExtractCallback ==
    /\ Running("extract-callback") /\ Dereferences(Current)
    /\ IF ~Resolves(Current.def) THEN Fails("PlanError")
       ELSE /\ extracted' = extracted \cup {Get(Current, "index")}
            /\ next' = next + 1
            /\ UNCHANGED <<phase, insts, lowerings, blockingFuncs, wrapFuncs, suspendableFuncs>>
    /\ UNCHANGED refused

\* finish: the exports are resolved and wrapped as entries of the mode.
Finish ==
    /\ phase = "run" /\ next > Len(input.wire.initializers)
    /\ LET e == input.wire.exports[1]
       IN  phase' = IF ~Has(e, {"coreDef"}) \/ ~DefThere(e.coreDef) THEN "TypeError"
                    ELSE IF Resolves(e.coreDef) /\ Typed(e) THEN "ready" ELSE "PlanError"
    /\ UNCHANGED <<input, next, insts, lowerings, extracted, blockingFuncs, wrapFuncs,
                   suspendableFuncs, stack, refused>>

(* -- calls ----------------------------------------------------------------------- *)

calling == <<input, phase, next, insts, lowerings, extracted, blockingFuncs, wrapFuncs,
             suspendableFuncs>>

Frame(fn, how, promising) == [fn |-> fn, how |-> how, promising |-> promising]
Top == stack[Len(stack)]
Exported == input.wire.exports[1]

\* enterWasm at a FACT callee: promising when the executor says it can block.
CalleePromising(fn) == Jspi /\ fn \in suspendableFuncs

\* The host calls the export, through its Promise-shaped wrapper or, if it is
\* sync-typed, through the plain entry of sync(), or a destructor runs.
HostCall ==
    /\ phase = "ready" /\ stack = <<>> /\ refused = "no"
    /\ LET fn == Exported.coreDef.instance
       IN  \/ stack' = <<Frame(fn, "lift", Jspi)>>
           \/ ~input.wire.types[Exported.type].async /\ stack' = <<Frame(fn, "sync", FALSE)>>
           \/ stack' = <<Frame(fn, "dtor", CalleePromising(fn))>>
    /\ UNCHANGED <<calling, refused>>

\* What a trampoline goes on to do: a start call enters its adapter's callee
\* from JavaScript, any other returns.
RunTrampoline(t) ==
    IF t.kind \in {"sync-start-call", "async-start-call"}
    THEN LET callee == insts[Top.fn][1].fn
         IN  stack' = Append(stack, Frame(callee, "fact", CalleePromising(callee)))
    ELSE UNCHANGED stack

\* The running function calls one of its imports.  A wasm import stays in the
\* activation; a Suspending one needs it to be promising.
GuestCall ==
    /\ phase = "ready" /\ stack # <<>> /\ refused = "no"
    /\ \E a \in DOMAIN insts[Top.fn] :
          LET imp == insts[Top.fn][a]
          IN  \/ /\ imp.kind = "wasm"
                 /\ stack' = Append(stack, Frame(imp.fn, Top.how, Top.promising))
                 /\ UNCHANGED refused
              \/ /\ imp.kind = "js" \/ (imp.kind = "suspending" /\ Top.promising)
                 /\ RunTrampoline(Trampolines[imp.fn])
                 /\ UNCHANGED refused
              \/ /\ imp.kind = "suspending" /\ ~Top.promising
                 /\ refused' = Top.how /\ stack' = <<>>
    /\ UNCHANGED calling

Return ==
    /\ stack # <<>> /\ refused = "no"
    /\ stack' = SubSeq(stack, 1, Len(stack) - 1)
    /\ UNCHANGED <<calling, refused>>

LinkNext == \/ Loading \/ Crash \/ InstantiateModule \/ LowerImport \/ ExtractCallback \/ Finish
            \/ HostCall \/ GuestCall \/ Return

LinkSpec == LinkInit /\ [][LinkNext]_linkVars

(* -- properties -------------------------------------------------------------------- *)

\* A Suspending import is called outside a promising activation only where
\* the caller asked for a plain one, by sync() or from a start function: never
\* in the Promise-shaped form of an export, a host drop, or a callee that a
\* FACT start call enters, however the modules are linked (bridge.ts:11-22;
\* executor.ts:691-706 and importValue).
NoStraySuspension == refused \in {"no", "sync", "start"}

\* A function that reaches no Suspending import is entered plainly by a start
\* call, unless a genuinely blocking adapter passes it through: a promising
\* entry reports a callee that returned at once as merely started
\* (bridge.ts:158-166, executor.ts:691-706).
EagerStaysPlain ==
    LET suspends[k \in DOMAIN insts] ==
            \E a \in DOMAIN insts[k] : \/ insts[k][a].kind = "suspending"
                                       \/ insts[k][a].kind = "wasm" /\ suspends[insts[k][a].fn]
        passed == {insts[k][1].fn : k \in {j \in blockingFuncs : insts[j][1].kind = "wasm"}}
    IN  \A fn \in suspendableFuncs : suspends[fn] \/ fn \in passed

\* Who suspends is entered promising and who does not is entered plainly.
SuspensionFits == NoStraySuspension /\ EagerStaysPlain
=============================================================================
