----------------------------- MODULE PlanLoader -----------------------------
(***************************************************************************)
(* loadPlan (runtime/src/plan/loader.ts): what the loader demands of a     *)
(* plan document before anything executes it.  A wire object is a record;  *)
(* a field that is missing, or of the wrong primitive type, is absent from *)
(* its domain, and an index is a number from 1.  Tables are sequences.     *)
(*                                                                         *)
(* The loader checks the discriminants and the required fields of the      *)
(* tables the executor interprets, and few cross references: which are     *)
(* left to the executor is what Instantiation shows.                       *)
(***************************************************************************)
EXTENDS Integers, Sequences, FiniteSets, TLC

Null == 0                    \* JSON null in a field that may hold an index
FormatVersion == 6
Tables == {"modules", "initializers", "trampolines", "canonicalOptions", "types",
           "resourceTables", "streamTables", "futureTables", "errorContextTables",
           "imports", "exports"}

Has(o, fields) == fields \subseteq DOMAIN o

\* Each element of the table that the plan carries satisfies the check.
AllOf(wire, table, Check(_)) == \A i \in DOMAIN wire[table] : Check(wire[table][i])

(* -- descriptors ------------------------------------------------------------ *)

ScalarKinds == {"bool", "u8", "u32", "u64", "f64", "char", "string", "error-context"}

\* loadValType: a known kind, and resource references into the tables.  A
\* descriptor holds its parts, of whatever sort, in one sequence; an absent
\* payload (a case, a side of a result, a zero-width stream) is no part.
RECURSIVE LoadsType(_, _)
LoadsType(t, resources) ==
    \/ t.kind \in ScalarKinds \cup {"enum", "flags"}
    \/ /\ t.kind \in {"own", "borrow"} /\ "resource" \in DOMAIN t
       /\ t.resource \in 1..resources
    \/ /\ t.kind \in {"list", "record", "tuple", "variant", "option", "result",
                      "map", "stream", "future"}
       /\ \A i \in DOMAIN t.parts : LoadsType(t.parts[i], resources)

\* loadTypeDecl: a function's parameters and results, or a value type.
LoadsDecl(t, resources) ==
    IF t.kind = "func"
    THEN \A i \in DOMAIN (t.params \o t.results) :
            LoadsType((t.params \o t.results)[i], resources)
    ELSE LoadsType(t, resources)

(* -- shape of the executed operations --------------------------------------- *)

Spaces == {"func", "table", "memory", "global", "tag", "unknown"}

ValidItem(o) == /\ Has(o, {"instance", "item"})
                /\ Has(o.item, {"name", "space"}) /\ o.item.space \in Spaces

\* validateCoreDef: what a core instantiation argument may be.
ValidDef(d) ==
    /\ Has(d, {"kind"})
    /\ \/ d.kind = "export" /\ ValidItem(d)
       \/ d.kind = "instance-flags" /\ Has(d, {"instance"})
       \/ d.kind = "trampoline" /\ Has(d, {"index"})
       \/ d.kind = "unsafe-intrinsic" /\ Has(d, {"intrinsic"})


ValidInitializer(i) ==
    /\ Has(i, {"op"})
    /\ \/ /\ i.op = "instantiate-module"
          /\ Has(i, {"module", "instance", "args"})
          /\ \A a \in DOMAIN i.args : ValidDef(i.args[a])
       \/ i.op = "lower-import" /\ Has(i, {"index", "import"})
       \/ /\ i.op \in {"extract-memory", "extract-table"}
          /\ Has(i, {"index", "export"}) /\ ValidItem(i.export)
       \/ /\ i.op \in {"extract-realloc", "extract-callback", "extract-post-return"}
          /\ Has(i, {"index", "def"}) /\ ValidDef(i.def)
       \/ /\ i.op = "resource"
          /\ Has(i, {"index", "rep", "dtor", "instance"})
          /\ i.dtor = <<>> \/ ValidDef(i.dtor)

ThreadKinds == {"thread-suspend", "thread-yield", "thread-suspend-then-resume",
                "thread-yield-then-resume", "thread-suspend-then-promote",
                "thread-yield-then-promote"}

\* The fields of the trampolines with a wire shape of their own; of every
\* other kind only the common fields are looked at.
TrampolineFields(kind) ==
    CASE kind \in ThreadKinds -> {"instance", "cancellable"}
      [] kind = "lower-import" -> {"lowered", "options", "type"}
      [] kind = "trap" -> {"code"}
      [] kind = "task-return" -> {"instance", "results", "resultType", "options"}
      [] kind \in {"resource-drop", "resource-new", "resource-rep"} -> {"instance", "resource"}
      [] OTHER -> {}

ValidTrampoline(t) ==
    /\ Has(t, {"kind", "index"}) /\ Has(t, TrampolineFields(t.kind))
    /\ t.kind \in ThreadKinds => t.cancellable = FALSE

\* .cancellable is a slot of the wire format that only FALSE may fill.
ValidOptions(o) ==
    /\ Has(o, {"instance", "stringEncoding", "memory", "realloc", "postReturn",
               "callback", "async", "cancellable", "coreType"})
    /\ o.cancellable = FALSE
    /\ Has(o.coreType, {"params", "results"})

\* Slices must not be negative: they would select bytes from the end.
ValidModule(m) ==
    /\ Has(m, {"kind"})
    /\ \/ m.kind = "embedded" /\ Has(m, {"offset", "len"}) /\ m.offset >= 0 /\ m.len >= 0
       \/ /\ m.kind = "adapter" /\ Has(m, {"file", "len", "intrinsics"}) /\ m.len >= 0
          /\ \A e \in DOMAIN m.intrinsics :
                /\ Has(m.intrinsics[e], {"module", "name", "category", "def"})
                /\ ValidDef(m.intrinsics[e].def)

ValidImport(i) == Has(i, {"name", "path", "kind"})

RECURSIVE ValidExport(_)
ValidExport(e) ==
    /\ Has(e, {"kind", "name"})
    /\ \/ e.kind = "lifted-func" /\ Has(e, {"coreDef", "options", "type"}) /\ ValidDef(e.coreDef)
       \/ /\ e.kind = "instance" /\ Has(e, {"exports"})
          /\ \A i \in DOMAIN e.exports : ValidExport(e.exports[i])
       \/ e.kind = "type" /\ Has(e, {"type"})
       \/ e.kind = "module" /\ Has(e, {"module"})

(* -- the plan ----------------------------------------------------------------- *)

\* Imported resources refer back into the imports; the task-return
\* trampolines, which double as the dictionary of result tuples, refer to
\* types and agree with one another.
CrossReferencesHold(wire) ==
    /\ \A i \in DOMAIN wire.importedResources :
          wire.importedResources[i].import \in DOMAIN wire.imports
    /\ LET returns == {t \in {wire.trampolines[i] : i \in DOMAIN wire.trampolines} :
                           t.kind = "task-return" /\ t.resultType # Null}
       IN  /\ \A t \in returns : t.resultType \in DOMAIN wire.types
           /\ \A t, u \in returns : t.results = u.results => t.resultType = u.resultType

\* loadPlan throws a PlanError unless all of this holds.
LoadPlan(wire) ==
    /\ Has(wire, {"formatVersion"}) /\ wire.formatVersion = FormatVersion
    /\ Has(wire, Tables)
    /\ AllOf(wire, "initializers", ValidInitializer)
    /\ AllOf(wire, "trampolines", ValidTrampoline)
    /\ AllOf(wire, "canonicalOptions", ValidOptions)
    /\ AllOf(wire, "modules", ValidModule)
    /\ AllOf(wire, "imports", ValidImport)
    /\ AllOf(wire, "exports", ValidExport)
    /\ CrossReferencesHold(wire)
    /\ \A i \in DOMAIN wire.types :
          LoadsDecl(wire.types[i], Len(wire.resourceTables))
=============================================================================
