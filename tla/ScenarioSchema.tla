----------------------------- MODULE ScenarioSchema -----------------------------
(***************************************************************************)
(* Validation of an expanded scenario (scenario/schema.rs) and, to say     *)
(* what it is worth, the use one instance makes of it: the runtime context *)
(* its steps read and extend (scenario/value.rs, engine.rs).               *)
(***************************************************************************)
EXTENDS ScenarioComposition

Steps == document.steps
Indices == DOMAIN Steps
-----------------------------------------------------------------------------
(* Static types                                                            *)

Typed(names, type) == [path \in {<<n>> : n \in names} |-> type]
Object == <<>> :> "object"
Nested(name, fields) == [path \in {<<name>> \o f : f \in DOMAIN fields} |-> fields[Tail(path)]]

Times == {"block_timestamp_ms", "first_observed_at", "observed_at", "confirmed_at", "confirmation_depth"}
Located == Object @@ Typed({"chain"}, "string") @@ Typed({"transaction_hash", "tx_hash", "block_hash"}, "bytes32")
             @@ Typed({"block_number", "transaction_index"} \cup Times, "uint")
ReceiptFields == Located @@ Typed({"gas_used"}, "uint") @@ Typed({"status"}, "bool")

\* saved_field_type, and the fields of bindings
StaticFields(root) ==
    CASE root.kind = "account" ->
           Object @@ Typed({"address"}, "address") @@ Typed({"index"}, "uint") @@ Typed({"pool"}, "string")
             @@ Typed({"ref"}, "account_ref")
             @@ Nested("ref", Typed({"pool"}, "string") @@ Typed({"select"}, "object")
                              @@ Nested("select", Typed({"index"}, "uint")))
      [] root.kind = "bytes32" -> <<>> :> "bytes32"
      [] root.kind = "checkpoint" -> Object @@ Typed({"chain"}, "string") @@ Typed({"block_hash"}, "bytes32")
                                       @@ Typed({"block_number", "captured_at"}, "uint")
      [] root.kind = "submit" -> Object @@ Typed({"chain", "template", "id"}, "string") @@ Typed({"tx_hash"}, "bytes32")
                                   @@ Typed({"sender"}, "address")
                                   @@ Typed({"submitted_at", "acceptance_latency"}, "uint")
                                   @@ Nested("receipt", ReceiptFields)
      [] root.kind = "receipt" -> ReceiptFields
      [] root.kind = "log" /\ root.grouped -> ReceiptFields @@ Typed({"events"}, "object")
      [] root.kind = "log" /\ ~root.grouped ->
           Located @@ Typed({"args"}, "object") @@ Typed({"event", "event_name"}, "string")
             @@ Typed({"address", "contract_address"}, "address") @@ Typed({"log_index"}, "uint")
      [] OTHER -> <<>>

\* Whose fields are only known when it runs.
IsDynamic(root, tail) ==
    \/ root.kind = "invoke"
    \/ root.kind = "log" /\ Len(tail) > 1 /\ tail[1] = IF root.grouped THEN "events" ELSE "args"

\* validate_account_path and validate_saved_path
FieldExists(root, tail) ==
    \/ tail = <<>>
    \/ /\ root.kind = "submit" /\ tail[1] = "receipt" => root.await
       /\ IsDynamic(root, tail) \/ tail \in DOMAIN StaticFields(root)

StaticFieldType(root, tail) == IF tail \in DOMAIN StaticFields(root) THEN StaticFields(root)[tail] ELSE "none"

\* available_roots: the bindings, and the saves of the given steps.
AvailableRoots(steps) ==
    [path \in {<<b>> : b \in DOMAIN config.bindings} \cup ({Steps[i].save : i \in steps} \ {<<>>}) |->
       IF Head(path) \in DOMAIN config.bindings THEN [kind |-> config.bindings[Head(path)]]
       ELSE Steps[CHOOSE i \in steps : Steps[i].save = path]]

\* longest_path_match, or the empty path
Longest(path, roots) ==
    LET matching == {r \in DOMAIN roots : IsPrefix(r, path)}
    IN  IF matching = {} THEN <<>> ELSE CHOOSE r \in matching : \A other \in matching : Len(other) <= Len(r)
TailAfter(path, root) == SubSeq(path, Len(root) + 1, Len(path))

ReferenceIsValid(path, available) ==
    LET root == Longest(path, available)
    IN  root # <<>> /\ FieldExists(available[root], TailAfter(path, root))

\* expression_static_type; "none" when nothing is known.
StaticType(expr, available) ==
    CASE expr.op = "literal" -> expr.type
      [] expr.op = "var" /\ Longest(expr.path, available) # <<>> ->
           LET root == Longest(expr.path, available)
           IN  StaticFieldType(available[root], TailAfter(expr.path, root))
      [] OTHER -> "none"

\* What the fields of waits must be.
Expected == [transaction_hash |-> "bytes32", sender |-> "address", from_block |-> "uint", address |-> "address"]
-----------------------------------------------------------------------------
(* The graph                                                               *)

Explicit == {i \in Indices : Steps[i].id # <<>>}
StepWithId(id) == CHOOSE i \in Explicit : Steps[i].id = id
DependsOn(i) == {StepWithId(Steps[i].deps[k]) : k \in DOMAIN Steps[i].deps}

IdsAreDistinct == Cardinality({Steps[i].id : i \in Explicit}) = Cardinality(Explicit)

\* The steps a step waits for, directly or through others.
Before(i) ==
    LET within[n \in 0 .. Len(Steps)] ==
          IF n = 0 THEN DependsOn(i) ELSE LET nearer == within[n - 1] IN nearer \cup UNION {DependsOn(j) : j \in nearer}
    IN  within[Len(Steps)]

GraphIsValid ==
    /\ Explicit = Indices /\ IdsAreDistinct
    /\ \A i \in Indices : /\ Distinct(Steps[i].deps)
                          /\ ToSet(Steps[i].deps) \subseteq {Steps[j].id : j \in Indices}
    /\ \A i \in Indices : i \notin Before(i)

\* fault: what stands before a step in the document, dependencies or not
StepsAbove(i) == 1 .. i - 1

Ancestors(i) == IF config.execution = "sequential" THEN 1 .. i - 1 ELSE Before(i)
-----------------------------------------------------------------------------
(* Validation                                                              *)

\* The combinations of fields a wait may have.
WaitIsValid(step) ==
    LET has(f) == f \in DOMAIN step.fields
    IN  CASE step.kind = "receipt" -> has("transaction_hash") /\ (config.auth => has("sender"))
          [] step.kind = "log" ->
               /\ step.grouped => has("transaction_hash") /\ ~has("from_block") /\ ~has("address")
               /\ has("from_block") \/ has("transaction_hash")
               /\ config.auth /\ (step.grouped \/ ~has("from_block")) => has("sender")
          [] OTHER -> TRUE

\* validate_step
StepIsValid(i) ==
    LET step == Steps[i]
        available == AvailableRoots(Ancestors(i))
    IN  /\ WaitIsValid(step)
        /\ \A f \in DOMAIN step.fields :
             /\ f \in DOMAIN Expected => StaticType(step.fields[f], available) \in {Expected[f], "none"}
             /\ step.fields[f].op = "var" => ReferenceIsValid(step.fields[f].path, available)

\* validate_parameter_argument: in a DAG every save counts, the steps that use
\* the argument are looked at for their ancestors.
ArgumentIsValid(check) ==
    LET available == AvailableRoots(IF config.execution = "dag" THEN Indices ELSE 1 .. check.index - 1)
        type == StaticType(check.expr, available)
        accepts == CASE check.type \in {"account_ref", "string"} -> {check.type}
                     [] check.type = "u256" -> {"uint", "string"}
                     [] OTHER -> {check.type, "string"}
    IN  /\ check.expr.op = "var" => ReferenceIsValid(check.expr.path, available)
        /\ \/ check.type = "value"
           \/ type # "none" /\ type \in accepts
           \/ type = "none" /\ (check.expr.op = "var" \/ check.type \in check.expr.fits)

\* collect_saves: that saves are distinct and none is below another was seen
\* when they were emitted.
SavesAreFree == \A save \in document.saves : Head(save) \notin DOMAIN config.bindings

\* validate
DocumentIsValid ==
    /\ Steps # <<>>
    /\ \A alias \in document.aliases : Len(alias) = 1 => Head(alias) \notin DOMAIN config.bindings
    /\ SavesAreFree
    /\ IF config.execution = "dag" THEN GraphIsValid
       ELSE IdsAreDistinct /\ \A i \in Indices : Steps[i].deps = <<>>
    /\ \A i \in Indices : StepIsValid(i)
    /\ \A k \in DOMAIN document.parameters : ArgumentIsValid(document.parameters[k])

Validate ==
    /\ phase = "validate"
    /\ IF DocumentIsValid THEN phase' = "run" /\ UNCHANGED <<include, resolver, document>> ELSE Reject
    /\ UNCHANGED <<config, instance>>
-----------------------------------------------------------------------------
(* One instance                                                            *)

\* What the engine saves.  A receipt that was not awaited is null, as are the
\* hash of a block that the node did not have any more and an index the
\* receipt does not tell.
AccountValue ==
    Object @@ Typed({"pool"}, "string") @@ Typed({"index"}, "uint") @@ Typed({"address"}, "address")
      @@ Nested("ref", Object @@ Typed({"pool"}, "string") @@ Nested("select", Object @@ Typed({"index"}, "uint")))

CheckpointValue ==
    Object @@ Typed({"chain"}, "string") @@ Typed({"block_number", "captured_at"}, "uint")
      @@ Typed({"block_hash"}, "bytes32 or null")

ObservedValue ==
    Object @@ Typed({"chain"}, "string") @@ Typed({"transaction_hash", "tx_hash", "block_hash"}, "bytes32")
      @@ Typed(Times \cup {"block_number"}, "uint") @@ Typed({"transaction_index"}, "uint or null")
ReceiptValue == ObservedValue @@ Typed({"status"}, "bool") @@ Typed({"gas_used"}, "uint")

LogValue ==
    ObservedValue @@ Typed({"address", "contract_address"}, "address") @@ Typed({"log_index"}, "uint")
      @@ Typed({"event", "event_name"}, "string") @@ Typed({"args"}, "object")

SubmitValue(await) ==
    Object @@ Typed({"chain", "template", "id"}, "string") @@ Typed({"sender"}, "address")
      @@ Typed({"tx_hash"}, "bytes32") @@ Typed({"submitted_at", "acceptance_latency"}, "uint")
      @@ IF await THEN Nested("receipt", ReceiptValue) ELSE Typed({"receipt"}, "null")

RuntimeFields(root) ==
    CASE root.kind = "account" -> AccountValue
      [] root.kind = "bytes32" -> <<>> :> "bytes32"
      [] root.kind = "checkpoint" -> CheckpointValue
      [] root.kind = "submit" -> SubmitValue(root.await)
      [] root.kind = "receipt" -> ReceiptValue
      [] root.kind = "log" -> IF root.grouped THEN ReceiptValue @@ Typed({"events"}, "object") ELSE LogValue
      [] OTHER -> Object

\* RuntimeContext::get: the value at a path, "missing" when there is none.
ValueAt(path) ==
    LET root == Longest(path, instance.context)
        value == instance.context[root]
        tail == TailAfter(path, root)
    IN  CASE root = <<>> -> "missing"
          [] root # <<>> /\ tail \in DOMAIN RuntimeFields(value) -> RuntimeFields(value)[tail]
          [] root # <<>> /\ IsDynamic(value, tail) -> "dynamic"
          [] OTHER -> "missing"

\* coerce_dyn_sol on the fields of waits; a template takes any value.
CanBe(type, field) ==
    type \in {"dynamic", "string"} \/ field \notin DOMAIN Expected \/ type \in {Expected[field], Expected[field] \o " or null"}

\* Whether the step's expressions can be evaluated, and a receipt fetched
\* through an endpoint with request authentication has its sender.
Evaluates(step) ==
    /\ \A f \in DOMAIN step.fields :
         LET e == step.fields[f]
         IN  e.op = "var" => ValueAt(e.path) # "missing" /\ CanBe(ValueAt(e.path), f)
    /\ config.auth /\ step.kind \in {"receipt", "log"} /\ (step.grouped \/ "from_block" \notin DOMAIN step.fields)
         => "sender" \in DOMAIN step.fields

\* A step starts when those it follows have ended, with the context of then.
StartStep(i) ==
    /\ phase = "run" /\ i \notin instance.started
    /\ IF config.execution = "sequential" THEN 1 .. i - 1 \subseteq instance.ended ELSE DependsOn(i) \subseteq instance.ended
    /\ instance' = [instance EXCEPT !.started = @ \cup {i}, !.failed = @ \/ ~Evaluates(Steps[i])]
    /\ UNCHANGED <<config, phase, include, resolver, document>>

\* RuntimeContext::with_path
EndStep(i) ==
    /\ phase = "run" /\ i \in instance.started \ instance.ended
    /\ instance' = [instance EXCEPT !.ended = @ \cup {i},
                      !.failed = @ \/ (Steps[i].save # <<>> /\ Conflicts(Steps[i].save, DOMAIN instance.context)),
                      !.context = IF Steps[i].save = <<>> THEN @ ELSE @ @@ (Steps[i].save :> Steps[i])]
    /\ phase' = IF instance'.ended = Indices THEN "done" ELSE phase
    /\ UNCHANGED <<config, include, resolver, document>>
-----------------------------------------------------------------------------
Init ==
    /\ config \in Documents
    /\ phase = "collect"
    /\ include = [stack |-> <<[file |-> "root", next |-> 1]>>, fragments |-> <<>>]
    /\ resolver = FreshResolver(Scope("", <<>>, <<>>, 0, <<>>))
    /\ document = FreshResolver(Scope("", <<>>, <<>>, 0, <<>>))
    /\ instance = [started |-> {}, ended |-> {}, failed |-> FALSE,
                   context |-> [path \in {<<b>> : b \in DOMAIN config.bindings} |-> [kind |-> config.bindings[Head(path)]]]]

vars == <<config, phase, include, resolver, document, instance>>
Next == Compose \/ Validate \/ \E i \in Indices : StartStep(i) \/ EndStep(i)
Spec == Init /\ [][Next]_vars
-----------------------------------------------------------------------------
TypeOK ==
    /\ phase \in {"collect", "expand", "library", "validate", "run", "done", "rejected"}
    /\ instance.ended \subseteq instance.started /\ instance.started \subseteq Indices

\* What validation accepts does run: whatever order the steps are scheduled
\* in, each reference finds a value of the right type in the context of the
\* step, and no result is refused by the context.
AcceptedStepsEvaluate == ~instance.failed

Accepted == phase \in {"run", "done"}

\* Names are lexical (README: an expression passed to a fragment keeps the
\* caller's scope): a reference denotes what the scope it is written in
\* declares under that name, through any nesting of uses and arguments.
DeclaredIn(alias) ==
    {Head(TailAfter(Steps[i].save, alias)) :
       i \in {j \in Indices : Steps[j].save # <<>> /\ IsPrefix(alias, Steps[j].save) /\ Len(Steps[j].save) > Len(alias)}}
NamesAreLexical ==
    Accepted => \A i \in Indices : \A f \in DOMAIN Steps[i].fields :
      LET e == Steps[i].fields[f]
      IN  e.op = "var" => e.path = IF Head(e.written) \in DeclaredIn(e.scope) THEN e.scope \o e.written ELSE e.written

\* A step reads a save of an instance it is not part of only if every
\* instance on the way declares it as an output.
PrivateSavesAreHidden ==
    Accepted => \A i, j \in Indices : \A f \in DOMAIN Steps[i].fields :
      LET e == Steps[i].fields[f]
      IN  e.op = "var" /\ Steps[j].save # <<>> /\ IsPrefix(Steps[j].save, e.path) =>
            \A boundary \in document.aliases :
              IsPrefix(boundary, Steps[j].alias) /\ ~IsPrefix(boundary, e.scope) =>
                TailAfter(Steps[j].save, boundary) \in document.outputs[boundary]

\* The complete instance waits for what its use depends on.
InstancesWait ==
    Accepted => \A u \in DOMAIN config.steps : IsUse(config.steps[u]) =>
      \A i \in Indices : \A d \in ToSet(config.steps[u].deps) :
        IsPrefix(<<config.steps[u].as>>, Steps[i].alias) => StepWithId(d) \in Ancestors(i)
=============================================================================
