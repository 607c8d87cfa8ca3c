-------------------------- MODULE ScenarioComposition --------------------------
(***************************************************************************)
(* Composition of scenario documents (scenario/composition.rs): included   *)
(* files contribute fragments, uses of fragments are replaced by their     *)
(* steps, with ids, saves and references qualified by the instance's       *)
(* alias.  What comes out is parsed and validated by ScenarioSchema.       *)
(*                                                                         *)
(* A dotted path is a sequence of components.  An expression is a          *)
(* reference [op |-> "var", path], a parameter [op |-> "param", name], or  *)
(* a literal [op |-> "literal", type, fits]: its static type ("none" for a *)
(* string) and the parameter types its text can be coerced to.             *)
(***************************************************************************)
EXTENDS Integers, Sequences, FiniteSets, SequencesExt, FiniteSetsExt, Functions

CONSTANT Documents

(* A document: files: [name -> [version, chains, include, fragments]], the *)
(* first of which is "root", and the root's own execution, bindings        *)
(* [name -> kind], steps, and the chain's auth.  A fragment is             *)
(* [parameters: [name -> type], outputs: [path -> kind], steps].  A step   *)
(* is a use [use, as, with: [name -> expression], deps], or an action      *)
(* [kind, id, deps, save, await, grouped, fields: [name -> expression]];   *)
(* a missing id or save is <<>>.                                           *)
DocumentAssumption ==
    \A d \in Documents : /\ "root" \in DOMAIN d.files /\ d.files["root"].chains
                         /\ d.execution \in {"sequential", "dag"} /\ d.auth \in BOOLEAN

VARIABLES
    config,      \* the document; it never changes
    phase,       \* how far the command is
    include,     \* the stack of files, and the fragments collected
    resolver,    \* ScenarioResolver while steps are expanded
    document,    \* the expanded document, once the root is resolved
    instance     \* the one instance that is run (ScenarioSchema)

Reject == phase' = "rejected" /\ UNCHANGED <<include, resolver, document>>
IsUse(step) == "use" \in DOMAIN step
Qualified(alias, path) == IF path = <<>> THEN <<>> ELSE alias \o path
-----------------------------------------------------------------------------
(* Includes                                                                *)

Top(stack) == stack[Len(stack)]
File(name) == config.files[name]

\* collect_file: depth first, in the listed order; a file of the active stack
\* is a cycle.  An included file contributes fragments only.
Include ==
    LET frame == Top(include.stack)
        target == File(frame.file).include[frame.next]
    IN  /\ phase = "collect" /\ frame.next <= Len(File(frame.file).include)
        /\ IF \/ target \notin DOMAIN config.files
              \/ target \in {include.stack[i].file : i \in DOMAIN include.stack}
              \/ File(target).chains
              \/ File(target).version # 1
             THEN Reject
             ELSE /\ include' = [include EXCEPT
                        !.stack = Append([@ EXCEPT ![Len(@)].next = frame.next + 1], [file |-> target, next |-> 1])]
                  /\ UNCHANGED <<phase, resolver, document>>
        /\ UNCHANGED <<config, instance>>

\* The names a fragment or the root declares: aliases of uses, saves, ids.
AliasesIn(steps) == {steps[i].as : i \in {j \in DOMAIN steps : IsUse(steps[j])}}
Saved(steps) == {i \in DOMAIN steps : ~IsUse(steps[i]) /\ steps[i].save # <<>>}
RootsIn(steps) == AliasesIn(steps) \cup {Head(steps[i].save) : i \in Saved(steps)}
Named(steps) == {i \in DOMAIN steps : ~IsUse(steps[i]) /\ steps[i].id # <<>>}
Distinct(seq) == Cardinality(ToSet(seq)) = Len(seq)

\* validate_fragment_definition and validate_fragment_scope
ScopeIsValid(fragment) ==
    LET steps == fragment.steps
        named == Named(steps)
        uses == {i \in DOMAIN steps : IsUse(steps[i])}
    IN  /\ \A i \in Saved(steps) : Len(steps[i].save) = 1
        /\ \A i \in named : Len(steps[i].id) = 1
        /\ Cardinality({steps[i].id : i \in named}) = Cardinality(named)
        /\ Cardinality(RootsIn(steps)) = Cardinality(uses) + Cardinality(Saved(steps))
        /\ \A i \in uses : Distinct(steps[i].deps)

\* register_fragments, after the includes of the file; the root's own scope
\* (validate_root_scope) is looked at when all are collected.
RegisterFragments ==
    LET file == Top(include.stack).file
        declared == File(file).fragments
        aliases == {i \in DOMAIN config.steps : IsUse(config.steps[i])}
        last == Len(include.stack) = 1
    IN  /\ phase = "collect" /\ Top(include.stack).next > Len(File(file).include)
        /\ IF \/ \E name \in DOMAIN declared : ~ScopeIsValid(declared[name])
              \/ DOMAIN declared \cap DOMAIN include.fragments # {}
              \/ last /\ \/ Cardinality(AliasesIn(config.steps)) # Cardinality(aliases)
                         \/ \E i \in Saved(config.steps) : Head(config.steps[i].save) \in AliasesIn(config.steps)
                         \/ \E i \in aliases : ~Distinct(config.steps[i].deps)
             THEN Reject
             ELSE /\ include' = [stack |-> Front(include.stack),
                                 fragments |-> [n \in DOMAIN declared \cup DOMAIN include.fragments |->
                                    IF n \in DOMAIN declared THEN declared[n] ELSE include.fragments[n]]]
                  /\ phase' = IF last THEN "expand" ELSE phase
                  /\ UNCHANGED <<resolver, document>>
        /\ UNCHANGED <<config, instance>>
-----------------------------------------------------------------------------
(* Expansion                                                               *)

\* A scope being expanded; the root has no fragment and no alias.
Scope(fragment, alias, parameters, start, deps) ==
    [fragment |-> fragment, alias |-> alias, parameters |-> parameters, next |-> 1,
     start |-> start, deps |-> deps, saves |-> <<>>]

FreshResolver(scope) ==
    [scopes |-> <<scope>>, steps |-> <<>>, aliases |-> {scope.alias} \ {<<>>}, outputs |-> <<>>, saves |-> {},
     checks |-> {}, parameters |-> <<>>, used |-> {}]

StepsOf(scope) == IF scope.fragment = "" THEN config.steps ELSE include.fragments[scope.fragment].steps
LocalRoots(scope) == IF scope.fragment = "" THEN {} ELSE RootsIn(StepsOf(scope))
LocalAliases(scope) == IF scope.fragment = "" THEN {} ELSE AliasesIn(StepsOf(scope))
LocalIds(scope) == IF scope.fragment = "" THEN {} ELSE {Head(StepsOf(scope)[i].id) : i \in Named(StepsOf(scope))}

\* fault: a reference passed as an argument is read again in the fragment
TransformInside(expr, scope) ==
    LET value == IF expr.op = "param" /\ scope.fragment # "" THEN scope.parameters[expr.name] ELSE expr
    IN  IF value.op = "var" /\ Head(value.path) \in LocalRoots(scope)
          THEN [op |-> "var", path |-> scope.alias \o value.path, written |-> value.path,
                scope |-> IF "scope" \in DOMAIN value THEN value.scope ELSE scope.alias]
          ELSE IF value.op = "var" /\ "scope" \notin DOMAIN value
            THEN [op |-> "var", path |-> value.path, written |-> value.path, scope |-> scope.alias] ELSE value

\* transform_value: local references are qualified before the parameters,
\* already transformed by the caller, are put in.  A reference remembers the
\* text it was written as and the scope of that text.
Transform(expr, scope) ==
    CASE expr.op = "param" /\ scope.fragment # "" -> scope.parameters[expr.name]
      [] expr.op = "var" ->
           [op |-> "var", written |-> expr.path, scope |-> scope.alias,
            path |-> IF Head(expr.path) \in LocalRoots(scope) THEN scope.alias \o expr.path ELSE expr.path]
      [] OTHER -> expr

IsKnown(expr, scope) == expr.op = "param" /\ scope.fragment # "" => expr.name \in DOMAIN scope.parameters

\* Each reference through an alias is to be checked against its outputs.
OutputChecks(exprs, scope) ==
    {LET root == Head(e.path)
     IN  IF root \in LocalAliases(scope) THEN [boundary |-> scope.alias \o <<root>>, path |-> scope.alias \o e.path]
         ELSE [boundary |-> <<root>>, path |-> e.path]
       : e \in {x \in exprs : x.op = "var" /\ Head(x.path) \notin LocalRoots(scope) \ LocalAliases(scope)}}

\* qualify_dependencies
Qualify(deps, scope) ==
    [i \in DOMAIN deps |-> IF Head(deps[i]) \in LocalIds(scope) \cup LocalAliases(scope)
                             THEN scope.alias \o deps[i] ELSE deps[i]]

Current == Top(resolver.scopes)
CurrentStep == StepsOf(Current)[Current.next]
Expanding == phase \in {"expand", "library"} /\ resolver.scopes # <<>> /\ Current.next <= Len(StepsOf(Current))
Advanced == [resolver.scopes EXCEPT ![Len(resolver.scopes)].next = @ + 1]

\* expand_use, as far as the fragment's own steps
ExpandUse ==
    /\ Expanding /\ IsUse(CurrentStep)
    /\ LET use == CurrentStep
           alias == Current.alias \o <<use.as>>
           fragment == include.fragments[use.use]
           start == Len(resolver.steps)
       IN  IF \/ use.use \notin DOMAIN include.fragments
              \/ alias \in resolver.aliases
              \/ DOMAIN fragment.parameters # DOMAIN use.with
              \/ \E p \in DOMAIN use.with : ~IsKnown(use.with[p], Current)
              \/ use.use \in {resolver.scopes[i].fragment : i \in DOMAIN resolver.scopes}
             THEN Reject
             ELSE LET arguments == [p \in DOMAIN use.with |-> Transform(use.with[p], Current)]
                  IN  /\ resolver' = [resolver EXCEPT
                            !.scopes = Append(Advanced, Scope(use.use, alias, arguments, start,
                                                              Qualify(use.deps, Current))),
                            !.aliases = @ \cup {alias}, !.used = @ \cup {use.use},
                            !.checks = @ \cup OutputChecks(Range(use.with), Current),
                            !.parameters = @ \o SetToSeq({[index |-> start + 1, expr |-> arguments[p],
                                                    type |-> fragment.parameters[p]] : p \in DOMAIN arguments})]
                      /\ UNCHANGED <<phase, include, document>>
    /\ UNCHANGED <<config, instance>>

Conflicts(save, saves) == \E other \in saves : IsPrefix(other, save) \/ IsPrefix(save, other)

\* emit_concrete and register_save
EmitConcrete ==
    /\ Expanding /\ ~IsUse(CurrentStep)
    /\ LET step == CurrentStep
           save == Qualified(Current.alias, step.save)
       IN  IF \/ \E f \in DOMAIN step.fields : ~IsKnown(step.fields[f], Current)
              \/ save # <<>> /\ Conflicts(save, resolver.saves)
             THEN Reject
             ELSE /\ resolver' = [resolver EXCEPT
                        !.steps = Append(@, [step EXCEPT
                            !.id = Qualified(Current.alias, @), !.save = save, !.deps = Qualify(@, Current),
                            !.fields = [f \in DOMAIN @ |-> Transform(@[f], Current)]]
                              @@ [alias |-> Current.alias]),
                        !.saves = @ \cup ({save} \ {<<>>}),
                        !.checks = @ \cup OutputChecks(Range(step.fields), Current),
                        !.scopes = IF step.save = <<>> THEN Advanced
                                   ELSE [Advanced EXCEPT ![Len(Advanced)].saves = @ @@ (step.save :> step.kind)]]
                  /\ UNCHANGED <<phase, include, document>>
    /\ UNCHANGED <<config, instance>>

\* fault: the dependencies of a use go to the first step of the instance
AddToFirst(steps, start, deps) ==
    [i \in DOMAIN steps |-> IF i = start + 1 THEN [steps[i] EXCEPT !.deps = @ \o deps] ELSE steps[i]]

\* add_dependencies_to_fragment_roots: to every step of the instance that
\* depends on none of its other steps.
AddDependencies(steps, start, deps) ==
    LET ids == {steps[i].id : i \in start + 1 .. Len(steps)} \ {<<>>}
        isRoot(i) == i > start /\ ToSet(steps[i].deps) \cap ids = {}
    IN  [i \in DOMAIN steps |->
           IF isRoot(i) THEN [steps[i] EXCEPT !.deps = @ \o SelectSeq(deps, LAMBDA d : d \notin ToSet(steps[i].deps))]
           ELSE steps[i]]

\* fault: an output makes everything under its first component visible
VisibleRoot(check, outputs) ==
    check.boundary \in DOMAIN outputs =>
      \E output \in outputs[check.boundary] : IsPrefix(check.boundary \o <<Head(output)>>, check.path)

\* validate_output_references
Visible(check, outputs) ==
    check.boundary \in DOMAIN outputs =>
      \E output \in outputs[check.boundary] : IsPrefix(check.boundary \o output, check.path)
ReferencesAreVisible(r) == \A check \in r.checks : Visible(check, r.outputs)

\* The end of a fragment: its outputs are accessible saves of the declared
\* kinds, and become saves of the scope that used it.
EndFragment ==
    /\ phase \in {"expand", "library"} /\ resolver.scopes # <<>>
    /\ Current.fragment # "" /\ ~Expanding
    /\ LET outputs == include.fragments[Current.fragment].outputs
           caller == Front(resolver.scopes)
           exported == [path \in {<<Top(Current.alias)>> \o o : o \in DOMAIN outputs} |-> outputs[Tail(path)]]
           done == [resolver EXCEPT !.outputs = @ @@ (Current.alias :> DOMAIN outputs)]
       IN  IF \/ \E o \in DOMAIN outputs : o \notin DOMAIN Current.saves \/ Current.saves[o] # outputs[o]
              \/ Current.deps # <<>> /\ Current.start = Len(resolver.steps)
              \/ caller = <<>> /\ ~ReferencesAreVisible(done)
             THEN Reject
             ELSE IF caller = <<>> THEN phase' = "library" /\ resolver' = [resolver EXCEPT !.scopes = <<>>]
                                        /\ UNCHANGED <<include, document>>
             ELSE /\ resolver' = [done EXCEPT
                        !.scopes = [caller EXCEPT ![Len(caller)].saves = @ @@ exported],
                        !.steps = IF Current.deps = <<>> THEN @
                                  ELSE AddDependencies(@, Current.start, Current.deps)]
                  /\ UNCHANGED <<phase, include, document>>
    /\ UNCHANGED <<config, instance>>

EndRoot ==
    /\ phase = "expand" /\ Current.fragment = "" /\ ~Expanding
    /\ document' = resolver @@ [checked |-> {}] /\ resolver' = [resolver EXCEPT !.scopes = <<>>]
    /\ phase' = "library"
    /\ UNCHANGED <<config, include, instance>>

\* validate_fragment_library: a fragment the root does not use is expanded by
\* a resolver of its own, with null arguments; then the root's references.
Null == [op |-> "literal", type |-> "none", fits |-> {}]
ValidateLibrary ==
    /\ phase = "library" /\ resolver.scopes = <<>>
    /\ LET unused == DOMAIN include.fragments \ (document.used \cup document.checked)
           name == CHOOSE n \in unused : TRUE
       IN  IF unused # {}
             THEN /\ resolver' = FreshResolver(Scope(name, <<"fragment", name>>,
                                    [p \in DOMAIN include.fragments[name].parameters |-> Null], 0, <<>>))
                  /\ document' = [document EXCEPT !.checked = @ \cup {name}]
                  /\ UNCHANGED <<phase, include>>
             ELSE IF ReferencesAreVisible(document) THEN phase' = "validate" /\ UNCHANGED <<include, resolver, document>>
             ELSE Reject
    /\ UNCHANGED <<config, instance>>

Compose == Include \/ RegisterFragments \/ ExpandUse \/ EmitConcrete \/ EndFragment \/ EndRoot \/ ValidateLibrary
=============================================================================
