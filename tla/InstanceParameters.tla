-------------------------- MODULE InstanceParameters --------------------------
(***************************************************************************)
(* How an instance gets its parameters (slapconfiguration.JsonSchema): what *)
(* the SlapOS master answers is checked against the schemas of the software *)
(* release, for the shared instances one by one and then for the instance   *)
(* itself, and completed by the defaults of the schemas.  The validator of  *)
(* jsonschema is external.                                                  *)
(***************************************************************************)
EXTENDS Naturals, Sequences, FiniteSets

CONSTANT SharedCount  \* bound: the shared instances

ASSUME ParametersAssumption == SharedCount \in Nat

(* A schema is one, or any, of two branches told apart by their kind, which may *)
(* be required, each with a default for the value.  A parameter that is not     *)
(* given is "none".                                                             *)
Kinds == {"a", "b"}
Absent == "none"
Instances == [kind : Kinds \cup {Absent}, value : {"good", "bad", Absent}]
MainInstances == {[kind |-> "a", value |-> "bad"], [kind |-> "a", value |-> Absent]}
Accepted == {"good", "fine"}
Schemas == [any : BOOLEAN, required : BOOLEAN,
            default : {d \in [Kinds -> {"good", "fine", "bad", Absent}] :
                         d["a"] \in {"good", Absent} /\ d["b"] \in {"fine", "bad"}}]

Switches == {"none", "main", "shared", "all"}

VARIABLES
  given,      \* the answer of the master, the schema and the options
  step,       \* what is done next: "shared", "main" or "end"; or "raised"
  done,       \* the shared instances that are sorted
  valid, invalid,  \* the lists of them, as functions of their reference
  main        \* the parameters of the instance

parametersVars == <<given, step, done, valid, invalid, main>>

References == 1..SharedCount
Nobody == [r \in {} |-> 0]

ParametersInit ==
  /\ given \in [schema : Schemas, hasShared : BOOLEAN, setDefault : Switches, validate : Switches,
                shared : [References -> Instances],
                main : MainInstances]
  /\ step = "shared" /\ done = 0 /\ valid = Nobody /\ invalid = Nobody
  /\ main = given.main

-----------------------------------------------------------------------------
(* The validators. *)

\* The keyword "properties" of a branch.
PropertiesHold(instance, kind) ==
  instance.kind \in {kind, Absent} /\ instance.value \in Accepted \cup {Absent}

Conforms(instance) ==
  LET holds == {kind \in Kinds : PropertiesHold(instance, kind)
                                 /\ (given.schema.required => instance.kind # Absent)}
  IN holds # {} /\ (given.schema.any \/ Cardinality(holds) = 1)

Defaults(instance) ==
  {given.schema.default[kind] : kind \in {k \in Kinds : PropertiesHold(instance, k)}} \ {Absent}

\* Mutant: what the defaults make of an instance is not validated.
Validate_Once(instance, default) ==
  LET defaults == IF default /\ instance.value = Absent THEN Defaults(instance) ELSE {} IN
  IF ~Conforms(instance) THEN [result |-> "errors", instance |-> instance]
  ELSE IF Cardinality(defaults) > 1 THEN [result |-> "raises", instance |-> instance]
  ELSE [result |-> "valid", instance |-> IF defaults = {} THEN instance
          ELSE [instance EXCEPT !.value = CHOOSE d \in defaults : TRUE]]

\* BasicValidator, or DefaultValidator: defaults are those of the branches whose
\* properties hold, and must not be in conflict.
Validate(instance, default) ==
  LET defaults == IF default /\ instance.value = Absent THEN Defaults(instance) ELSE {}
      updated == IF defaults = {} THEN instance
                 ELSE [instance EXCEPT !.value = CHOOSE d \in defaults : TRUE]
  IN
  IF ~Conforms(instance) THEN [result |-> "errors", instance |-> instance]
  ELSE IF Cardinality(defaults) > 1 THEN [result |-> "raises", instance |-> instance]
  ELSE [result |-> IF Conforms(updated) THEN "valid" ELSE "errors", instance |-> updated]

-----------------------------------------------------------------------------
(* _validateParameterDict. *)

For(switch, who) == switch \in {who, "all"}

\* _getSharedSchema finds the schema of the shared instances of the software type, or
\* None, of which no validator can be made.
NoSharedSchema ==
  /\ step = "shared" /\ For(given.validate, "shared")
  /\ SharedCount > 0 /\ ~given.hasShared
  /\ step' = "raised"
  /\ UNCHANGED <<given, done, valid, invalid, main>>

\* A conflict of defaults is to raise UserError, which would make the instance
\* invalid, but its message names an unknown variable: NameError ends the recipe.
ParseShared ==
  /\ step = "shared" /\ For(given.validate, "shared") /\ done < SharedCount
  /\ given.hasShared
  /\ LET checked == Validate(given.shared[done + 1], For(given.setDefault, "shared"))
         Add(list) == [r \in DOMAIN list \cup {done + 1} |->
                         IF r = done + 1 THEN checked.instance ELSE list[r]]
     IN CASE checked.result = "raises" ->
               step' = "raised" /\ UNCHANGED <<done, valid, invalid>>
          [] checked.result = "valid" ->
               valid' = Add(valid) /\ done' = done + 1 /\ UNCHANGED <<step, invalid>>
          [] checked.result = "errors" ->
               invalid' = Add(invalid) /\ done' = done + 1 /\ UNCHANGED <<step, valid>>
  /\ UNCHANGED <<given, main>>

SharedDone ==
  /\ step = "shared" /\ (For(given.validate, "shared") => done = SharedCount)
  /\ step' = "main"
  /\ UNCHANGED <<given, done, valid, invalid, main>>

ParseMain ==
  /\ step = "main"
  /\ LET checked == Validate(main, For(given.setDefault, "main")) IN
     IF ~For(given.validate, "main") THEN step' = "end" /\ UNCHANGED main
     ELSE IF checked.result = "valid" THEN step' = "end" /\ main' = checked.instance
     ELSE step' = "raised" /\ UNCHANGED main
  /\ UNCHANGED <<given, done, valid, invalid>>

ParametersNext == NoSharedSchema \/ ParseShared \/ SharedDone \/ ParseMain

ParametersSpec == ParametersInit /\ [][ParametersNext]_parametersVars

-----------------------------------------------------------------------------
(* Properties. *)

Extends(instance, before) ==
  /\ instance.kind = before.kind
  /\ before.value # Absent => instance.value = before.value

\* Each shared instance that was checked is in one list: a valid one conforms to the
\* schema, defaults included, an invalid one does not, and what the user gave is never
\* changed.  Only the instance itself, a conflict between defaults, or a software type
\* that has no schema for shared instances fails the recipe: a shared instance that is
\* wrong never keeps the others from being served.
SharedSorted ==
  /\ DOMAIN valid \cap DOMAIN invalid = {} /\ DOMAIN valid \cup DOMAIN invalid = 1..done
  /\ \A r \in DOMAIN valid : Conforms(valid[r]) /\ Extends(valid[r], given.shared[r])
  /\ \A r \in DOMAIN invalid : ~Conforms(invalid[r]) /\ Extends(invalid[r], given.shared[r])
  /\ step = "raised" /\ given.hasShared =>
       \/ For(given.validate, "main") /\ (done = SharedCount \/ ~For(given.validate, "shared"))
       \/ For(given.setDefault, "shared") /\ given.schema.any /\ ~given.schema.required
          /\ given.shared[done + 1].kind = Absent
=============================================================================
