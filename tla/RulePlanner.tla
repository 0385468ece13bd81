------------------------------ MODULE RulePlanner ------------------------------
(***************************************************************************)
(* The planner, web-ql/src/planner.rs with the method table of             *)
(* web-ql/src/types.rs, and the merging of rule sets, RuleSet::merge in    *)
(* web-ql/src/ir.rs.                                                       *)
(*                                                                         *)
(* A plan has the shape of the expression it is compiled from, so that     *)
(* compiling is a verdict: the expression stands for its own plan.  A      *)
(* scope maps the bound variables to their types.  Seed hints are left     *)
(* out: nothing reads them.                                                *)
(***************************************************************************)
EXTENDS RuleParser

NodeType == <<"alias", "Node">>
Scope(binds) == [v \in {binds[i].name : i \in DOMAIN binds} |->
                   binds[CHOOSE i \in DOMAIN binds : binds[i].name = v /\ \A j \in DOMAIN binds : binds[j].name = v => j <= i].ty]

\* Scope::child_with
Bind(scope, v, x) == (v :> x) @@ scope

-----------------------------------------------------------------------------
(* Methods.                                                                *)

\* Relational methods, with the number of their arguments: variables, but for dfg_def and
\* dfg_use, which take the name of a variable of the program.
Relational ==
  [m \in {"cfg_reaches", "dominates", "post_dominates", "same_function", "same_block",
          "cfg_reaches_feasible", "dfg_reaches", "dfg_flows_to"} |-> 1]
  @@ "cfg_reaches_without" :> 2 @@ "dfg_def" :> 1 @@ "dfg_use" :> 1
  @@ [m \in {"in_loop", "loop_has_no_exit", "in_exception_path", "guard_evals_true",
             "guard_evals_false", "in_dead_branch"} |-> 0]

\* method_group: the types a method is restricted to, by the kind it is about
CallOnly == {"callee_name", "qualified_callee", "arg", "arg_count", "has_arg", "callee_kind", "return_value", "receiver"}
MethodDefOnly == {"is_constructor", "is_destructor", "is_virtual", "visibility", "param", "param_count", "return_type"}
LiteralOnly == {"lit_kind", "string_value", "int_value"}
ClassDefOnly == {"base_classes", "implements"}
IdentifierOnly == {"refers_to"}
Universal ==
  DOMAIN Relational \cup
  {"parent", "ancestor", "has_ancestor", "children", "child", "descendant", "has_descendant", "id",
   "function_id", "class_context", "namespace", "basic_block", "line", "end_line", "file", "name", "text",
   "raw_kind", "kind", "operator", "cpp_meta", "go_meta", "python_meta", "java_meta", "js_meta", "ts_meta",
   "rust_meta", "is_some", "is_none", "eval_int", "eval_bool", "is_const_expr", "branch_condition",
   "loop_condition", "points_to", "alias_target", "is_pointer", "may_be_null", "null_source",
   "alloc_size", "has_known_size", "excludes_zero", "bounds_value"}

\* check_method_on_type
MethodFits(m, ty) ==
  LET fits(aliases) == ty[1] = "named" \/ (ty[1] = "alias" /\ ty[2] \in aliases \cup {"Node"})
  IN CASE m \in Universal -> TRUE
       [] m \in CallOnly -> fits({"Call", "Expr"})
       [] m \in MethodDefOnly -> fits({"MethodDef", "Decl"})
       [] m \in LiteralOnly -> fits({"Literal", "Expr"})
       [] m \in ClassDefOnly -> fits({"ClassDef", "Decl"})
       [] m \in IdentifierOnly -> fits({"Identifier", "Expr"})
       [] OTHER -> FALSE

\* return_type_of_method: an argument and a parameter keep the type of the receiver.
ReturnType(m, ty) ==
  CASE m \in {"callee_name", "qualified_callee", "name", "text", "raw_kind", "operator", "string_value",
              "namespace", "file", "return_type", "visibility"} -> <<"named", "String">>
    [] m \in {"arg", "param"} -> ty
    [] OTHER -> NodeType

-----------------------------------------------------------------------------
(* Expressions in value position: compile_plan_expr, infer_type and        *)
(* typecheck_plan_expr.                                                    *)

RECURSIVE IsValue(_, _), TypeOf(_, _), TypeChecks(_, _), Compiles(_, _, _)

IsValue(e, scope) ==
  CASE e.op = "ident" -> e.name \in DOMAIN scope
    [] e.op = "lit" -> TRUE
    [] e.op = "paren" -> IsValue(e.a, scope)
    [] e.op = "step" -> IsValue(e.of, scope) /\ \A i \in DOMAIN e.args : IsValue(e.args[i], scope)
    [] e.op = "compare" -> IsValue(e.lhs, scope) /\ IsValue(e.rhs, scope)
    [] OTHER -> FALSE

\* The type of an expression, in a sequence; empty when it has none.
TypeOf(e, scope) ==
  CASE e.op = "ident" /\ e.name \in DOMAIN scope -> <<scope[e.name]>>
    [] e.op = "paren" -> TypeOf(e.a, scope)
    [] e.op = "step" -> LET of == TypeOf(e.of, scope) IN IF of = <<>> THEN <<>> ELSE <<ReturnType(e.m, of[1])>>
    [] OTHER -> <<>>

TypeChecks(e, scope) ==
  e.op = "step" =>
    LET of == TypeOf(e.of, scope)
    IN (of # <<>> => MethodFits(e.m, of[1])) /\ TypeChecks(e.of, scope)

-----------------------------------------------------------------------------
(* Conditions.                                                             *)

\* try_compile_relational: a relational method of a bound variable
IsRelational(e) ==
  /\ e.op = "step" /\ e.of.op = "ident"
  /\ e.m \in DOMAIN Relational /\ Relational[e.m] = Len(e.args)

RelationalCompiles(e, scope) ==
  e.of.name \in DOMAIN scope /\ \A i \in DOMAIN e.args :
    \/ e.args[i].op = "ident" /\ (e.args[i].name \in DOMAIN scope \/ e.m \in {"dfg_def", "dfg_use"})
    \/ e.m \in {"dfg_def", "dfg_use"} /\ e.args[i].op = "lit" /\ e.args[i].val[1] = "str"

\* Mutant: the body of a `let` is compiled without its variable.
CompilesLetOutside(defs, e, scope) ==
  CASE e.op = "let" -> IsValue(e.bind, scope) /\ Compiles(defs, e.body, scope)
    [] e.op \in {"and", "or"} -> Compiles(defs, e.a, scope) /\ Compiles(defs, e.b, scope)
    [] e.op \in {"not", "paren"} -> Compiles(defs, e.a, scope)
    [] e.op \in {"exists", "forall"} -> Compiles(defs, e.body, Bind(scope, e.var, e.ty))
    [] e.op = "compare" -> IsValue(e.lhs, scope) /\ IsValue(e.rhs, scope) /\ TypeChecks(e.lhs, scope)
    [] e.op = "call" -> e.name \in DOMAIN defs /\ \A i \in DOMAIN e.args : IsValue(e.args[i], scope)
    [] OTHER -> IsValue(e, scope) \/ e.op = "matches"

\* compile_expr.  A call needs a definition of that name, of whatever kind and arity.
Compiles(defs, e, scope) ==
  CASE e.op \in {"and", "or"} -> Compiles(defs, e.a, scope) /\ Compiles(defs, e.b, scope)
    [] e.op \in {"not", "paren"} -> Compiles(defs, e.a, scope)
    [] e.op \in {"exists", "forall"} -> Compiles(defs, e.body, Bind(scope, e.var, e.ty))
    [] e.op = "let" -> IsValue(e.bind, scope) /\ Compiles(defs, e.body, Bind(scope, e.var, NodeType))
    [] e.op = "compare" -> IsValue(e.lhs, scope) /\ IsValue(e.rhs, scope) /\ TypeChecks(e.lhs, scope)
    [] e.op = "matches" -> /\ e.of.op \in {"ident", "step"} /\ IsValue(e.of, scope)
                           /\ \A i \in DOMAIN e.fields : IsValue(e.fields[i].is, scope)
    [] e.op = "call" -> e.name \in DOMAIN defs /\ \A i \in DOMAIN e.args : IsValue(e.args[i], scope)
    [] e.op = "step" -> IF IsRelational(e) THEN RelationalCompiles(e, scope) ELSE IsValue(e, scope)
    [] e.op \in {"ident", "lit"} -> IsValue(e, scope)

FindCompiles(defs, f) == Compiles(defs, f.cond, Scope(f.binds))

-----------------------------------------------------------------------------
(* Files.                                                                  *)

\* The first pass: one table for the definitions of every kind, in which a later one of a
\* name replaces an earlier one.
Definitions(items) ==
  LET at(n) == {i \in DOMAIN items : items[i].item # "rule" /\ items[i].name = n}
  IN [n \in {items[i].name : i \in {j \in DOMAIN items : items[j].item # "rule"}} |->
        items[CHOOSE i \in at(n) : \A j \in at(n) : j <= i]]

\* compile_rule: an error in a search clause refuses the file.
RuleCompiles(defs, r) ==
  \A i \in DOMAIN r.clauses : r.clauses[i].clause = "search" => FindCompiles(defs, r.clauses[i])

RECURSIVE AnyOf(_)
AnyOf(alts) == IF Len(alts) = 1 THEN alts[1].cond ELSE Both("or", alts[1].cond, AnyOf(Tail(alts)))

\* compile_find_expr_alternatives: the bindings of the first, any of the conditions
OneFind(d) == Find(d.alts[1].binds, AnyOf(d.alts))

\* A predicate that compiles in the scope of its parameters, an endpoint all of whose
\* alternatives do; one that does not is left out without an error.
Named(defs, kind) ==
  {n \in DOMAIN defs :
     /\ defs[n].item = kind
     /\ IF kind = "pred" THEN Compiles(defs, defs[n].body, Scope(defs[n].params))
        ELSE \A i \in DOMAIN defs[n].alts : FindCompiles(defs, defs[n].alts[i])}

\* Planner::compile: the rules, and a table of plans for each kind of definition
RuleSetOf(items) ==
  LET defs == Definitions(items)
      finds(kind) == [n \in Named(defs, kind) |-> OneFind(defs[n])]
      rules == SelectSeq(items, LAMBDA i : i.item = "rule")
  IN [ok |-> \A i \in DOMAIN rules : RuleCompiles(defs, rules[i]),
      rules |-> rules,
      preds |-> [n \in Named(defs, "pred") |-> [params |-> defs[n].params, body |-> defs[n].body]],
      sources |-> finds("source"), sinks |-> finds("sink"), sanitizers |-> finds("sanitizer")]

\* compile_rules: a file that does not parse has no rule set.
CompileFile(ts) == LET f == ParseFile(ts) IN IF f.ok THEN RuleSetOf(f.val) ELSE Refused

\* Mutant: only the rules are concatenated (as before merge was written).
MergeRules(a, b) == [a EXCEPT !.rules = a.rules \o b.rules]

\* RuleSet::merge: the rules one behind the other, the tables extended by the later set
Merge(a, b) ==
  [ok |-> TRUE, rules |-> a.rules \o b.rules, preds |-> b.preds @@ a.preds,
   sources |-> b.sources @@ a.sources, sinks |-> b.sinks @@ a.sinks, sanitizers |-> b.sanitizers @@ a.sanitizers]

NoRules == [ok |-> TRUE, rules |-> <<>>, preds |-> <<>>, sources |-> <<>>, sinks |-> <<>>, sanitizers |-> <<>>]

=============================================================================
