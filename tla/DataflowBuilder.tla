--------------------------- MODULE DataflowBuilder ----------------------------
(***************************************************************************)
(* build_dataflow (web-sitter/src/dfg.rs): the definitions, the uses and   *)
(* the flow edges of a file, a set comprehension for each pass over the    *)
(* syntax tree; and build_dataflow_for_functions, which renews those of    *)
(* some functions.                                                         *)
(*                                                                         *)
(* A node of the tree is known by its path.  The tree has the named nodes  *)
(* of tree-sitter only (cpg_generator.rs), in the order of the source:     *)
(* what a pass does on meeting a token ("=", "in", "range", ":") it never  *)
(* does.  The body of the function whose control flow is studied is at     *)
(* Body; the other functions have one block each.                          *)
(*                                                                         *)
(* A node is [t, f, name, d, kids]: what CfgBuilder knows of it and d, its *)
(* tree-sitter type; name is the text of an identifier.                    *)
(***************************************************************************)
EXTENDS Execution

CONSTANTS
  File(_),       \* the top-level nodes of the file whose studied function has this body
  Propagators,   \* TAINT_PROPAGATORS: name |-> [dst, src, rest]
  Outputs        \* STDLIB_TAINT_SOURCES: name |-> tainted_params

VARIABLES
  ast,     \* path |-> [d, name, f, arity, fn], fn its function or None
  flows    \* cpg.dataflow: None or [defs, uses, edges]

Body == <<1, 3>>
Studied == <<1>>

-----------------------------------------------------------------------------
(* The tree.                                                               *)

Functions == {"function_definition", "function_declaration", "function_item"}
Identifiers == {"identifier", "field_identifier"}
Calls == {"call_expression", "new_expression"}

Tree(body) == [d |-> "translation_unit", kids |-> File(body)]

\* build_preprocessing_maps: every node belongs to the innermost function around it.
FunctionOf(root, p) ==
  LET around == {SubSeq(p, 1, k) : k \in 1 .. Len(p)}
      functions == {q \in around : NodeAt(root, q).d \in Functions}
  IN IF functions = {} THEN None ELSE CHOOSE q \in functions : \A r \in functions : Len(r) <= Len(q)

AstOf(root) ==
  [p \in Paths(root, <<>>) |->
     LET n == NodeAt(root, p)
     IN [d |-> n.d, arity |-> Len(n.kids), fn |-> FunctionOf(root, p),
         name |-> IF p = <<>> THEN None ELSE n.name, f |-> IF p = <<>> THEN None ELSE n.f]]

D(p) == ast[p].d
Var(p) == ast[p].name
Parts(p) == {Append(p, i) : i \in 1 .. ast[p].arity}
First(p) == Append(p, 1)
Rest(p) == Parts(p) \ {First(p)}
Below(p) == {q \in DOMAIN ast : IsPrefix(p, q)}
Foremost(ps) == {p \in ps : \A q \in ps : p = q \/ Earlier(p, q)}
OfType(ps, ts) == {p \in ps : D(p) \in ts}

\* node_in_scope, dataflow_item_in_scope: owners are functions; None stands for the globals.
Nodes(owners, ts) == {p \in DOMAIN ast : D(p) \in ts /\ ast[p].fn \in owners}
Everyone == {ast[p].fn : p \in DOMAIN ast} \cup {None}

-----------------------------------------------------------------------------
(* What an identifier is there for.                                        *)

Declarators == {"pointer_declarator", "array_declarator", "parenthesized_declarator",
                "function_declarator", "reference_declarator"}
Updates == {"update_expression", "preincrement_expression", "postincrement_expression"}
Places == {"pointer_expression", "subscript_expression", "field_expression", "cast_expression",
           "parenthesized_expression"}

\* is_lvalue_context.
RECURSIVE Lvalue(_)
Lvalue(p) ==
  LET q == Up(p)
      d == IF p = <<>> THEN "none" ELSE D(q)
      first == p # <<>> /\ p = First(q)
  IN \/ d \in Declarators /\ first /\ Lvalue(q)
     \/ d = "parameter_declaration" /\ ~first
     \/ d \in Functions \cup Updates
            \cup {"declarator", "local_variable_declaration", "match_arm", "tuple_pattern",
                  "array_pattern", "object_pattern"}
     \/ d \in {"var_spec", "variable_declarator", "assignment", "augmented_assignment",
               "assignment_statement", "assignment_expression", "init_declarator",
               "short_var_declaration", "for_statement"} /\ first
     \/ d = "short_var_declaration" /\ ast[p].f = "left"
     \/ d = "let_declaration" /\ ast[p].f = "pattern"
     \/ d = "expression_list" /\ q = First(Up(q)) /\ D(Up(q)) = "range_clause"
     \/ d \in Places /\ Lvalue(q)

\* is_call_callee_identifier.
Callee(p) == D(p) \in Identifiers /\ D(Up(p)) \in Calls /\ p = First(Up(p))

\* is_parameter_name: the innermost parameter or function around it is a parameter.
ParamName(p) ==
  LET around == {q \in {SubSeq(p, 1, k) : k \in 1 .. Len(p) - 1} :
                 D(q) \in Functions \cup {"parameter_declaration"}}
  IN \E q \in around : D(q) = "parameter_declaration" /\ \A r \in around : Len(r) <= Len(q)

\* is_expression_like.
ExpressionLike(p) ==
  D(p) \in Places \cup Updates \cup Calls
           \cup {"assignment_expression", "binary_expression", "conditional_expression",
                 "fold_expression", "lambda_expression", "compound_literal_expression",
                 "delete_expression", "named_expression", "try_expression", "yield_expression",
                 "initializer_list", "initializer_pair", "argument_list", "return_statement"}

\* collect_identifiers_in_expr: those that are read.
Ids(p) == {q \in OfType(Below(p), Identifiers) : ~Callee(q) /\ ~Lvalue(q)}
IdsIn(ps) == UNION {Ids(p) : p \in ps}

\* get_declared_variable: through the declarators, in the first part that declares one.
RECURSIVE Declared(_)
Declared(p) ==
  IF D(p) = "identifier" THEN {p}
  ELSE IF D(p) \in Declarators \cup {"declarator", "init_declarator"}
    THEN Foremost(UNION {Declared(q) : q \in Parts(p)})
  ELSE {}

\* extract_base_identifier.
RECURSIVE Base(_)
Base(p) ==
  IF D(p) \in Identifiers THEN {p}
  ELSE IF D(p) \in Places THEN Foremost(UNION {Base(q) : q \in Parts(p)})
  ELSE {}

\* extract_call_argument_nodes, extract_return_value_node.
Arguments(c) ==
  LET lists == Foremost(OfType(Parts(c), {"argument_list"}))
  IN IF lists = {} THEN <<>>
     ELSE LET l == CHOOSE l \in lists : TRUE IN [i \in 1 .. ast[l].arity |-> Append(l, i)]
ReturnValue(r) == Foremost(Parts(r))

\* extract_called_function_name, of a name, of a field, of what a pointer or an element holds.
CalledName(c) ==
  LET f == First(c)
      within == CASE D(f) = "identifier" -> {f}
                  [] D(f) = "field_expression" -> OfType(Parts(f), {"field_identifier"})
                  [] D(f) = "subscript_expression" -> OfType(Parts(f), {"identifier"})
                  [] D(f) = "parenthesized_expression" ->
                       OfType(Parts(f) \cup UNION {Parts(q) : q \in OfType(Parts(f), {"pointer_expression"})},
                              {"identifier"})
                  [] OTHER -> {}
  IN IF within = {} THEN None ELSE Var(CHOOSE q \in Foremost(within) : TRUE)

\* enclosing_assignment_lhs_identifier.
Receiver(c) == IF D(Up(c)) \in {"init_declarator", "assignment_expression"} THEN {First(Up(c))} ELSE {}

\* get_func_def_name; of the functions of one name the last is known by it.
FunctionName(f) == Var(CHOOSE p \in Foremost(OfType(Below(f), {"identifier"})) : TRUE)
FunctionsNamed(v) ==
  {f \in OfType(DOMAIN ast, Functions) :
     /\ FunctionName(f) = v
     /\ \A g \in OfType(DOMAIN ast, Functions) : Earlier(f, g) => FunctionName(g) # v}
Params(f) ==
  SetToSortSeq({p \in OfType(DOMAIN ast, {"identifier"}) : ast[p].fn = f /\ ParamName(p)}, Earlier)

-----------------------------------------------------------------------------
(* Edges are <<source, destination, type>>; a definition or a use is       *)
(* <<node, variable, function>>, of a global definition without function.  *)

Flow(ps, qs) == {<<p, q, "REACHING_DEF">> : p \in ps, q \in qs}
Here(ps) == {<<p, Var(p), ast[p].fn>> : p \in ps}
Anywhere(ps) == {<<p, Var(p), None>> : p \in ps}

\* The passes over identifiers: a parameter is a definition, what is not written is a use.
Written(p) == Lvalue(p) \/ ParamName(p)
IdentifierDefs(owners) ==
  Here({p \in Nodes(owners, {"identifier"}) : ~Callee(p) /\ Written(p) /\ Var(p) # "_"})
IdentifierUses(owners) ==
  Here({p \in Nodes(owners, {"identifier"}) : ~Callee(p) /\ ~Written(p)})
IdentifierEdges(owners) ==
  UNION {Flow({u[1]}, {Up(u[1])}) : u \in {x \in IdentifierUses(owners) : ExpressionLike(Up(x[1]))}}

\* update_expression: what is in it and is read, an argument say, is written, too.
UpdateEdges(owners) == UNION {Flow({q}, Ids(q)) : q \in Nodes(owners, Updates)}
UpdatePlaces(owners) == IdsIn(Nodes(owners, Updates))

-----------------------------------------------------------------------------
(* Assignments.                                                            *)

Assignments(owners) == {q \in Nodes(owners, {"assignment_expression"}) : ast[q].arity >= 2}

\* The identifiers of a[i] or *p on the left, none of which counts as read.
Stores(q, t) ==
  IF D(First(q)) = t /\ Ids(First(q)) = {} THEN OfType(Parts(First(q)), Identifiers) ELSE {}
StoredTo(q) == Foremost(Stores(q, "subscript_expression")) \cup Foremost(Stores(q, "pointer_expression"))

\* assignment_expression: to the base of an element or a pointer, and to the variable on the
\* left or else the first one read there; a call, too.
AssignmentEdges(owners) ==
  UNION {LET lhs == First(q)
             read == Ids(lhs)
             target == IF read # {} THEN Foremost(read) ELSE OfType({lhs}, Identifiers)
             calls == OfType(UNION {Below(r) : r \in Rest(q)}, Calls)
         IN Flow(IdsIn(Rest(q)), StoredTo(q) \cup target) \cup Flow(Foremost(calls), target)
         : q \in Assignments(owners)}
AssignmentDefs(owners) == UNION {Foremost(Stores(q, "pointer_expression")) : q \in Assignments(owners)}
AssignmentUses(owners) ==
  UNION {Stores(q, "subscript_expression") \cup Stores(q, "pointer_expression") : q \in Assignments(owners)}

\* init_declarator: from the initializer and what it reads; of a conditional, from its parts.
InitEdges(owners) ==
  UNION {LET lhs == Declared(First(q))
             init == Rest(q)
             choices == OfType(init, {"conditional_expression"})
         IN Flow(UNION {Parts(c) : c \in choices} \cup (init \ choices) \cup IdsIn(init \ choices), lhs)
         : q \in Nodes(owners, {"init_declarator"})}

\* Python, Go, Java and JavaScript, Rust: to the first name on the left.
Assigning == {"assignment", "augmented_assignment", "short_var_declaration", "assignment_statement",
              "variable_declarator"}
AssignEdges(owners) ==
  UNION {Flow(IdsIn(Rest(q)), OfType({First(q)}, Identifiers))
         : q \in {q \in Nodes(owners, Assigning) : ast[q].arity >= 2}}
LetEdges(owners) ==
  UNION {Flow(IdsIn({r \in Parts(q) : ast[r].f = "value"}),
              {r \in OfType(Parts(q), Identifiers) : ast[r].f = "pattern"})
         : q \in Nodes(owners, {"let_declaration"})}

\* named_expression: the name is written, and read where it stands.
NamedEdges(owners) ==
  UNION {Flow(Ids(Append(q, ast[q].arity)), OfType({First(q)}, Identifiers))
         : q \in {q \in Nodes(owners, {"named_expression"}) : ast[q].arity >= 2}}
NamedPlaces(owners) == OfType({First(q) : q \in Nodes(owners, {"named_expression"})}, Identifiers)

\* range_clause, for_in_clause, enhanced_for_statement, type_pattern: the names they bind.
\* Without the tokens between, what is iterated over counts among them.
BoundPlaces(owners) ==
  LET parts(q) == Parts(q) \cup UNION {Parts(r) : r \in OfType(Parts(q), {"expression_list"})}
      bound == {p \in UNION {parts(q) : q \in Nodes(owners, {"range_clause"})} : Var(p) # "_"}
               \cup UNION {Parts(q) : q \in Nodes(owners, {"for_in_clause"})}
               \cup UNION {Foremost(OfType(Parts(q), {"identifier"}))
                           : q \in Nodes(owners, {"enhanced_for_statement"})}
               \cup {Append(q, ast[q].arity) : q \in Nodes(owners, {"type_pattern"})}
  IN OfType(bound, Identifiers)

\* field_initializer: from the arguments and what they read to the field.
FieldInitPlaces(q) == Foremost(OfType(Parts(q), Identifiers))
FieldInitEdges(owners) ==
  UNION {LET args == UNION {Parts(l) : l \in OfType(Parts(q), {"argument_list"})}
         IN Flow(args \cup IdsIn(args), FieldInitPlaces(q)) : q \in Nodes(owners, {"field_initializer"})}

\* enumerator: a global definition.
EnumPlaces(owners) == OfType({First(q) : q \in Nodes(owners, {"enumerator"})}, {"identifier"})

-----------------------------------------------------------------------------
(* Expressions that what they read flows into.                             *)

\* fold_expression, send_statement, yield_expression, try_expression, composite_literal.
OperandEdges(owners) ==
  UNION {Flow(Ids(q), {q}) : q \in Nodes(owners, {"fold_expression", "yield_expression", "try_expression"})}
  \cup UNION {Flow(Ids(Append(q, ast[q].arity)), {q}) : q \in Nodes(owners, {"send_statement"})}
  \cup UNION {Flow(IdsIn(OfType(Parts(q), {"literal_value", "keyed_element"})), {q})
              : q \in Nodes(owners, {"composite_literal"})}

\* initializer_pair: from the value to the pair, and on to the list if the pair has a field.
PairEdges(owners) ==
  UNION {Flow(Ids(Append(q, ast[q].arity)), {q})
         \cup IF OfType(Parts(q) \cup UNION {Parts(r) : r \in OfType(Parts(q), {"field_designator"})},
                        {"field_identifier"}) # {}
                THEN Flow({q}, {Up(q)}) ELSE {}
         : q \in {q \in Nodes(owners, {"initializer_pair"}) : D(Up(q)) = "initializer_list"}}

\* compound_literal_expression: from the values of its pairs and its names.
LiteralEdges(owners) ==
  UNION {LET items == UNION {Parts(l) : l \in OfType(Parts(q), {"initializer_list"})}
             values(r) == Ids(Append(r, ast[r].arity))
             pairs == OfType(items, {"initializer_pair"})
         IN UNION {Flow(values(r), {r}) \cup Flow({s \in {r} : values(r) # {}}, {q}) : r \in pairs}
            \cup Flow(OfType(items, {"identifier"}), {q})
         : q \in Nodes(owners, {"compound_literal_expression"})}

\* array_declarator: from the size to the array.
SizeEdges(owners) ==
  UNION {{<<p, v, "SIZE_FLOW">> : p \in OfType(Rest(q), Identifiers) \cup IdsIn(Rest(q)), v \in Declared(q)}
         : q \in Nodes(owners, {"array_declarator"})}

-----------------------------------------------------------------------------
(* Fields.                                                                 *)

FieldName(q) == Foremost(OfType(Parts(q), {"field_identifier"}))
FieldText(q) == {Var(p) : p \in FieldName(q)}
ObjectOf(q) == Foremost({p \in Parts(q) : D(p) # "field_identifier"})

\* is_field_declaration_name: a global definition, and one of the field of its structure.
DeclaredFields(owners) ==
  {p \in Nodes(owners, {"field_identifier"}) : D(Up(p)) \in {"field_declaration", "field_designator"}}

\* A field that is written; what p->f or a[i].f points to is reached by the field.
FieldAccesses(owners) == {q \in Nodes(owners, {"field_expression"}) : FieldName(q) # {}}
WrittenFields(owners) == {q \in FieldAccesses(owners) : Lvalue(q)}
FieldEdges(owners) ==
  UNION {Flow(IdsIn(ObjectOf(q)), {q}) : q \in FieldAccesses(owners)}
  \cup UNION {Flow(FieldName(q), {Up(q)})
              : q \in {q \in FieldAccesses(owners) : ~Lvalue(q) /\ ExpressionLike(Up(q))}}
  \cup UNION {Flow(FieldName(q), {Up(r) : r \in {r \in FieldAccesses(owners) \ {q} :
                                                 /\ ast[r].fn = ast[q].fn
                                                 /\ FieldText(r) = FieldText(q)
                                                 /\ D(Up(r)) \in {"pointer_expression", "subscript_expression"}}})
              : q \in WrittenFields(owners)}

\* enclosing_struct_name; declaration_type_name_for_identifier, of the declaration around it.
AroundOf(p) == {SubSeq(p, 1, k) : k \in 0 .. Len(p)}
Innermost1(ps) == {p \in ps : \A q \in ps : Len(q) <= Len(p)}
StructAround(p) ==
  {Var(n) : n \in UNION {OfType(Parts(q), {"type_identifier"})
                         : q \in Innermost1(OfType(AroundOf(p), {"struct_specifier"}))}}
DeclarationTypes == {"declaration", "init_declarator", "parameter_declaration"}
TypeAround(p) ==
  LET typed == {q \in OfType(AroundOf(p), DeclarationTypes) :
                OfType(Parts(q), {"type_identifier", "primitive_type"}) # {}}
  IN {Var(n) : n \in UNION {Foremost(OfType(Parts(q), {"type_identifier", "primitive_type"}))
                            : q \in Innermost1(typed)}}

\* field_defs: <<node, function, base, field>>.
FieldDefs(owners) ==
  UNION {{<<p, ast[p].fn, b, Var(p)>>
          : b \in IF StructAround(p) = {} THEN {"*"} ELSE StructAround(p)} : p \in DeclaredFields(owners)}
  \cup UNION {UNION {{<<p, ast[q].fn, b, Var(p)>>
          : b \in IF IdsIn(ObjectOf(q)) = {} THEN {"*"} ELSE {Var(o) : o \in IdsIn(ObjectOf(q))}}
         : p \in FieldName(q)} : q \in WrittenFields(owners)}

\* lookup_field_def_ids, of the field that the use u is an object of, or of one named like it.
FieldDefsFor(u, fieldDefs) ==
  LET access == Innermost1({q \in OfType(AroundOf(u[1]), {"field_expression"}) : FieldName(q) # {}})
      field == IF access = {} THEN {u[2]} ELSE UNION {FieldText(q) : q \in access}
      objects == UNION {ObjectOf(q) : q \in access}
      bases == {"*"} \cup {Var(o) : o \in IdsIn(objects)}
      typed == UNION {TypeAround(o) : o \in OfType(objects, {"identifier", "field_expression"})}
      struct == IF typed # {} THEN typed ELSE StructAround(u[1])
      Matches(d) == \/ d[2] = u[3] /\ d[3] \in bases
                    \/ IF struct = {} THEN StructAround(d[1]) = {}
                       ELSE d[3] \in struct \/ StructAround(d[1]) = struct
  IN {d[1] : d \in {d \in fieldDefs : d[4] \in field /\ Matches(d)}}

-----------------------------------------------------------------------------
(* Lambdas, which belong to the function around them.                      *)

\* The variables that the body of the lambda reads and captures: all of them or by name.
Captures(q) == UNION {Parts(c) : c \in OfType(Parts(q), {"lambda_capture_specifier"})}
ByReference(q) == "&" \in {Var(c) : c \in Captures(q)}
Captured(q) ==
  {p \in IdsIn(OfType(Parts(q), {"compound_statement"})) :
     {"&", "=", Var(p)} \cap {Var(c) : c \in Captures(q)} # {}}
Lambdas(owners) == {q \in Nodes(owners, {"lambda_expression"}) : ast[q].fn # None}

\* From every definition met so far in the function, wherever it stands.
CaptureEdges(owners, defs) ==
  UNION {UNION {Flow({d[1] : d \in {d \in defs : d[2] = Var(p) /\ d[3] = ast[q].fn}}, {p}) : p \in Captured(q)}
         : q \in Lambdas(owners)}

\* lambda_writebacks: from every definition to every use of what is captured by reference.
WritebackEdges(owners, defs, uses) ==
  UNION {LET vars == {Var(p) : p \in Captured(q)}
         IN {<<x[1][1], x[2][1], "REACHING_DEF">>
             : x \in {x \in defs \X uses : /\ x[1][2] = x[2][2] /\ x[1][2] \in vars
                                           /\ x[1][3] = ast[q].fn /\ x[2][3] = ast[q].fn}}
         : q \in {q \in Lambdas(owners) : ByReference(q)}}

-----------------------------------------------------------------------------
(* From definitions to uses.                                               *)

DefsOf(owners) ==
  LET identifiers == IdentifierDefs(owners)
      here == UpdatePlaces(owners) \cup AssignmentDefs(owners) \cup NamedPlaces(owners)
              \cup BoundPlaces(owners)
              \cup UNION {FieldInitPlaces(q) : q \in Nodes(owners, {"field_initializer"})}
              \cup UNION {FieldName(q) : q \in WrittenFields(owners)}
  IN identifiers \cup Here(here) \cup Anywhere(DeclaredFields(owners) \cup EnumPlaces(owners))
UsesOf(owners) == IdentifierUses(owners) \cup Here(UpdatePlaces(owners) \cup AssignmentUses(owners))

\* def_precedes_use: by line and column.
Precedes(p, q) == p = q \/ Earlier(p, q)

\* The block of a node: the function node is in the entry block, its head in none.
BlockOf(p) ==
  IF ast[p].fn = Studied
    THEN IF p = Studied THEN Entry
         ELSE IF IsPrefix(Body, p) /\ SubSeq(p, 3, Len(p)) \in DOMAIN graph.at
           THEN graph.at[SubSeq(p, 3, Len(p))] ELSE None
  ELSE IF ast[p].fn # None /\ (p = ast[p].fn \/ IsPrefix(Append(ast[p].fn, 3), p)) THEN Entry ELSE None

\* build_bb_reachability, of the blocks that the entry reaches.
Onward(b) == Range(graph.succ[b]) \cup {e[2] : e \in {e \in graph.exc : e[1] = b}}
RECURSIVE Closure(_)
Closure(bs) ==
  LET more == UNION {Onward(b) : b \in bs} \ bs
  IN IF more = {} THEN bs ELSE Closure(bs \cup more)
BlockReach == [b \in Closure({Entry}) |-> Closure({b})]

\* Mutant: the order of the source decides.
ReachesInOrder(reach, p, q) == Precedes(p, q)

\* def_reaches_use, of nodes of one function.
Reaches(reach, p, q) ==
  LET a == BlockOf(p)  b == BlockOf(q)
  IN IF None \in {a, b} THEN Precedes(p, q)
     ELSE IF ast[p].fn # Studied THEN TRUE
     ELSE a \in DOMAIN reach /\ b \in reach[a]

\* No definition ends another one; a global one comes to every use; one that comes to a use
\* before it in the source is carried by a loop.
UseEdges(reach, defs, uses, fieldDefs) ==
  {<<x[1][1], x[2][1], IF Precedes(x[1][1], x[2][1]) THEN "REACHING_DEF" ELSE "LOOP_CARRY">>
     : x \in {x \in defs \X uses : /\ x[1][2] = x[2][2] /\ x[1][3] = x[2][3] /\ x[1][3] # None
                                   /\ Reaches(reach, x[1][1], x[2][1])}}
  \cup {<<x[1][1], x[2][1], "REACHING_DEF">>
          : x \in {x \in {d \in defs : d[3] = None} \X uses : x[1][2] = x[2][2]}}
  \cup UNION {Flow(FieldDefsFor(u, fieldDefs), {u[1]}) : u \in uses}

-----------------------------------------------------------------------------
(* The passes that follow.                                                 *)

\* add_points_to_edges: a dereference has an operand, too.
PointsToEdges(owners) ==
  UNION {LET declared == Declared(First(q))
             rhs == OfType({Append(q, ast[q].arity)}, {"pointer_expression"})
             operands == UNION {Foremost(OfType(Parts(r), Identifiers)) : r \in rhs}
         IN {<<p, o, "POINTS_TO">>
             : p \in IF declared # {} THEN declared ELSE Base(First(q)), o \in operands}
         : q \in {q \in Nodes(owners, {"init_declarator", "assignment_expression"}) : ast[q].arity >= 2}}

\* add_dealloc_edges, add_return_flow_edges, add_call_return_edges.
DeallocEdges(owners) ==
  UNION {{<<o, q, "DEALLOC">> : o \in Foremost(OfType(Parts(q), Identifiers))}
         : q \in Nodes(owners, {"delete_expression"})}
ReturnEdges(owners) ==
  UNION {{<<p, r, "RETURN_FLOW">> : p \in IdsIn(ReturnValue(r))} : r \in Nodes(owners, {"return_statement"})}
CallReturnEdges(owners) ==
  UNION {{<<c, q, "CALL_RETURN">> : q \in Receiver(c)} : c \in Nodes(owners, {"call_expression"})}

\* add_taint_propagator_edges: from the arguments it copies to the argument it writes, and to
\* the call; rest is the index from which all further arguments are copied.
PropagatorEdges(owners) ==
  UNION {LET args == Arguments(c)
             spec == Propagators[CalledName(c)]
             src == {i \in DOMAIN args : i \in spec.src \/ (spec.rest # None /\ i >= spec.rest)}
             dst == {i \in DOMAIN args : i = spec.dst}
         IN {<<p, q, "TAINT_PROPAGATOR">>
             : p \in IdsIn({args[i] : i \in src}), q \in {c} \cup IdsIn({args[i] : i \in dst})}
         : c \in {c \in Nodes(owners, {"call_expression"}) : CalledName(c) \in DOMAIN Propagators}}

\* add_taint_source_output_edges: the call defines what it writes; from its declaration, and
\* to every other place of the variable that the call reaches, one that is written, too.
OutputEdges(owners, reach) ==
  UNION {LET args == Arguments(c)
             fn == ast[c].fn
             outs == IdsIn({args[i] : i \in Outputs[CalledName(c)] \cap DOMAIN args})
             places(v) == {p \in OfType(DOMAIN ast, Identifiers) : /\ Var(p) = v /\ ast[p].fn = fn
                                                                    /\ ~Callee(p)}
             decls(v) == Foremost({q \in OfType(DOMAIN ast, {"init_declarator", "parameter_declaration"}) :
                                   /\ ast[q].fn = fn
                                   /\ \E p \in Foremost(OfType(Below(q), Identifiers)) : Var(p) = v})
         IN UNION {Flow(decls(Var(o)), {c})
                   \cup Flow({c}, {p \in places(Var(o)) \ {o} : Reaches(reach, c, p)}) : o \in outs}
         : c \in {c \in Nodes(owners, {"call_expression"}) : CalledName(c) \in DOMAIN Outputs}}

-----------------------------------------------------------------------------
(* add_interprocedural_edges.                                              *)

\* From the arguments to the parameters, what is left over to the last one; from the values
\* returned to what the call is assigned to.
InterproceduralEdges ==
  UNION {UNION {LET args == Arguments(c)
                    params == Params(f)
                    Param(i) == {params[IF i > Len(params) THEN Len(params) ELSE i] : x \in {1} \cap DOMAIN params}
                    returns == {r \in OfType(DOMAIN ast, {"return_statement"}) : ast[r].fn = f}
                    values == UNION {ReturnValue(r) : r \in returns}
                IN UNION {{<<p, q, "INTERPROCEDURAL_FLOW">> : p \in {args[i]} \cup Ids(args[i]), q \in Param(i)}
                          : i \in DOMAIN args}
                   \cup {<<p, q, "INTERPROCEDURAL_FLOW">> : p \in values \cup IdsIn(values), q \in Receiver(c)}
                : f \in FunctionsNamed(CalledName(c))}
         : c \in OfType(DOMAIN ast, Calls)}

-----------------------------------------------------------------------------
(* build_dataflow_impl, of the nodes of the owners.                        *)

Collect(owners, reach, defs, uses, interprocedural) ==
  [defs |-> defs, uses |-> uses,
   edges |->
     IdentifierEdges(owners) \cup UpdateEdges(owners) \cup AssignmentEdges(owners)
     \cup InitEdges(owners) \cup AssignEdges(owners) \cup LetEdges(owners) \cup NamedEdges(owners)
     \cup FieldInitEdges(owners) \cup OperandEdges(owners) \cup PairEdges(owners)
     \cup LiteralEdges(owners) \cup SizeEdges(owners) \cup FieldEdges(owners)
     \cup CaptureEdges(owners, IdentifierDefs(owners)) \cup WritebackEdges(owners, defs, uses)
     \cup UseEdges(reach, defs, uses, FieldDefs(owners))
     \cup PointsToEdges(owners) \cup DeallocEdges(owners) \cup ReturnEdges(owners)
     \cup CallReturnEdges(owners) \cup PropagatorEdges(owners) \cup OutputEdges(owners, reach)
     \cup IF interprocedural THEN InterproceduralEdges ELSE {}]

Dataflow(owners, interprocedural) ==
  Collect(owners, BlockReach, DefsOf(owners), UsesOf(owners), interprocedural)

\* build_dataflow, of the tree in ast.
Full == Dataflow(Everyone, TRUE)

\* Mutant: every edge is kept whose nodes still exist.
MergeAll(previous, fresh, owners) ==
  LET known(e) == e[1] \in DOMAIN ast /\ e[2] \in DOMAIN ast
  IN [defs |-> {d \in previous.defs : d[3] \notin owners} \cup {d \in fresh.defs : d[3] \in owners},
      uses |-> {u \in previous.uses : u[3] \notin owners} \cup {u \in fresh.uses : u[3] \in owners},
      edges |-> {e \in previous.edges \cup fresh.edges : known(e)}]

\* build_dataflow_for_functions: what touches none of them is kept if its nodes still exist.
Merge(previous, fresh, owners) ==
  LET owner(p) == IF p \in DOMAIN ast THEN ast[p].fn ELSE None
      touches(e) == owner(e[1]) \in owners \/ owner(e[2]) \in owners
      known(e) == e[1] \in DOMAIN ast /\ e[2] \in DOMAIN ast
  IN [defs |-> {d \in previous.defs : d[3] \notin owners} \cup {d \in fresh.defs : d[3] \in owners},
      uses |-> {u \in previous.uses : u[3] \notin owners} \cup {u \in fresh.uses : u[3] \in owners},
      edges |-> {e \in {e \in previous.edges : ~touches(e)} \cup {e \in fresh.edges : touches(e)} : known(e)}]
ForFunctions(previous, owners) ==
  IF previous = None \/ owners = {} THEN Full
  ELSE Merge(previous, Dataflow(owners, FALSE), owners)
=============================================================================
