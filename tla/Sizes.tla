-------------------------------- MODULE Sizes ---------------------------------
(***************************************************************************)
(* The sizes of buffers: AllocSizeIndex of web-ql/src/size_tracking.rs,    *)
(* over the declarations, literals and calls of a small syntax tree.       *)
(*                                                                         *)
(* The tree is a sequence of nodes in the order of their ids; a node has   *)
(* its kind, the number of its parent (0: none), the count it carries      *)
(* (array_size, the length of a literal, the elements of a collection),    *)
(* the name of the callee of a call and the arguments, None for an         *)
(* argument that is not a number.                                          *)
(***************************************************************************)
EXTENDS Symbolic, TLC

CONSTANT None

AstNode(kind, parent, count, callee, args) ==
  [kind |-> kind, parent |-> parent, count |-> count, callee |-> callee, args |-> args]
Declarations == {"LocalDef", "ParamDef", "FieldDef"}

Concrete(n) == <<"Concrete", n>>
UnknownSize == <<"Unknown", 0>>
Sized(arg) == IF arg = None THEN <<"Symbolic", 0>> ELSE Concrete(arg)

\* The argument of an allocator that holds the size; -1: the size is that of a string.
SizeArg == "malloc" :> 1 @@ "realloc" :> 2 @@ "strdup" :> -1 @@ "calloc" :> 0

\* saturating_mul
Product(c, e) == IF c = None \/ e = None THEN <<"Symbolic", 0>>
                 ELSE Concrete(IF c * e >= Half THEN Half - 1 ELSE c * e)

\* Mutant: the size of a calloc is that of one element.
AllocatedOneElement(n) == IF n.callee \in DOMAIN SizeArg THEN Sized(n.args[Len(n.args)]) ELSE UnknownSize

\* infer_heap_alloc_size
Allocated(n) ==
  CASE n.callee \notin DOMAIN SizeArg -> UnknownSize
    [] n.callee = "calloc" -> Product(n.args[1], n.args[2])
    [] OTHER -> IF SizeArg[n.callee] < 0 THEN UnknownSize ELSE Sized(n.args[SizeArg[n.callee]])

\* The nearest declaration at most `levels` nodes above n, 0 if there is none.
DeclarationAbove(ast, n, levels) ==
  LET up[k \in 0 .. levels] == IF k = 0 THEN n ELSE IF up[k - 1] = 0 THEN 0 ELSE ast[up[k - 1]].parent
      at == {k \in 1 .. levels : up[k] # 0 /\ ast[up[k]].kind \in Declarations}
  IN IF at = {} THEN 0 ELSE up[Min(at)]

\* propagate_size_to_declaration: or_insert.
Mirror(ast, sizes, n) ==
  LET decl == DeclarationAbove(ast, n, 4) IN IF decl = 0 THEN sizes ELSE sizes @@ (decl :> sizes[n])

\* One node of AllocSizeIndex::build; only a call of an allocator and nodes of these kinds
\* get an entry.  A C string has its terminator.
Enter(ast, sizes, n) ==
  LET node == ast[n]
      Put(size) == (n :> size) @@ sizes
  IN CASE node.kind = "array_declarator" -> Mirror(ast, Put(Sized(node.count)), n)
       [] node.kind = "String" -> Put(Concrete(node.count + 1))
       [] node.kind = "initializer_list" -> Put(Concrete(node.count))
       [] node.kind = "Call" /\ node.callee \in DOMAIN SizeArg -> Put(Allocated(node))
       [] OTHER -> sizes

SizesOf(ast) == FoldLeft(LAMBDA sizes, n : Enter(ast, sizes, n), <<>>, [n \in DOMAIN ast |-> n])

\* size_of and concrete_size: the node's own size, else that of the first source of a
\* SIZE_FLOW edge into it that has one; flows is the sequence of those sources.
SizeOf(ast, flows, n) ==
  LET sizes == SizesOf(ast)
      known == SelectSeq(flows, LAMBDA s : s \in DOMAIN sizes)
  IN IF n \in DOMAIN sizes THEN sizes[n] ELSE IF known # <<>> THEN sizes[known[1]] ELSE UnknownSize

ConcreteSize(ast, flows, n) ==
  LET size == SizeOf(ast, flows, n) IN IF size[1] = "Concrete" THEN size[2] ELSE None
=============================================================================
