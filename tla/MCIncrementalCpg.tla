--------------------------- MODULE MCIncrementalCpg ---------------------------
(***************************************************************************)
(* Files for IncrementalCpg: functions fnF, fnG and fnH that call one      *)
(* another, the external extX which may be declared not to return, and a   *)
(* container boxC of the methods memP and memQ, whose text is compared or  *)
(* which is a C++ specifier.                                               *)
(***************************************************************************)
EXTENDS IncrementalCpg

CONSTANTS fnF, fnG, fnH, extX, boxC, memP, memQ

Names == {fnF, fnG, fnH, extX, boxC, memP, memQ}

Function(n, calls) == [kind |-> "function", name |-> n, calls |-> calls, methods |-> <<>>]
Container(kind, methods) == [kind |-> kind, name |-> boxC, calls |-> {}, methods |-> methods]
Declaration(n) == [kind |-> "declaration", name |-> n, calls |-> {}, methods |-> <<>>]

\* fnF calls fnG and fnG calls fnH, or not; fnH calls fnF.
FunctionItems == {Function(fnF, {}), Function(fnF, {fnG}), Function(fnG, {}),
                  Function(fnG, {fnH}), Function(fnH, {fnF})}

P == Function(memP, {})
P2 == Function(memP, {fnG})
Q == Function(memQ, {memP})
MixedItems ==
  {Container("class", b) : b \in {<<P>>, <<P2, Q>>}}
  \cup {Container("specifier", b) : b \in {<<P, Q>>, <<P2, Q>>, <<Q, P>>}}
  \cup {Function(fnF, {fnG, extX}), Declaration(extX)}

SeqsOf(items, n) == {s \in UNION {[1 .. k -> items] : k \in 0 .. n} : DistinctNames(s)}

FunctionTexts == SeqsOf(FunctionItems, 2)
PairFiles == {<<>>, <<Function(fnF, {fnG}), Function(fnG, {})>>}
\* A class with one method that changes, or with two; a specifier before a function.
FewFiles == {<<Container("class", <<P>>)>>, <<Function(fnF, {fnG, extX}), Container("class", <<P2, Q>>)>>,
             <<Container("specifier", <<P, Q>>), Function(fnF, {fnG, extX})>>,
             <<Container("specifier", <<Q, P>>), Declaration(extX)>>}
MixedTexts == SeqsOf(MixedItems, 1)
=============================================================================
