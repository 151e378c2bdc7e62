-------------------------------- MODULE Branches --------------------------------
(***************************************************************************)
(* What the body of a function is seen to call, and under which condition: *)
(* the walk of symbol_structure over the syntax tree of one indexed body   *)
(* (retrieval/structure.py).  A node is the path to it from the root, a    *)
(* test the node of its branch.  Python's trees; of the kinds of nodes:    *)
(*   "fn"            a function;                                           *)
(*   "if", "elif"    the arm, then the elifs and the else;                 *)
(*   "handler"       an except clause, "bare" without a type;              *)
(*   "loop", "else"  the body first; a loop may have an else;              *)
(*   "call", "return", "raise"  a statement with the calls inside it;      *)
(*   "block"         any other: what its own text calls is not recorded.   *)
(***************************************************************************)
EXTENDS Naturals, Sequences, SequencesExt, FiniteSets

CONSTANTS Trees,     \* nodes as records [kind, kids]
          MaxDepth   \* of the trees

VARIABLES tree, todo, bound, calls
vars == <<tree, todo, bound, calls>>

NoTest == <<0>>
Sub(n) == FoldLeft(LAMBDA t, i : t.kids[i], tree, n)
Kind(n) == Sub(n).kind
Kids(n) == [i \in DOMAIN Sub(n).kids |-> Append(n, i)]
Above(n) == {SubSeq(n, 1, k) : k \in 0..(Len(n) - 1)}
Upto(n) == Above(n) \cup {n}
Depth(n) == Cardinality({p \in Above(n) : Kind(p) = "fn"})
Statements == {"call", "return", "raise"}

Init == /\ tree \in Trees /\ todo = <<<<>>>> /\ bound = <<>> /\ calls = <<>>

-----------------------------------------------------------------------------
\* _bind_text: a test holds for its arm and what is below it, but for the branches and handlers there.
Branching == {"elif", "else", "if", "handler", "bare"}
Binds(b, n) == b.at \in Upto(n) /\ \A p \in Upto(n) : Len(p) > Len(b.at) => Kind(p) \notin Branching
Bind(arm, test) == Append(bound, [at |-> arm, test |-> test])

\* _condition_of: the test last bound to the node, or else to the nearest node above that has one.
TestsOf(n) == {i \in DOMAIN bound : Binds(bound[i], n)}
LastTest(n) == bound[CHOOSE i \in TestsOf(n) : \A j \in TestsOf(n) : j <= i].test
WithTest(n) == {p \in Upto(n) : TestsOf(p) # {}}
Nearest(n) == CHOOSE p \in WithTest(n) : \A q \in WithTest(n) : Len(q) <= Len(p)
ConditionOf(n) == IF WithTest(n) = {} THEN NoTest ELSE LastTest(Nearest(n))

-----------------------------------------------------------------------------
Now == todo[1]
Here(kinds) == todo # <<>> /\ Kind(Now) \in kinds
Visit(nodes) == todo' = nodes \o Tail(todo)
InBody == Depth(Now) = 1

\* Above the function, whatever its text begins with; inside it, a function of its own is left out.
Outside == /\ todo # <<>> /\ Depth(Now) = 0
           /\ Visit(Kids(Now)) /\ UNCHANGED <<tree, bound, calls>>
Inner == /\ Here({"fn"}) /\ Depth(Now) >= 1
         /\ Visit(<<>>) /\ UNCHANGED <<tree, bound, calls>>

\* _visit_if: the calls of the test, the arm under the test, then the elifs and the else.
Seen(n, condition) == [at |-> n, condition |-> condition]
Whole(n) == n   \* mutant: the test holds for its else as well
Arm(n) == Kids(n)[1]
Under(n) == Arm(n)
Alternatives(n) == SelectSeq(Tail(Kids(n)), LAMBDA k : Kind(k) \in {"elif", "else"})
VisitIf ==
  /\ Here({"if", "elif"}) /\ InBody
  /\ calls' = Append(calls, Seen(Now, Now))
  /\ bound' = Bind(Under(Now), Now)
  /\ Visit(<<Arm(Now)>> \o Alternatives(Now)) /\ UNCHANGED tree

\* _visit_handler: an except clause without a type has no test.
VisitHandler ==
  /\ Here({"handler", "bare"}) /\ InBody
  /\ bound' = IF Kind(Now) = "handler" THEN Bind(Arm(Now), Now) ELSE bound
  /\ Visit(<<Arm(Now)>>) /\ UNCHANGED <<tree, calls>>
BodyOnly == /\ Here({"else", "loop"}) /\ InBody
            /\ Visit(<<Arm(Now)>>) /\ UNCHANGED <<tree, bound, calls>>

\* _record_return, _record_raise and _record_expression.
Record == /\ Here(Statements) /\ InBody
          /\ calls' = Append(calls, Seen(Now, ConditionOf(Now)))
          /\ Visit(<<>>) /\ UNCHANGED <<tree, bound>>
Others == /\ Here({"block"}) /\ InBody
          /\ Visit(Kids(Now)) /\ UNCHANGED <<tree, bound, calls>>

Next == Outside \/ Inner \/ VisitIf \/ VisitHandler \/ BodyOnly \/ Record \/ Others
Spec == Init /\ [][Next]_vars

-----------------------------------------------------------------------------
\* The condition given with a call is the test of the innermost arm that holds it: never that of a
\* branch not taken when the call is made.
Arms(n) == {p \in Above(n) : Kind(p) \in {"if", "elif", "handler"} /\ Arm(p) \in Upto(n)}
Innermost(n) == IF Arms(n) = {} THEN NoTest ELSE CHOOSE p \in Arms(n) : \A q \in Arms(n) : Len(q) <= Len(p)
OwnArm == \A i \in DOMAIN calls : Kind(calls[i].at) \in Statements => calls[i].condition = Innermost(calls[i].at)

\* What is recorded comes in the order of the source, nothing twice, nothing of an inner function.
Before(m, n) == \/ IsStrictPrefix(m, n)
                \/ \E k \in DOMAIN m \cap DOMAIN n : m[k] < n[k] /\ SubSeq(m, 1, k - 1) = SubSeq(n, 1, k - 1)
InSourceOrder ==
  /\ \A i, j \in DOMAIN calls : i < j => Before(calls[i].at, calls[j].at)
  /\ \A i \in DOMAIN calls : Depth(calls[i].at) = 1

\* At the end every statement of the function is there, but for the else of a loop.
InLoopElse(n) == \E p \in Above(n) : Kind(p) = "loop" /\ Len(n) > Len(p) /\ n[Len(p) + 1] > 1
Below(S) == UNION {ToSet(Kids(n)) : n \in S}
Levels == FoldLeft(LAMBDA all, i : Append(all, Below(all[i])), <<{<<>>}>>, [i \in 1..MaxDepth |-> i])
Nodes == UNION ToSet(Levels)
InBodyOf(n) == Kind(n) \in Statements /\ Depth(n) = 1 /\ ~InLoopElse(n)
AllSeen == todo = <<>> => \A n \in Nodes : InBodyOf(n) => \E i \in DOMAIN calls : calls[i].at = n
=============================================================================
