------------------------- MODULE StatementGuardProofs -------------------------
(***************************************************************************)
(* The statement guard's invariants, proved for paths of every length.      *)
(*                                                                         *)
(* ReadOnlyFrom recurses along the path; CheckedToTheLeaf turns it into     *)
(* what it means: from node i on there are only reads, as far as no edge    *)
(* hides what is below it from every check. The recursion has a solution    *)
(* (SolutionExists), and two solutions cannot differ, for there    *)
(* would be a node nearest to the leaf at which they do (SolutionUnique):   *)
(* the least element of a set of numbers takes the place of an induction.   *)
(***************************************************************************)
EXTENDS StatementGuard, SequenceTheorems, WellFoundedInduction, TLAPS

(* What the checks let pass, and a path that has nothing else from node i   *)
(* to its leaf, or to the first edge that no check looks below.             *)
Reads == Selects \union Tables

OnlyReads(i) ==
  \A j \in i..Len(path) : path[j].kind \in Reads \/ \E k \in i..j - 1 : path[k].edge \in Unseen

(* Of a SELECT, the checks look below all edges but the unseen ones.        *)
LEMMA EveryPartOfASelect ==
  ASSUME NEW kind \in Selects, NEW edge \in DOMAIN Edges(kind)
  PROVE  edge \in SelectFollows(kind) \union Visited <=> edge \notin Unseen
<1> USE DEF Edges, SelectFollows, Unseen, Positions
<1>1. CASE kind = "select"
  BY <1>1
<1>2. CASE kind = "union"
  BY <1>2
<1>3. CASE kind = "parenSelect"
  BY <1>3
<1>4. CASE kind = "values"
  BY <1>4
<1> QED  BY <1>1, <1>2, <1>3, <1>4 DEF Selects

(* The same of a table expression, although walkTableExprReadOnly has no    *)
(* case for some.                                                           *)
LEMMA EveryPartOfATable ==
  ASSUME NEW kind \in Tables, NEW edge \in DOMAIN Edges(kind)
  PROVE  edge \in TableFollows(kind) \union Visited <=> edge \notin Unseen
<1> USE DEF Edges, TableFollows, Unseen, Positions
<1>1. CASE kind = "join"
  BY <1>1
<1>2. CASE kind \in {"aliased", "parenTable"}
  BY <1>2
<1>3. CASE kind = "source"
  BY <1>3
<1>4. CASE kind = "subquery"
  BY <1>4
<1>5. CASE kind = "rowsFrom"
  BY <1>5
<1> QED  BY <1>1, <1>2, <1>3, <1>4, <1>5 DEF Tables

(* One round of the recursion: a node passes if it is a read and, unless    *)
(* its edge hides them, there are only reads below it.                      *)
LEMMA OneNode ==
  ASSUME PathInv, NEW j \in 1..Len(path), NEW below \in BOOLEAN, below <=> OnlyReads(j + 1)
  PROVE  Passes(path[j], below) <=> OnlyReads(j)
<1> Len(path) \in Nat /\ j \in Nat
  BY DEF PathInv
<1>1. OnlyReads(j) <=> path[j].kind \in Reads /\ (path[j].edge \in Unseen \/ OnlyReads(j + 1))
  <2>1. ASSUME NEW m \in j + 1..Len(path)
        PROVE  (\E k \in j..m - 1 : path[k].edge \in Unseen)
                 <=> (path[j].edge \in Unseen \/ \E k \in j + 1..m - 1 : path[k].edge \in Unseen)
    OBVIOUS
  <2>2. j..j - 1 = {}
    OBVIOUS
  <2>3. OnlyReads(j) <=> /\ path[j].kind \in Reads
                         /\ \A m \in j + 1..Len(path) :
                              path[m].kind \in Reads \/ \E k \in j..m - 1 : path[k].edge \in Unseen
    BY <2>2 DEF OnlyReads
  <2> QED  BY <2>1, <2>3 DEF OnlyReads
<1>2. CASE j = Len(path)
  <2>1. below
    BY <1>2 DEF OnlyReads
  <2> QED  BY <1>1, <1>2, <2>1 DEF Passes, Reads
<1>3. CASE j # Len(path)
  <2>1. path[j].edge \in DOMAIN Edges(path[j].kind)
    BY <1>3 DEF PathInv
  <2>2. path[j].kind \in Selects =>
          (path[j].edge \in SelectFollows(path[j].kind) \union Visited <=> path[j].edge \notin Unseen)
    BY <2>1, EveryPartOfASelect
  <2>3. path[j].kind \in Tables =>
          (path[j].edge \in TableFollows(path[j].kind) \union Visited <=> path[j].edge \notin Unseen)
    BY <2>1, EveryPartOfATable
  <2>4. Selects \intersect Tables = {}
    BY DEF Selects, Tables
  <2> QED  BY <1>1, <2>2, <2>3, <2>4 DEF Passes, Reads
<1> QED  BY <1>2, <1>3

(* f is a solution of the recursion of ReadOnlyFrom(i).                     *)
Solves(f, i) == f = [j \in i..Len(path) + 1 |-> j > Len(path) \/ Passes(path[j], f[j + 1])]

(* The recursion of ReadOnlyFrom has a solution: what it means.             *)
LEMMA SolutionExists ==
  ASSUME PathInv, NEW i \in 1..Len(path) + 1
  PROVE  \E f : Solves(f, i)
<1> DEFINE g == [j \in i..Len(path) + 1 |-> OnlyReads(j)]
<1> Len(path) \in Nat
  BY DEF PathInv
<1>1. ASSUME NEW j \in i..Len(path) + 1
      PROVE  OnlyReads(j) = (j > Len(path) \/ Passes(path[j], g[j + 1]))
  <2>1. CASE j > Len(path)
    <3>1. j..Len(path) = {}
      BY <2>1
    <3>2. OnlyReads(j) = TRUE
      BY <3>1 DEF OnlyReads
    <3>3. (j > Len(path) \/ Passes(path[j], g[j + 1])) = TRUE
      BY <2>1
    <3> QED  BY <3>2, <3>3
  <2>2. CASE ~(j > Len(path))
    <3>1. j \in 1..Len(path) /\ j + 1 \in i..Len(path) + 1
      BY <2>2
    <3>2. g[j + 1] = OnlyReads(j + 1)
      BY <3>1
    <3>3. g[j + 1] \in BOOLEAN
      BY <3>2 DEF OnlyReads
    <3>4. Passes(path[j], g[j + 1]) <=> OnlyReads(j)
      BY <3>1, <3>2, <3>3, OneNode
    <3> QED  BY <2>2, <3>4 DEF OnlyReads, Passes
  <2> QED  BY <2>1, <2>2
<1>2. Solves(g, i)
  BY <1>1, Zenon DEF Solves
<1> QED  BY <1>2

(* Every solution means the same: at the node nearest to the leaf where one *)
(* did not, OneNode would be wrong.                                         *)
LEMMA SolutionUnique ==
  ASSUME PathInv, NEW i \in 1..Len(path) + 1, NEW f, Solves(f, i)
  PROVE  \A j \in i..Len(path) + 1 : f[j] <=> OnlyReads(j)
<1> DEFINE n == Len(path)
           Wrong == {d \in Nat : d <= n + 1 - i /\ ~(f[n + 1 - d] <=> OnlyReads(n + 1 - d))}
<1> n \in Nat /\ i \in Nat
  BY DEF PathInv
<1>1. \A j \in i..n + 1 : f[j] = (j > n \/ Passes(path[j], f[j + 1]))
  BY DEF Solves
<1>2. \A j \in i..n + 1 : f[j] \in BOOLEAN
  BY <1>1 DEF Passes
<1>3. SUFFICES ASSUME Wrong # {}  PROVE FALSE
  <2>1. ASSUME NEW j \in i..n + 1, ~(f[j] <=> OnlyReads(j))  PROVE n + 1 - j \in Wrong
    <3>1. n + 1 - (n + 1 - j) = j
      OBVIOUS
    <3> QED  BY <2>1, <3>1
  <2> QED  BY <2>1
<1>4. PICK d \in Wrong : \A e \in Wrong : ~(<<e, d>> \in OpToRel(<, Nat))
  BY <1>3, WFMin, NatLessThanWellFounded
<1>5. \A e \in Wrong : ~(e < d)
  BY <1>4 DEF OpToRel
<1>6. d \in Nat /\ d <= n + 1 - i /\ ~(f[n + 1 - d] <=> OnlyReads(n + 1 - d))
  OBVIOUS
<1>7. CASE d = 0
  <2>1. n + 1 \in i..n + 1 /\ n + 1 > n /\ (n + 1)..n = {} /\ n + 1 - 0 = n + 1
    OBVIOUS
  <2>2. f[n + 1]
    BY <1>1, <2>1
  <2>3. OnlyReads(n + 1)
    BY <2>1 DEF OnlyReads
  <2> QED  BY <1>6, <1>7, <2>1, <2>2, <2>3
<1>8. CASE d # 0
  <2>1. d - 1 \in Nat /\ d - 1 < d /\ d - 1 <= n + 1 - i
    BY <1>6, <1>8
  <2>2. d - 1 \notin Wrong
    BY <1>5, <2>1
  <2> DEFINE j == n + 1 - d
  <2>3. j \in i..n /\ j + 1 = n + 1 - (d - 1) /\ j \in 1..n /\ j + 1 \in i..n + 1
    BY <1>6, <1>8
  <2>4. f[j + 1] <=> OnlyReads(j + 1)
    BY <2>1, <2>2, <2>3
  <2>5. f[j] <=> Passes(path[j], f[j + 1])
    <3>1. j \in i..n + 1 /\ ~(j > n)
      BY <2>3
    <3>2. f[j] = (j > n \/ Passes(path[j], f[j + 1]))
      BY <1>1, <3>1
    <3> QED  BY <1>2, <3>1, <3>2
  <2>6. Passes(path[j], f[j + 1]) <=> OnlyReads(j)
    BY <1>2, <2>3, <2>4, OneNode
  <2> QED  BY <1>6, <2>5, <2>6
<1> QED  BY <1>7, <1>8

(* A check that starts at node i accepts the path if and only if it has     *)
(* only reads from there to the leaf, or to the first edge that no check    *)
(* looks below: whatever structure of statements and table expressions is   *)
(* in between.                                                              *)
THEOREM CheckedToTheLeaf ==
  ASSUME PathInv, NEW i \in 1..Len(path) + 1
  PROVE  ReadOnlyFrom(i) <=> OnlyReads(i)
<1> DEFINE passes == CHOOSE f : Solves(f, i)
<1>1. Solves(passes, i)
  BY SolutionExists
<1>2. ReadOnlyFrom(i) = passes[i]
  BY DEF ReadOnlyFrom, Solves
<1>3. i \in i..Len(path) + 1
  BY DEF PathInv
<1> HIDE DEF passes
<1>4. passes[i] <=> OnlyReads(i)
  BY <1>1, <1>3, SolutionUnique
<1> QED  BY <1>2, <1>4

-----------------------------------------------------------------------------
(* The checks depend on nothing but the path.                               *)
LEMMA SamePath ==
  ASSUME UNCHANGED path
  PROVE  /\ \A i : ReadOnlyFrom(i)' = ReadOnlyFrom(i)
         /\ \A tool, where : Accepts(tool, where)' = Accepts(tool, where)
<1>1. ASSUME NEW i  PROVE ReadOnlyFrom(i)' = ReadOnlyFrom(i)
  BY DEF ReadOnlyFrom
<1>2. ASSUME NEW edges  PROVE Below(edges)' = Below(edges)
  BY <1>1 DEF Below
<1>3. Root' = Root
  BY DEF Root
<1>4. ASSUME NEW tool, NEW where
      PROVE  Accepts(tool, where)' = Accepts(tool, where)
  BY <1>1, <1>2, <1>3
     DEF Accepts, SelectQuery, ExplainQuery, ShowStatement, CreateTable, InsertRows,
         UpdateRows, DeleteRows, EnsureNoHiddenDML
<1> QED  BY <1>1, <1>4

(* A sequence with one element put in front.                                *)
LEMMA Prefixed ==
  ASSUME NEW S, NEW s \in Seq(S), NEW e \in S, NEW t, t = <<e>> \o s
  PROVE  /\ t \in Seq(S)
         /\ Len(t) = Len(s) + 1
         /\ t[1] = e
         /\ \A i \in 1..Len(s) : t[i + 1] = s[i]
BY ConcatProperties

(* SHOW, and what the guard does not know, have nothing below them.         *)
LEMMA NoEdges ==
  ASSUME NEW kind \in {"show", "other"}
  PROVE  DOMAIN Edges(kind) = {}
<1>1. Edges(kind) = <<>>
  BY DEF Edges
<1>2. DOMAIN <<>> = {}
  OBVIOUS
<1> QED  BY <1>1, <1>2

(* The first node of a longer path is not its leaf.                         *)
LEMMA MoreThanOne ==
  ASSUME NEW n \in Nat, n >= 1, n # 1
  PROVE  1 \in 1..n - 1
OBVIOUS

(* The strengthening holds of a single node.                                *)
LEMMA InitEstablishes == Init => IInv
<1> SUFFICES ASSUME Init  PROVE IInv
  OBVIOUS
<1>1. PICK kind \in Statements : path = <<Node(kind, "leaf")>>
  BY DEF Init
<1>2. Node(kind, "leaf") \in [kind : Kinds, edge : EdgeNames]
  <2>1. kind \in Kinds /\ "leaf" \in EdgeNames
    BY DEF Kinds, EdgeNames
  <2> QED  BY <2>1 DEF Node
<1>3. Len(path) = 1 /\ path[1] = Node(kind, "leaf") /\ path \in Seq([kind : Kinds, edge : EdgeNames])
  BY <1>1, <1>2
<1>4. PathInv
  BY <1>3, GuardAssumption DEF PathInv, Node
<1> QED  BY <1>4 DEF Init, IInv, OutcomeInv

(* A wrapped statement is well formed: the new root leads to the old one,   *)
(* and every other node stays where it was, one position later.             *)
LEMMA WrapPreserves ==
  ASSUME IInv, outcome = NoCall, NEW kind \in Kinds, Wrap(kind)
  PROVE  IInv'
<1> DEFINE S == [kind : Kinds, edge : EdgeNames]
<1>1. PICK edge \in DOMAIN Edges(kind) : Root \in Edges(kind)[edge] /\ path' = <<Node(kind, edge)>> \o path
  BY DEF Wrap
<1>2. edge \in EdgeNames
  BY DEF EdgeNames
<1>3. Node(kind, edge) \in S
  BY <1>2 DEF Node
<1>4. path \in Seq(S) /\ Len(path) \in 1..MaxDepth /\ Len(path) < MaxDepth
  BY DEF IInv, PathInv, Wrap
<1> HIDE DEF S
<1>5. /\ path' \in Seq(S)
      /\ Len(path') = Len(path) + 1
      /\ path'[1] = Node(kind, edge)
      /\ \A i \in 1..Len(path) : path'[i + 1] = path[i]
  BY <1>1, <1>3, <1>4, Prefixed
<1>6. Len(path') \in 1..MaxDepth
  BY <1>4, <1>5, GuardAssumption
<1>7. path'[Len(path')].edge = "leaf"
  BY <1>4, <1>5 DEF IInv, PathInv
<1>8. ASSUME NEW i \in 1..Len(path') - 1
      PROVE  /\ path'[i].edge \in DOMAIN Edges(path'[i].kind)
             /\ path'[i + 1].kind \in Edges(path'[i].kind)[path'[i].edge]
  <2>1. CASE i = 1
    <3>1. path'[1].kind = kind /\ path'[1].edge = edge
      BY <1>5 DEF Node
    <3>2. path'[2] = path[1]
      BY <1>4, <1>5
    <3> QED  BY <1>1, <2>1, <3>1, <3>2 DEF Root
  <2>2. CASE i # 1
    <3>1. i - 1 \in 1..Len(path) - 1 /\ i - 1 \in 1..Len(path) /\ i \in 1..Len(path) /\ i - 1 + 1 = i
      BY <1>4, <1>5, <2>2
    <3>2. path'[i] = path[i - 1] /\ path'[i + 1] = path[i]
      BY <1>5, <3>1
    <3> QED  BY <3>1, <3>2 DEF IInv, PathInv
  <2> QED  BY <2>1, <2>2
<1>9. PathInv'
  BY <1>5, <1>6, <1>7, <1>8 DEF PathInv, S
<1> QED  BY <1>9 DEF IInv, OutcomeInv, Wrap, NoCall

(* A call is recorded with the answer of its checks, on a path it leaves    *)
(* alone.                                                                   *)
LEMMA CallToolPreserves ==
  ASSUME IInv, Root \in Statements,
         NEW tool \in Tools, NEW form \in {"none", "one", "several"}, NEW where \in BOOLEAN,
         CallTool(tool, form, where)
  PROVE  IInv'
<1>1. path' = path /\ enableWrites' = enableWrites /\ Root' = Root
  BY DEF CallTool, Root
<1>2. PathInv'
  BY <1>1 DEF IInv, PathInv
<1> DEFINE ran == ParseSingleStatement(form) /\ Accepts(tool, where)
<1>3. outcome' = [tool |-> tool, form |-> form, where |-> where, ran |-> ran]
  BY DEF CallTool
<1>4. Accepts(outcome.tool, outcome.where)' = Accepts(tool, where)
  <2>1. outcome'.tool = tool /\ outcome'.where = where
    BY <1>3
  <2> QED  BY <1>1, <2>1, SamePath
<1>5. ran \in BOOLEAN
  BY DEF ParseSingleStatement
<1>6. Registered(outcome.tool)'
  <2>1. outcome'.tool = tool
    BY <1>3
  <2> QED  BY <1>1, <2>1 DEF CallTool, Registered
<1>7. (outcome.ran <=> ParseSingleStatement(outcome.form) /\ Accepts(outcome.tool, outcome.where))'
  <2> HIDE DEF ran
  <2>1. outcome'.ran = ran /\ outcome'.form = form
    BY <1>3
  <2> QED  BY <1>4, <2>1 DEF ran, ParseSingleStatement
<1>8. outcome' \in [tool : Tools, form : {"none", "one", "several"}, where : BOOLEAN, ran : BOOLEAN]
  <2> HIDE DEF ran
  <2> QED  BY <1>3, <1>5
<1>9. OutcomeInv'
  BY <1>1, <1>6, <1>7, <1>8 DEF OutcomeInv
<1> QED  BY <1>1, <1>2, <1>9 DEF IInv

(* The strengthening survives stuttering.                                   *)
LEMMA StutterPreserves == ASSUME IInv, UNCHANGED vars  PROVE IInv'
<1>1. path' = path /\ enableWrites' = enableWrites /\ outcome' = outcome /\ Root' = Root
  BY DEF vars, Root
<1>2. Accepts(outcome.tool, outcome.where)' = Accepts(outcome.tool, outcome.where)
  BY <1>1, SamePath
<1>3. PathInv'
  BY <1>1 DEF IInv, PathInv
<1>4. OutcomeInv'
  BY <1>1, <1>2 DEF IInv, OutcomeInv, Registered, NoCall, ParseSingleStatement
<1> QED  BY <1>1, <1>3, <1>4 DEF IInv

(* The strengthening is an invariant, for paths of every length.            *)
THEOREM Inductive == Spec => []IInv
<1>1. Init => IInv
  BY InitEstablishes
<1>2. IInv /\ [Next]_vars => IInv'
  <2> SUFFICES ASSUME IInv, [Next]_vars  PROVE IInv'
    OBVIOUS
  <2>1. ASSUME outcome = NoCall, NEW kind \in Kinds, Wrap(kind)  PROVE IInv'
    BY <2>1, WrapPreserves
  <2>2. ASSUME Root \in Statements, NEW tool \in Tools, NEW form \in {"none", "one", "several"},
               NEW where \in BOOLEAN, CallTool(tool, form, where)
        PROVE  IInv'
    BY <2>2, CallToolPreserves
  <2>3. CASE UNCHANGED vars
    BY <2>3, StutterPreserves
  <2> QED  BY <2>1, <2>2, <2>3 DEF Next, Kinds
<1> QED  BY <1>1, <1>2, PTL DEF Spec

(* A path is a path of the grammar, and a server without write queries      *)
(* never runs a write tool (RegisterTools).                                 *)
THEOREM TypeCorrect == Spec => []TypeOK
<1>1. IInv => TypeOK
  BY DEF IInv, PathInv, OutcomeInv, TypeOK, Registered
<1> QED  BY <1>1, Inductive, PTL

-----------------------------------------------------------------------------
(* What a tool ran was one statement that its checks accepted.              *)
LEMMA Ran ==
  ASSUME IInv, outcome.ran
  PROVE  /\ outcome # NoCall
         /\ outcome.tool \in Tools
         /\ outcome.form = "one"
         /\ Root \in Statements
         /\ Accepts(outcome.tool, outcome.where)
<1>1. outcome # NoCall
  BY DEF NoCall
<1> QED  BY <1>1 DEF IInv, OutcomeInv, ParseSingleStatement

(* What a write tool checks below its root has only reads that are seen.    *)
LEMMA BelowTheRoot ==
  ASSUME PathInv, NEW edges, Below(edges), path[1].edge \in edges
  PROVE  OnlyReads(2)
<1>1. 2 \in 1..Len(path) + 1
  BY DEF PathInv
<1> QED  BY <1>1, CheckedToTheLeaf DEF Below

(* A statement of one node has nothing below its root.                      *)
LEMMA NothingBelow == ASSUME PathInv, Len(path) = 1  PROVE OnlyReads(2)
BY DEF OnlyReads

(* A path with nothing but reads passes every check.                        *)
LEMMA PureReads ==
  ASSUME NEW i, \A j \in i..Len(path) : path[j].kind \in Reads
  PROVE  OnlyReads(i)
BY DEF OnlyReads

(* No read is a write.                                                      *)
LEMMA ReadsDoNotWrite == Reads \intersect Writes = {}
BY DEF Reads, Selects, Tables, Writes, Mutations

(* What explain_query and show_statement run writes nothing; select_query   *)
(* misses no write, however deep it is buried, except below a position that *)
(* no check sees.                                                           *)
THEOREM ReadToolsRead == Spec => []ReadToolsNeverWrite
<1>1. IInv => ReadToolsNeverWrite
  <2> SUFFICES ASSUME IInv, outcome.ran, outcome.tool \notin WriteTools
               PROVE  \A i \in WritesExecuted : outcome.tool = "select_query" /\ BelowUnseen(i)
    BY DEF ReadToolsNeverWrite
  <2>0. outcome.tool \in Tools /\ Accepts(outcome.tool, outcome.where)
    BY Ran
  <2>1. outcome.form = "one" /\ PathInv /\ Len(path) \in Nat \ {0}
    BY Ran DEF IInv, PathInv
  <2>2. CASE outcome.tool = "select_query"
    <3>1. OnlyReads(1)
      <4>1. ReadOnlyFrom(1)
        BY <2>0, <2>2 DEF Accepts, SelectQuery
      <4> QED  BY <2>1, <4>1, CheckedToTheLeaf
    <3>2. Issued = path
      BY <2>2 DEF Issued
    <3>3. ASSUME NEW i \in WritesExecuted  PROVE i \in 1..Len(path) /\ path[i].kind \in Writes
      BY <2>1, <3>2 DEF WritesExecuted
    <3> QED  BY <2>2, <3>1, <3>3, ReadsDoNotWrite DEF OnlyReads, BelowUnseen
  <2>3. CASE outcome.tool = "explain_query"
    <3>1. Issued[1].kind = "explain"
      <4>1. CASE Root # "explain"
        <5>1. Issued = <<Node("explain", "inner")>> \o path /\ path \in Seq([kind : Kinds, edge : EdgeNames])
          BY <2>1, <2>3, <4>1 DEF Issued, PathInv
        <5>2. Issued[1] = Node("explain", "inner")
          BY <5>1
        <5> QED  BY <5>2 DEF Node
      <4>2. CASE Root = "explain"
        BY <4>2 DEF Issued, Root
      <4> QED  BY <4>1, <4>2
    <3>2. ASSUME NEW i \in 1..Len(Issued)  PROVE ~ \A j \in 1..i : Issued[j].kind # "explain"
      <4>1. Len(Issued) \in Nat
        BY <2>1, ConcatProperties DEF Issued, PathInv, Node
      <4>2. 1 \in 1..i
        BY <4>1
      <4> QED  BY <3>1, <4>2
    <3> QED  BY <2>1, <3>2 DEF WritesExecuted
  <2>4. CASE outcome.tool = "show_statement"
    <3>1. path[1].kind = "show" /\ Issued = path
      BY <2>0, <2>4 DEF Accepts, ShowStatement, Root, Issued
    <3>2. Len(path) = 1
      <4>1. DOMAIN Edges("show") = {}
        BY NoEdges
      <4>2. Len(path) # 1 => 1 \in 1..Len(path) - 1
        <5>1. Len(path) \in Nat /\ Len(path) >= 1
          BY <2>1
        <5> QED  BY <5>1, MoreThanOne
      <4>3. \A i \in 1..Len(path) - 1 : path[i].edge \in DOMAIN Edges(path[i].kind)
        BY <2>1 DEF PathInv
      <4> QED  BY <3>1, <4>1, <4>2, <4>3
    <3>3. "show" \notin Writes
      BY DEF Writes, Mutations
    <3> QED  BY <2>1, <3>1, <3>2, <3>3 DEF WritesExecuted
  <2> QED  BY <2>0, <2>2, <2>3, <2>4 DEF Tools, WriteTools
<1> QED  BY <1>1, Inductive, PTL

(* A write tool runs statements of its own kind, with WHERE where rows      *)
(* change.                                                                  *)
LEMMA RootWrites ==
  ASSUME IInv, outcome.ran, outcome.tool \in WriteTools
  PROVE  /\ Root = OwnKind(outcome.tool)
         /\ Root \in Mutations \union {"create"}
         /\ Root \in {"update", "delete"} => outcome.where
<1>1. outcome.tool \in Tools /\ Accepts(outcome.tool, outcome.where)
  BY Ran
<1>2. CASE outcome.tool = "create_table"
  BY <1>1, <1>2 DEF Accepts, CreateTable, OwnKind
<1>3. CASE outcome.tool = "insert_rows"
  BY <1>1, <1>3 DEF Accepts, InsertRows, OwnKind, Mutations
<1>4. CASE outcome.tool = "update_rows"
  BY <1>1, <1>4 DEF Accepts, UpdateRows, OwnKind, Mutations
<1>5. CASE outcome.tool = "delete_rows"
  BY <1>1, <1>5 DEF Accepts, DeleteRows, OwnKind, Mutations
<1> QED  BY <1>2, <1>3, <1>4, <1>5 DEF WriteTools

(* The parts of the statements that write.                                  *)
LEMMA WriteEdges ==
  ASSUME NEW kind \in Mutations \union {"create"}, NEW edge \in DOMAIN Edges(kind)
  PROVE  /\ kind = "create" => edge \in {"as", "column"}
         /\ kind = "insert" => edge \in {"cte", "rows", "returning"}
         /\ kind = "update" => edge \in {"cte", "from", "expr", "clause"}
         /\ kind = "delete" => edge \in {"cte", "using", "expr", "clause"}
<1>1. CASE kind = "create"
  BY <1>1 DEF Edges
<1>2. CASE kind = "insert"
  BY <1>2 DEF Edges
<1>3. CASE kind = "update"
  BY <1>3 DEF Edges
<1>4. CASE kind = "delete"
  BY <1>4 DEF Edges
<1> QED  BY <1>1, <1>2, <1>3, <1>4 DEF Mutations

(* Below the root of what a write tool runs there are only reads that are   *)
(* seen, unless the root's own edge hides them.                             *)
LEMMA BelowAWrite ==
  ASSUME IInv, outcome.ran, outcome.tool \in WriteTools, path[1].edge \notin Unseen
  PROVE  OnlyReads(2)
<1>1. outcome.tool \in Tools /\ Accepts(outcome.tool, outcome.where) /\ PathInv
  BY Ran DEF IInv
<1>2. CASE Len(path) = 1
  BY <1>1, <1>2, NothingBelow
<1>3. CASE Len(path) # 1
  <2>1. Len(path) \in Nat /\ Len(path) >= 1
    BY <1>1 DEF PathInv
  <2>2. 1 \in 1..Len(path) - 1
    BY <1>3, <2>1, MoreThanOne
  <2>3. path[1].edge \in DOMAIN Edges(Root)
    BY <1>1, <2>2 DEF PathInv, Root
  <2>4. Root = OwnKind(outcome.tool) /\ Root \in Mutations \union {"create"}
    BY RootWrites
  <2>5. CASE outcome.tool = "create_table"
    <3>1. Root = "create" /\ Below({"as"})
      BY <1>1, <2>5 DEF Accepts, CreateTable
    <3>2. path[1].edge \in {"as"}
      BY <2>3, <2>4, <3>1, WriteEdges DEF Unseen
    <3> QED  BY <1>1, <3>1, <3>2, BelowTheRoot
  <2>6. CASE outcome.tool = "insert_rows"
    <3>1. Root = "insert" /\ Below({"cte", "rows"})
      BY <1>1, <2>6 DEF Accepts, InsertRows
    <3>2. path[1].edge \in {"cte", "rows"}
      BY <2>3, <2>4, <3>1, WriteEdges DEF Unseen
    <3> QED  BY <1>1, <3>1, <3>2, BelowTheRoot
  <2>7. CASE outcome.tool \in {"update_rows", "delete_rows"}
    <3>1. Root \in {"update", "delete"} /\ Below({"cte", "from", "using", "expr"} \union Visited)
      BY <1>1, <2>7 DEF Accepts, UpdateRows, DeleteRows, EnsureNoHiddenDML
    <3>2. path[1].edge \in {"cte", "from", "using", "expr"} \union Visited
      BY <2>3, <2>4, <3>1, WriteEdges DEF Unseen, Positions
    <3> QED  BY <1>1, <3>1, <3>2, BelowTheRoot
  <2> QED  BY <2>5, <2>6, <2>7 DEF WriteTools
<1> QED  BY <1>2, <1>3

(* A write tool runs one statement of its own kind, with a WHERE clause if  *)
(* it changes rows, and no other write, however deep it is buried, except   *)
(* below a position that no check sees.                                     *)
THEOREM WriteToolsOwn == Spec => []WriteToolsRunTheirOwn
<1>1. IInv => WriteToolsRunTheirOwn
  <2> SUFFICES ASSUME IInv, outcome.ran, outcome.tool \in WriteTools
               PROVE  1 \in WritesExecuted /\ \A i \in WritesExecuted \ {1} : BelowUnseen(i)
    BY RootWrites DEF WriteToolsRunTheirOwn
  <2>1. outcome.form = "one" /\ Len(path) \in Nat /\ Len(path) >= 1
    BY Ran DEF IInv, PathInv
  <2>2. Issued = path
    BY DEF Issued, WriteTools
  <2>3. path[1].kind \in Writes /\ path[1].kind # "explain"
    BY RootWrites DEF Root, Writes, Mutations
  <2>4. ASSUME NEW i \in 1..Len(path), i # 1, path[i].kind \in Writes  PROVE BelowUnseen(i)
    <3>1. i \in 2..Len(path) /\ 1 \in 1..i - 1
      BY <2>1, <2>4
    <3>2. CASE path[1].edge \in Unseen
      BY <3>1, <3>2 DEF BelowUnseen
    <3>3. CASE path[1].edge \notin Unseen
      <4>1. PICK k \in 2..i - 1 : path[k].edge \in Unseen
        BY <2>4, <3>1, <3>3, BelowAWrite, ReadsDoNotWrite DEF OnlyReads
      <4>2. k \in 1..i - 1
        BY <3>1
      <4> QED  BY <4>1, <4>2 DEF BelowUnseen
    <3> QED  BY <3>2, <3>3
  <2>5. WritesExecuted = {i \in 1..Len(path) : path[i].kind \in Writes /\ \A j \in 1..i : path[j].kind # "explain"}
    BY <2>1, <2>2 DEF WritesExecuted
  <2>6. 1 \in WritesExecuted
    BY <2>1, <2>3, <2>5
  <2>7. \A i \in WritesExecuted \ {1} : BelowUnseen(i)
    BY <2>4, <2>5
  <2> QED  BY <2>6, <2>7
<1> QED  BY <1>1, Inductive, PTL

(* The checks refuse no more than they must: a statement with only reads    *)
(* below its root runs under the tool for its root.                         *)
THEOREM ReadsPass == Spec => []ReadsAreFine
<1>1. IInv => ReadsAreFine
  <2> SUFFICES ASSUME IInv, outcome.tool \in Tools, outcome.form = "one"
               PROVE  ReadsAreFine
    BY DEF ReadsAreFine
  <2>1. PathInv /\ (outcome.ran <=> Accepts(outcome.tool, outcome.where))
    BY DEF IInv, OutcomeInv, NoCall, ParseSingleStatement
  <2>2. 1 \in 1..Len(path) + 1 /\ 2 \in 1..Len(path) + 1
    BY <2>1 DEF PathInv
  <2> DEFINE AllReads(i) == \A j \in i..Len(path) : path[j].kind \in Reads
  <2>3. ASSUME outcome.tool = "select_query", AllReads(1)  PROVE outcome.ran
    <3>1. ReadOnlyFrom(1)
      BY <2>1, <2>2, <2>3, PureReads, CheckedToTheLeaf
    <3> QED  BY <2>1, <2>3, <3>1 DEF Accepts, SelectQuery
  <2>4. ASSUME outcome.tool = "explain_query", Root # "explainAnalyze"  PROVE outcome.ran
    BY <2>1, <2>4 DEF Accepts, ExplainQuery
  <2>5. ASSUME outcome.tool \in WriteTools, AllReads(2), Root = OwnKind(outcome.tool),
               outcome.tool \in {"update_rows", "delete_rows"} => outcome.where
        PROVE  outcome.ran
    <3>1. \A edges : Below(edges)
      BY <2>1, <2>2, <2>5, PureReads, CheckedToTheLeaf DEF Below
    <3>2. CASE outcome.tool = "create_table"
      BY <2>1, <2>5, <3>1, <3>2 DEF Accepts, CreateTable, OwnKind
    <3>3. CASE outcome.tool = "insert_rows"
      BY <2>1, <2>5, <3>1, <3>3 DEF Accepts, InsertRows, OwnKind
    <3>4. CASE outcome.tool = "update_rows"
      BY <2>1, <2>5, <3>1, <3>4 DEF Accepts, UpdateRows, EnsureNoHiddenDML, OwnKind
    <3>5. CASE outcome.tool = "delete_rows"
      BY <2>1, <2>5, <3>1, <3>5 DEF Accepts, DeleteRows, EnsureNoHiddenDML, OwnKind
    <3> QED  BY <2>5, <3>2, <3>3, <3>4, <3>5 DEF WriteTools
  <2> QED  BY <2>3, <2>4, <2>5 DEF ReadsAreFine, Reads
<1> QED  BY <1>1, Inductive, PTL
===============================================================================
