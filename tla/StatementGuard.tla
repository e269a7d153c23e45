---------------------------- MODULE StatementGuard ----------------------------
(***************************************************************************)
(* What the query tools let through to the database: the checks of          *)
(* select_query, explain_query, show_statement, insert_rows, update_rows,   *)
(* delete_rows and create_table on the syntax tree of the caller's text.    *)
(*                                                                         *)
(* Every check is a conjunction over the siblings of a node, so a tree is   *)
(* accepted if and only if each of its paths from the root is. A statement  *)
(* is therefore one such path: a sequence of nodes, outermost first, each   *)
(* with the edge that leads to the next ("leaf" in the last one). Paths     *)
(* grow from the inside out, by Wrap, up to MaxDepth nodes.                 *)
(***************************************************************************)
EXTENDS Naturals, Sequences

CONSTANTS
  MaxDepth,  \* bound: nodes on a path
  Visited    \* the positions below that the parser's SimpleStmtVisit reaches

(* Positions of subqueries that no check names: the ON condition of a join, *)
(* an item of ROWS FROM, a row of VALUES, and the other clauses of SELECT,  *)
(* UPDATE and DELETE (GROUP BY, HAVING, ORDER BY, LIMIT, RETURNING).  They  *)
(* are inspected if the visitor, which is the parser's, comes there.        *)
Positions == {"on", "item", "row", "clause"}

ASSUME GuardAssumption == MaxDepth \in Nat \ {0} /\ Visited \subseteq Positions

VARIABLES
  enableWrites,  \* cfg.EnableWriteQueries
  path,          \* the statement
  outcome        \* the last tool call: what was submitted, and whether it ran

vars == <<enableWrites, path, outcome>>

-----------------------------------------------------------------------------
(* The grammar of cockroachdb-parser, as far as the checks tell apart. The  *)
(* forms of *tree.Select differ in their Select field: a SelectClause, a    *)
(* UnionClause, a ParenSelect or a ValuesClause.                            *)
Selects    == {"select", "union", "parenSelect", "values"}
Mutations  == {"insert", "update", "delete"}
Statements == Selects \union Mutations \union {"create", "explain", "explainAnalyze", "show", "other"}
Tables     == {"aliased", "join", "parenTable", "source", "subquery", "rowsFrom"}

(* The edges of a node, and what each may lead to. "expr" is a subquery of  *)
(* an expression in the projection list, SET or WHERE, "returning" one in   *)
(* RETURNING or ON CONFLICT of an INSERT, "column" one in a definition.     *)
Edges(kind) ==
  CASE kind = "select"      -> [cte |-> Statements, from |-> Tables, expr |-> Selects, clause |-> Selects]
    [] kind = "union"       -> [cte |-> Statements, left |-> Selects, right |-> Selects, clause |-> Selects]
    [] kind = "parenSelect" -> [cte |-> Statements, inner |-> Selects, clause |-> Selects]
    [] kind = "values"      -> [cte |-> Statements, row |-> Selects, clause |-> Selects]
    [] kind = "update"      -> [cte |-> Statements, from |-> Tables, expr |-> Selects, clause |-> Selects]
    [] kind = "delete"      -> [cte |-> Statements, using |-> Tables, expr |-> Selects, clause |-> Selects]
    [] kind = "insert"      -> [cte |-> Statements, rows |-> Selects, returning |-> Selects]
    [] kind = "create"      -> [as |-> Selects, column |-> Selects]
    [] kind \in {"explain", "explainAnalyze"} -> [inner |-> Statements]
    [] kind \in {"aliased", "parenTable"}     -> [inner |-> Tables]
    [] kind = "join"        -> [left |-> Tables, right |-> Tables, on |-> Selects]
    [] kind = "rowsFrom"    -> [item |-> Selects]
    [] kind = "source"      -> [inner |-> Statements]
    [] kind = "subquery"    -> [inner |-> Selects]
    [] OTHER                -> <<>>

Node(kind, edge) == [kind |-> kind, edge |-> edge]

Root == path[1].kind

-----------------------------------------------------------------------------
(* The edges that each check follows.                                       *)

(* ensureSelectOnly: CTEs, the form's own parts, and, by SimpleStmtVisit,    *)
(* subqueries of expressions.                                               *)
SelectFollows(kind) ==
  CASE kind = "select" -> {"cte", "from", "expr"}
    [] kind = "union"  -> {"cte", "left", "right"}
    [] kind = "parenSelect" -> {"cte", "inner"}
    [] kind = "values" -> {"cte"}

(* walkTableExprReadOnly: the two sides of a join, not its condition; it    *)
(* accepts a table expression that it has no case for.                      *)
TableFollows(kind) ==
  CASE kind = "join" -> {"left", "right"}
    [] kind \in {"aliased", "parenTable", "source", "subquery"} -> {"inner"}
    [] OTHER -> {}

(* Mutant: a bracketed statement is taken for a table.                      *)
Passes_Brackets(node, below) ==
  \/ node.kind \in Tables /\ (node.kind # "source" /\ node.edge \in TableFollows(node.kind) \union Visited => below)
  \/ node.kind \in Selects /\ (node.edge \in SelectFollows(node.kind) \union Visited => below)

(* A node passes if it is a table expression or a SELECT, and what is below *)
(* an edge that is followed, or visited from the statement around it, does. *)
Passes(node, below) ==
  \/ node.kind \in Tables /\ (node.edge \in TableFollows(node.kind) \union Visited => below)
  \/ node.kind \in Selects /\ (node.edge \in SelectFollows(node.kind) \union Visited => below)

(* ensureSelectOnly (on a statement) or walkTableExprReadOnly (on a table   *)
(* expression) of the i-th node.                                            *)
ReadOnlyFrom(i) ==
  LET passes[j \in i..Len(path) + 1] == j > Len(path) \/ Passes(path[j], passes[j + 1])
  IN  passes[i]

(* A write tool's check of what is below its root: nothing is followed but  *)
(* these edges.                                                             *)
Below(edges) == path[1].edge \in edges => ReadOnlyFrom(2)

(* Mutant: the tables of FROM and USING are not checked.                    *)
EnsureNoHiddenDML_NoTables == Below({"cte", "expr"} \union Visited)

(* Mutant: a nested read is refused as well.                                *)
EnsureNoHiddenDML_NoNesting == path[1].edge = "leaf"

(* ensureNoHiddenDML, of an UPDATE or a DELETE.                             *)
EnsureNoHiddenDML == Below({"cte", "from", "using", "expr"} \union Visited)

-----------------------------------------------------------------------------
(* The handlers. A submission is the form of the text, as the parser finds  *)
(* it ("one" statement, "several", or "none": empty, too long or invalid),  *)
(* and whether the root has a WHERE clause. LIMIT clauses are the concern   *)
(* of RowLimits.                                                            *)
Tools == {"select_query", "explain_query", "show_statement",
          "create_table", "insert_rows", "update_rows", "delete_rows"}
WriteTools == {"create_table", "insert_rows", "update_rows", "delete_rows"}

(* Mutant: the write tools are registered on every server.                  *)
Registered_Always(tool) == TRUE

(* RegisterTools: a tool that is not registered cannot be called.           *)
Registered(tool) == tool \in WriteTools => enableWrites

ParseSingleStatement(form) == form = "one"

SelectQuery == ReadOnlyFrom(1)
ExplainQuery == Root # "explainAnalyze"
ShowStatement == Root = "show"
CreateTable == Root = "create" /\ Below({"as"})
InsertRows == Root = "insert" /\ Below({"cte", "rows"})
UpdateRows(where) == Root = "update" /\ where /\ EnsureNoHiddenDML
DeleteRows(where) == Root = "delete" /\ where /\ EnsureNoHiddenDML

Accepts(tool, where) ==
  CASE tool = "select_query"   -> SelectQuery
    [] tool = "explain_query"  -> ExplainQuery
    [] tool = "show_statement" -> ShowStatement
    [] tool = "create_table"   -> CreateTable
    [] tool = "insert_rows"    -> InsertRows
    [] tool = "update_rows"    -> UpdateRows(where)
    [] tool = "delete_rows"    -> DeleteRows(where)

CallTool(tool, form, where) ==
  /\ Registered(tool)
  /\ where => Root \in {"update", "delete"}
  /\ outcome' = [tool |-> tool, form |-> form, where |-> where,
                 ran |-> ParseSingleStatement(form) /\ Accepts(tool, where)]
  /\ UNCHANGED <<enableWrites, path>>

-----------------------------------------------------------------------------
NoCall == [tool |-> "none", form |-> "none", where |-> FALSE, ran |-> FALSE]

Init ==
  /\ enableWrites \in BOOLEAN
  /\ path \in {<<Node(kind, "leaf")>> : kind \in Statements}
  /\ outcome = NoCall

(* The caller puts the statement inside another one.                        *)
Wrap(kind) ==
  /\ Len(path) < MaxDepth
  /\ \E edge \in DOMAIN Edges(kind) :
       /\ Root \in Edges(kind)[edge]
       /\ path' = <<Node(kind, edge)>> \o path
  /\ UNCHANGED <<enableWrites, outcome>>

(* The caller's statements have a statement at the root.                    *)
Next ==
  \/ outcome = NoCall /\ \E kind \in Statements \union Tables : Wrap(kind)
  \/ /\ outcome = NoCall /\ Root \in Statements
     /\ \E tool \in Tools, form \in {"none", "one", "several"}, where \in BOOLEAN :
          CallTool(tool, form, where)

Spec == Init /\ [][Next]_vars

-----------------------------------------------------------------------------
(* What the database then does. EXPLAIN plans what is below it; everything  *)
(* else that is reached is executed. The text of "several" ends in another  *)
(* statement, a write.                                                      *)
Writes == Mutations \union {"create", "other"}

Issued == IF outcome.tool = "explain_query" /\ Root # "explain"
            THEN <<Node("explain", "inner")>> \o path
            ELSE path

WritesExecuted ==
  {i \in 1..Len(Issued) : Issued[i].kind \in Writes /\ \A j \in 1..i : Issued[j].kind # "explain"}
    \union IF outcome.form = "several" THEN {Len(Issued) + 1} ELSE {}

OwnKind(tool) ==
  CASE tool = "create_table" -> "create"
    [] tool = "insert_rows"  -> "insert"
    [] tool = "update_rows"  -> "update"
    [] tool = "delete_rows"  -> "delete"

(* A path is a path of the grammar, and the last call was of a registered   *)
(* tool: a server without write queries never runs a write tool.            *)
TypeOK ==
  /\ enableWrites \in BOOLEAN
  /\ Len(path) \in 1..MaxDepth /\ path[Len(path)].edge = "leaf"
  /\ \A i \in 1..Len(path) - 1 : path[i + 1].kind \in Edges(path[i].kind)[path[i].edge]
  /\ outcome = NoCall \/ outcome.tool \in Tools \ (IF enableWrites THEN {} ELSE WriteTools)

(* The positions that no check looks below: those of the parser's tree that *)
(* the visitor does not reach, and the expressions of an INSERT and of a    *)
(* CREATE TABLE, which no visitor is sent to.                               *)
Unseen == (Positions \ Visited) \union {"returning", "column"}

BelowUnseen(i) == \E j \in 1..i - 1 : path[j].edge \in Unseen

(* A write that a read tool runs is buried below a position that no check   *)
(* sees: in a CTE, a UNION, brackets, parentheses, a side of a join or an   *)
(* expression it is found, in any nesting, and explain_query and            *)
(* show_statement run none (helpers.go:52-126, explain_query.go:22-32).     *)
ReadToolsNeverWrite ==
  outcome.ran /\ outcome.tool \notin WriteTools =>
    \A i \in WritesExecuted : outcome.tool = "select_query" /\ BelowUnseen(i)

(* A write tool runs one statement, of its own kind, with a WHERE clause if *)
(* it changes rows, and no other write but below a position that no check   *)
(* sees (helpers.go:128-165, insert_rows.go:23-37, create_table.go:16-29).  *)
WriteToolsRunTheirOwn ==
  outcome.ran /\ outcome.tool \in WriteTools =>
    /\ Root = OwnKind(outcome.tool)
    /\ Root \in {"update", "delete"} => outcome.where
    /\ 1 \in WritesExecuted
    /\ \A i \in WritesExecuted \ {1} : BelowUnseen(i)

(* The checks refuse no more than they must: a statement with nothing but   *)
(* reads below its root runs under the tool for its root.                   *)
ReadsAreFine ==
  LET t == outcome.tool
      OnlyReadsFrom(i) == \A j \in i..Len(path) : path[j].kind \in Selects \union Tables
  IN  t \in Tools /\ outcome.form = "one" =>
        /\ t = "select_query" /\ OnlyReadsFrom(1) => outcome.ran
        /\ t = "explain_query" /\ OnlyReadsFrom(2) /\ Root # "explainAnalyze" => outcome.ran
        /\ t \in WriteTools /\ OnlyReadsFrom(2) /\ (t \in {"update_rows", "delete_rows"} => outcome.where) =>
             (Root = OwnKind(t) => outcome.ran)

-----------------------------------------------------------------------------
(* The strengthening.                                                       *)

Kinds == Statements \union Tables
EdgeNames == {"leaf"} \union UNION {DOMAIN Edges(kind) : kind \in Kinds}

(* A path is well formed: every node but the last has an edge of its kind,  *)
(* to a node of a kind it may lead to.                                      *)
PathInv ==
  /\ path \in Seq([kind : Kinds, edge : EdgeNames])
  /\ Len(path) \in 1..MaxDepth /\ path[Len(path)].edge = "leaf"
  /\ \A i \in 1..Len(path) - 1 :
       /\ path[i].edge \in DOMAIN Edges(path[i].kind)
       /\ path[i + 1].kind \in Edges(path[i].kind)[path[i].edge]

(* The outcome is that of one call on the path as it is: the path stays as  *)
(* it was submitted.                                                        *)
OutcomeInv ==
  outcome = NoCall \/
    /\ outcome \in [tool : Tools, form : {"none", "one", "several"}, where : BOOLEAN, ran : BOOLEAN]
    /\ Registered(outcome.tool)
    /\ Root \in Statements
    /\ outcome.ran <=> ParseSingleStatement(outcome.form) /\ Accepts(outcome.tool, outcome.where)

IInv == enableWrites \in BOOLEAN /\ PathInv /\ OutcomeInv
===============================================================================
