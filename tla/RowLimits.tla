------------------------------ MODULE RowLimits ------------------------------
(***************************************************************************)
(* How many rows the read tools ask for: the pagination of the list-style   *)
(* tools (list_databases, list_tables, list_sql_users,                      *)
(* show_running_queries, show_statement), all through applyLimitOffset, and *)
(* the LIMIT of select_query, through validateLimitClause.                  *)
(*                                                                         *)
(* A list of numRows rows is being paged by a client that repeats one       *)
(* request, moving the offset by the rows it received, until a page comes   *)
(* back empty; other requests come in between.                              *)
(***************************************************************************)
EXTENDS Integers, Sequences

CONSTANTS
  DefaultRowLimit,  \* the limit of a request that names none
  Nil,              \* an optional parameter that is absent
  NumRows,          \* lengths of the listed result
  MaxRowsCounts,    \* values of CRDB_MCP_MAX_ROWS_COUNT
  Limits, Offsets   \* parameter values that clients send

ASSUME RowLimitsAssumption ==
  /\ DefaultRowLimit \in Nat \ {0}
  /\ NumRows \subseteq Nat
  /\ MaxRowsCounts \subseteq Nat \ {0}
  /\ Limits \subseteq Int /\ Offsets \subseteq Int
  /\ Nil \notin Int

VARIABLES
  maxRows,    \* cfg.MaxRowsCount
  numRows,    \* rows of the list
  pageLimit,  \* the limit the paging client sends, or Nil
  received,   \* the rows the paging client has received, in order
  paging,     \* the paging client is still asking
  last        \* the last request answered, and the statement issued for it

vars == <<maxRows, numRows, pageLimit, received, paging, last>>

Lesser(a, b) == IF a < b THEN a ELSE b

-----------------------------------------------------------------------------
(* What a handler decides: refuse, or issue a statement that yields at most *)
(* limit rows after the first offset ones.                                  *)
Refused == [issued |-> FALSE, limit |-> 0, offset |-> 0]

Issue(limit, offset) == [issued |-> TRUE, limit |-> limit, offset |-> offset]

(* The rows of a statement over a result of n rows.                         *)
Window(n, stmt) == [i \in 1..Lesser(stmt.limit, IF n > stmt.offset THEN n - stmt.offset ELSE 0) |-> stmt.offset + i]

(* Mutant: a zero limit is not refused.                                     *)
ApplyLimitOffset_ZeroLimit(limit, offset) ==
  IF (limit # Nil /\ limit < 0) \/ (offset # Nil /\ offset < 0)
    THEN Refused
    ELSE Issue(IF limit = Nil THEN DefaultRowLimit ELSE Lesser(limit, maxRows),
               IF offset = Nil THEN 0 ELSE offset)

(* Mutant: a negative offset is not refused.                                *)
ApplyLimitOffset_AnyOffset(limit, offset) ==
  IF limit # Nil /\ limit <= 0
    THEN Refused
    ELSE Issue(IF limit = Nil THEN DefaultRowLimit ELSE Lesser(limit, maxRows),
               IF offset = Nil THEN 0 ELSE offset)

(* applyLimitOffset: the default is used as it is, a limit is capped.       *)
ApplyLimitOffset(limit, offset) ==
  IF (limit # Nil /\ limit <= 0) \/ (offset # Nil /\ offset < 0)
    THEN Refused
    ELSE Issue(IF limit = Nil THEN DefaultRowLimit ELSE Lesser(limit, maxRows),
               IF offset # Nil /\ offset > 0 THEN offset ELSE 0)

-----------------------------------------------------------------------------
(* The LIMIT clause of a SELECT: absent, an OFFSET without a count, LIMIT   *)
(* ALL, a count that is not a literal or not an int64, or a literal.        *)
Clauses ==
  [form : {"absent", "offset only", "all", "expression", "out of range"}, count : {0}]
    \cup [form : {"literal"}, count : Limits]

(* Mutant: the literal is not compared with the maximum.                    *)
ValidLimitClause_NoCap(clause) ==
  \/ clause.form \in {"absent", "offset only"}
  \/ clause.form = "literal" /\ clause.count >= 0

ValidLimitClause(clause) ==
  \/ clause.form \in {"absent", "offset only"}
  \/ clause.form = "literal" /\ clause.count >= 0 /\ clause.count <= maxRows

(* Mutant: the default overrides the clause of the statement.               *)
SelectStatement_Override(clause, skip) ==
  IF ValidLimitClause(clause) THEN Issue(Lesser(DefaultRowLimit, maxRows), skip) ELSE Refused

(* select_query appends its own LIMIT when the statement has no count; an   *)
(* OFFSET of the statement (skip) stays in force.                           *)
SelectStatement(clause, skip) ==
  IF ~ValidLimitClause(clause) THEN Refused
  ELSE IF clause.form \in {"absent", "offset only"}
         THEN Issue(Lesser(DefaultRowLimit, maxRows), skip)
         ELSE Issue(clause.count, skip)

-----------------------------------------------------------------------------
NoRequest == [tool |-> "none", limit |-> Nil, offset |-> Nil, clause |-> Nil, stmt |-> Refused]

Init ==
  /\ maxRows \in MaxRowsCounts
  /\ numRows \in NumRows
  /\ pageLimit \in Limits \cup {Nil}
  /\ received = <<>>
  /\ paging = TRUE
  /\ last = NoRequest

(* The paging client's next request.  The list does not change meanwhile.   *)
NextPage ==
  /\ paging
  /\ LET offset == Len(received)
         stmt   == ApplyLimitOffset(pageLimit, offset)
         page   == IF stmt.issued THEN Window(numRows, stmt) ELSE <<>>
     IN /\ last' = [tool |-> "list", limit |-> pageLimit, offset |-> offset, clause |-> Nil, stmt |-> stmt]
        /\ received' = received \o page
        /\ paging' = (page # <<>>)
  /\ UNCHANGED <<maxRows, numRows, pageLimit>>

(* A list request of some other client.                                     *)
List(limit, offset) ==
  /\ last' = [tool |-> "list", limit |-> limit, offset |-> offset, clause |-> Nil,
              stmt |-> ApplyLimitOffset(limit, offset)]
  /\ UNCHANGED <<maxRows, numRows, pageLimit, received, paging>>

(* A select_query request.                                                  *)
Select(clause, skip) ==
  /\ last' = [tool |-> "select", limit |-> Nil, offset |-> skip, clause |-> clause,
              stmt |-> SelectStatement(clause, skip)]
  /\ UNCHANGED <<maxRows, numRows, pageLimit, received, paging>>

Next ==
  \/ NextPage
  \/ \E limit \in Limits \cup {Nil}, offset \in Offsets \cup {Nil} : List(limit, offset)
  \/ \E clause \in Clauses, skip \in {n \in Offsets : n >= 0} :
       (clause.form = "absent" => skip = 0) /\ Select(clause, skip)

Spec == Init /\ [][Next]_vars

-----------------------------------------------------------------------------
TypeOK ==
  /\ maxRows \in MaxRowsCounts
  /\ numRows \in NumRows
  /\ pageLimit \in Limits \cup {Nil}
  /\ received \in Seq(Nat)
  /\ paging \in BOOLEAN
  /\ last.stmt \in [issued : BOOLEAN, limit : Nat, offset : Nat]

(* A client that pages until an empty page gets every row once and in       *)
(* order, whatever limit it sends that is not refused, although the server  *)
(* may cap its pages below the limit it asked for.                          *)
PagingComplete ==
  /\ received = [i \in 1..Len(received) |-> i]
  /\ Len(received) <= numRows
  /\ ~paging /\ ApplyLimitOffset(pageLimit, 0).issued => Len(received) = numRows

(* Every statement that select_query issues, and every list statement with  *)
(* a limit of the client's, asks for at most MaxRowsCount rows.             *)
ExplicitLimitsCapped ==
  last.stmt.issued /\ (last.tool = "select" \/ last.limit # Nil) => last.stmt.limit <= maxRows

(* A statement that states an acceptable LIMIT gets the rows it asks for:   *)
(* select_query neither lowers nor replaces it.                             *)
OwnLimitKept ==
  last.tool = "select" /\ last.clause.form = "literal" /\ last.clause.count \in 0..maxRows =>
    last.stmt = Issue(last.clause.count, last.offset)

(* What README.md and the comment on PaginationParams say of the list-style *)
(* tools: no list statement asks for more than MaxRowsCount rows.           *)
ListLimitsCapped == last.stmt.issued /\ last.tool = "list" => last.stmt.limit <= maxRows

(* Why: these hold together, no other strengthening is needed.              *)
IInv == TypeOK /\ PagingComplete /\ ExplicitLimitsCapped /\ OwnLimitKept

=============================================================================
