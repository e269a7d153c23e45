--------------------------- MODULE RowLimitsProofs ---------------------------
(***************************************************************************)
(* Proofs of the safety properties of RowLimits, for lists of any length,   *)
(* any MaxRowsCount and default, and any parameters.                        *)
(***************************************************************************)
EXTENDS RowLimits, SequenceTheorems, TLAPS

LEMMA Lessers ==
  ASSUME NEW a \in Int, NEW b \in Int
  PROVE  Lesser(a, b) \in {a, b} /\ Lesser(a, b) <= a /\ Lesser(a, b) <= b
BY DEF Lesser

Statements == [issued : BOOLEAN, limit : Nat, offset : Nat]

LEMMA Decisions ==
  /\ Refused \in Statements /\ Refused.issued = FALSE
  /\ \A l \in Nat, o \in Nat : /\ Issue(l, o) \in Statements /\ Issue(l, o).issued = TRUE
                               /\ Issue(l, o).limit = l /\ Issue(l, o).offset = o
BY DEF Refused, Issue, Statements

(* What applyLimitOffset decides; its refusal does not depend on an offset  *)
(* that is not negative.                                                    *)
LEMMA Applied ==
  ASSUME maxRows \in Nat \ {0}, NEW limit \in Int \cup {Nil}, NEW offset \in Int \cup {Nil},
         NEW stmt, stmt = ApplyLimitOffset(limit, offset)
  PROVE  /\ stmt \in Statements
         /\ stmt.issued /\ limit # Nil => stmt.limit <= maxRows
         /\ stmt.issued => stmt.limit \in Nat \ {0}
         /\ stmt.issued /\ offset \in Nat => stmt.offset = offset
         /\ offset \in Nat => stmt.issued = ApplyLimitOffset(limit, 0).issued
<1>0. Nil \notin Int /\ DefaultRowLimit \in Nat \ {0}
  BY RowLimitsAssumption
<1>1. CASE (limit # Nil /\ limit <= 0) \/ (offset # Nil /\ offset < 0)
  <2>1. stmt = Refused
    BY <1>1 DEF ApplyLimitOffset
  <2>2. offset \in Nat => ApplyLimitOffset(limit, 0) = Refused
    BY <1>0, <1>1 DEF ApplyLimitOffset
  <2> QED
    BY <2>1, <2>2, Decisions
<1>2. CASE ~((limit # Nil /\ limit <= 0) \/ (offset # Nil /\ offset < 0))
  <2> DEFINE l == IF limit = Nil THEN DefaultRowLimit ELSE Lesser(limit, maxRows)
             o == IF offset # Nil /\ offset > 0 THEN offset ELSE 0
  <2>1. l \in Nat \ {0} /\ (limit # Nil => l <= maxRows)
    BY <1>0, <1>2 DEF Lesser
  <2>2. o \in Nat /\ (offset \in Nat => o = offset)
    BY <1>0, <1>2
  <2>3. stmt = Issue(l, o)
    BY <1>2 DEF ApplyLimitOffset
  <2>4. ApplyLimitOffset(limit, 0) = Issue(l, 0)
    BY <1>0, <1>2 DEF ApplyLimitOffset
  <2> HIDE DEF l, o
  <2>5. stmt \in Statements /\ stmt.issued = TRUE /\ stmt.limit = l /\ stmt.offset = o
    BY <2>1, <2>2, <2>3, Decisions
  <2>6. ApplyLimitOffset(limit, 0).issued = TRUE
    BY <2>1, <2>4, Decisions
  <2> QED
    BY <2>1, <2>2, <2>5, <2>6
<1> QED
  BY <1>1, <1>2

(* What select_query decides.                                               *)
LEMMA Selected ==
  ASSUME maxRows \in Nat \ {0}, NEW clause \in Clauses, NEW skip \in Nat,
         NEW stmt, stmt = SelectStatement(clause, skip)
  PROVE  /\ stmt \in Statements
         /\ stmt.issued => stmt.limit <= maxRows
         /\ clause.form = "literal" /\ clause.count \in 0..maxRows => stmt = Issue(clause.count, skip)
<1>1. DefaultRowLimit \in Nat \ {0}
  BY RowLimitsAssumption
<1>2. clause.count \in Int
  <2>1. CASE clause \in [form : {"literal"}, count : Limits]
    <3>1. clause.count \in Limits
      BY <2>1
    <3> QED
      BY <3>1, RowLimitsAssumption
  <2>2. CASE clause \notin [form : {"literal"}, count : Limits]
    <3>1. clause.count = 0
      BY <2>2 DEF Clauses
    <3> QED
      BY <3>1
  <2> QED
    BY <2>1, <2>2
<1>3. CASE ~ValidLimitClause(clause)
  <2>1. stmt = Refused
    BY <1>3 DEF SelectStatement
  <2>2. clause.form = "literal" => ~(clause.count >= 0 /\ clause.count <= maxRows)
    BY <1>3 DEF ValidLimitClause
  <2>3. ~(clause.form = "literal" /\ clause.count \in 0..maxRows)
    BY <1>2, <2>2
  <2> QED
    BY <2>1, <2>3, Decisions
<1>4. CASE ValidLimitClause(clause) /\ clause.form \in {"absent", "offset only"}
  <2>1. Lesser(DefaultRowLimit, maxRows) \in Nat /\ Lesser(DefaultRowLimit, maxRows) <= maxRows
    BY <1>1 DEF Lesser
  <2>2. stmt = Issue(Lesser(DefaultRowLimit, maxRows), skip)
    BY <1>4 DEF SelectStatement
  <2>3. stmt \in Statements /\ stmt.limit <= maxRows
    BY <2>1, <2>2, Decisions
  <2> QED
    BY <1>4, <2>3
<1>5. CASE clause.form = "literal" /\ clause.count >= 0 /\ clause.count <= maxRows
  <2>1. clause.count \in Nat
    BY <1>2, <1>5
  <2>2. stmt = Issue(clause.count, skip)
    BY <1>5 DEF SelectStatement, ValidLimitClause
  <2> QED
    BY <1>5, <2>1, <2>2, Decisions
<1> QED
  BY <1>3, <1>4, <1>5 DEF ValidLimitClause

(* A page goes on where the rows received end; it is empty only at the end  *)
(* of the list.                                                             *)
LEMMA Pages ==
  ASSUME NEW n \in Nat, NEW rows \in Seq(Nat), Len(rows) \in Nat, Len(rows) <= n,
         \A i \in 1..Len(rows) : rows[i] = i,
         NEW stmt \in Statements, stmt.limit \in Nat \ {0}, stmt.offset = Len(rows)
  PROVE  /\ rows \o Window(n, stmt) \in Seq(Nat)
         /\ Len(rows \o Window(n, stmt)) \in Nat /\ Len(rows \o Window(n, stmt)) <= n
         /\ \A i \in 1..Len(rows \o Window(n, stmt)) : (rows \o Window(n, stmt))[i] = i
         /\ Window(n, stmt) = <<>> => Len(rows \o Window(n, stmt)) = n
<1> DEFINE done == Len(rows)
           page == Window(n, stmt)
           all  == rows \o page
           m    == Lesser(stmt.limit, IF n > stmt.offset THEN n - stmt.offset ELSE 0)
<1>1. m \in Nat /\ done + m <= n /\ (m = 0 => done = n)
  BY DEF Lesser
<1>2. page = [i \in 1..m |-> done + i]
  BY DEF Window
<1> HIDE DEF m
<1>3. page \in Seq(Nat) /\ Len(page) = m
  BY <1>1, <1>2
<1> HIDE DEF page
<1>4. /\ all \in Seq(Nat) /\ Len(all) = done + m
      /\ \A i \in 1..Len(all) : all[i] = IF i <= done THEN rows[i] ELSE page[i - done]
  <2>1. /\ all \in Seq(Nat) /\ Len(all) = Len(rows) + Len(page)
        /\ \A i \in 1..Len(rows) + Len(page) :
             all[i] = IF i <= Len(rows) THEN rows[i] ELSE page[i - Len(rows)]
    BY <1>3, ConcatProperties
  <2> QED
    BY <1>1, <1>3, <2>1
<1> HIDE DEF all
<1>5. ASSUME NEW i \in 1..Len(all) PROVE all[i] = i
  <2>1. CASE i <= done
    <3>1. i \in 1..Len(rows) /\ all[i] = rows[i]
      BY <1>1, <1>4, <2>1
    <3> QED
      BY <3>1
  <2>2. CASE ~(i <= done)
    <3>1. i - done \in 1..m /\ all[i] = page[i - done]
      BY <1>1, <1>4, <2>2
    <3>2. page[i - done] = done + (i - done)
      BY <1>2, <3>1
    <3> QED
      BY <1>1, <3>1, <3>2
  <2> QED
    BY <2>1, <2>2
<1>6. page = <<>> => m = 0
  BY <1>3
<1> QED
  BY <1>1, <1>4, <1>5, <1>6 DEF all, page

-----------------------------------------------------------------------------
LEMMA Bounds == TypeOK => /\ maxRows \in Nat \ {0} /\ numRows \in Nat /\ pageLimit \in Int \cup {Nil}
                          /\ received \in Seq(Nat) /\ Len(received) \in Nat
BY RowLimitsAssumption DEF TypeOK

(* The paging client's step.                                                *)
LEMMA NextPageStep == IInv /\ NextPage => IInv'
<1> SUFFICES ASSUME IInv, NextPage PROVE IInv'
  OBVIOUS
<1>1. /\ maxRows \in Nat \ {0} /\ numRows \in Nat /\ pageLimit \in Int \cup {Nil}
      /\ received \in Seq(Nat) /\ Len(received) \in Nat /\ Len(received) <= numRows
      /\ \A i \in 1..Len(received) : received[i] = i
  BY Bounds DEF IInv, PagingComplete
<1>2. PICK stmt, page :
        /\ stmt = ApplyLimitOffset(pageLimit, Len(received))
        /\ page = IF stmt.issued THEN Window(numRows, stmt) ELSE <<>>
        /\ last' = [tool |-> "list", limit |-> pageLimit, offset |-> Len(received), clause |-> Nil, stmt |-> stmt]
        /\ received' = received \o page /\ paging' = (page # <<>>)
        /\ UNCHANGED <<maxRows, numRows, pageLimit>>
  BY DEF NextPage
<1>3. /\ stmt \in Statements
      /\ stmt.issued /\ pageLimit # Nil => stmt.limit <= maxRows
      /\ stmt.issued => stmt.limit \in Nat \ {0} /\ stmt.offset = Len(received)
      /\ stmt.issued = ApplyLimitOffset(pageLimit, 0).issued
  <2>1. Len(received) \in Int \cup {Nil}
    BY <1>1
  <2> QED
    BY <1>1, <1>2, <2>1, Applied
<1>4. /\ received' \in Seq(Nat) /\ Len(received') \in Nat /\ Len(received') <= numRows
      /\ \A i \in 1..Len(received') : received'[i] = i
      /\ ~paging' /\ stmt.issued => Len(received') = numRows
  <2>1. CASE stmt.issued
    <3>1. /\ page = Window(numRows, stmt) /\ stmt.limit \in Nat \ {0} /\ stmt.offset = Len(received)
      BY <1>2, <1>3, <2>1
    <3>2. received' = received \o Window(numRows, stmt)
      BY <1>2, <3>1
    <3>3. /\ received' \in Seq(Nat) /\ Len(received') \in Nat /\ Len(received') <= numRows
          /\ \A i \in 1..Len(received') : received'[i] = i
          /\ page = <<>> => Len(received') = numRows
      BY <1>1, <1>3, <3>1, <3>2, Pages
    <3> QED
      BY <1>2, <3>3
  <2>2. CASE ~stmt.issued
    <3>1. page = <<>>
      BY <1>2, <2>2
    <3>2. received' = received
      BY <1>1, <1>2, <3>1, ConcatEmptySeq
    <3> QED
      BY <1>1, <2>2, <3>2
  <2> QED
    BY <2>1, <2>2
<1>5. ApplyLimitOffset(pageLimit, 0)' = ApplyLimitOffset(pageLimit, 0)
  BY <1>2 DEF ApplyLimitOffset
<1>6. TypeOK'
  BY <1>2, <1>3, <1>4 DEF IInv, TypeOK, Statements
<1>7. received' = [i \in 1..Len(received') |-> i]
  BY <1>4
<1>8. PagingComplete'
  BY <1>2, <1>3, <1>4, <1>5, <1>7 DEF PagingComplete
<1>9. ExplicitLimitsCapped' /\ OwnLimitKept'
  BY <1>2, <1>3 DEF ExplicitLimitsCapped, OwnLimitKept
<1> QED
  BY <1>6, <1>8, <1>9 DEF IInv

(* Other requests leave the paging client alone.                            *)
LEMMA OtherStep ==
  ASSUME IInv, UNCHANGED <<maxRows, numRows, pageLimit, received, paging>>,
         last'.stmt \in Statements, ExplicitLimitsCapped', OwnLimitKept'
  PROVE  IInv'
<1>1. ApplyLimitOffset(pageLimit, 0)' = ApplyLimitOffset(pageLimit, 0)
  BY DEF ApplyLimitOffset
<1>2. TypeOK'
  BY DEF IInv, TypeOK, Statements
<1>3. PagingComplete'
  BY <1>1 DEF IInv, PagingComplete
<1> QED
  BY <1>2, <1>3 DEF IInv

(* The four properties hold in every reachable state.                       *)
THEOREM Inductive == Spec => []IInv
<1>1. Init => IInv
  <2> SUFFICES ASSUME Init PROVE IInv
    OBVIOUS
  <2>1. received \in Seq(Nat) /\ Len(received) = 0 /\ received = [i \in 1..0 |-> i]
    BY DEF Init
  <2>2. TypeOK
    BY <2>1 DEF Init, TypeOK, NoRequest, Refused, Statements
  <2>3. numRows \in Nat
    BY <2>2, Bounds
  <2>4. PagingComplete /\ ExplicitLimitsCapped /\ OwnLimitKept
    BY <2>1, <2>3 DEF Init, PagingComplete, ExplicitLimitsCapped, OwnLimitKept, NoRequest, Refused
  <2> QED
    BY <2>2, <2>4 DEF IInv
<1>2. IInv /\ [Next]_vars => IInv'
  <2> SUFFICES ASSUME IInv, [Next]_vars PROVE IInv'
    OBVIOUS
  <2>0. maxRows \in Nat \ {0}
    BY Bounds DEF IInv
  <2>1. CASE NextPage
    BY <2>1, NextPageStep
  <2>2. ASSUME NEW limit \in Limits \cup {Nil}, NEW offset \in Offsets \cup {Nil}, List(limit, offset) PROVE IInv'
    <3>1. limit \in Int \cup {Nil} /\ offset \in Int \cup {Nil}
      BY RowLimitsAssumption
    <3>2. /\ last'.tool = "list" /\ last'.limit = limit /\ last'.stmt = ApplyLimitOffset(limit, offset)
          /\ UNCHANGED <<maxRows, numRows, pageLimit, received, paging>>
      BY <2>2 DEF List
    <3>3. ExplicitLimitsCapped' /\ OwnLimitKept'
      BY <2>0, <3>1, <3>2, Applied DEF ExplicitLimitsCapped, OwnLimitKept
    <3> QED
      BY <2>0, <3>1, <3>2, <3>3, Applied, OtherStep
  <2>3. ASSUME NEW clause \in Clauses, NEW skip \in {n \in Offsets : n >= 0}, Select(clause, skip) PROVE IInv'
    <3>1. skip \in Nat
      BY RowLimitsAssumption
    <3>2. /\ last'.tool = "select" /\ last'.clause = clause /\ last'.offset = skip
          /\ last'.stmt = SelectStatement(clause, skip)
          /\ UNCHANGED <<maxRows, numRows, pageLimit, received, paging>>
      BY <2>3 DEF Select
    <3>3. /\ last'.stmt \in Statements
          /\ last'.stmt.issued => last'.stmt.limit <= maxRows
          /\ clause.form = "literal" /\ clause.count \in 0..maxRows => last'.stmt = Issue(clause.count, skip)
      BY <2>0, <3>1, <3>2, Selected
    <3>4. ExplicitLimitsCapped' /\ OwnLimitKept'
      BY <3>2, <3>3 DEF ExplicitLimitsCapped, OwnLimitKept, Issue
    <3> QED
      BY <3>2, <3>3, <3>4, OtherStep
  <2>4. CASE UNCHANGED vars
    <3>1. ExplicitLimitsCapped' /\ OwnLimitKept'
      BY <2>4 DEF IInv, ExplicitLimitsCapped, OwnLimitKept, vars
    <3> QED
      BY <2>4, <3>1, OtherStep DEF vars, IInv, TypeOK, Statements
  <2> QED
    BY <2>1, <2>2, <2>3, <2>4 DEF Next
<1> QED
  BY <1>1, <1>2, PTL DEF Spec

(* Every variable keeps its type.                                           *)
THEOREM TypeCorrect == Spec => []TypeOK
<1>1. IInv => TypeOK
  BY DEF IInv
<1> QED
  BY <1>1, Inductive, PTL

(* Paging to an empty page yields the whole list, each row once, in order.  *)
THEOREM PagingIsComplete == Spec => []PagingComplete
<1>1. IInv => PagingComplete
  BY DEF IInv
<1> QED
  BY <1>1, Inductive, PTL

(* A limit of the client's never exceeds the maximum in the statement.      *)
THEOREM LimitsAreCapped == Spec => []ExplicitLimitsCapped
<1>1. IInv => ExplicitLimitsCapped
  BY DEF IInv
<1> QED
  BY <1>1, Inductive, PTL

(* select_query leaves an acceptable LIMIT as it is.                        *)
THEOREM OwnLimitsAreKept == Spec => []OwnLimitKept
<1>1. IInv => OwnLimitKept
  BY DEF IInv
<1> QED
  BY <1>1, Inductive, PTL

=============================================================================
