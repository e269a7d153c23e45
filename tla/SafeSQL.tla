------------------------------- MODULE SafeSQL -------------------------------
(***************************************************************************)
(* db.SafeFormat (db/safesql.go): placeholders %1, %2, ... in a format are  *)
(* replaced by quoted arguments, one splitNext at a time, until none is     *)
(* left or something is wrong.  The scan is compared with what the whole    *)
(* format says, read at once.                                              *)
(*                                                                         *)
(* A format is a sequence of characters up to kind: "a" stands for letters  *)
(* and symbols, "." for '=', white space and punctuation.  An argument is   *)
(* the SQL it renders to, or Unsupported.                                   *)
(***************************************************************************)
EXTENDS Naturals, Sequences, SequencesExt, FiniteSetsExt

CONSTANTS
  MaxLength,  \* bound: characters in a format
  IndexCap,   \* placeholder indices stop growing here (1e6 in the code)
  ArgLists    \* the argument lists

Unsupported == "unsupported"

Digits == {"0", "1", "2"}
Kinds  == {"a", ".", "%"} \cup Digits

ASSUME SafeSQLAssumption ==
  /\ MaxLength \in Nat /\ IndexCap \in Nat \ {0}
  /\ ArgLists \subseteq Seq(STRING)
  /\ \A args \in ArgLists : Len(args) < 10 * IndexCap

VARIABLES
  format,  \* the whole format
  args,    \* the arguments
  rest,    \* the format that remains to be scanned
  out,     \* what has been written, piece by piece
  status   \* "scanning", "ok" or "error"

vars == <<format, args, rest, out, status>>

Init ==
  /\ format \in SeqOf(Kinds, MaxLength)
  /\ args \in ArgLists
  /\ rest = format
  /\ out = <<>>
  /\ status = "scanning"

-----------------------------------------------------------------------------
(* How many digits p starts with, and the number its first n digits write.  *)
DigitRun(p) == Max({n \in 0..Len(p) : \A i \in 1..n : p[i] \in Digits})

DigitValue(d) == CHOOSE n \in 0..2 : d = <<"0", "1", "2">>[n + 1]

Number(p, n) ==
  LET value[i \in 0..n] == IF i = 0 THEN 0 ELSE 10 * value[i - 1] + DigitValue(p[i])
  IN value[n]

(* The position of the next placeholder in the rest of the format.          *)
NextPercent == SelectInSeq(rest, LAMBDA ch : ch = "%")

(* splitNext looks at the character before a placeholder only if there is   *)
(* one in what remains of the format.                                       *)
Attached(j) == j > 1 /\ rest[j - 1] # "."

(* Mutant: the guard against large indices is tighter by one digit.         *)
SplitNext_EarlyCap(j) ==
  LET p == SubSeq(rest, j + 1, Len(rest))
      n == DigitRun(p)
  IN IF Attached(j) \/ n = 0 \/ p[1] = "0" \/ n > 1
       THEN [ok |-> FALSE, index |-> 0, rest |-> <<>>]
       ELSE [ok |-> TRUE, index |-> Number(p, n), rest |-> SubSeq(p, n + 1, Len(p))]

(* The placeholder at position j of the rest: its index, and what follows   *)
(* its digits.  The index may not have reached IndexCap before its last     *)
(* digit.                                                                   *)
SplitNext(j) ==
  LET p == SubSeq(rest, j + 1, Len(rest))
      n == DigitRun(p)
  IN IF Attached(j) \/ n = 0 \/ p[1] = "0" \/ Number(p, n - 1) >= IndexCap
       THEN [ok |-> FALSE, index |-> 0, rest |-> <<>>]
       ELSE [ok |-> TRUE, index |-> Number(p, n), rest |-> SubSeq(p, n + 1, Len(p))]

-----------------------------------------------------------------------------
(* render knows strings, int64 and what renders itself.                     *)
Renderable(index) == index <= Len(args) /\ args[index] # Unsupported

(* One round of SafeFormat's loop: the last chunk, ...                      *)
Finish ==
  /\ status = "scanning" /\ NextPercent = 0
  /\ out' = out \o rest
  /\ status' = "ok"
  /\ UNCHANGED <<format, args, rest>>

(* Mutant: the chunk before the placeholder is not written.                 *)
Substitute_DropsChunk ==
  /\ status = "scanning" /\ NextPercent # 0
  /\ LET split == SplitNext(NextPercent)
     IN /\ split.ok /\ Renderable(split.index)
        /\ out' = Append(out, args[split.index])
        /\ rest' = split.rest
  /\ UNCHANGED <<format, args, status>>

(* ... a chunk and the argument of the placeholder that ends it, ...        *)
Substitute ==
  /\ status = "scanning" /\ NextPercent # 0
  /\ LET split == SplitNext(NextPercent)
     IN /\ split.ok /\ Renderable(split.index)
        /\ out' = Append(out \o SubSeq(rest, 1, NextPercent - 1), args[split.index])
        /\ rest' = split.rest
  /\ UNCHANGED <<format, args, status>>

(* Mutant: an error is noticed and the loop goes on.                        *)
Fail_Continues ==
  /\ status = "scanning" /\ NextPercent # 0
  /\ LET split == SplitNext(NextPercent)
     IN split.ok => ~Renderable(split.index)
  /\ UNCHANGED vars

(* ... or a placeholder that is malformed, out of range or not renderable.  *)
Fail ==
  /\ status = "scanning" /\ NextPercent # 0
  /\ LET split == SplitNext(NextPercent)
     IN split.ok => ~Renderable(split.index)
  /\ status' = "error"
  /\ UNCHANGED <<format, args, rest, out>>

Returned == status # "scanning" /\ UNCHANGED vars

Next == Finish \/ Substitute \/ Fail \/ Returned

Spec == Init /\ [][Next]_vars /\ WF_vars(Finish \/ Substitute \/ Fail)

-----------------------------------------------------------------------------
(* The format read at once.  A placeholder is a percent sign and all the    *)
(* digits after it.                                                         *)
Percents == {i \in 1..Len(format) : format[i] = "%"}

After(i) == SubSeq(format, i + 1, Len(format))

PlaceholderEnd(i) == i + DigitRun(After(i))

Index(i) == Number(After(i), DigitRun(After(i)))

Separated(i) == i = 1 \/ format[i - 1] = "." \/ \E h \in Percents : h < i /\ PlaceholderEnd(h) = i - 1

WellFormed ==
  \A i \in Percents :
    /\ PlaceholderEnd(i) > i /\ format[i + 1] # "0"
    /\ Index(i) \in 1..Len(args) /\ args[Index(i)] # Unsupported
    /\ Separated(i)

(* Position i of the format contributes its argument, nothing or itself.    *)
Contribution(i) ==
  IF i \in Percents THEN <<args[Index(i)]>>
  ELSE IF \E h \in Percents : h < i /\ i <= PlaceholderEnd(h) THEN <<>>
  ELSE <<format[i]>>

Substituted == FlattenSeq([i \in 1..Len(format) |-> Contribution(i)])

-----------------------------------------------------------------------------
(* What SafeFormat returns is the format with every placeholder replaced by *)
(* its own argument and nothing else touched; arguments are never scanned.  *)
SubstitutesExactly == status = "ok" => WellFormed /\ out = Substituted

(* SafeFormat refuses only formats and arguments that are wrong: the cap on *)
(* indices refuses none that the arguments could satisfy.                   *)
RefusesOnlyMalformed == status = "error" => ~WellFormed

(* The scan ends on every format.                                           *)
Returns == <>(status # "scanning")

(* What the comment on SafeFormat requires: each placeholder is preceded by *)
(* punctuation, white space or '='; the tests exempt the format's start.    *)
EachPlaceholderPreceded ==
  status = "ok" => \A i \in Percents : i = 1 \/ format[i - 1] = "."

-----------------------------------------------------------------------------
(* The strengthening: how far the scan has come, and what it knows of the    *)
(* format up to there.                                                      *)

Pieces == Kinds \union STRING

Scanned == Len(format) - Len(rest)

WellFormedAt(i) ==
  /\ PlaceholderEnd(i) > i /\ format[i + 1] # "0"
  /\ Index(i) \in 1..Len(args) /\ args[Index(i)] # Unsupported
  /\ Separated(i)

(* What the first n positions of the format contribute.                     *)
Prefix(n) == FlattenSeq([i \in 1..n |-> Contribution(i)])

TypeInv ==
  /\ format \in Seq(Kinds)
  /\ args \in ArgLists
  /\ rest \in Seq(Kinds)
  /\ out \in Seq(Pieces)
  /\ status \in {"scanning", "ok", "error"}

(* The rest is the end of the format; it begins where a placeholder ended.  *)
RestInv ==
  /\ Scanned \in 0..Len(format)
  /\ rest = SubSeq(format, Scanned + 1, Len(format))
  /\ Scanned = 0 \/ \E h \in Percents : PlaceholderEnd(h) = Scanned

(* Every placeholder before it is well formed and substituted.              *)
ScanInv ==
  status = "scanning" =>
    /\ \A i \in Percents : i <= Scanned => WellFormedAt(i) /\ PlaceholderEnd(i) <= Scanned
    /\ out = Prefix(Scanned)

IInv == TypeInv /\ RestInv /\ ScanInv /\ SubstitutesExactly /\ RefusesOnlyMalformed

=============================================================================
