----------------------------- MODULE Predicates -----------------------------
(* The predicate language rules and policies share: a condition reads one   *)
(* field of a bounded JSON tree and compares it with a literal.  A value is *)
(* <<group, content>>, so that a number and a Boolean are never equal, as in *)
(* Python 1 == True would be; <<"dict", f>> is a subtree.                    *)
EXTENDS Integers, Sequences, SequencesExt

Missing == <<"missing", 0>>

Num(n) == <<"number", n>>
Str(s) == <<"str", s>>
Dict(f) == <<"dict", f>>
None == <<"none", 0>>
Optional(x, absent) == IF x = absent THEN None ELSE Str(x)

Literals == {"number", "str", "bool", "none"}
Ordered == {"GT", "GTE", "LT", "LTE"}
Operators == Ordered \cup {"EQ", "NEQ", "IN", "EXISTS"}

\* One step down the tree; everything below a missing key is missing.
Child(v, part) == IF v[1] = "dict" /\ part \in DOMAIN v[2] THEN v[2][part] ELSE Missing

ReadField(fields, path) == FoldLeft(Child, fields, path)

CompareNumbers(a, op, b) ==
    \/ op = "GT" /\ a > b
    \/ op = "GTE" /\ a >= b
    \/ op = "LT" /\ a < b
    \/ op = "LTE" /\ a <= b

\* A comparison across groups is false whatever the operator, NEQ included.
CompareLiteral(a, op, b) ==
    /\ a[1] \in Literals
    /\ a[1] = b[1]
    /\ \/ op = "EQ" /\ a[2] = b[2]
       \/ op = "NEQ" /\ a[2] # b[2]
       \/ op \in Ordered /\ a[1] = "number" /\ CompareNumbers(a[2], op, b[2])

Compare(a, op, b) ==
    IF op = "EXISTS" THEN (a # Missing) = b[2]
    ELSE IF op = "IN" THEN \E m \in ToSet(b) : CompareLiteral(a, "EQ", m)
    ELSE CompareLiteral(a, op, b)

ValidCondition(c) ==
    /\ c.op \in Operators
    /\ CASE c.op = "IN" -> c.value # <<>> /\ \A i \in DOMAIN c.value : c.value[i][1] \in Literals
         [] c.op = "EXISTS" -> c.value[1] = "bool"
         [] c.op \in Ordered -> c.value[1] = "number"
         [] OTHER -> c.value[1] \in Literals

Holds(conditions, fields) ==
    \A c \in conditions : Compare(ReadField(fields, c.field), c.op, c.value)
=============================================================================
