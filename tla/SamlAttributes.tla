--------------------------- MODULE SamlAttributes ---------------------------
(***************************************************************************)
(* The attribute map of getAttributesFromAssertion (strategy.go 183-195):  *)
(* three nested loops over the verified assertion's attribute statements, *)
(* their attributes and each attribute's values, appending every value to *)
(* the list of the attribute's claim name, which is its FriendlyName, or  *)
(* its Name when the FriendlyName is empty.                               *)
(*                                                                         *)
(* The loops are a state machine over their three indices, started from   *)
(* every assertion of a bounded set, and the map they leave is compared   *)
(* with a recursive reference definition of spec 4.4.  TLC only: the      *)
(* reference is RECURSIVE.                                                 *)
(***************************************************************************)
EXTENDS Naturals, Sequences, SequencesExt

CONSTANTS
    Names,          \* attribute names, the empty string among them
    AttrValues,     \* attribute values
    MaxValues,      \* bound on the values of one attribute
    MaxAttributes   \* bound on the attributes of one assertion

\* An attribute as samlsp decodes it: a Name (required by SAML, so never
\* empty), a FriendlyName that may be empty, and string values.
Attribute == [FriendlyName : Names, Name : Names \ {""},
              Values : BoundedSeq(AttrValues, MaxValues)]

\* The attributes of an assertion in encounter order, and the ways to cut
\* such a list into attribute statements (empty statements included).
AttributeLists == BoundedSeq(Attribute, MaxAttributes)

Total(ls) == FoldLeft(LAMBDA p, q : p + q, 0, ls)

Cut(f, ls) ==
    [x \in DOMAIN ls |->
        LET off == Total(SubSeq(ls, 1, x - 1))
        IN  SubSeq(f, off + 1, off + ls[x])]

\* The verified assertions: at most MaxAttributes attributes in at most
\* MaxAttributes statements.
Assertions ==
    UNION {{Cut(f, ls) : ls \in {ls \in BoundedSeq(0..Len(f), MaxAttributes) :
                                   Total(ls) = Len(f)}}
           : f \in AttributeLists}

VARIABLES
    statements, \* assertion.AttributeStatements
    attributes, \* the map[string][]string being built
    i, j, k,    \* the indices of the statement, attribute and value loops
    claimName,  \* the claim name of the current attribute
    pc          \* "stmt", "attr", "value" (the loop being run), "done"

vars == <<statements, attributes, i, j, k, claimName, pc>>

\* attributes := map[string][]string{}, for any verified assertion.
Init ==
    /\ statements \in Assertions
    /\ attributes = [n \in {} |-> <<>>]
    /\ i = 1 /\ j = 1 /\ k = 1
    /\ claimName = ""
    /\ pc = "stmt"

\* The statement being iterated, and its attribute.
Stmt == statements[i]
Attr == Stmt[j]

\* Mutant: the raw Name always wins.
ClaimNameMutant(a) == a.Name

\* claimName := attr.FriendlyName; if it is "", attr.Name.
ClaimName(a) == IF a.FriendlyName = "" THEN a.Name ELSE a.FriendlyName

\* attributes[n] = append(attributes[n], v); a missing key reads as nil.
Put(m, n, v) ==
    [x \in DOMAIN m \cup {n} |->
        IF x = n THEN (IF n \in DOMAIN m THEN m[n] ELSE <<>>) \o <<v>>
        ELSE m[x]]

\* for _, attributeStatement := range assertion.AttributeStatements
StmtBegin ==
    /\ pc = "stmt" /\ i <= Len(statements)
    /\ pc' = "attr" /\ j' = 1
    /\ UNCHANGED <<statements, attributes, i, k, claimName>>

StmtsEnd ==
    /\ pc = "stmt" /\ i > Len(statements)
    /\ pc' = "done"
    /\ UNCHANGED <<statements, attributes, i, j, k, claimName>>

\* for _, attr := range attributeStatement.Attributes: the claim name.
AttrBegin ==
    /\ pc = "attr" /\ j <= Len(Stmt)
    /\ claimName' = ClaimName(Attr)
    /\ pc' = "value" /\ k' = 1
    /\ UNCHANGED <<statements, attributes, i, j>>

AttrsEnd ==
    /\ pc = "attr" /\ j > Len(Stmt)
    /\ pc' = "stmt" /\ i' = i + 1
    /\ UNCHANGED <<statements, attributes, j, k, claimName>>

\* for _, value := range attr.Values: append the value.
AppendValue ==
    /\ pc = "value" /\ k <= Len(Attr.Values)
    /\ attributes' = Put(attributes, claimName, Attr.Values[k])
    /\ k' = k + 1
    /\ UNCHANGED <<statements, i, j, claimName, pc>>

ValuesEnd ==
    /\ pc = "value" /\ k > Len(Attr.Values)
    /\ pc' = "attr" /\ j' = j + 1
    /\ UNCHANGED <<statements, attributes, i, k, claimName>>

Next ==
    \/ StmtBegin \/ StmtsEnd \/ AttrBegin \/ AttrsEnd
    \/ AppendValue \/ ValuesEnd

Spec == Init /\ [][Next]_vars

(***************************************************************************)
(* The reference of spec 4.4: the assertion's attributes in encounter     *)
(* order, each value paired with its key (the friendly name if non-empty, *)
(* else the raw name); a key's list is its values in that order.           *)
(***************************************************************************)

SpecKey(a) == IF a.FriendlyName # "" THEN a.FriendlyName ELSE a.Name

RECURSIVE KeyedValues(_)
KeyedValues(as) ==
    IF as = <<>> THEN <<>>
    ELSE [x \in DOMAIN Head(as).Values |->
            <<SpecKey(Head(as)), Head(as).Values[x]>>]
         \o KeyedValues(Tail(as))

RECURSIVE ValuesOf(_, _)
ValuesOf(n, ps) ==
    IF ps = <<>> THEN <<>>
    ELSE (IF Head(ps)[1] = n THEN <<Head(ps)[2]>> ELSE <<>>)
         \o ValuesOf(n, Tail(ps))

Reference(s) ==
    LET ps == KeyedValues(FlattenSeq(s))
    IN  [n \in {ps[x][1] : x \in DOMAIN ps} |-> ValuesOf(n, ps)]

\* Spec 4.4 and 8: once the loops end, the map has a key for every claim
\* name with a value, the friendly name winning over the raw name, and each
\* key lists all its values in encounter order, across attributes and
\* statements that share the key.
ExtractMatchesSpec == pc = "done" => attributes = Reference(statements)
=============================================================================
