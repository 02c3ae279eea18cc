---------------------------- MODULE TypeSoundness ----------------------------
(***************************************************************************)
(* What types promise of the values of expressions, and where they do not. *)
(***************************************************************************)
EXTENDS Types

\* The parts of the text of a type.
RECURSIVE TypeToString(_)
TypeToString(type) ==
    LET Parameters(of) ==
            IF of = <<>> THEN <<>>
            ELSE <<"<">> \o TypeToString(of[1])
                     \o FlattenSeq([i \in 1 .. Len(of) - 1 |-> <<",">> \o TypeToString(of[i + 1])])
                     \o <<">">>
    IN  <<type.kind>> \o Parameters(type.of) \o IF type.nullable THEN <<"?">> ELSE <<>>

-----------------------------------------------------------------------------
(* The values of expressions in the generated program.  Numbers, strings   *)
(* and Booleans are told apart by their kinds only.                        *)

Value(kind, keys, items) == [kind |-> kind, keys |-> keys, items |-> items]
Atom(kind) == Value(kind, <<>>, <<>>)
Null == Atom("null")
ListValue(items) == Value("list", <<>>, items)

\* The outcome of an operation that raises a TypeError.  Other errors, of an
\* index out of bounds or of a missing key, leave an expression without value.
Wrong == Atom("TypeError")

\* Some values of a type.
RECURSIVE Samples(_)
Samples(type) ==
    (IF type.nullable THEN {Null} ELSE {}) \cup
    CASE type.kind = "list"       -> {ListValue(<<v>>) : v \in Samples(type.of[1])}
      [] type.kind = "dictionary" ->
             {Value("dictionary", <<k>>, <<v>>) : k \in Samples(type.of[1]), v \in Samples(type.of[2])}
      [] type.kind = "any"        -> {Atom("int"), Atom("string")}
      [] type.kind = "nothing"    -> {}
      [] OTHER                    -> {Atom(type.kind)}

\* Whether a type admits a value.
RECURSIVE Fits(_, _)
Fits(v, type) ==
    /\ v # Wrong
    /\ \/ type.kind = "unknown"
       \/ v = Null /\ type.nullable
       \/ v # Null /\ type.kind = "any"
       \/ v.kind = type.kind /\ v.kind \notin {"list", "dictionary"}
       \/ /\ v.kind = type.kind
          /\ \A i \in DOMAIN v.items : Fits(v.items[i], ElementsOf(type))
          /\ \A i \in DOMAIN v.keys : Fits(v.keys[i], GetTypeParameterTypeByIndex(type, 1))

Strictly(Outcomes(_, _), lefts, rights) ==
    UNION {IF Wrong \in {v, w} THEN {Wrong} ELSE Outcomes(v, w) : v \in lefts, w \in rights}

\* Which of its operands "or" yields depends on the truth of the left one.
Or(v, w) == CASE v = Null -> {w} [] v.kind = "boolean" -> {v, w} [] OTHER -> {v, w}

Equality(v, w) ==
    IF "list" \in {v.kind, w.kind} THEN {ListValue(<<Atom("boolean")>>)} ELSE {Atom("boolean")}

Numbers(v, w) == {v.kind, w.kind} \subseteq {"int", "float"}

Sum(v, w) ==
    CASE Numbers(v, w) /\ "float" \notin {v.kind, w.kind} -> {Atom("int")}
      [] Numbers(v, w) /\ "float" \in {v.kind, w.kind}    -> {Atom("float")}
      [] OTHER -> {Wrong}

Infix(operator, v, w) ==
    CASE operator = "or"  -> Or(v, w)
      [] operator = "=="  -> Equality(v, w)
      [] operator = "===" -> {Atom("boolean")}
      [] operator = "<"   -> IF Numbers(v, w) THEN {Atom("boolean")} ELSE {Wrong}
      [] operator = "+"   -> Sum(v, w)
      [] operator = "/"   -> IF Numbers(v, w) THEN {Atom("float")} ELSE {Wrong}
      [] operator = "?:"  -> {IF v = Null THEN w ELSE v}

IsHashable(v) == v.kind \notin {"list", "dictionary"}

\* Keys that may be equal: numbers and Booleans may be, whatever their kinds.
MayBeSameKey(k, index) ==
    k.kind = index.kind \/ {k.kind, index.kind} \subseteq {"int", "float", "boolean"}

Access(v, index, isNullSafe) ==
    CASE v = Null -> IF isNullSafe THEN {Null} ELSE {Wrong}
      [] v.kind = "list" -> IF index.kind = "int" THEN Range(v.items) ELSE {Wrong}
      [] v.kind = "dictionary" ->
             IF IsHashable(index)
             THEN {v.items[i] : i \in {j \in DOMAIN v.keys : MayBeSameKey(v.keys[j], index)}}
             ELSE {Wrong}
      [] OTHER -> {Wrong}

Predefined(name, v) ==
    CASE name = "len" /\ v.kind \in {"list", "dictionary"} -> {Atom("int")}
      [] name = "keys" /\ v.kind = "dictionary"   -> {ListValue(v.keys)}
      [] name = "values" /\ v.kind = "dictionary" -> {ListValue(v.items)}
      [] OTHER -> {Wrong}

\* A foreach loop runs through the items of a list and the keys of a dictionary.
Iterated(v) ==
    CASE v.kind = "list" -> Range(v.items) [] v.kind = "dictionary" -> Range(v.keys) [] OTHER -> {Wrong}

RECURSIVE ValuesOf(_)

\* All sequences of values of the given nodes.
Tuples(nodes) ==
    FoldLeft(LAMBDA tuples, n : {Append(tuple, v) : tuple \in tuples, v \in ValuesOf(n)}, {<<>>}, nodes)

ValuesOf(n) ==
    LET node == program[n]
        WrongIfPartIs(v) == IF Wrong \in Range(v.items) \cup Range(v.keys) THEN Wrong ELSE v
        WrongIfKeyIs(v) == IF \E key \in Range(v.keys) : ~IsHashable(key) THEN Wrong ELSE v
    IN  CASE node.kind \in DOMAIN TypesOfLiterals -> {Atom(node.kind)}
          [] node.kind = "declared" ->
                 Samples(node.type) \cup IF node.default = NoNode THEN {} ELSE ValuesOf(node.default)
          [] node.kind = "function" -> Samples(node.type)
          [] node.kind = "cast"     -> {}
          [] node.kind = "forward"  -> ValuesOf(node.target)
          [] node.kind = "element"  -> UNION {Iterated(v) : v \in ValuesOf(node.list)}
          [] node.kind = "list"     -> {WrongIfPartIs(ListValue(items)) : items \in Tuples(node.elements)}
          [] node.kind = "dictionary" ->
                 {WrongIfKeyIs(WrongIfPartIs(Value("dictionary", keys, items))) :
                     keys \in Tuples(node.keys), items \in Tuples(node.values)}
          [] node.kind = "call"   -> ValuesOf(node.receiver)
          [] node.kind = "access" ->
                 Strictly(LAMBDA v, w : Access(v, w, node.isNullSafe), ValuesOf(node.receiver), ValuesOf(node.index))
          [] node.kind = "infix" ->
                 Strictly(LAMBDA v, w : Infix(node.operator, v, w), ValuesOf(node.left), ValuesOf(node.right))
          [] node.kind = "not"    -> {IF v = Wrong THEN Wrong ELSE Atom("boolean") : v \in ValuesOf(node.operand)}
          [] node.kind = "minus"  -> UNION {Sum(v, v) : v \in ValuesOf(node.operand)}
          [] node.kind = "predefined"    -> UNION {Predefined(node.name, v) : v \in ValuesOf(node.object)}
          [] node.kind = "parenthesized" -> ValuesOf(node.expression)

-----------------------------------------------------------------------------
(* What the type system does not promise.                                  *)

DividesNoInts(types) ==
    \A n \in InfixWith({"/"}) : types[n].kind # "int"

\* Arithmetic, comparisons and disjunctions take operands that may be null, as
\* do accesses to a list.
OperatesOnNonNull(types) ==
    /\ \A n \in OfKind("access") : ~types[program[n].index].nullable
    /\ \A n \in InfixWith({"or", "<", "+", "/"}) :
           ~types[program[n].left].nullable /\ ~types[program[n].right].nullable
    /\ \A n \in OfKind("minus") : ~types[program[n].operand].nullable
    /\ \A n \in OfKind("predefined") : types[program[n].object].kind \in
           IF program[n].name = "len" THEN {"list", "dictionary"} ELSE {"dictionary"}
    /\ \A n \in OfKind("predefined") : ~types[program[n].object].nullable

\* An access drops the nullability of the elements.
AccessesNonNull(types) ==
    \A n \in OfKind("access") : ~ElementsOf(types[program[n].receiver]).nullable

\* An elvis operation compares texts of types, of which one may be a part.
ElvisOfSimilar(types) ==
    \A n \in InfixWith({"?:"}) :
        LET left == types[program[n].left]
            right == types[program[n].right]
        IN  \/ ~Includes(TextOf(right), WithoutFirstMark(TextOf(left)))
            \/ WithExplicitNullability(left, right.nullable) = right

MayBeList(type) == type.kind \in {"list", "any", "unknown"}

\* The equality of lists is a list, and lists are no keys.
ComparesNoLists(types) ==
    /\ \A n \in InfixWith({"=="}) :
           ~MayBeList(types[program[n].left]) /\ ~MayBeList(types[program[n].right])
    /\ \A n \in OfKind("dictionary") : \A m \in ToSet(program[n].keys) : ~MayBeList(types[m])

\* The index into a dictionary is not checked, and may be no key of any.
AccessesWithKeys(types) ==
    \A n \in OfKind("access") : types[program[n].receiver].kind = "dictionary" =>
        types[program[n].index].kind \notin {"list", "dictionary", "any", "unknown"}

\* A loop over a dictionary is typed by its values.
IteratesOverLists(types) ==
    \A n \in OfKind("element") : types[program[n].list].kind = "list" /\ ~types[program[n].list].nullable

IsPromised(types) ==
    /\ DividesNoInts(types) /\ OperatesOnNonNull(types) /\ AccessesNonNull(types)
    /\ ElvisOfSimilar(types) /\ ComparesNoLists(types) /\ AccessesWithKeys(types)
    /\ IteratesOverLists(types)

-----------------------------------------------------------------------------
(* Properties.                                                             *)

IsAccepted == diagnostics # NotValidated /\ diagnostics.errors = {}

\* In an accepted program every expression has a value that its type admits,
\* and no operation raises a TypeError.
ValuesFitTypes ==
    IsAccepted /\ IsPromised(FreshTypes) =>
        \A n \in Node : \A v \in ValuesOf(n) : Fits(v, TypeOf(n, Empty))

\* Following a hint on style changes nothing: what is said never to be null
\* never is.
HintsKeepMeaning ==
    IsAccepted /\ IsPromised(FreshTypes) =>
        /\ \A n \in diagnostics.elvis : Null \notin ValuesOf(program[n].left)
        /\ \A n \in diagnostics.nullSafety :
               program[n].kind = "access" => Null \notin ValuesOf(program[n].receiver)
=============================================================================
