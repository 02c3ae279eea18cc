----------------------------- MODULE TypesProofs -----------------------------
(***************************************************************************)
(* Types and diagnostics do not depend on what was asked before, and what  *)
(* the type computer takes for the lowest common supertype of the elements *)
(* of a list, of keys, or of values is above all of them.                  *)
(***************************************************************************)
EXTENDS Types, SortingProofs

\* Types as the type computer makes them, of any depth.
IsType(type) ==
    /\ type = MakeType(type.kind, type.of, type.nullable)
    /\ type.nullable \in BOOLEAN
    /\ type.kind = "unknown" => type = UnknownType
    /\ type.kind = "any" => type = AnyType(type.nullable)

\* Every value of the first type is one of the second.  A type that is not known
\* may have any value.
IsBelow(type, other) ==
    \/ other = type
    \/ other = AnyType(TRUE)
    \/ other.kind = "any" /\ type # UnknownType /\ (IsNullableOrNothing(type) => other.nullable)
    \/ other = WithExplicitNullability(type, TRUE)
    \/ type.kind = "nothing" /\ other.nullable

\* The unknown type is the only one that is not dropped, as Equals tells types
\* apart by their nullability.
LEMMA OnlyUnknownIsKept ==
    ASSUME NEW type, IsType(type)
    PROVE  IsDropped(type) <=> type # UnknownType
<1>1. CASE type = UnknownType
    BY <1>1 DEF IsDropped, Equals, UnknownType, NothingType, MakeType
<1>2. CASE type # UnknownType
    BY <1>2 DEF IsType, IsDropped, Equals, NothingType, MakeType
<1> QED BY <1>1, <1>2

\* A type that admits null is above Nothing, and above its own variant that
\* does not.
LEMMA NullableIsAbove ==
    ASSUME NEW first, IsType(first), NEW type, type = first \/ type.kind = "nothing",
           first # UnknownType
    PROVE  IsBelow(type, WithExplicitNullability(first, TRUE))
<1>1. WithExplicitNullability(first, TRUE).nullable = TRUE
    BY DEF WithExplicitNullability, IsType, MakeType
<1> QED BY <1>1 DEF IsBelow

\* Whatever the types and their order are, lowestCommonSupertype yields a type
\* that admits every value of each of them; it may depend on their order and is
\* not always the least one.
THEOREM LowestCommonSupertypeIsAbove ==
    ASSUME NEW types, types = [i \in 1 .. Len(types) |-> types[i]], Len(types) \in Nat,
           \A i \in 1 .. Len(types) : IsType(types[i]),
           NEW k \in 1 .. Len(types)
    PROVE  IsBelow(types[k], LowestCommonSupertype(types))
<1>1. Len(types) > 1 => Len(types) # 1 /\ Len(types) # 0
    OBVIOUS
<1>0. Len(types) >= 1 /\ DOMAIN types = 1 .. Len(types) /\ IsType(types[k]) /\ IsType(types[1])
    OBVIOUS
<1>2. CASE Len(types) = 1
    <2>1. k = 1
        BY <1>2
    <2>2. LowestCommonSupertype(types) = types[1]
        BY <1>2 DEF LowestCommonSupertype
    <2> QED BY <2>1, <2>2 DEF IsBelow
<1>3. CASE Len(types) > 1 /\ ContainsUnknownType(types)
    <2>1. LowestCommonSupertype(types) = AnyType(TRUE)
        BY <1>1, <1>3, Zenon DEF LowestCommonSupertype
    <2> QED BY <2>1 DEF IsBelow
<1>4. CASE Len(types) > 1 /\ ~ContainsUnknownType(types) /\ AllAreFirst(types)
    <2>1. LowestCommonSupertype(types) = types[1]
        BY <1>1, <1>4, Zenon DEF LowestCommonSupertype
    <2>2. types[k] = types[1]
        BY <1>0, <1>4 DEF AllAreFirst
    <2> QED BY <2>1, <2>2 DEF IsBelow
<1>5. CASE /\ Len(types) > 1 /\ ~ContainsUnknownType(types)
           /\ ~AllAreFirst(types) /\ AllAreFirstOrNothing(types)
    <2>1. LowestCommonSupertype(types) = WithExplicitNullability(types[1], TRUE)
        BY <1>1, <1>5, Zenon DEF LowestCommonSupertype
    <2>2. types[k] = types[1] \/ types[k].kind = "nothing"
        BY <1>0, <1>5 DEF AllAreFirstOrNothing
    <2>3. types[1] # UnknownType
        BY <1>0, <1>5, OnlyUnknownIsKept DEF ContainsUnknownType
    <2> QED BY <1>0, <2>1, <2>2, <2>3, NullableIsAbove
<1>6. CASE /\ Len(types) > 1 /\ ~ContainsUnknownType(types)
           /\ ~AllAreFirst(types) /\ ~AllAreFirstOrNothing(types)
    <2>1. LowestCommonSupertype(types) = AnyType(SomeIsNullable(types))
        BY <1>1, <1>6, Zenon DEF LowestCommonSupertype
    <2>2. types[k] # UnknownType
        BY <1>0, <1>6, OnlyUnknownIsKept DEF ContainsUnknownType
    <2>3. IsNullableOrNothing(types[k]) => SomeIsNullable(types)
        BY <1>0 DEF SomeIsNullable
    <2>4. AnyType(SomeIsNullable(types)).kind = "any"
        BY DEF AnyType, MakeType
    <2>5. AnyType(SomeIsNullable(types)).nullable = SomeIsNullable(types)
        BY DEF AnyType, MakeType
    <2> QED BY <2>1, <2>2, <2>3, <2>4, <2>5 DEF IsBelow
<1> QED BY <1>0, <1>2, <1>3, <1>4, <1>5, <1>6

-----------------------------------------------------------------------------
(* The types of a program, by the numbers of its nodes.                    *)

LEMMA ProgramIsOrdered ==
    ASSUME program \in Programs
    PROVE  /\ Len(program) \in Nat /\ Node = 1 .. Len(program)
           /\ \A n \in Node : Parts(program[n]) \subseteq Node /\ \A m \in Parts(program[n]) : m < n
           /\ \A n \in Node : OnlyChecked(program[n]) \subseteq Node
<1>1. IsProgram(program)
    BY TypesAssumption
<1>2. \A n \in Node : \A m \in Parts(program[n]) : m \in 1 .. n - 1
    BY <1>1 DEF IsProgram, Node
<1>. QED
    BY <1>1, <1>2 DEF IsProgram, Node

\* The type of a node depends on those of its parts only.
LEMMA TypeDependsOnParts ==
    ASSUME NEW n, NEW c, NEW d, NEW f, NEW g,
           \A m \in Parts(program[n]) : Asked(m, c, f) = Asked(m, d, g) /\ f[m] = g[m]
    PROVE  ComputeTypeOf(n, c, f) = ComputeTypeOf(n, d, g)
<1>. DEFINE node == program[n]
<1>1. CASE node.kind = "forward"
    BY <1>1 DEF Parts, ComputeTypeOf, TypesOfLiterals
<1>2. CASE node.kind = "element"
    BY <1>2 DEF Parts, ComputeTypeOf, TypesOfLiterals
<1>3. CASE node.kind = "list"
    <2>1. AskedInOrder(node.elements, c, f) = AskedInOrder(node.elements, d, g)
        BY <1>3 DEF Parts, AskedInOrder, ToSet
    <2>. QED
        BY <1>3, <2>1 DEF ComputeTypeOf, TypesOfLiterals
<1>4. CASE node.kind = "dictionary"
    <2>1. AskedInOrder(node.keys, c, f) = AskedInOrder(node.keys, d, g)
        BY <1>4 DEF Parts, AskedInOrder, ToSet
    <2>2. AskedInOrder(node.values, c, f) = AskedInOrder(node.values, d, g)
        BY <1>4 DEF Parts, AskedInOrder, ToSet
    <2>. QED
        BY <1>4, <2>1, <2>2 DEF ComputeTypeOf, TypesOfLiterals
<1>5. CASE node.kind = "call"
    <2>1. TypeOfCall(node, c, f) = TypeOfCall(node, d, g)
        BY <1>5 DEF Parts, TypeOfCall
    <2>. QED
        BY <1>5, <2>1 DEF ComputeTypeOf, TypesOfLiterals
<1>6. CASE node.kind = "access"
    BY <1>6 DEF Parts, ComputeTypeOf, TypesOfLiterals
<1>7. CASE node.kind = "infix"
    <2>1. TypeOfInfixOperation(node, c, f) = TypeOfInfixOperation(node, d, g)
        BY <1>7 DEF Parts, TypeOfInfixOperation
    <2>. QED
        BY <1>7, <2>1 DEF ComputeTypeOf, TypesOfLiterals
<1>8. CASE node.kind = "minus"
    BY <1>8 DEF Parts, ComputeTypeOf, TypesOfLiterals
<1>9. CASE node.kind = "predefined"
    BY <1>9 DEF Parts, ComputeTypeOf, TypesOfLiterals
<1>10. CASE node.kind = "parenthesized"
    BY <1>10 DEF Parts, ComputeTypeOf, TypesOfLiterals
<1>11. CASE node.kind \notin {"forward", "element", "list", "dictionary", "call", "access", "infix",
                              "minus", "predefined", "parenthesized"}
    BY <1>11 DEF ComputeTypeOf
<1>. QED
    BY <1>1, <1>2, <1>3, <1>4, <1>5, <1>6, <1>7, <1>8, <1>9, <1>10, <1>11

\* One after the other, the types of the nodes can be computed: the recursion
\* of the type computer comes to an end.
LEMMA TypesCanBeComputed ==
    ASSUME program \in Programs, NEW c
    PROVE  \E f : f = [n \in Node |-> ComputeTypeOf(n, c, f)]
<1>. DEFINE N == Len(program)
            IsComputed(k, f) == f = [n \in 1 .. k |-> f[n]] /\ \A n \in 1 .. k : f[n] = ComputeTypeOf(n, c, f)
            missing == {k \in 0 .. N : ~ \E f : IsComputed(k, f)}
<1>1. N \in Nat /\ Node = 1 .. N
    BY ProgramIsOrdered
<1>2. missing = {}
    <2>. SUFFICES ASSUME missing # {} PROVE FALSE
        OBVIOUS
    <2>1. missing \in SUBSET Nat
        BY <1>1
    <2>2. PICK k \in missing : \A j \in missing : k <= j
        BY <2>1, LeastExists
    <2>3. k # 0
        <3>. DEFINE none == [n \in 1 .. 0 |-> 0]
        <3>1. IsComputed(0, none)
            OBVIOUS
        <3>. QED
            BY <2>2, <3>1
    <2>4. k \in Nat /\ k <= N /\ k - 1 \in 0 .. N /\ k - 1 < k
        BY <1>1, <2>2, <2>3
    <2>5. k - 1 \notin missing
        BY <2>2, <2>4
    <2>6. PICK f : IsComputed(k - 1, f)
        BY <2>4, <2>5
    <2>. DEFINE g == [n \in 1 .. k |-> IF n = k THEN ComputeTypeOf(k, c, f) ELSE f[n]]
    <2>7. ASSUME NEW n \in 1 .. k PROVE ComputeTypeOf(n, c, f) = ComputeTypeOf(n, c, g)
        <3>1. n \in Node
            BY <1>1, <2>4
        <3>2. ASSUME NEW m \in Parts(program[n]) PROVE f[m] = g[m]
            <4>1. m \in 1 .. N /\ m < n
                BY <1>1, <3>1, ProgramIsOrdered
            <4>. QED
                BY <1>1, <2>4, <4>1
        <3>. HIDE DEF g
        <3>. QED
            BY <3>2, TypeDependsOnParts DEF Asked
    <2>8. IsComputed(k, g)
        <3>1. ASSUME NEW n \in 1 .. k PROVE g[n] = ComputeTypeOf(n, c, f)
            <4>1. n = k \/ n \in 1 .. k - 1
                BY <2>4
            <4>. QED
                BY <2>6, <4>1
        <3>2. \A n \in 1 .. k : g[n] = ComputeTypeOf(n, c, g)
            <4>. HIDE DEF g
            <4>. QED
                BY <2>7, <3>1
        <3>. QED
            BY <3>2
    <2>. QED
        BY <2>2, <2>8
<1>3. PICK f : IsComputed(N, f)
    BY <1>1, <1>2
<1>. QED
    BY <1>1, <1>3

LEMMA TypesAreComputed ==
    ASSUME program \in Programs, NEW c, NEW n \in Node
    PROVE  ComputedTypes(c)[n] = ComputeTypeOf(n, c, ComputedTypes(c))
<1>. DEFINE types == CHOOSE f : f = [m \in Node |-> ComputeTypeOf(m, c, f)]
<1>1. types = [m \in Node |-> ComputeTypeOf(m, c, types)]
    BY TypesCanBeComputed
<1>2. ComputedTypes(c) = types
    BY DEF ComputedTypes
<1>. HIDE DEF types
<1>. QED
    BY <1>1, <1>2

\* What a cache may hold.
IsFresh(c) == \A n \in DOMAIN c : c[n] = ComputedTypes(Empty)[n]

LEMMA NothingIsCached == DOMAIN Empty = {}
BY DEF Empty

\* With a cache that holds nothing else, the types are those of a fresh server.
LEMMA CachedTypesAreFresh ==
    ASSUME program \in Programs, NEW c, IsFresh(c), NEW n \in Node
    PROVE  /\ ComputedTypes(c)[n] = ComputedTypes(Empty)[n]
           /\ TypeOf(n, c) = ComputedTypes(Empty)[n]
           /\ TypeOf(n, Empty) = ComputedTypes(Empty)[n]
<1>. DEFINE wrong == {m \in Node : ComputedTypes(c)[m] # ComputedTypes(Empty)[m]}
<1>1. wrong = {}
    <2>. SUFFICES ASSUME wrong # {} PROVE FALSE
        OBVIOUS
    <2>1. wrong \in SUBSET Nat
        BY ProgramIsOrdered
    <2>2. PICK k \in wrong : \A j \in wrong : k <= j
        BY <2>1, LeastExists
    <2>3. ASSUME NEW m \in Parts(program[k])
          PROVE  /\ Asked(m, c, ComputedTypes(c)) = Asked(m, Empty, ComputedTypes(Empty))
                 /\ ComputedTypes(c)[m] = ComputedTypes(Empty)[m]
        <3>1. m \in Node /\ m < k /\ m \in Nat /\ k \in Nat
            BY <2>1, ProgramIsOrdered
        <3>2. ComputedTypes(c)[m] = ComputedTypes(Empty)[m]
            BY <2>2, <3>1
        <3>. QED
            BY <3>2, NothingIsCached DEF Asked, IsFresh
    <2>4. ComputeTypeOf(k, c, ComputedTypes(c)) = ComputeTypeOf(k, Empty, ComputedTypes(Empty))
        BY <2>3, TypeDependsOnParts
    <2>. QED
        BY <2>4, TypesAreComputed
<1>. QED
    BY <1>1, NothingIsCached DEF TypeOf, Asked, IsFresh

-----------------------------------------------------------------------------
(* What a computation leaves in the cache.                                 *)

LEMMA AskedForParts ==
    ASSUME NEW n, NEW c
    PROVE  AskedFor(n, c) \subseteq Parts(program[n])
<1>. DEFINE node == program[n]
<1>1. CASE node.kind \in {"forward", "element", "access", "minus", "predefined", "call"}
    BY <1>1 DEF AskedFor, Parts
<1>2. CASE node.kind \in {"list", "dictionary"}
    BY <1>2 DEF AskedFor, Parts
<1>3. CASE node.kind = "infix"
    BY <1>3 DEF AskedFor, Parts
<1>4. CASE node.kind \notin {"forward", "element", "access", "minus", "predefined", "call", "list",
                             "dictionary", "infix"}
    BY <1>4 DEF AskedFor
<1>. QED
    BY <1>1, <1>2, <1>3, <1>4

\* What the computation for a node adds, given what those of its parts add.
Adds(n, c, f) ==
    IF program[n].kind = "parenthesized" THEN f[program[n].expression]
    ELSE UNION {{m} \cup f[m] : m \in AskedFor(n, c) \ DOMAIN c}

LEMMA AddedDependsOnParts ==
    ASSUME NEW n, NEW c, NEW f, NEW g, \A m \in Parts(program[n]) : f[m] = g[m]
    PROVE  Adds(n, c, f) = Adds(n, c, g)
<1>1. CASE program[n].kind = "parenthesized"
    BY <1>1 DEF Adds, Parts
<1>2. CASE program[n].kind # "parenthesized"
    <2>1. \A m \in AskedFor(n, c) \ DOMAIN c : f[m] = g[m]
        BY AskedForParts
    <2>2. {{m} \cup f[m] : m \in AskedFor(n, c) \ DOMAIN c} = {{m} \cup g[m] : m \in AskedFor(n, c) \ DOMAIN c}
        BY <2>1
    <2>. QED
        BY <1>2, <2>2 DEF Adds
<1>. QED
    BY <1>1, <1>2

LEMMA AddedCanBeComputed ==
    ASSUME program \in Programs, NEW c
    PROVE  \E f : f = [n \in Node |-> Adds(n, c, f)]
<1>. DEFINE N == Len(program)
            IsComputed(k, f) == f = [n \in 1 .. k |-> f[n]] /\ \A n \in 1 .. k : f[n] = Adds(n, c, f)
            missing == {k \in 0 .. N : ~ \E f : IsComputed(k, f)}
<1>1. N \in Nat /\ Node = 1 .. N
    BY ProgramIsOrdered
<1>2. missing = {}
    <2>. SUFFICES ASSUME missing # {} PROVE FALSE
        OBVIOUS
    <2>1. missing \in SUBSET Nat
        BY <1>1
    <2>2. PICK k \in missing : \A j \in missing : k <= j
        BY <2>1, LeastExists
    <2>3. k # 0
        <3>. DEFINE none == [n \in 1 .. 0 |-> 0]
        <3>1. IsComputed(0, none)
            OBVIOUS
        <3>. QED
            BY <2>2, <3>1
    <2>4. k \in Nat /\ k <= N /\ k - 1 \in 0 .. N /\ k - 1 < k
        BY <1>1, <2>2, <2>3
    <2>5. k - 1 \notin missing
        BY <2>2, <2>4
    <2>6. PICK f : IsComputed(k - 1, f)
        BY <2>4, <2>5
    <2>. DEFINE g == [n \in 1 .. k |-> IF n = k THEN Adds(k, c, f) ELSE f[n]]
    <2>7. ASSUME NEW n \in 1 .. k PROVE Adds(n, c, f) = Adds(n, c, g)
        <3>1. n \in Node
            BY <1>1, <2>4
        <3>2. ASSUME NEW m \in Parts(program[n]) PROVE f[m] = g[m]
            <4>1. m \in 1 .. N /\ m < n
                BY <1>1, <3>1, ProgramIsOrdered
            <4>. QED
                BY <1>1, <2>4, <4>1
        <3>. HIDE DEF g
        <3>. QED
            BY <3>2, AddedDependsOnParts
    <2>8. IsComputed(k, g)
        <3>1. ASSUME NEW n \in 1 .. k PROVE g[n] = Adds(n, c, f)
            <4>1. n = k \/ n \in 1 .. k - 1
                BY <2>4
            <4>. QED
                BY <2>6, <4>1
        <3>2. \A n \in 1 .. k : g[n] = Adds(n, c, g)
            <4>. HIDE DEF g
            <4>. QED
                BY <2>7, <3>1
        <3>. QED
            BY <3>2
    <2>. QED
        BY <2>2, <2>8
<1>3. PICK f : IsComputed(N, f)
    BY <1>1, <1>2
<1>. QED
    BY <1>1, <1>3

LEMMA AddedIsComputed ==
    ASSUME program \in Programs, NEW c, NEW n \in Node
    PROVE  AddedBy(c)[n] = Adds(n, c, AddedBy(c))
<1>. DEFINE added == CHOOSE f : f = [m \in Node |-> Adds(m, c, f)]
<1>1. added = [m \in Node |-> Adds(m, c, added)]
    BY AddedCanBeComputed
<1>2. AddedBy(c) = added
    BY DEF AddedBy, Adds
<1>. HIDE DEF added
<1>. QED
    BY <1>1, <1>2

\* What is added comes from the parts that are asked for, or from the expression
\* in parentheses.
LEMMA AddedByParts ==
    ASSUME program \in Programs, NEW c, NEW n \in Node
    PROVE  /\ program[n].kind = "parenthesized" =>
                  /\ program[n].expression \in Node /\ program[n].expression < n
                  /\ AddedBy(c)[n] = AddedBy(c)[program[n].expression]
           /\ program[n].kind # "parenthesized" =>
                  /\ AskedFor(n, c) \subseteq Node /\ \A m \in AskedFor(n, c) : m < n
                  /\ \A m \in AskedFor(n, c) \ DOMAIN c : {m} \cup AddedBy(c)[m] \subseteq AddedBy(c)[n]
                  /\ \A k \in AddedBy(c)[n] : \E m \in AskedFor(n, c) \ DOMAIN c : k = m \/ k \in AddedBy(c)[m]
<1>1. CASE program[n].kind = "parenthesized"
    <2>1. program[n].expression \in Parts(program[n])
        BY <1>1 DEF Parts
    <2>. QED
        BY <1>1, <2>1, AddedIsComputed, ProgramIsOrdered DEF Adds
<1>2. CASE program[n].kind # "parenthesized"
    <2>1. AddedBy(c)[n] = UNION {{m} \cup AddedBy(c)[m] : m \in AskedFor(n, c) \ DOMAIN c}
        BY <1>2, AddedIsComputed DEF Adds
    <2>2. AskedFor(n, c) \subseteq Node /\ \A m \in AskedFor(n, c) : m < n
        BY AskedForParts, ProgramIsOrdered
    <2>. QED
        BY <1>2, <2>1, <2>2
<1>. QED
    BY <1>1, <1>2

LEMMA AddedAreNodes ==
    ASSUME program \in Programs, NEW c, NEW n \in Node
    PROVE  AddedBy(c)[n] \subseteq Node
<1>. DEFINE wrong == {m \in Node : ~ (AddedBy(c)[m] \subseteq Node)}
<1>. SUFFICES ASSUME wrong # {} PROVE FALSE
    OBVIOUS
<1>1. wrong \in SUBSET Nat
    BY ProgramIsOrdered
<1>2. PICK k \in wrong : \A j \in wrong : k <= j
    BY <1>1, LeastExists
<1>3. \A m \in Node : m < k => AddedBy(c)[m] \subseteq Node
    BY <1>1, <1>2, ProgramIsOrdered
<1>. QED
    BY <1>2, <1>3, AddedByParts

\* What a fresh server adds for a node includes what it adds for each of those
\* nodes.
LEMMA AddedIncludesParts ==
    ASSUME program \in Programs, NEW n \in Node, NEW k \in AddedBy(Empty)[n]
    PROVE  AddedBy(Empty)[k] \subseteq AddedBy(Empty)[n]
<1>. DEFINE HasThoseOfParts(m) == \A j \in AddedBy(Empty)[m] : AddedBy(Empty)[j] \subseteq AddedBy(Empty)[m]
            wrong == {m \in Node : ~ HasThoseOfParts(m)}
<1>. SUFFICES ASSUME wrong # {} PROVE FALSE
    OBVIOUS
<1>1. wrong \in SUBSET Nat
    BY ProgramIsOrdered
<1>2. PICK i \in wrong : \A j \in wrong : i <= j
    BY <1>1, LeastExists
<1>3. \A m \in Node : m < i => HasThoseOfParts(m)
    BY <1>1, <1>2, ProgramIsOrdered
<1>4. HasThoseOfParts(i)
    <2>1. CASE program[i].kind = "parenthesized"
        BY <1>2, <1>3, <2>1, AddedByParts
    <2>2. CASE program[i].kind # "parenthesized"
        BY <1>2, <1>3, <2>2, AddedByParts
    <2>. QED
        BY <2>1, <2>2
<1>. QED
    BY <1>2, <1>4

\* A cache of fresh types decides nothing about who is asked.
LEMMA AskedForIsFresh ==
    ASSUME program \in Programs, NEW c, IsFresh(c), NEW n \in Node
    PROVE  AskedFor(n, c) = AskedFor(n, Empty)
<1>1. CASE program[n].kind # "infix"
    BY <1>1 DEF AskedFor
<1>2. CASE program[n].kind = "infix"
    <2>1. program[n].left \in Node
        BY <1>2, ProgramIsOrdered DEF Parts
    <2>2. TypeOf(program[n].left, c) = TypeOf(program[n].left, Empty)
        BY <2>1, CachedTypesAreFresh
    <2>. QED
        BY <1>2, <2>2 DEF AskedFor
<1>. QED
    BY <1>1, <1>2

IsComplete(c) == \A n \in DOMAIN c : AddedBy(Empty)[n] \subseteq DOMAIN c

\* With a cache that is complete, a computation adds what is missing.
LEMMA AddsWhatIsMissing ==
    ASSUME program \in Programs, NEW c, IsFresh(c), IsComplete(c), NEW n \in Node
    PROVE  /\ AddedBy(c)[n] \subseteq AddedBy(Empty)[n]
           /\ AddedBy(Empty)[n] \subseteq AddedBy(c)[n] \cup DOMAIN c
<1>. DEFINE IsRight(m) == /\ AddedBy(c)[m] \subseteq AddedBy(Empty)[m]
                          /\ AddedBy(Empty)[m] \subseteq AddedBy(c)[m] \cup DOMAIN c
            wrong == {m \in Node : ~ IsRight(m)}
<1>. SUFFICES ASSUME wrong # {} PROVE FALSE
    OBVIOUS
<1>1. wrong \in SUBSET Nat
    BY ProgramIsOrdered
<1>2. PICK i \in wrong : \A j \in wrong : i <= j
    BY <1>1, LeastExists
<1>3. \A m \in Node : m < i => IsRight(m)
    BY <1>1, <1>2, ProgramIsOrdered
<1>4. IsRight(i)
    <2>1. CASE program[i].kind = "parenthesized"
        BY <1>2, <1>3, <2>1, AddedByParts
    <2>2. CASE program[i].kind # "parenthesized"
        <3>. DEFINE asked == AskedFor(i, Empty)
        <3>1. AskedFor(i, c) = asked /\ asked \subseteq Node /\ \A m \in asked : IsRight(m)
            BY <1>2, <1>3, <2>2, AddedByParts, AskedForIsFresh
        <3>2. /\ \A m \in asked \ DOMAIN c : {m} \cup AddedBy(c)[m] \subseteq AddedBy(c)[i]
              /\ \A k \in AddedBy(c)[i] : \E m \in asked \ DOMAIN c : k = m \/ k \in AddedBy(c)[m]
            BY <1>2, <2>2, <3>1, AddedByParts
        <3>3. /\ \A m \in asked : {m} \cup AddedBy(Empty)[m] \subseteq AddedBy(Empty)[i]
              /\ \A k \in AddedBy(Empty)[i] : \E m \in asked : k = m \/ k \in AddedBy(Empty)[m]
            BY <1>2, <2>2, AddedByParts, NothingIsCached
        <3>4. \A m \in asked \cap DOMAIN c : {m} \cup AddedBy(Empty)[m] \subseteq DOMAIN c
            BY DEF IsComplete
        <3>. HIDE DEF asked
        <3>. QED
            BY <3>1, <3>2, <3>3, <3>4
    <2>. QED
        BY <2>1, <2>2
<1>. QED
    BY <1>2, <1>4

\* However it was filled, the cache stays one of fresh types, and complete.
LEMMA RemembersFreshTypes ==
    ASSUME program \in Programs, NEW c, DOMAIN c \subseteq Node, IsFresh(c), IsComplete(c),
           NEW nodes, nodes \subseteq Node
    PROVE  /\ nodes \subseteq DOMAIN Remember(nodes, c)
           /\ DOMAIN Remember(nodes, c) \subseteq Node
           /\ IsFresh(Remember(nodes, c)) /\ IsComplete(Remember(nodes, c))
<1>. DEFINE D == DOMAIN Remember(nodes, c)
<1>1. D = DOMAIN c \cup UNION {{n} \cup AddedBy(c)[n] : n \in nodes \ DOMAIN c}
    BY DEF Remember, CachedAfter
<1>2. D \subseteq Node
    BY <1>1, AddedAreNodes
<1>3. IsFresh(Remember(nodes, c))
    <2>1. \A n \in D : Remember(nodes, c)[n] = TypeOf(n, c)
        BY DEF Remember
    <2>. QED
        BY <1>2, <2>1, CachedTypesAreFresh DEF IsFresh
<1>4. ASSUME NEW k \in D PROVE AddedBy(Empty)[k] \subseteq D
    <2>1. CASE k \in DOMAIN c
        BY <1>1, <2>1 DEF IsComplete
    <2>2. CASE k \notin DOMAIN c
        <3>1. PICK n \in nodes \ DOMAIN c : k \in {n} \cup AddedBy(c)[n]
            BY <1>1, <2>2
        <3>2. AddedBy(Empty)[n] \subseteq D
            BY <1>1, AddsWhatIsMissing
        <3>3. k = n \/ k \in AddedBy(Empty)[n]
            BY <3>1, AddsWhatIsMissing
        <3>4. k \in AddedBy(Empty)[n] => AddedBy(Empty)[k] \subseteq AddedBy(Empty)[n]
            BY AddedIncludesParts
        <3>. QED
            BY <3>2, <3>3, <3>4
    <2>. QED
        BY <2>1, <2>2
<1>. QED
    BY <1>1, <1>2, <1>3, <1>4 DEF IsComplete

-----------------------------------------------------------------------------
(* The server.                                                             *)

\* Nothing is computed anew while the program stays the same.
LEMMA TypesStay ==
    ASSUME UNCHANGED program
    PROVE  /\ Node' = Node
           /\ ComputedTypes(Empty)' = ComputedTypes(Empty)
           /\ AddedBy(Empty)' = AddedBy(Empty)
           /\ FreshTypes' = FreshTypes
           /\ Diagnostics(FreshTypes)' = Diagnostics(FreshTypes)
<1>1. Node' = Node
    BY DEF Node
<1>2. ComputedTypes(Empty)' = ComputedTypes(Empty)
    BY DEF ComputedTypes, Node, ComputeTypeOf, TypeOfCall, CallsNoFunction, Empty, Asked, AskedInOrder, TypeOfInfixOperation
<1>3. AddedBy(Empty)' = AddedBy(Empty)
    BY <1>2 DEF AddedBy, Node, AskedFor, TypeOf, CallsNoFunction, Empty, Asked
<1>4. FreshTypes' = FreshTypes
    BY <1>1, <1>2 DEF FreshTypes, TypeOf, Asked, Empty
<1>5. /\ OfKind("call")' = OfKind("call") /\ OfKind("access")' = OfKind("access")
      /\ OfKind("infix")' = OfKind("infix") /\ OfKind("not")' = OfKind("not")
      /\ OfKind("minus")' = OfKind("minus") /\ OfKind("list")' = OfKind("list")
      /\ OfKind("dictionary")' = OfKind("dictionary") /\ OfKind("cast")' = OfKind("cast")
      /\ OfKind("declared")' = OfKind("declared") /\ Chained' = Chained
    BY <1>1 DEF OfKind, Chained
<1>6. /\ InfixWith({"or"})' = InfixWith({"or"}) /\ InfixWith({"?:"})' = InfixWith({"?:"})
      /\ InfixWith({"<", "+", "/"})' = InfixWith({"<", "+", "/"})
    BY <1>5 DEF InfixWith
<1>7. /\ ElvisIsNotNeeded(FreshTypes)' = ElvisIsNotNeeded(FreshTypes)
      /\ NullSafetyIsNotNeeded(FreshTypes)' = NullSafetyIsNotNeeded(FreshTypes)
      /\ IsNotNullSafe(FreshTypes)' = IsNotNullSafe(FreshTypes)
    BY <1>4, <1>5, <1>6 DEF ElvisIsNotNeeded, NullSafetyIsNotNeeded, IsNotNullSafe
<1>8. /\ ReceiverIsNotCallable' = ReceiverIsNotCallable
      /\ ReceiverIsNotAccessible(FreshTypes)' = ReceiverIsNotAccessible(FreshTypes)
      /\ ArgumentTypesDoNotMatch(FreshTypes)' = ArgumentTypesDoNotMatch(FreshTypes)
    BY <1>4, <1>5 DEF ReceiverIsNotCallable, ReceiverIsNotAccessible, ArgumentTypesDoNotMatch, CalledFunction
<1>9. /\ IndexIsNotInt(FreshTypes)' = IndexIsNotInt(FreshTypes)
      /\ ListContainsLists(FreshTypes)' = ListContainsLists(FreshTypes)
      /\ KeyIsDictionary(FreshTypes)' = KeyIsDictionary(FreshTypes)
    BY <1>4, <1>5 DEF IndexIsNotInt, ListContainsLists, KeyIsDictionary
<1>10. OperandHasWrongType(FreshTypes)' = OperandHasWrongType(FreshTypes)
    BY <1>4, <1>5, <1>6 DEF OperandHasWrongType
<1>11. /\ DefaultValueDoesNotMatch(FreshTypes)' = DefaultValueDoesNotMatch(FreshTypes)
       /\ CastIsNotNeeded(FreshTypes)' = CastIsNotNeeded(FreshTypes)
    BY <1>4, <1>5 DEF DefaultValueDoesNotMatch, CastIsNotNeeded
<1>12. Diagnostics(FreshTypes)' = Diagnostics(FreshTypes)
    BY <1>7, <1>8, <1>9, <1>10, <1>11 DEF Diagnostics, Errors
<1>. QED
    BY <1>1, <1>2, <1>3, <1>4, <1>12

\* The inductive invariant: the cache holds the types a fresh server computes for
\* the program in the editor, with all they were computed from, and the answer
\* is among them.
TypesInvariant ==
    /\ program \in Programs
    /\ DOMAIN nodeTypes \subseteq Node /\ IsFresh(nodeTypes) /\ IsComplete(nodeTypes)
    /\ answer # NoAnswer => question \in DOMAIN nodeTypes /\ answer = ComputedTypes(Empty)[question]
    /\ diagnostics # NotValidated => diagnostics = Diagnostics(FreshTypes)

LEMMA EmptyCacheIsFresh ==
    DOMAIN Empty \subseteq Node /\ IsFresh(Empty) /\ IsComplete(Empty)
BY NothingIsCached DEF IsFresh, IsComplete

LEMMA TypesInit == Init => TypesInvariant
BY EmptyCacheIsFresh DEF Init, TypesInvariant

LEMMA CheckedAreNodes ==
    ASSUME program \in Programs, NEW c
    PROVE  CheckedNodes(c) \subseteq Node
<1>. SUFFICES ASSUME NEW m \in CheckedNodes(c) PROVE m \in Node
    OBVIOUS
<1>1. \A n \in Node : Parts(program[n]) \cup OnlyChecked(program[n]) \cup {n} \subseteq Node
    BY ProgramIsOrdered
<1>2. PICK n \in Node : m \in Parts(program[n]) \cup OnlyChecked(program[n]) \cup {n}
    <2>1. PICK n \in Node :
              m \in LET node == program[n]
                    IN  CASE node.kind = "call" ->
                                 {node.receiver} \cup DOMAIN node.args \cup Range(node.args)
                          [] node.kind = "access" ->
                                 {node.receiver} \cup IF TypeOf(node.receiver, c).kind = "list"
                                                      THEN {node.index} ELSE {}
                          [] node.kind = "infix"      -> {node.left, node.right}
                          [] node.kind = "list"       -> ToSet(node.elements)
                          [] node.kind = "dictionary" -> ToSet(node.keys) \cup ToSet(node.values)
                          [] node.kind \in {"not", "minus"} -> {node.operand}
                          [] node.kind = "cast"       -> {node.expression}
                          [] node.kind = "declared" /\ node.default # NoNode -> {n, node.default}
                          [] OTHER -> {}
        BY DEF CheckedNodes
    <2>. DEFINE node == program[n]
    <2>2. CASE node.kind \in {"call", "access"}
        BY <2>1, <2>2 DEF Parts, OnlyChecked
    <2>3. CASE node.kind \in {"infix", "list", "dictionary"}
        BY <2>1, <2>3 DEF Parts
    <2>4. CASE node.kind \in {"not", "minus", "cast"}
        BY <2>1, <2>4 DEF Parts, OnlyChecked
    <2>5. CASE node.kind = "declared"
        BY <2>1, <2>5 DEF OnlyChecked
    <2>6. CASE node.kind \notin {"call", "access", "infix", "list", "dictionary", "not", "minus", "cast", "declared"}
        BY <2>1, <2>6
    <2>. QED
        BY <2>2, <2>3, <2>4, <2>5, <2>6
<1>. QED
    BY <1>1, <1>2

LEMMA ComputeTypeKeepsTypes ==
    ASSUME TypesInvariant, NEW n \in Node, ComputeType(n)
    PROVE  TypesInvariant'
<1>1. UNCHANGED program /\ nodeTypes' = Remember({n}, nodeTypes)
    BY DEF ComputeType
<1>2. /\ n \in DOMAIN nodeTypes' /\ DOMAIN nodeTypes' \subseteq Node
      /\ IsFresh(Remember({n}, nodeTypes)) /\ IsComplete(Remember({n}, nodeTypes))
    BY <1>1, RemembersFreshTypes DEF TypesInvariant
<1>3. question' = n /\ answer' = ComputedTypes(Empty)[n]
    BY CachedTypesAreFresh DEF TypesInvariant, ComputeType
<1>4. IsFresh(nodeTypes)' /\ IsComplete(nodeTypes)'
    BY <1>1, <1>2, TypesStay DEF IsFresh, IsComplete
<1>5. (diagnostics # NotValidated => diagnostics = Diagnostics(FreshTypes))'
    BY <1>1, TypesStay DEF TypesInvariant, ComputeType
<1>. QED
    BY <1>1, <1>2, <1>3, <1>4, <1>5, TypesStay DEF TypesInvariant

LEMMA ValidateKeepsTypes ==
    ASSUME TypesInvariant, Validate
    PROVE  TypesInvariant'
<1>. DEFINE nodes == CheckedNodes(nodeTypes)
<1>1. UNCHANGED program /\ nodeTypes' = Remember(nodes, nodeTypes)
    BY DEF Validate
<1>2. /\ DOMAIN nodeTypes' \subseteq Node
      /\ IsFresh(Remember(nodes, nodeTypes)) /\ IsComplete(Remember(nodes, nodeTypes))
    BY <1>1, RemembersFreshTypes, CheckedAreNodes DEF TypesInvariant
<1>3. IsFresh(nodeTypes)' /\ IsComplete(nodeTypes)'
    BY <1>1, <1>2, TypesStay DEF IsFresh, IsComplete
<1>4. diagnostics' = Diagnostics(FreshTypes)
    <2>1. [n \in Node |-> TypeOf(n, nodeTypes)] = FreshTypes
        BY CachedTypesAreFresh DEF FreshTypes, TypesInvariant
    <2>. QED
        BY <2>1 DEF Validate
<1>5. (answer # NoAnswer => question \in DOMAIN nodeTypes /\ answer = ComputedTypes(Empty)[question])'
    <2>1. DOMAIN nodeTypes \subseteq DOMAIN nodeTypes'
        BY <1>1 DEF Remember, CachedAfter
    <2>. QED
        BY <1>1, <2>1, TypesStay DEF TypesInvariant, Validate
<1>. QED
    BY <1>1, <1>2, <1>3, <1>4, <1>5, TypesStay DEF TypesInvariant

\* An edit drops all types, even those that do not change.
LEMMA UpdateKeepsTypes ==
    ASSUME TypesInvariant, Update
    PROVE  TypesInvariant'
<1>1. program' \in Programs
    BY TypesAssumption DEF Update
<1>2. nodeTypes' = Empty /\ answer' = NoAnswer /\ diagnostics' = NotValidated
    BY DEF Update
<1>3. (DOMAIN nodeTypes \subseteq Node /\ IsFresh(nodeTypes) /\ IsComplete(nodeTypes))'
    BY <1>2, NothingIsCached DEF IsFresh, IsComplete, Empty
<1>. QED
    BY <1>1, <1>2, <1>3 DEF TypesInvariant

LEMMA TypesInductive == TypesInvariant /\ [Next]_vars => TypesInvariant'
<1>. SUFFICES ASSUME TypesInvariant, [Next]_vars PROVE TypesInvariant'
    OBVIOUS
<1>1. ASSUME NEW n \in Node, IsCompound(n) /\ ComputeType(n) PROVE TypesInvariant'
    BY <1>1, ComputeTypeKeepsTypes
<1>2. CASE UNCHANGED vars
    <2>1. UNCHANGED <<program, nodeTypes, question, answer, diagnostics>>
        BY <1>2 DEF vars
    <2>2. (DOMAIN nodeTypes \subseteq Node /\ IsFresh(nodeTypes) /\ IsComplete(nodeTypes))'
        BY <2>1, TypesStay DEF TypesInvariant, IsFresh, IsComplete
    <2>. QED
        BY <2>1, <2>2, TypesStay DEF TypesInvariant
<1>. QED
    BY <1>1, <1>2, ValidateKeepsTypes, UpdateKeepsTypes DEF Next

LEMMA TypesInvariantHolds == Spec => []TypesInvariant
BY TypesInit, TypesInductive, PTL DEF Spec

\* Whoever was asked for is in the cache, and so is all that its type was computed
\* from, for every program and any number of queries and edits.
THEOREM TypesTypeCorrect == Spec => []TypeOK
<1>1. TypesInvariant => TypeOK
    BY DEF TypesInvariant, TypeOK, IsComplete
<1>. QED
    BY <1>1, TypesInvariantHolds, PTL

\* For every program, and whatever was asked and edited before, in whatever order,
\* answers and diagnostics are those of a server with an empty cache.
THEOREM HistoryIsIgnored == Spec => []TypesIgnoreHistory
<1>1. TypesInvariant => TypesIgnoreHistory
    <2>1. ASSUME TypesInvariant, answer # NoAnswer PROVE answer = TypeOf(question, Empty)
        BY <2>1, NothingIsCached DEF TypesInvariant, TypeOf, Asked
    <2>. QED
        BY <2>1 DEF TypesInvariant, TypesIgnoreHistory
<1>. QED
    BY <1>1, TypesInvariantHolds, PTL
=============================================================================
