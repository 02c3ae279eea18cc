------------------------------ MODULE TypeModel ------------------------------
(***************************************************************************)
(* The types of nodes (class Type and its subclasses) and what the type    *)
(* computer derives from the types of operands alone.  A type has a kind,  *)
(* the types of its parameters, and may be nullable.  Every class of types *)
(* extends AnyType.  The text of a type shows its kind, its parameters and *)
(* its nullability, so that types are equal iff their texts are.           *)
(***************************************************************************)
EXTENDS Integers, Sequences

MakeType(kind, of, nullable) == [kind |-> kind, of |-> of, nullable |-> nullable]

UnknownType == MakeType("unknown", <<>>, FALSE)
AnyType(nullable) == MakeType("any", <<>>, nullable)
NothingType(nullable) == MakeType("nothing", <<>>, nullable)
IntType(nullable) == MakeType("int", <<>>, nullable)
FloatType(nullable) == MakeType("float", <<>>, nullable)
StringType(nullable) == MakeType("string", <<>>, nullable)
BooleanType(nullable) == MakeType("boolean", <<>>, nullable)
ListType(element, nullable) == MakeType("list", <<element>>, nullable)
DictionaryType(key, value, nullable) == MakeType("dictionary", <<key, value>>, nullable)

WithExplicitNullability(type, nullable) ==
    IF type = UnknownType THEN type ELSE [type EXCEPT !.nullable = nullable]

GetTypeParameterTypeByIndex(type, index) ==
    IF index \in DOMAIN type.of THEN type.of[index] ELSE UnknownType

\* Apart from the unknown type, types with the same nullability are equal to
\* this method, which no subclass but that of the unknown type overrides.
Equals(type, other) ==
    IF type = UnknownType THEN other = UnknownType ELSE type.nullable = other.nullable

CanBeAccessedByIndex(type) == type.kind \in {"list", "dictionary"}
CanBeNull(type) == type.nullable

\* Every class of types extends AnyType.
IsInstanceOfAnyType(type) == TRUE

IsNumeric(type) == type.kind \in {"int", "float"}

-----------------------------------------------------------------------------
(* Lowest common supertypes.                                               *)

\* Dropped as a type that is compatible to everything.
IsDropped(type) == Equals(type, NothingType(FALSE)) \/ Equals(type, NothingType(TRUE))

IsNullableOrNothing(type) == type.nullable \/ type.kind = "nothing"

\* Mutant: the first type decides on the nullability.
LowestCommonSupertypeOfFirst(types) ==
    LET first == types[1]
        All == DOMAIN types
    IN  CASE Len(types) = 0 -> NothingType(FALSE)
          [] Len(types) > 0 /\ \A i \in All : types[i] = first -> first
          [] OTHER -> AnyType(IsNullableOrNothing(first))

ContainsUnknownType(types) ==
    \E i \in DOMAIN types : ~IsDropped(types[i]) /\ types[i] = UnknownType
AllAreFirst(types) == \A i \in DOMAIN types : types[i] = types[1]
AllAreFirstOrNothing(types) ==
    \A i \in DOMAIN types : types[i] = types[1] \/ types[i].kind = "nothing"
SomeIsNullable(types) == \E i \in DOMAIN types : IsNullableOrNothing(types[i])

LowestCommonSupertype(types) ==
    IF Len(types) = 1 THEN types[1]
    ELSE IF Len(types) = 0 THEN NothingType(FALSE)
    ELSE IF ContainsUnknownType(types) THEN AnyType(TRUE)
    ELSE IF AllAreFirst(types) THEN types[1]
    ELSE IF AllAreFirstOrNothing(types) THEN WithExplicitNullability(types[1], TRUE)
    ELSE AnyType(SomeIsNullable(types))

-----------------------------------------------------------------------------
(* The types of expressions, given those of their operands.                *)

\* The nullability of a receiver carries over to null-safe accesses.
TypeOfAccess(type, receiverType, isNullSafe) ==
    WithExplicitNullability(type, receiverType.nullable /\ isNullSafe)

ElementsOf(type) ==
    CASE type.kind = "list"       -> GetTypeParameterTypeByIndex(type, 1)
      [] type.kind = "dictionary" -> GetTypeParameterTypeByIndex(type, 2)
      [] OTHER                    -> UnknownType

TypeOfIndexedAccess(receiverType, isNullSafe) ==
    TypeOfAccess(ElementsOf(receiverType), receiverType, isNullSafe)

TypeOfArithmetic(operandTypes) ==
    IF \A t \in operandTypes : t.kind = "int" THEN IntType(FALSE) ELSE FloatType(FALSE)

TypeOfPredefinedFunction(name, objectType) ==
    CASE CanBeAccessedByIndex(objectType) /\ name = "len" -> IntType(FALSE)
      [] objectType.kind = "dictionary" /\ name = "keys" ->
             ListType(GetTypeParameterTypeByIndex(objectType, 1), FALSE)
      [] objectType.kind = "dictionary" /\ name = "values" ->
             ListType(GetTypeParameterTypeByIndex(objectType, 2), FALSE)
      [] OTHER -> UnknownType
=============================================================================
