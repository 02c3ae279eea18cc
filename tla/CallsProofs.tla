------------------------------ MODULE CallsProofs ------------------------------
(***************************************************************************)
(* Proofs about calls of functions with any number of parameters and       *)
(* arguments: the two mappings of the node mapper agree, the validators    *)
(* accept exactly the well-formed calls, and Python binds the arguments of *)
(* an accepted call as the node mapper does.                               *)
(***************************************************************************)
EXTENDS Calls, SortingProofs, TLAPS

-----------------------------------------------------------------------------
(* What is written: the function and the call never change.                *)

TextOK ==
    /\ callee \in Callee
    /\ call \in Call
    /\ \A i \in Arguments : call.args[i] \in Parameters \cup {Positional, Undefined}

LEMMA TextsAreSequences ==
    ASSUME TextOK
    PROVE  /\ Len(call.args) \in Nat /\ Arguments = 1 .. Len(call.args)
           /\ Len(callee.optional) \in Nat /\ Parameters = 1 .. Len(callee.optional)
           /\ \A p \in Parameters : callee.optional[p] \in BOOLEAN
<1>1. PICK n \in 0 .. MaxParameters : callee.optional \in [1 .. n -> BOOLEAN]
    BY DEF TextOK, Callee
<1>2. PICK m \in 0 .. MaxArguments : call.args \in [1 .. m -> Argument]
    BY DEF TextOK, Call
<1>3. n \in Nat /\ m \in Nat
    BY CallsAssumption
<1>4. callee.optional \in Seq(BOOLEAN) /\ Len(callee.optional) = n
    BY <1>1, <1>3
<1>5. call.args \in Seq(Argument) /\ Len(call.args) = m
    BY <1>2, <1>3
<1>. QED
    BY <1>1, <1>2, <1>3, <1>4, <1>5 DEF Arguments, Parameters

LEMMA ArgumentsAreTyped ==
    ASSUME TextOK, NEW i \in Arguments
    PROVE  ArgumentToParameter(i) \in Parameters \cup {Undefined}
<1>1. call.args[i] \in Parameters \cup {Positional, Undefined}
    BY DEF TextOK
<1>. QED
    BY <1>1 DEF ArgumentToParameter, IsNamed

\* Parameters are numbers, none of the other values is.
LEMMA ParametersAreNumbers ==
    ASSUME TextOK
    PROVE  /\ Parameters \subseteq Nat /\ Arguments \subseteq Nat
           /\ Undefined \notin Nat /\ Positional \notin Nat /\ Default \notin Nat
           /\ Positional # Undefined
BY TextsAreSequences, CallsAssumption

LEMMA TextHolds == Spec => []TextOK
<1>1. Init => TextOK
    BY DEF Init, TextOK
<1>2. TextOK /\ [Next]_vars => TextOK'
    BY DEF TextOK, Next, Validate, Generate, Run, vars, Callee, Call, Argument, Arguments, Parameters
<1>. QED
    BY <1>1, <1>2, PTL DEF Spec

-----------------------------------------------------------------------------
(* The mappings of the node mapper.                                        *)

\* The arguments up to the n-th that a parameter gets.
UpTo(n, p) == {i \in 1 .. n : ArgumentToParameter(i) = p}

FirstUpTo(n) == [p \in {p \in Parameters : UpTo(n, p) # {}} |-> Min(UpTo(n, p))]

\* One turn of the loop over the arguments.
Turn(n, map) ==
    LET p == ArgumentToParameter(n)
    IN  IF p \in Parameters /\ p \notin DOMAIN map
        THEN [q \in DOMAIN map \cup {p} |-> IF q = p THEN n ELSE map[q]]
        ELSE map

LEMMA LeastIsUnique ==
    ASSUME NEW S \in SUBSET Nat, NEW x \in S, \A y \in S : x <= y
    PROVE  Min(S) = x
<1>1. Min(S) \in S /\ Min(S) <= x
    BY MinOf
<1>2. Min(S) \in Nat /\ x \in Nat /\ x <= Min(S)
    BY <1>1
<1>. QED
    BY <1>1, <1>2

LEMMA TurnKeepsFirst ==
    ASSUME TextOK, NEW n \in Nat, n + 1 \in Arguments
    PROVE  FirstUpTo(n + 1) = Turn(n + 1, FirstUpTo(n))
<1>. DEFINE p == ArgumentToParameter(n + 1)
<1>1. \A q : UpTo(n + 1, q) = UpTo(n, q) \cup (IF q = p THEN {n + 1} ELSE {})
    BY DEF UpTo
<1>2. \A q : UpTo(n, q) \in SUBSET Nat /\ \A i \in UpTo(n, q) : i < n + 1
    BY DEF UpTo
<1>3. CASE p \in Parameters /\ UpTo(n, p) = {}
    <2>1. DOMAIN FirstUpTo(n + 1) = DOMAIN FirstUpTo(n) \cup {p}
        BY <1>1, <1>3 DEF FirstUpTo
    <2>2. Min(UpTo(n + 1, p)) = n + 1
        <3>1. UpTo(n + 1, p) = {n + 1}
            BY <1>1, <1>3
        <3>. QED
            BY <3>1, LeastIsUnique
    <2>3. \A q \in DOMAIN FirstUpTo(n) : q # p /\ Min(UpTo(n + 1, q)) = Min(UpTo(n, q))
        BY <1>1, <1>3 DEF FirstUpTo
    <2>4. p \notin DOMAIN FirstUpTo(n)
        BY <1>3 DEF FirstUpTo
    <2>. QED
        BY <1>3, <2>1, <2>2, <2>3, <2>4 DEF FirstUpTo, Turn
<1>4. CASE ~(p \in Parameters /\ UpTo(n, p) = {})
    <2>1. DOMAIN FirstUpTo(n + 1) = DOMAIN FirstUpTo(n)
        BY <1>1, <1>4 DEF FirstUpTo
    <2>2. \A q \in DOMAIN FirstUpTo(n) : Min(UpTo(n + 1, q)) = Min(UpTo(n, q))
        <3>. SUFFICES ASSUME NEW q \in DOMAIN FirstUpTo(n)
                      PROVE  Min(UpTo(n + 1, q)) = Min(UpTo(n, q))
            OBVIOUS
        <3>1. /\ Min(UpTo(n, q)) \in UpTo(n, q)
              /\ \A i \in UpTo(n, q) : Min(UpTo(n, q)) <= i
            BY <1>2, MinOf DEF FirstUpTo
        <3>2. /\ UpTo(n + 1, q) \in SUBSET Nat
              /\ Min(UpTo(n, q)) \in UpTo(n + 1, q)
              /\ \A i \in UpTo(n + 1, q) : Min(UpTo(n, q)) <= i
            BY <1>1, <1>2, <3>1
        <3>. QED
            BY <3>2, LeastIsUnique
    <2>3. ~(p \in Parameters /\ p \notin DOMAIN FirstUpTo(n))
        BY <1>4 DEF FirstUpTo
    <2>. QED
        BY <2>1, <2>2, <2>3 DEF FirstUpTo, Turn
<1>. QED
    BY <1>3, <1>4

\* The loop collects the first argument of every parameter.
LEMMA LoopKeepsFirst ==
    ASSUME TextOK
    PROVE  ParametersToArguments = FirstUpTo(Len(call.args))
<1>. DEFINE L == Len(call.args)
            After(f) ==
                [n \in 0 .. L |->
                    IF n = 0
                    THEN [p \in {} |-> Undefined]
                    ELSE LET p == ArgumentToParameter(n)
                         IN  IF p \in Parameters /\ p \notin DOMAIN f[n - 1]
                             THEN [q \in DOMAIN f[n - 1] \cup {p} |->
                                      IF q = p THEN n ELSE f[n - 1][q]]
                             ELSE f[n - 1]]
            after == CHOOSE f : f = After(f)
            first == [n \in 0 .. L |-> FirstUpTo(n)]
<1>1. L \in Nat /\ Arguments = 1 .. L
    BY TextsAreSequences
<1>2. FirstUpTo(0) = [p \in {} |-> Undefined]
    BY DEF FirstUpTo, UpTo
<1>3. \A f : After(f) = [n \in 0 .. L |-> IF n = 0 THEN [p \in {} |-> Undefined]
                                                  ELSE Turn(n, f[n - 1])]
    BY DEF Turn
<1>4. ASSUME NEW n \in 0 .. L, n # 0
      PROVE  FirstUpTo(n) = Turn(n, FirstUpTo(n - 1))
    <2>1. n - 1 \in Nat /\ n = (n - 1) + 1 /\ n \in Arguments
        BY <1>1, <1>4
    <2>. QED
        BY <2>1, TurnKeepsFirst
<1>. HIDE DEF After
<1>5. first = After(first)
    <2>1. \A n \in 0 .. L : n # 0 => first[n - 1] = FirstUpTo(n - 1)
        BY <1>1
    <2>. QED
        BY <1>2, <1>3, <1>4, <2>1
<1>6. after = After(after)
    BY <1>5
<1>. HIDE DEF after
<1>7. \A n \in 0 .. L : after[n] = IF n = 0 THEN [p \in {} |-> Undefined]
                                           ELSE Turn(n, after[n - 1])
    BY <1>3, <1>6
<1>8. \A n \in 0 .. L : after[n] = FirstUpTo(n)
    <2>. DEFINE wrong == {n \in 0 .. L : after[n] # FirstUpTo(n)}
    <2>. SUFFICES ASSUME wrong # {} PROVE FALSE
        OBVIOUS
    <2>0. wrong \in SUBSET Nat
        BY <1>1
    <2>1. PICK n \in wrong : \A k \in wrong : n <= k
        <3>. HIDE DEF wrong
        <3>. QED
            BY <2>0, LeastExists
    <2>2. n # 0
        BY <1>2, <1>7, <2>1
    <2>3. n - 1 \in 0 .. L /\ n - 1 \notin wrong
        BY <1>1, <2>1, <2>2
    <2>. QED
        BY <1>4, <1>7, <2>1, <2>2, <2>3
<1>9. ParametersToArguments = after[L]
    BY DEF ParametersToArguments, after, After
<1>. QED
    BY <1>1, <1>8, <1>9

\* The two mappings of the node mapper agree on calls with any number of
\* arguments, whether or not they have errors.
THEOREM MappingsCoincide == Spec => []MappingsAgree
<1>1. TextOK => MappingsAgree
    <2>. SUFFICES ASSUME TextOK PROVE MappingsAgree
        OBVIOUS
    <2>1. \A p : UpTo(Len(call.args), p) = ArgumentsOf(p)
        BY TextsAreSequences DEF UpTo, ArgumentsOf
    <2>2. ParametersToArguments =
              [p \in {p \in Parameters : ArgumentsOf(p) # {}} |-> Min(ArgumentsOf(p))]
        BY <2>1, LoopKeepsFirst DEF FirstUpTo
    <2>3. \A p : ArgumentsOf(p) # {} => CallToParameterValue(p) = Min(ArgumentsOf(p))
        BY DEF CallToParameterValue
    <2>. QED
        BY <2>2, <2>3 DEF MappingsAgree
<1>. QED
    BY <1>1, TextHolds, PTL

-----------------------------------------------------------------------------
(* The validators.                                                         *)

\* What the validators check, one conjunct for each of them.
NoPositionalAfterNamed ==
    \A i \in Arguments : ~IsNamed(i) => \A j \in 1 .. i - 1 : ~IsNamed(j)

SetOnce ==
    \A i \in Arguments : ArgumentToParameter(i) # Undefined =>
        \A j \in 1 .. i - 1 : ArgumentToParameter(j) # ArgumentToParameter(i)

RequiredAreSet == \A p \in Required : ArgumentsOf(p) # {}

OptionalComeLast == \A p \in Required : \A q \in 1 .. p - 1 : ~callee.optional[q]

NamesAreKnown == \A i \in Arguments : call.args[i] # Undefined

Accepted ==
    /\ NoPositionalAfterNamed /\ SetOnce /\ RequiredAreSet /\ OptionalComeLast
    /\ NamesAreKnown /\ ~(Len(call.args) > Len(callee.optional))

LEMMA ErrorsCompared == Errors = {} <=> Accepted
<1>1. Errors = {} <=> /\ PositionalAfterNamed = {} /\ TooManyArguments = {}
                      /\ ParameterSetMultipleTimes = {} /\ RequiredParametersNotSet = {}
                      /\ RequiredAfterOptional = {} /\ LinkingErrors = {}
    BY DEF Errors
<1>2. PositionalAfterNamed = {} <=> NoPositionalAfterNamed
    BY DEF PositionalAfterNamed, NoPositionalAfterNamed
<1>3. TooManyArguments = {} <=> ~(Len(call.args) > Len(callee.optional))
    BY DEF TooManyArguments
<1>4. ParameterSetMultipleTimes = {} <=> SetOnce
    BY DEF ParameterSetMultipleTimes, SetOnce
<1>5. RequiredParametersNotSet = {} <=> RequiredAreSet
    BY DEF RequiredParametersNotSet, RequiredAreSet
<1>6. RequiredAfterOptional = {} <=> OptionalComeLast
    BY DEF RequiredAfterOptional, OptionalComeLast
<1>7. LinkingErrors = {} <=> NamesAreKnown
    BY DEF LinkingErrors, NamesAreKnown
<1>. QED
    BY <1>1, <1>2, <1>3, <1>4, <1>5, <1>6, <1>7 DEF Accepted

LEMMA BoundsCounted ==
    ASSUME NEW n \in Nat, NEW m \in Nat, n <= m
    PROVE  IsFiniteSet(n + 1 .. m) /\ Cardinality(n + 1 .. m) = m - n
<1>1. PICK k \in Int : k = n + 1
    OBVIOUS
<1>2. IsFiniteSet(k .. m) /\ Cardinality(k .. m) = IF k > m THEN 0 ELSE m - k + 1
    BY FS_Interval
<1>3. (IF k > m THEN 0 ELSE m - k + 1) = m - n
    BY <1>1
<1>. QED
    BY <1>1, <1>2, <1>3

Named(n) == {call.args[i] : i \in n + 1 .. Len(call.args)}

\* There are as many names as named arguments if and only if no name is
\* repeated.
LEMMA NamesCounted ==
    ASSUME TextOK, NEW n \in 0 .. Len(call.args)
    PROVE  Cardinality(Named(n)) = Len(call.args) - n
               <=> \A i, j \in n + 1 .. Len(call.args) :
                       call.args[i] = call.args[j] => i = j
<1>. DEFINE S == n + 1 .. Len(call.args)
            f == [i \in S |-> call.args[i]]
<1>1. n \in Nat /\ Len(call.args) \in Nat /\ n <= Len(call.args)
    BY TextsAreSequences
<1>2. IsFiniteSet(S) /\ Cardinality(S) = Len(call.args) - n
    BY <1>1, BoundsCounted
<1>3. f \in Surjection(S, Named(n))
    BY DEF Surjection, Named
<1>4. /\ IsFiniteSet(Named(n))
      /\ Cardinality(Named(n)) = Cardinality(S) <=> f \in Injection(S, Named(n))
    <2>. HIDE DEF S, f
    <2>. QED
        BY <1>2, <1>3, FS_Surjection
<1>5. f \in Injection(S, Named(n)) <=> \A i, j \in S : call.args[i] = call.args[j] => i = j
    BY <1>3 DEF Injection, Surjection, IsInjective
<1>. QED
    BY <1>2, <1>4, <1>5

\* No more numbers fit between two bounds than there are.
LEMMA NamesFit ==
    ASSUME NEW n \in Nat, NEW m \in Nat, n <= m, NEW S, S \subseteq n + 1 .. m
    PROVE  Cardinality(S) <= m - n
<1>1. IsFiniteSet(n + 1 .. m) /\ Cardinality(n + 1 .. m) = m - n
    BY BoundsCounted
<1>. QED
    BY <1>1, FS_Subset

\* Required parameters come first: as the validator of functions says it, and
\* as an interval.
LEMMA OptionalLast ==
    ASSUME TextOK
    PROVE  OptionalComeLast <=> \A p \in Required : 1 .. p \subseteq Required
<1>1. /\ Parameters = 1 .. Len(callee.optional) /\ Len(callee.optional) \in Nat
      /\ \A p : p \in Required <=> p \in Parameters /\ ~callee.optional[p]
    BY TextsAreSequences DEF Required
<1>2. ASSUME OptionalComeLast, NEW p \in Required, NEW q \in 1 .. p
      PROVE  q \in Required
    <2>1. q \in Parameters /\ (q = p \/ q \in 1 .. p - 1)
        BY <1>1
    <2>. QED
        BY <1>1, <1>2, <2>1 DEF OptionalComeLast
<1>3. ASSUME \A p \in Required : 1 .. p \subseteq Required,
             NEW p \in Required, NEW q \in 1 .. p - 1
      PROVE  ~callee.optional[q]
    <2>1. q \in 1 .. p
        BY <1>1
    <2>. QED
        BY <1>1, <1>3, <2>1
<1>. QED
    BY <1>2, <1>3 DEF OptionalComeLast

\* Call is well-formed if its first n arguments are positional and the others
\* are named.
SplitsAt(n) ==
    /\ n <= Len(callee.optional)
    /\ \A i \in 1 .. n : call.args[i] = Positional
    /\ Named(n) \subseteq n + 1 .. Len(callee.optional)
    /\ Cardinality(Named(n)) = Len(call.args) - n
    /\ Required \subseteq 1 .. n \cup Named(n)

LEMMA WellFormedSplits == WellFormed <=> \E n \in 0 .. Len(call.args) : SplitsAt(n)
BY DEF WellFormed, SplitsAt, Named

\* The arguments up to the n-th get the parameters of their position, the
\* others the ones they name.
LEMMA SplitArguments ==
    ASSUME TextOK, NEW n \in 0 .. Len(call.args), n <= Len(callee.optional),
           \A i \in 1 .. n : call.args[i] = Positional,
           \A i \in n + 1 .. Len(call.args) : call.args[i] # Positional
    PROVE  /\ \A i \in 1 .. n : ArgumentToParameter(i) = i
           /\ \A i \in n + 1 .. Len(call.args) : ArgumentToParameter(i) = call.args[i]
<1>1. /\ Len(call.args) \in Nat /\ Arguments = 1 .. Len(call.args)
      /\ Parameters = 1 .. Len(callee.optional) /\ Len(callee.optional) \in Nat
    BY TextsAreSequences
<1>2. ASSUME NEW i \in 1 .. n PROVE ArgumentToParameter(i) = i
    <2>1. i \in Parameters /\ \A j \in 1 .. i : ~IsNamed(j)
        BY <1>1 DEF IsNamed
    <2>2. ~IsNamed(i) /\ ~ \E j \in 1 .. i - 1 : IsNamed(j)
        BY <1>1, <2>1
    <2>. QED
        BY <2>1, <2>2 DEF ArgumentToParameter
<1>3. ASSUME NEW i \in n + 1 .. Len(call.args) PROVE ArgumentToParameter(i) = call.args[i]
    BY DEF ArgumentToParameter, IsNamed
<1>. QED
    BY <1>2, <1>3

LEMMA AcceptedIsWellFormed ==
    ASSUME TextOK, Accepted
    PROVE  WellFormed
<1>. DEFINE L == Len(call.args)
            positional == {n \in 0 .. L : \A i \in 1 .. n : call.args[i] = Positional}
<1>1. /\ L \in Nat /\ Arguments = 1 .. L
      /\ Parameters = 1 .. Len(callee.optional) /\ Len(callee.optional) \in Nat
      /\ L <= Len(callee.optional)
    BY TextsAreSequences DEF Accepted
<1>2. PICK n \in positional : \A k \in positional : n >= k
    <2>1. 0 \in positional /\ positional \in SUBSET (0 .. L)
        BY <1>1
    <2>. HIDE DEF positional, L
    <2>. QED
        BY <1>1, <2>1, GreatestExists
<1>3. n \in 0 .. L /\ n <= Len(callee.optional) /\ \A i \in 1 .. n : call.args[i] = Positional
    BY <1>1, <1>2
<1>4. ASSUME NEW i \in n + 1 .. L PROVE call.args[i] # Positional
    <2>1. n + 1 \in 1 .. L /\ n + 1 \notin positional
        BY <1>1, <1>2
    <2>2. IsNamed(n + 1)
        <3>1. \A k \in 1 .. n + 1 : k = n + 1 \/ k \in 1 .. n
            BY <1>3
        <3>. QED
            BY <1>1, <1>3, <2>1, <3>1 DEF IsNamed
    <2>3. i = n + 1 \/ n + 1 \in 1 .. i - 1
        BY <1>1, <1>3
    <2>4. i \in Arguments
        BY <1>1, <1>3
    <2>. QED
        BY <2>2, <2>3, <2>4 DEF Accepted, NoPositionalAfterNamed, IsNamed
<1>5. /\ \A i \in 1 .. n : ArgumentToParameter(i) = i
      /\ \A i \in n + 1 .. L : ArgumentToParameter(i) = call.args[i]
    BY <1>3, <1>4, SplitArguments
<1>6. ASSUME NEW i \in n + 1 .. L
      PROVE  call.args[i] \in n + 1 .. Len(callee.optional)
    <2>1. i \in Arguments /\ call.args[i] \in Parameters
        BY <1>1, <1>3, <1>4 DEF TextOK, Accepted, NamesAreKnown
    <2>2. ArgumentToParameter(i) # Undefined
        BY <1>5, <2>1, ParametersAreNumbers
    <2>3. \A j \in 1 .. i - 1 : ArgumentToParameter(j) # ArgumentToParameter(i)
        BY <2>1, <2>2 DEF Accepted, SetOnce
    <2>4. call.args[i] \notin 1 .. n
        <3>. SUFFICES ASSUME call.args[i] \in 1 .. n PROVE FALSE
            OBVIOUS
        <3>1. call.args[i] \in 1 .. i - 1
            BY <1>3
        <3>. QED
            BY <1>5, <2>3, <3>1
    <2>. QED
        BY <1>1, <1>3, <2>1, <2>4
<1>7. \A i, j \in n + 1 .. L : call.args[i] = call.args[j] => i = j
    <2>1. ASSUME NEW i \in n + 1 .. L, NEW j \in n + 1 .. L, j < i, call.args[i] = call.args[j]
          PROVE  FALSE
        <3>1. i \in Arguments /\ j \in 1 .. i - 1
            BY <1>1, <1>3, <2>1
        <3>2. ArgumentToParameter(i) \in Nat
            BY <1>1, <1>3, <1>5, <1>6
        <3>. QED
            BY <1>5, <2>1, <3>1, <3>2, ParametersAreNumbers DEF Accepted, SetOnce
    <2>. QED
        BY <1>3, <2>1
<1>8. Cardinality(Named(n)) = L - n
    BY <1>3, <1>7, NamesCounted
<1>9. Required \subseteq 1 .. n \cup Named(n)
    <2>. SUFFICES ASSUME NEW p \in Required PROVE p \in 1 .. n \cup Named(n)
        OBVIOUS
    <2>1. PICK i \in Arguments : ArgumentToParameter(i) = p
        BY DEF Accepted, RequiredAreSet, ArgumentsOf
    <2>2. i \in 1 .. n \/ i \in n + 1 .. L
        BY <1>1, <1>3
    <2>. QED
        BY <1>5, <2>1, <2>2 DEF Named
<1>10. Named(n) \subseteq n + 1 .. Len(callee.optional)
    BY <1>6 DEF Named
<1>. QED
    BY <1>3, <1>8, <1>9, <1>10, WellFormedSplits DEF SplitsAt

LEMMA WellFormedIsAccepted ==
    ASSUME TextOK, WellFormed, OptionalComeLast
    PROVE  Accepted
<1>. DEFINE L == Len(call.args)
<1>1. /\ L \in Nat /\ Arguments = 1 .. L
      /\ Parameters = 1 .. Len(callee.optional) /\ Len(callee.optional) \in Nat
    BY TextsAreSequences
<1>2. PICK n \in 0 .. L : SplitsAt(n)
    BY WellFormedSplits
<1>3. \A i \in n + 1 .. L : call.args[i] \in n + 1 .. Len(callee.optional)
    BY <1>2 DEF SplitsAt, Named
<1>4. \A i \in n + 1 .. L : call.args[i] \in Nat
    BY <1>1, <1>3
<1>5. \A i \in n + 1 .. L : call.args[i] # Positional /\ call.args[i] # Undefined
    BY <1>4, ParametersAreNumbers
<1>6. /\ \A i \in 1 .. n : ArgumentToParameter(i) = i
      /\ \A i \in n + 1 .. L : ArgumentToParameter(i) = call.args[i]
    BY <1>2, <1>5, SplitArguments DEF SplitsAt
<1>7. \A i \in Arguments : i \in 1 .. n \/ i \in n + 1 .. L
    BY <1>1
<1>8. NoPositionalAfterNamed
    <2>. SUFFICES ASSUME NEW i \in Arguments, ~IsNamed(i), NEW j \in 1 .. i - 1
                  PROVE  ~IsNamed(j)
        BY DEF NoPositionalAfterNamed
    <2>1. i \in 1 .. n
        BY <1>5, <1>7 DEF IsNamed
    <2>2. j \in 1 .. n
        BY <2>1
    <2>. QED
        BY <1>2, <2>2 DEF SplitsAt, IsNamed
<1>9. NamesAreKnown
    <2>1. \A i \in 1 .. n : call.args[i] # Undefined
        BY <1>2, ParametersAreNumbers DEF SplitsAt
    <2>. QED
        BY <1>5, <1>7, <2>1 DEF NamesAreKnown
<1>10. \A i, j \in n + 1 .. L : call.args[i] = call.args[j] => i = j
    BY <1>2, NamesCounted DEF SplitsAt
<1>11. SetOnce
    <2>. SUFFICES ASSUME NEW i \in Arguments, NEW j \in 1 .. i - 1,
                         ArgumentToParameter(j) = ArgumentToParameter(i)
                  PROVE  FALSE
        BY DEF SetOnce
    <2>1. j \in Arguments /\ j < i
        BY <1>1
    <2>2. CASE i \in 1 .. n
        <3>1. j \in 1 .. n
            BY <2>2
        <3>. QED
            BY <1>6, <2>1, <2>2, <3>1
    <2>3. CASE i \in n + 1 .. L /\ j \in 1 .. n
        <3>1. j = call.args[i]
            BY <1>6, <2>3
        <3>. QED
            BY <1>1, <1>3, <2>3, <3>1
    <2>4. CASE i \in n + 1 .. L /\ j \in n + 1 .. L
        BY <1>6, <1>10, <2>1, <2>4
    <2>. QED
        BY <1>7, <2>1, <2>2, <2>3, <2>4
<1>12. RequiredAreSet
    <2>. SUFFICES ASSUME NEW p \in Required PROVE \E i \in Arguments : ArgumentToParameter(i) = p
        BY DEF RequiredAreSet, ArgumentsOf
    <2>1. p \in 1 .. n \/ \E i \in n + 1 .. L : p = call.args[i]
        BY <1>2 DEF SplitsAt, Named
    <2>2. 1 .. n \subseteq Arguments /\ n + 1 .. L \subseteq Arguments
        BY <1>1
    <2>. QED
        BY <1>6, <2>1, <2>2
<1>13. ~(L > Len(callee.optional))
    <2>1. n \in Nat /\ n <= Len(callee.optional) /\ Cardinality(Named(n)) = L - n
          /\ Named(n) \subseteq n + 1 .. Len(callee.optional)
        BY <1>1, <1>2 DEF SplitsAt
    <2>2. L - n <= Len(callee.optional) - n
        BY <1>1, <2>1, NamesFit
    <2>. QED
        BY <1>1, <2>1, <2>2
<1>. QED
    BY <1>8, <1>9, <1>11, <1>12, <1>13 DEF Accepted

\* The operators about the text keep their values in every step.
LEMMA TextStays ==
    ASSUME UNCHANGED <<callee, call>>
    PROVE  /\ Arguments' = Arguments /\ Parameters' = Parameters /\ Required' = Required
           /\ \A i : IsNamed(i)' <=> IsNamed(i)
           /\ \A i : ArgumentToParameter(i)' = ArgumentToParameter(i)
           /\ \A p : ArgumentsOf(p)' = ArgumentsOf(p)
           /\ Accepted' <=> Accepted
<1>1. /\ Arguments' = Arguments /\ Parameters' = Parameters /\ Required' = Required
      /\ \A i : IsNamed(i)' <=> IsNamed(i)
    BY DEF Arguments, Parameters, Required, IsNamed
<1>2. \A i : ArgumentToParameter(i)' = ArgumentToParameter(i)
    BY <1>1 DEF ArgumentToParameter
<1>3. \A p : ArgumentsOf(p)' = ArgumentsOf(p)
    BY <1>1, <1>2 DEF ArgumentsOf
<1>4. /\ NoPositionalAfterNamed' <=> NoPositionalAfterNamed
      /\ SetOnce' <=> SetOnce
      /\ RequiredAreSet' <=> RequiredAreSet
      /\ OptionalComeLast' <=> OptionalComeLast
      /\ NamesAreKnown' <=> NamesAreKnown
    BY <1>1, <1>2, <1>3
       DEF NoPositionalAfterNamed, SetOnce, RequiredAreSet, OptionalComeLast, NamesAreKnown
<1>. QED
    BY <1>1, <1>2, <1>3, <1>4 DEF Accepted

ErrorsInv == errors # Unchecked => (errors = {} <=> Accepted)

LEMMA ErrorsInvHolds == Spec => []ErrorsInv
<1>1. Init => ErrorsInv
    BY DEF Init, ErrorsInv
<1>2. ErrorsInv /\ [Next]_vars => ErrorsInv'
    <2>. SUFFICES ASSUME ErrorsInv, [Next]_vars PROVE ErrorsInv'
        OBVIOUS
    <2>1. Accepted' <=> Accepted
        BY TextStays DEF Next, Validate, Generate, Run, vars
    <2>2. CASE Validate
        BY <2>1, <2>2, ErrorsCompared DEF Validate, ErrorsInv
    <2>3. CASE Generate \/ Run \/ UNCHANGED vars
        BY <2>1, <2>3 DEF Generate, Run, vars, ErrorsInv
    <2>. QED
        BY <2>2, <2>3 DEF Next
<1>. QED
    BY <1>1, <1>2, PTL DEF Spec

\* The validators accept exactly the well-formed calls of functions whose
\* optional parameters come last, for any number of parameters and arguments.
THEOREM ValidatorsAreExact == Spec => []AcceptsWellFormed
<1>1. TextOK /\ ErrorsInv => AcceptsWellFormed
    <2>. SUFFICES ASSUME TextOK, ErrorsInv PROVE AcceptsWellFormed
        OBVIOUS
    <2>1. Accepted => OptionalComeLast
        BY DEF Accepted
    <2>2. Accepted <=> WellFormed /\ OptionalComeLast
        BY <2>1, AcceptedIsWellFormed, WellFormedIsAccepted
    <2>. QED
        BY <2>2, OptionalLast DEF AcceptsWellFormed, ErrorsInv
<1>. QED
    BY <1>1, TextHolds, ErrorsInvHolds, PTL

-----------------------------------------------------------------------------
(* The generated arguments.                                                *)

\* Every argument of an accepted call has a parameter of its own.
LEMMA AcceptedHaveParameters ==
    ASSUME TextOK, Accepted
    PROVE  /\ \A i \in Arguments : ArgumentToParameter(i) \in Parameters
           /\ \A i, j \in Arguments : ArgumentToParameter(i) = ArgumentToParameter(j) => i = j
<1>1. /\ Len(call.args) \in Nat /\ Arguments = 1 .. Len(call.args)
      /\ Parameters = 1 .. Len(callee.optional) /\ Len(callee.optional) \in Nat
      /\ Len(call.args) <= Len(callee.optional)
    BY TextsAreSequences DEF Accepted
<1>2. ASSUME NEW i \in Arguments PROVE ArgumentToParameter(i) \in Parameters
    <2>1. CASE IsNamed(i)
        BY <2>1 DEF ArgumentToParameter, IsNamed, TextOK, Accepted, NamesAreKnown
    <2>2. CASE ~IsNamed(i)
        <3>1. ~ \E j \in 1 .. i - 1 : IsNamed(j)
            BY <2>2 DEF Accepted, NoPositionalAfterNamed
        <3>2. i \in Parameters
            BY <1>1
        <3>. QED
            BY <2>2, <3>1, <3>2 DEF ArgumentToParameter
    <2>. QED
        BY <2>1, <2>2
<1>3. ASSUME NEW i \in Arguments, NEW j \in Arguments, j < i,
             ArgumentToParameter(i) = ArgumentToParameter(j)
      PROVE  FALSE
    <2>1. ArgumentToParameter(i) # Undefined
        BY <1>2, ParametersAreNumbers
    <2>2. j \in 1 .. i - 1
        BY <1>1, <1>3
    <2>. QED
        BY <1>3, <2>1, <2>2 DEF Accepted, SetOnce
<1>. QED
    BY <1>1, <1>2, <1>3

\* The arguments in the order of their parameters.
InOrder(m, s) ==
    /\ Arguments = {s[k] : k \in 1 .. m}
    /\ \A k, l \in 1 .. m : k < l => ArgumentToParameter(s[k]) < ArgumentToParameter(s[l])

LEMMA ArgumentsAreSorted ==
    ASSUME TextOK, Accepted
    PROVE  \E m \in Nat : /\ SortArguments \in [1 .. m -> Arguments]
                          /\ InOrder(m, SortArguments)
<1>. DEFINE N == Len(callee.optional) + 1
            S == {i \in Arguments : ArgumentToParameter(i) # Undefined}
            rank == [i \in Arguments |-> ArgumentToParameter(i)]
            lt(i, j) == \/ ArgumentToParameter(i) < ArgumentToParameter(j)
                        \/ /\ ArgumentToParameter(i) = ArgumentToParameter(j)
                           /\ i < j
            P(s) == /\ Arguments = {s[i] : i \in DOMAIN s}
                    /\ \A i, j \in DOMAIN s : i < j => lt(s[i], s[j])
            C == Cardinality(Arguments)
<1>1. /\ Arguments \subseteq Nat
      /\ \A i \in Arguments : ArgumentToParameter(i) \in 1 .. Len(callee.optional)
      /\ \A i, j \in Arguments : ArgumentToParameter(i) = ArgumentToParameter(j) => i = j
      /\ Len(callee.optional) \in Nat
    BY TextsAreSequences, ParametersAreNumbers, AcceptedHaveParameters
<1>2. S = Arguments
    <2>1. \A i \in Arguments : ArgumentToParameter(i) \in Nat
        BY <1>1
    <2>. QED
        BY <2>1, ParametersAreNumbers
<1>3. N \in Nat /\ rank \in [Arguments -> 0 .. N - 1]
      /\ \A i, j \in Arguments : rank[i] = rank[j] => i = j
    BY <1>1
<1>4. /\ IsFiniteSet(Arguments)
      /\ \E s \in [1 .. C -> Arguments] :
             /\ Arguments = {s[i] : i \in DOMAIN s}
             /\ \A i, j \in DOMAIN s : i < j => rank[s[i]] < rank[s[j]]
    <2>. HIDE DEF N, rank
    <2>. QED
        BY <1>3, SortExists
<1>5. \E s \in [1 .. C -> Arguments] : P(s)
    BY <1>4
<1>6. SortArguments = CHOOSE s \in [1 .. Cardinality(S) -> S] :
                          /\ S = {s[i] : i \in DOMAIN s}
                          /\ \A i, j \in DOMAIN s : i < j => lt(s[i], s[j])
    BY DEF SortArguments, SortedSeq, IsSortedBy
<1>7. SortArguments = CHOOSE s \in [1 .. C -> Arguments] : P(s)
    BY <1>2, <1>6
<1>8. SortArguments \in [1 .. C -> Arguments] /\ P(SortArguments)
    <2>. HIDE DEF P, C
    <2>. QED
        BY <1>5, <1>7
<1>9. C \in Nat
    BY <1>4, FS_CardinalityType
<1>10. ASSUME NEW k \in 1 .. C, NEW l \in 1 .. C, k < l
       PROVE  ArgumentToParameter(SortArguments[k]) < ArgumentToParameter(SortArguments[l])
    <2>1. lt(SortArguments[k], SortArguments[l])
        BY <1>8, <1>10
    <2>2. SortArguments[k] \in Arguments /\ SortArguments[l] \in Arguments
        BY <1>8
    <2>3. ~(SortArguments[k] < SortArguments[k])
        <3>1. SortArguments[k] \in Nat
            BY <1>1, <2>2
        <3>. QED
            BY <3>1
    <2>. QED
        BY <1>1, <2>1, <2>2, <2>3
<1>. QED
    BY <1>8, <1>9, <1>10 DEF InOrder

\* The m generated arguments are those of the call, in the order s.
IsGenerated(m, s) ==
    /\ InOrder(m, s)
    /\ program = [k \in 1 .. m |-> GenerateArgument(s[k])]

ProgramInv ==
    generated => /\ Accepted
                 /\ \E m \in Nat : \E s \in [1 .. m -> Arguments] : IsGenerated(m, s)

LEMMA ProgramInvHolds == Spec => []ProgramInv
<1>1. Init => ProgramInv
    BY DEF Init, ProgramInv
<1>2. TextOK /\ ErrorsInv /\ ProgramInv /\ [Next]_vars => ProgramInv'
    <2>. SUFFICES ASSUME TextOK, ErrorsInv, ProgramInv, [Next]_vars PROVE ProgramInv'
        OBVIOUS
    <2>0. UNCHANGED <<callee, call>>
        BY DEF Next, Validate, Generate, Run, vars
    <2>1. /\ Accepted' <=> Accepted
          /\ Arguments' = Arguments
          /\ \A m, s : InOrder(m, s)' <=> InOrder(m, s)
          /\ \A i : GenerateArgument(i)' = GenerateArgument(i)
        BY <2>0, TextStays DEF InOrder, GenerateArgument
    <2>2. CASE Generate
        <3>1. Accepted
            BY <2>2, CallsAssumption DEF Generate, ErrorsInv
        <3>2. PICK m \in Nat : /\ SortArguments \in [1 .. m -> Arguments]
                               /\ InOrder(m, SortArguments)
            BY <3>1, ArgumentsAreSorted
        <3>3. program' = [k \in 1 .. m |-> GenerateArgument(SortArguments[k])]
            BY <2>2, <3>2 DEF Generate, GeneratePlainCall
        <3>4. PICK s \in [1 .. m -> Arguments] :
                  InOrder(m, s) /\ program' = [k \in 1 .. m |-> GenerateArgument(s[k])]
            BY <3>2, <3>3
        <3>. QED
            BY <2>1, <3>1, <3>4 DEF ProgramInv, IsGenerated
    <2>3. CASE Validate \/ Run \/ UNCHANGED vars
        <3>1. UNCHANGED <<program, generated>>
            BY <2>3 DEF Validate, Run, vars
        <3>. QED
            BY <2>1, <3>1 DEF ProgramInv, IsGenerated
    <2>. QED
        BY <2>2, <2>3 DEF Next
<1>. QED
    BY <1>1, <1>2, TextHolds, ErrorsInvHolds, PTL DEF Spec

-----------------------------------------------------------------------------
(* Python binds the generated arguments.                                   *)

\* A generated argument of a required parameter is at its position: all
\* parameters before it are required, too, and their arguments come first.
LEMMA RequiredAreInPlace ==
    ASSUME TextOK, Accepted, NEW m \in Nat, NEW s \in [1 .. m -> Arguments], InOrder(m, s)
    PROVE  \A a \in 1 .. m : ArgumentToParameter(s[a]) \in Required
                                => ArgumentToParameter(s[a]) = a
<1>. DEFINE par(a) == ArgumentToParameter(s[a])
            wrong == {a \in 1 .. m : par(a) \in Required /\ par(a) # a}
<1>1. /\ Parameters = 1 .. Len(callee.optional) /\ Len(callee.optional) \in Nat
      /\ \A a \in 1 .. m : par(a) \in Parameters
      /\ \A a, b \in 1 .. m : a < b => par(a) < par(b)
    BY TextsAreSequences, AcceptedHaveParameters DEF InOrder
<1>2. \A p \in Required : \E a \in 1 .. m : par(a) = p
    <2>1. \A p \in Required : \E i \in Arguments : ArgumentToParameter(i) = p
        BY DEF Accepted, RequiredAreSet, ArgumentsOf
    <2>. QED
        BY <2>1 DEF InOrder
<1>3. \A p \in Required : 1 .. p \subseteq Required
    BY OptionalLast DEF Accepted
<1>. HIDE DEF par
<1>. SUFFICES ASSUME wrong # {} PROVE FALSE
    BY DEF par
<1>4. wrong \in SUBSET Nat
    OBVIOUS
<1>5. PICK a \in wrong : \A b \in wrong : a <= b
    <2>. HIDE DEF wrong
    <2>. QED
        BY <1>4, LeastExists
<1>6. a \in 1 .. m /\ par(a) \in Required /\ par(a) # a /\ par(a) \in Nat
    BY <1>1, <1>5
<1>7. ASSUME NEW b \in 1 .. m, b < a PROVE par(b) = b
    <2>1. par(b) \in 1 .. par(a)
        BY <1>1, <1>6, <1>7
    <2>2. par(b) \in Required /\ b \notin wrong
        BY <1>3, <1>5, <1>6, <1>7, <2>1
    <2>. QED
        BY <1>7, <2>2
<1>8. par(a) > a
    <2>1. CASE a = 1
        BY <1>1, <1>6, <2>1
    <2>2. CASE a # 1
        <3>1. a - 1 \in 1 .. m /\ a - 1 < a
            BY <1>6, <2>2
        <3>2. par(a - 1) = a - 1 /\ par(a - 1) < par(a)
            BY <1>1, <1>6, <1>7, <3>1
        <3>. QED
            BY <1>6, <3>2
    <2>. QED
        BY <2>1, <2>2
<1>9. a \in Required
    BY <1>3, <1>6, <1>8
<1>10. PICK b \in 1 .. m : par(b) = a
    BY <1>2, <1>9
<1>11. CASE b < a
    BY <1>7, <1>10, <1>11
<1>12. CASE b = a
    BY <1>6, <1>10, <1>12
<1>13. CASE a < b
    BY <1>1, <1>6, <1>8, <1>10, <1>13
<1>. QED
    BY <1>6, <1>11, <1>12, <1>13

LEMMA HeaderIsParameters ==
    ASSUME TextOK, ~callee.readsData
    PROVE  DOMAIN Header = Parameters /\ \A p \in Parameters : Header[p] = p
<1>. DEFINE own == [p \in Parameters |-> p]
<1>1. Parameters = 1 .. Len(callee.optional) /\ Len(callee.optional) \in Nat
    BY TextsAreSequences
<1>2. own \in Seq(Nat) /\ DOMAIN own = Parameters /\ Len(own) = Len(callee.optional)
    BY <1>1
<1>3. Header = <<>> \o own
    BY DEF Header
<1>4. Header = own
    <2>. HIDE DEF own
    <2>. QED
        BY <1>2, <1>3
<1>. QED
    BY <1>2, <1>4

\* The a-th generated argument, as Python sees it.
LEMMA KeywordsAreOptional ==
    ASSUME TextOK, Accepted, NEW m \in Nat, NEW s \in [1 .. m -> Arguments], IsGenerated(m, s),
           NEW a \in 1 .. m
    PROVE  /\ DOMAIN program = 1 .. m
           /\ program[a].value = s[a]
           /\ ArgumentToParameter(s[a]) \in Parameters
           /\ \/ /\ ArgumentToParameter(s[a]) \notin Required
                 /\ program[a].keyword = ArgumentToParameter(s[a])
              \/ /\ ArgumentToParameter(s[a]) \in Required
                 /\ program[a].keyword = Positional
<1>1. ArgumentToParameter(s[a]) \in Parameters
    BY AcceptedHaveParameters
<1>2. program = [k \in 1 .. m |-> GenerateArgument(s[k])]
    BY DEF IsGenerated
<1>3. program[a] = GenerateArgument(s[a])
    BY <1>2
<1>4. CASE callee.optional[ArgumentToParameter(s[a])]
    <2>1. ArgumentToParameter(s[a]) \notin Required
        BY <1>4 DEF Required
    <2>. QED
        BY <1>1, <1>2, <1>3, <1>4, <2>1 DEF GenerateArgument
<1>5. CASE ~callee.optional[ArgumentToParameter(s[a])]
    <2>1. ArgumentToParameter(s[a]) \in Required
        BY <1>1, <1>5 DEF Required
    <2>. QED
        BY <1>1, <1>2, <1>3, <1>5, <2>1 DEF GenerateArgument
<1>. QED
    BY <1>4, <1>5

\* Python binds an argument to the parameter the node mapper gives it, and to
\* no other.
LEMMA BoundToParameter ==
    ASSUME TextOK, Accepted, ~callee.readsData,
           NEW m \in Nat, NEW s \in [1 .. m -> Arguments], IsGenerated(m, s)
    PROVE  \A a \in 1 .. m : Bound(a) = {ArgumentToParameter(s[a])}
<1>. SUFFICES ASSUME NEW a \in 1 .. m PROVE Bound(a) = {ArgumentToParameter(s[a])}
    OBVIOUS
<1>1. DOMAIN Header = Parameters /\ \A p \in Parameters : Header[p] = p
    BY HeaderIsParameters
<1>2. ArgumentToParameter(s[a]) \in Parameters
    BY KeywordsAreOptional
<1>3. CASE ArgumentToParameter(s[a]) \in Required
    <2>1. program[a].keyword = Positional
        BY <1>3, KeywordsAreOptional
    <2>2. ArgumentToParameter(s[a]) = a
        BY <1>3, RequiredAreInPlace DEF IsGenerated
    <2>. QED
        BY <1>1, <1>2, <2>1, <2>2 DEF Bound
<1>4. CASE ArgumentToParameter(s[a]) \notin Required
    <2>1. program[a].keyword = ArgumentToParameter(s[a])
        BY <1>4, KeywordsAreOptional
    <2>2. program[a].keyword # Positional
        BY <1>2, <2>1, ParametersAreNumbers
    <2>. QED
        BY <1>1, <1>2, <2>1, <2>2 DEF Bound
<1>. QED
    BY <1>3, <1>4

Fits ==
    ~callee.readsData /\ callee.perUnit = call.unit /\ (call.unit => call.args # <<>>)

LEMMA NoSyntaxError ==
    ASSUME TextOK, Accepted, Fits,
           NEW m \in Nat, NEW s \in [1 .. m -> Arguments], IsGenerated(m, s)
    PROVE  ~IsSyntaxError
<1>1. DOMAIN Header = Parameters /\ \A p \in Parameters : Header[p] = p
    BY HeaderIsParameters DEF Fits
<1>2. /\ Parameters = 1 .. Len(callee.optional) /\ Len(callee.optional) \in Nat
      /\ Arguments = 1 .. Len(call.args) /\ Len(call.args) \in Nat
    BY TextsAreSequences
<1>3. ~(call.unit /\ program = <<>>)
    <2>. SUFFICES ASSUME call.unit, program = <<>> PROVE FALSE
        OBVIOUS
    <2>1. DOMAIN program = 1 .. m
        BY DEF IsGenerated
    <2>2. Arguments = {}
        BY <2>1 DEF IsGenerated, InOrder
    <2>3. Len(call.args) = 0 /\ call.args \in Seq(Argument)
        <3>1. PICK k \in 0 .. MaxArguments : call.args \in [1 .. k -> Argument]
            BY DEF TextOK, Call
        <3>. QED
            BY <1>2, <2>2, <3>1, CallsAssumption
    <2>. QED
        BY <2>3 DEF Fits
<1>4. ASSUME NEW i \in DOMAIN program, NEW j \in DOMAIN program, i < j,
             program[i].keyword # Positional
      PROVE  program[j].keyword # Positional /\ program[j].keyword # program[i].keyword
    <2>1. i \in 1 .. m /\ j \in 1 .. m
        BY <1>4 DEF IsGenerated
    <2>2. /\ ArgumentToParameter(s[i]) < ArgumentToParameter(s[j])
          /\ ArgumentToParameter(s[i]) \in Parameters /\ ArgumentToParameter(s[j]) \in Parameters
        BY <1>4, <2>1, KeywordsAreOptional DEF IsGenerated, InOrder
    <2>3. ArgumentToParameter(s[i]) \notin Required
        BY <1>4, <2>1, KeywordsAreOptional
    <2>4. ArgumentToParameter(s[j]) \notin Required
        <3>1. ArgumentToParameter(s[i]) \in 1 .. ArgumentToParameter(s[j])
            BY <1>2, <2>2
        <3>. QED
            BY <2>3, <3>1, OptionalLast DEF Accepted
    <2>5. /\ program[i].keyword = ArgumentToParameter(s[i])
          /\ program[j].keyword = ArgumentToParameter(s[j])
        BY <2>1, <2>3, <2>4, KeywordsAreOptional
    <2>. QED
        BY <1>2, <2>2, <2>5, ParametersAreNumbers
<1>5. ASSUME NEW k \in DOMAIN Header, NEW l \in DOMAIN Header, k < l, HasDefault(Header[k])
      PROVE  HasDefault(Header[l])
    <2>1. k \in 1 .. l - 1 /\ k \in Parameters /\ l \in Parameters /\ callee.optional[k]
        BY <1>1, <1>2, <1>5 DEF HasDefault
    <2>2. l \notin Required
        BY <2>1 DEF Accepted, OptionalComeLast
    <2>. QED
        BY <1>1, <1>2, <2>1, <2>2 DEF HasDefault, Required
<1>. QED
    BY <1>3, <1>4, <1>5 DEF IsSyntaxError

\* The generated arguments that Python binds to a parameter: the one argument
\* of the call that the node mapper gives it, if there is one.
LEMMA BoundToArguments ==
    ASSUME TextOK, Accepted, ~callee.readsData,
           NEW m \in Nat, NEW s \in [1 .. m -> Arguments], IsGenerated(m, s),
           NEW p \in Parameters
    PROVE  \/ BoundTo(p) = {} /\ ArgumentsOf(p) = {}
           \/ \E a \in 1 .. m : BoundTo(p) = {a} /\ ArgumentsOf(p) = {s[a]}
<1>1. DOMAIN program = 1 .. m /\ Arguments = {s[a] : a \in 1 .. m}
    BY DEF IsGenerated, InOrder
<1>2. BoundTo(p) = {a \in 1 .. m : ArgumentToParameter(s[a]) = p}
    <2>1. \A a \in 1 .. m : p \in Bound(a) <=> ArgumentToParameter(s[a]) = p
        BY BoundToParameter
    <2>. QED
        BY <1>1, <2>1 DEF BoundTo
<1>3. ArgumentsOf(p) = {i \in Arguments : ArgumentToParameter(i) = p}
    BY DEF ArgumentsOf
<1>4. CASE BoundTo(p) = {}
    BY <1>1, <1>2, <1>3, <1>4
<1>5. CASE BoundTo(p) # {}
    <2>1. PICK a \in 1 .. m : ArgumentToParameter(s[a]) = p
        BY <1>2, <1>5
    <2>2. ArgumentsOf(p) = {s[a]}
        BY <1>1, <1>3, <2>1, AcceptedHaveParameters
    <2>3. ASSUME NEW b \in 1 .. m, ArgumentToParameter(s[b]) = p PROVE b = a
        <3>1. \A k, l \in 1 .. m : k < l =>
                  ArgumentToParameter(s[k]) < ArgumentToParameter(s[l])
            BY DEF IsGenerated, InOrder
        <3>2. p \in Nat
            BY ParametersAreNumbers
        <3>. QED
            BY <2>1, <2>3, <3>1, <3>2
    <2>4. BoundTo(p) = {a}
        BY <1>2, <2>1, <2>3
    <2>. QED
        BY <2>2, <2>4
<1>. QED
    BY <1>4, <1>5

LEMMA NoTypeError ==
    ASSUME TextOK, Accepted, Fits,
           NEW m \in Nat, NEW s \in [1 .. m -> Arguments], IsGenerated(m, s)
    PROVE  ~IsTypeError
<1>1. DOMAIN Header = Parameters /\ \A p \in Parameters : Header[p] = p
    BY HeaderIsParameters DEF Fits
<1>2. \A a \in DOMAIN program : Bound(a) # {}
    BY BoundToParameter DEF Fits, IsGenerated
<1>3. ASSUME NEW p \in Parameters PROVE ~(Cardinality(BoundTo(p)) > 1)
    <2>1. BoundTo(p) = {} \/ \E a : BoundTo(p) = {a}
        BY BoundToArguments DEF Fits
    <2>2. Cardinality(BoundTo(p)) \in {0, 1}
        BY <2>1, FS_EmptySet, FS_Singleton
    <2>. QED
        BY <2>2
<1>4. ASSUME NEW p \in Parameters, BoundTo(p) = {} PROVE HasDefault(Header[p])
    <2>1. ArgumentsOf(p) = {}
        BY <1>4, BoundToArguments DEF Fits
    <2>2. p \notin Required
        BY <2>1 DEF Accepted, RequiredAreSet
    <2>3. p # 0
        BY TextsAreSequences
    <2>. QED
        BY <1>1, <2>2, <2>3 DEF HasDefault, Required
<1>. QED
    BY <1>1, <1>2, <1>3, <1>4 DEF IsTypeError, Fits

\* A call that fits its function returns, and its parameters have the values of
\* the arguments that the node mapper gives them, or their default values.
IsBound(result) ==
    /\ result.kind = "returns"
    /\ \A p \in Parameters, S \in SUBSET Nat :
           S = ArgumentsOf(p) => result.binding[p] = IF S = {} THEN Default ELSE Min(S)

LEMMA ExecutionBinds ==
    ASSUME TextOK, Accepted, Fits,
           NEW m \in Nat, NEW s \in [1 .. m -> Arguments], IsGenerated(m, s)
    PROVE  IsBound(Execution)
<1>1. Execution = [kind |-> "returns", binding |-> Binding]
    BY NoSyntaxError, NoTypeError DEF Execution, Fits
<1>2. ASSUME NEW p \in Parameters
      PROVE  Binding[p] = IF ArgumentsOf(p) = {} THEN Default ELSE Min(ArgumentsOf(p))
    <2>. DEFINE position == CHOOSE k \in DOMAIN Header : Header[k] = p
                value == IF BoundTo(position) = {} THEN Default
                         ELSE program[Min(BoundTo(position))].value
    <2>1. position = p
        BY HeaderIsParameters DEF Fits
    <2>2. Binding[p] = IF BoundTo(p) = {} THEN Default ELSE program[Min(BoundTo(p))].value
        <3>1. Binding[p] = value
            BY DEF Binding
        <3>. HIDE DEF position
        <3>. QED
            BY <2>1, <3>1
    <2>3. CASE BoundTo(p) = {} /\ ArgumentsOf(p) = {}
        BY <2>2, <2>3
    <2>4. CASE \E a \in 1 .. m : BoundTo(p) = {a} /\ ArgumentsOf(p) = {s[a]}
        <3>1. PICK a \in 1 .. m : BoundTo(p) = {a} /\ ArgumentsOf(p) = {s[a]}
            BY <2>4
        <3>2. a \in Nat /\ s[a] \in Nat
            BY ParametersAreNumbers
        <3>3. Min({a}) = a /\ Min({s[a]}) = s[a]
            BY <3>2, LeastIsUnique
        <3>4. program[a].value = s[a]
            BY KeywordsAreOptional
        <3>. QED
            BY <2>2, <3>1, <3>3, <3>4
    <2>. QED
        BY <2>3, <2>4, BoundToArguments DEF Fits
<1>. QED
    BY <1>1, <1>2 DEF IsBound

OutcomeInv == IsRun /\ Fits => IsBound(outcome)

LEMMA OutcomeInvHolds == Spec => []OutcomeInv
<1>1. Init => OutcomeInv
    BY DEF Init, OutcomeInv, IsRun
<1>2. TextOK /\ ProgramInv /\ OutcomeInv /\ [Next]_vars => OutcomeInv'
    <2>. SUFFICES ASSUME TextOK, ProgramInv, OutcomeInv, [Next]_vars PROVE OutcomeInv'
        OBVIOUS
    <2>0. UNCHANGED <<callee, call>>
        BY DEF Next, Validate, Generate, Run, vars
    <2>1. /\ Fits' <=> Fits
          /\ \A r : IsBound(r)' <=> IsBound(r)
        BY <2>0, TextStays DEF Fits, IsBound
    <2>2. CASE Run
        <3>1. Fits => IsBound(Execution)
            BY <2>2, ExecutionBinds DEF Run, ProgramInv
        <3>2. outcome' = Execution
            BY <2>2 DEF Run
        <3>3. \A r : r = outcome' /\ IsBound(r)' => IsBound(outcome)'
            BY DEF IsBound
        <3>. QED
            BY <2>1, <3>1, <3>2, <3>3 DEF OutcomeInv
    <2>3. CASE Validate \/ Generate \/ UNCHANGED vars
        <3>1. outcome' = outcome
            BY <2>3 DEF Validate, Generate, vars
        <3>2. \A r : r = outcome' /\ IsBound(r)' => IsBound(outcome)'
            BY DEF IsBound
        <3>. QED
            BY <2>1, <3>1, <3>2 DEF OutcomeInv, IsRun
    <2>. QED
        BY <2>2, <2>3 DEF Next
<1>. QED
    BY <1>1, <1>2, TextHolds, ProgramInvHolds, PTL DEF Spec

AcceptedIsRun == (IsRun => generated) /\ (generated => Accepted)

LEMMA AcceptedIsRunHolds == Spec => []AcceptedIsRun
<1>1. Init => (IsRun => generated)
    BY DEF Init, IsRun
<1>2. (IsRun => generated) /\ [Next]_vars => (IsRun => generated)'
    BY DEF Next, Validate, Generate, Run, vars, IsRun
<1>3. (IsRun => generated) /\ ProgramInv => AcceptedIsRun
    BY DEF ProgramInv, AcceptedIsRun
<1>. QED
    BY <1>1, <1>2, <1>3, ProgramInvHolds, PTL DEF Spec

\* Python binds every call that the validators accept, of functions with any
\* number of parameters, as the node mapper does: the generated program runs
\* with the arguments that all analyses of the call reckon with.
THEOREM CallsBind == Spec => []AcceptedCallsBind
<1>1. TextOK /\ OutcomeInv /\ AcceptedIsRun => AcceptedCallsBind
    <2>. SUFFICES ASSUME TextOK, OutcomeInv, AcceptedIsRun, IsRun, Fits
                  PROVE  /\ outcome.kind = "returns"
                         /\ \A p \in Parameters : outcome.binding[p] = CallToParameterValue(p)
        BY DEF AcceptedCallsBind, Fits
    <2>1. IsBound(outcome) /\ Accepted
        BY DEF OutcomeInv, AcceptedIsRun
    <2>2. ASSUME NEW p \in Parameters PROVE outcome.binding[p] = CallToParameterValue(p)
        <3>1. ArgumentsOf(p) \in SUBSET Nat
            BY ParametersAreNumbers DEF ArgumentsOf
        <3>2. outcome.binding[p] = IF ArgumentsOf(p) = {} THEN Default ELSE Min(ArgumentsOf(p))
            BY <2>1, <3>1 DEF IsBound
        <3>3. ArgumentsOf(p) = {} => callee.optional[p]
            BY <2>1 DEF Accepted, RequiredAreSet, Required
        <3>. QED
            BY <3>2, <3>3 DEF CallToParameterValue
    <2>. QED
        BY <2>1, <2>2 DEF IsBound
<1>. QED
    BY <1>1, TextHolds, OutcomeInvHolds, AcceptedIsRunHolds, PTL
=============================================================================
