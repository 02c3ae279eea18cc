--------------------------- MODULE TimespansProofs ---------------------------
(***************************************************************************)
(* Proofs about temporal validity, for constants and functions with any    *)
(* number of timespans, whatever bounds are left out.                      *)
(***************************************************************************)
EXTENDS Timespans, SortingProofs, TLAPS

-----------------------------------------------------------------------------
(* The conditions of the generated program.                                *)

\* A function as Timespans takes it.
Spans == Seq(Timespan)

\* The program's timespans are sequences of timespans.
LEMMA ProgramsHaveSpans ==
    ASSUME NEW p \in Programs
    PROVE  p.constant \in Spans /\ p.body \in Spans
BY TimespanAssumption DEF Spans

\* The end that is generated for a timespan is not after the start of any
\* later one.
LEMMA EndsBeforeLaterStarts ==
    ASSUME NEW spans \in Spans, Disjoint(spans),
           NEW i \in DOMAIN spans, NEW j \in DOMAIN spans, i < j
    PROVE  /\ spans[j].start \in Day
           /\ GeneratedEnd(spans, i) <= spans[j].start
<1>1. /\ DOMAIN spans = 1 .. Len(spans) /\ Len(spans) \in Nat
      /\ \A k \in DOMAIN spans : spans[k] \in Timespan
    BY DEF Spans
<1>2. \A k \in DOMAIN spans : /\ spans[k].start \in Day \cup {NoDate}
                              /\ spans[k].end \in Day \cup {NoDate}
    BY <1>1 DEF Timespan
<1>3. \A k \in DOMAIN spans : i < k => spans[k].start \in Day
    BY <1>2 DEF Disjoint
<1>4. CASE spans[i].end # NoDate
    <2>1. GeneratedEnd(spans, i) = spans[i].end
        BY <1>4 DEF GeneratedEnd
    <2>2. spans[i].end < spans[j].start
        BY <1>4 DEF Disjoint
    <2>. QED
        BY <1>2, <1>3, <1>4, <2>1, <2>2, TimespanAssumption DEF Day
<1>5. CASE spans[i].end = NoDate
    <2>1. i + 1 \in DOMAIN spans /\ i < Len(spans) /\ i < i + 1 /\ i + 1 <= j
        BY <1>1
    <2>2. spans[i + 1].start \in Day /\ spans[i + 1].start # NoDate
        BY <1>3, <2>1, TimespanAssumption DEF Day
    <2>3. GeneratedEnd(spans, i) = spans[i + 1].start
        BY <1>5, <2>1, <2>2 DEF GeneratedEnd
    <2>4. CASE i + 1 = j
        BY <1>3, <2>3, <2>4, TimespanAssumption DEF Day
    <2>5. CASE i + 1 < j
        <3>1. spans[i + 1].start < spans[j].start
            BY <2>1, <2>2, <2>5 DEF Disjoint
        <3>. QED
            BY <1>3, <2>2, <2>3, <3>1, TimespanAssumption DEF Day
    <2>. QED
        BY <1>1, <2>1, <2>4, <2>5
<1>. QED
    BY <1>3, <1>4, <1>5

\* On no day do the conditions of two timespans hold that do not overlap.
LEMMA OneTimespanHolds ==
    ASSUME NEW spans \in Spans, Disjoint(spans), NEW d \in Day,
           NEW i \in DOMAIN spans, NEW j \in DOMAIN spans,
           Holds(spans, i, d), Holds(spans, j, d)
    PROVE  i = j
<1>1. ASSUME NEW k \in DOMAIN spans, NEW l \in DOMAIN spans, k < l,
             Holds(spans, k, d), Holds(spans, l, d)
      PROVE  FALSE
    <2>1. spans[l].start \in Day /\ GeneratedEnd(spans, k) <= spans[l].start
        BY <1>1, EndsBeforeLaterStarts
    <2>2. GeneratedStart(spans, l) = spans[l].start
        BY <2>1, TimespanAssumption DEF GeneratedStart, Day
    <2>3. GeneratedStart(spans, l) <= d /\ d < GeneratedEnd(spans, k)
        BY <1>1 DEF Holds
    <2>4. GeneratedEnd(spans, k) \in Int
        <3>1. /\ DOMAIN spans = 1 .. Len(spans) /\ Len(spans) \in Nat
              /\ \A n \in DOMAIN spans : spans[n] \in Timespan
            BY DEF Spans
        <3>2. /\ spans[k].end \in Day \cup {NoDate}
              /\ spans[k + 1].start \in Day \cup {NoDate}
            BY <1>1, <3>1 DEF Timespan
        <3>3. LastDay + 1 \in Int /\ Day \subseteq Int
            BY TimespanAssumption DEF Day
        <3>. QED
            BY <3>2, <3>3 DEF GeneratedEnd, AfterAllDays
    <2>. QED
        BY <2>1, <2>2, <2>3, <2>4, TimespanAssumption DEF Day
<1>2. i \in Int /\ j \in Int
    BY DEF Spans
<1>. QED
    BY <1>1, <1>2

\* Where every start is given, the type checker and the generator fill in the
\* same end, except that the last end is open for the generator only.
LEMMA EndsAgree ==
    ASSUME NEW spans \in Spans, AllStartsGiven(spans), NEW i \in DOMAIN spans,
           NEW d \in Day, today \in Day, d < today
    PROVE  LET span == ComputeTimespan(spans, i)
           IN  Holds(spans, i, d) <=> span.start <= d /\ d < span.end
<1>1. /\ DOMAIN spans = 1 .. Len(spans) /\ Len(spans) \in Nat
      /\ \A k \in DOMAIN spans : spans[k].start # NoDate
    BY DEF Spans, AllStartsGiven
<1>2. GeneratedStart(spans, i) = spans[i].start
    BY <1>1 DEF GeneratedStart
<1>3. CASE spans[i].end # NoDate
    <2>1. GeneratedEnd(spans, i) = spans[i].end
        BY <1>3 DEF GeneratedEnd
    <2>2. ComputeTimespan(spans, i) = spans[i]
        BY <1>1, <1>3 DEF ComputeTimespan
    <2>. QED
        BY <1>2, <2>1, <2>2 DEF Holds
<1>4. CASE spans[i].end = NoDate /\ i < Len(spans)
    <2>1. spans[i + 1].start # NoDate
        BY <1>1, <1>4
    <2>2. GeneratedEnd(spans, i) = spans[i + 1].start
        BY <1>4, <2>1 DEF GeneratedEnd
    <2>3. ComputeTimespan(spans, i) = [start |-> spans[i].start, end |-> spans[i + 1].start]
        BY <1>1, <1>4, <2>1 DEF ComputeTimespan
    <2>. QED
        BY <1>2, <2>2, <2>3 DEF Holds
<1>5. CASE spans[i].end = NoDate /\ ~(i < Len(spans))
    <2>1. GeneratedEnd(spans, i) = LastDay + 1
        BY <1>5 DEF GeneratedEnd, AfterAllDays
    <2>2. ComputeTimespan(spans, i) = [start |-> spans[i].start, end |-> today]
        BY <1>1, <1>5 DEF ComputeTimespan
    <2>3. d < LastDay + 1
        BY TimespanAssumption DEF Day
    <2>. QED
        BY <1>2, <2>1, <2>2, <2>3 DEF Holds
<1>. QED
    BY <1>3, <1>4, <1>5

-----------------------------------------------------------------------------
(* The specification.                                                      *)

\* What has been executed is what the conditions say for the simulated date.
ExecutionInv ==
    /\ body \in Spans
    /\ today \in Day
    /\ date \in Day \cup {NoDate}
    /\ executed = {i \in DOMAIN body : Simulated /\ Holds(body, i, date)}

LEMMA ExecutionInvInitially == Init => ExecutionInv
BY ProgramsHaveSpans DEF Init, ExecutionInv, Simulated

LEMMA StepsKeepExecutionInv == ExecutionInv /\ [Next]_vars => ExecutionInv'
<1>. SUFFICES ASSUME ExecutionInv, [Next]_vars PROVE ExecutionInv'
    OBVIOUS
<1>1. ASSUME UNCHANGED <<body, executed, date>>, today' \in Day
      PROVE  ExecutionInv'
    BY <1>1 DEF ExecutionInv, Simulated, Holds, GeneratedStart, GeneratedEnd, PreviousTimespan
<1>2. CASE CheckTypes \/ UNCHANGED vars
    BY <1>1, <1>2 DEF CheckTypes, vars, ExecutionInv
<1>3. CASE Tomorrow
    <2>1. today' \in Day
        BY <1>3, TimespanAssumption DEF Tomorrow, ExecutionInv, Day
    <2>. QED
        BY <1>1, <1>3, <2>1 DEF Tomorrow
<1>4. ASSUME NEW d \in Day, Simulate(d)
      PROVE  ExecutionInv'
    <2>1. /\ UNCHANGED <<body, today>> /\ date' = d
          /\ executed' = {i \in DOMAIN body : Holds(body, i, d)}
        BY <1>4 DEF Simulate
    <2>2. d # NoDate
        BY TimespanAssumption DEF Day
    <2>. QED
        BY <2>1, <2>2
           DEF ExecutionInv, Simulated, Holds, GeneratedStart, GeneratedEnd, PreviousTimespan
<1>. QED
    BY <1>2, <1>3, <1>4 DEF Next

\* On no date does the generated program execute two versions of a function
\* whose timespans do not overlap, for functions with any number of timespans
\* and whatever bounds are left out.
THEOREM VersionsAreExclusive == Spec => []OneVersionPerDate
<1>1. ExecutionInv => OneVersionPerDate
    BY OneTimespanHolds, TimespanAssumption DEF ExecutionInv, OneVersionPerDate, Simulated
<1>. QED
    BY <1>1, ExecutionInvInitially, StepsKeepExecutionInv, PTL DEF Spec

\* The type checker takes a statement of a function with any number of disjoint
\* timespans, all of whose starts are given, to be valid on exactly the dates
\* before the day of the check on which the generated program executes it.
THEOREM ReadingsCoincide == Spec => []ReadingsAgree
<1>1. ExecutionInv => ReadingsAgree
    <2>. SUFFICES ASSUME ExecutionInv, Simulated, date < today, AllStartsGiven(body),
                         NEW i \in DOMAIN body
                  PROVE  LET span == ComputeTimespan(body, i)
                         IN  i \in executed <=> span.start <= date /\ date < span.end
        BY DEF ReadingsAgree
    <2>1. date \in Day /\ today \in Day /\ body \in Spans
        BY DEF ExecutionInv, Simulated
    <2>2. i \in executed <=> Holds(body, i, date)
        BY DEF ExecutionInv
    <2>. QED
        BY <2>1, <2>2, EndsAgree
<1>. QED
    BY <1>1, ExecutionInvInitially, StepsKeepExecutionInv, PTL DEF Spec

-----------------------------------------------------------------------------
(* The lookup of a constant.                                               *)

\* The timespans that the grammar allows: at least one bound is given.
GivenSpans ==
    {s \in Spans \ {<<>>} : \A i \in DOMAIN s : s[i].start # NoDate \/ s[i].end # NoDate}

LEMMA ProgramsAreGiven ==
    ASSUME NEW p \in Programs
    PROVE  p.constant \in GivenSpans /\ p.body \in GivenSpans
BY TimespanAssumption DEF GivenSpans, Spans

LEMMA LengthsAreTyped ==
    ASSUME NEW spans \in GivenSpans
    PROVE  DOMAIN spans = 1 .. Len(spans) /\ Len(spans) \in Nat /\ Len(spans) # 0
BY DEF GivenSpans, Spans

LEMMA BoundsAreTyped ==
    ASSUME NEW spans \in GivenSpans, NEW i \in DOMAIN spans
    PROVE  /\ spans[i].start \in Day \cup {NoDate}
           /\ spans[i].end \in Day \cup {NoDate}
           /\ spans[i].start # NoDate \/ spans[i].end # NoDate
<1>1. spans[i] \in Timespan
    BY DEF GivenSpans, Spans
<1>. QED
    BY <1>1 DEF GivenSpans, Timespan

KeysOf(spans) == {Key(spans[i]) : i \in DOMAIN spans}

Before(a, b) == \/ a.mark = "e" /\ b.mark = "s"
                \/ a.mark = b.mark /\ a.day < b.day

\* The order of the keys as texts: by the mark and then by the day.
Rank(key) == IF key.mark = "e" THEN key.day ELSE AfterAllDays + key.day

LEMMA KeysAreTyped ==
    ASSUME NEW spans \in GivenSpans
    PROVE  KeysOf(spans) \subseteq [mark : {"s", "e"}, day : Day]
<1>1. ASSUME NEW i \in DOMAIN spans
      PROVE  Key(spans[i]) \in [mark : {"s", "e"}, day : Day]
    <2>1. CASE spans[i].start # NoDate
        BY <2>1, BoundsAreTyped DEF Key
    <2>2. CASE spans[i].start = NoDate
        <3>1. spans[i].end \in Day
            BY <2>2, BoundsAreTyped
        <3>. QED
            BY <2>2, <3>1 DEF Key
    <2>. QED
        BY <2>1, <2>2
<1>. QED
    BY <1>1 DEF KeysOf

LEMMA KeysAreSorted ==
    ASSUME NEW spans \in GivenSpans
    PROVE  LET keys == SortedKeys(spans)
           IN  /\ DOMAIN keys = 1 .. Len(keys) /\ Len(keys) \in Nat
               /\ KeysOf(spans) = {keys[i] : i \in DOMAIN keys}
               /\ \A i, j \in DOMAIN keys : i < j => Before(keys[i], keys[j])
<1>. DEFINE S == KeysOf(spans)
            N == 2 * AfterAllDays
            rank == [key \in S |-> Rank(key)]
            P(s) == /\ S = {s[i] : i \in DOMAIN s}
                    /\ \A i, j \in DOMAIN s : i < j => Before(s[i], s[j])
<1>1. /\ \A key \in S : key.mark \in {"s", "e"} /\ key.day \in Day
      /\ \A a, b \in S : a.mark = b.mark /\ a.day = b.day => a = b
    BY KeysAreTyped
<1>2. N \in Nat /\ AfterAllDays \in Nat /\ Day = 0 .. AfterAllDays - 1
    BY TimespanAssumption DEF AfterAllDays, Day
<1>3. /\ rank \in [S -> 0 .. N - 1]
      /\ \A a, b \in S : rank[a] = rank[b] => a = b
      /\ \A a, b \in S : rank[a] < rank[b] => Before(a, b)
    BY <1>1, <1>2 DEF Rank, Before
<1>4. /\ IsFiniteSet(S)
      /\ \E s \in [1 .. Cardinality(S) -> S] :
             /\ S = {s[i] : i \in DOMAIN s}
             /\ \A i, j \in DOMAIN s : i < j => rank[s[i]] < rank[s[j]]
    <2>. HIDE DEF S, N, rank
    <2>. QED
        BY <1>2, <1>3, SortExists
<1>5. \E s \in [1 .. Cardinality(S) -> S] : P(s)
    BY <1>3, <1>4
<1>6. SortedKeys(spans) = CHOOSE s \in [1 .. Cardinality(S) -> S] : P(s)
    BY DEF SortedKeys, SortedSeq, IsSortedBy, KeysOf, Before
<1>7. SortedKeys(spans) \in [1 .. Cardinality(S) -> S] /\ P(SortedKeys(spans))
    <2>. HIDE DEF P, S
    <2>. QED
        BY <1>5, <1>6
<1>8. Cardinality(S) \in Nat
    BY <1>4, FS_CardinalityType
<1>. QED
    BY <1>7, <1>8

\* An entry that has a key is looked up by it.
LEMMA LookupFinds ==
    ASSUME NEW spans \in GivenSpans, NEW key \in KeysOf(spans)
    PROVE  /\ Lookup(spans, key) \in DOMAIN spans
           /\ Key(spans[Lookup(spans, key)]) = key
<1>. DEFINE S == {i \in DOMAIN spans : Key(spans[i]) = key}
<1>1. Len(spans) \in Nat /\ S \in SUBSET (0 .. Len(spans)) /\ S # {}
    BY LengthsAreTyped DEF KeysOf
<1>2. Max(S) \in S
    BY <1>1, MaxOf
<1>. QED
    BY <1>2 DEF Lookup

\* A lookup yields an entry of the constant, if anything.
LEMMA ValueIsAnEntry ==
    ASSUME NEW spans \in GivenSpans, NEW d \in Day
    PROVE  GetValue(spans, d) \in DOMAIN spans \cup {Unbound}
<1>. DEFINE keys == SortedKeys(spans)
            Mirrored(i) == keys[Len(keys) + 1 - i]
            Candidate(i) == IF keys[i].mark = "s" THEN keys[i] ELSE Mirrored(i)
            Assigns(i) == IF keys[i].mark = "s"
                          THEN keys[i].day <= d
                          ELSE Mirrored(i).mark = "s" \/ d <= Mirrored(i).day
            assigning == {i \in DOMAIN keys : Assigns(i)}
<1>1. DOMAIN keys = 1 .. Len(keys) /\ Len(keys) \in Nat
      /\ KeysOf(spans) = {keys[i] : i \in DOMAIN keys}
    BY KeysAreSorted
<1>2. GetValue(spans, d) =
          IF assigning = {} THEN Unbound ELSE Lookup(spans, Candidate(Max(assigning)))
    BY DEF GetValue
<1>3. ASSUME assigning # {}
      PROVE  Lookup(spans, Candidate(Max(assigning))) \in DOMAIN spans
    <2>1. assigning \in SUBSET (0 .. Len(keys))
        BY <1>1
    <2>2. Max(assigning) \in DOMAIN keys
        <3>. HIDE DEF keys, Assigns
        <3>. QED
            BY <1>1, <1>3, <2>1, MaxOf
    <2>3. Candidate(Max(assigning)) \in KeysOf(spans)
        <3>. HIDE DEF keys, assigning
        <3>1. Len(keys) + 1 - Max(assigning) \in DOMAIN keys
            BY <1>1, <2>2
        <3>. QED
            BY <1>1, <2>2, <3>1
    <2>. QED
        BY <2>3, LookupFinds
<1>. QED
    BY <1>2, <1>3

\* If the starts are given and increase, the lookup on a day on which entry k is
\* valid yields k: of the keys that are not after the day, its key is the last.
LEMMA LookupIsValid ==
    ASSUME NEW spans \in GivenSpans, Disjoint(spans), AllStartsGiven(spans),
           NEW d \in Day, NEW k \in DOMAIN spans, Valid(spans, k, d)
    PROVE  GetValue(spans, d) = k
<1>. DEFINE keys == SortedKeys(spans)
            Mirrored(i) == keys[Len(keys) + 1 - i]
            Candidate(i) == IF keys[i].mark = "s" THEN keys[i] ELSE Mirrored(i)
            Assigns(i) == IF keys[i].mark = "s"
                          THEN keys[i].day <= d
                          ELSE Mirrored(i).mark = "s" \/ d <= Mirrored(i).day
            assigning == {i \in DOMAIN keys : Assigns(i)}
            m == Max(assigning)
<1>1. /\ DOMAIN spans = 1 .. Len(spans) /\ Len(spans) \in Nat
      /\ \A i \in DOMAIN spans : spans[i].start \in Day /\ spans[i].end \in Day \cup {NoDate}
    BY LengthsAreTyped, BoundsAreTyped DEF AllStartsGiven
<1>2. \A i \in DOMAIN spans : Key(spans[i]) = [mark |-> "s", day |-> spans[i].start]
    BY DEF Key, AllStartsGiven
<1>3. /\ DOMAIN keys = 1 .. Len(keys) /\ Len(keys) \in Nat
      /\ KeysOf(spans) = {keys[i] : i \in DOMAIN keys}
      /\ \A i, j \in DOMAIN keys : i < j => Before(keys[i], keys[j])
    BY KeysAreSorted
<1>4. GetValue(spans, d) = IF assigning = {} THEN Unbound ELSE Lookup(spans, Candidate(m))
    BY DEF GetValue
<1>. HIDE DEF keys
<1>5. \A i \in DOMAIN keys : \E l \in DOMAIN spans : keys[i] = Key(spans[l])
    BY <1>3 DEF KeysOf
<1>6. \A i \in DOMAIN keys : keys[i].mark = "s" /\ keys[i].day \in Day
    BY <1>1, <1>2, <1>5
<1>7. /\ d \in Nat /\ NoDate \notin Day /\ Day \subseteq Nat
      /\ \A i \in DOMAIN spans : spans[i].start \in Nat
      /\ \A i \in DOMAIN spans : spans[i].end # NoDate => spans[i].end \in Nat
    BY <1>1, TimespanAssumption DEF Day
<1>8. PICK n \in DOMAIN keys : keys[n] = Key(spans[k])
    BY <1>3 DEF KeysOf
<1>9. n \in assigning
    BY <1>1, <1>2, <1>8, <1>7 DEF Valid
<1>10. m \in assigning /\ n <= m
    <2>1. assigning \in SUBSET (0 .. Len(keys)) /\ assigning # {}
        BY <1>3, <1>9
    <2>. HIDE DEF assigning
    <2>. QED
        BY <1>3, <1>9, <2>1, MaxOf
<1>. HIDE DEF m
<1>11. PICK l \in DOMAIN spans : keys[m] = Key(spans[l])
    BY <1>5, <1>10
<1>12. /\ spans[l].start <= d
       /\ spans[k].start <= spans[l].start
    <2>1. keys[m].day <= d
        BY <1>6, <1>10
    <2>2. n = m \/ keys[n].day < keys[m].day
        BY <1>3, <1>6, <1>10 DEF Before
    <2>3. keys[n].day = spans[k].start /\ keys[m].day = spans[l].start
        BY <1>2, <1>8, <1>11
    <2>. QED
        BY <1>1, <1>7, <2>1, <2>2, <2>3
<1>13. ~(k < l)
    <2>. SUFFICES ASSUME k < l PROVE FALSE
        OBVIOUS
    <2>1. CASE spans[k].end # NoDate
        BY <1>1, <1>7, <1>12, <2>1 DEF Valid, Disjoint
    <2>2. CASE spans[k].end = NoDate
        <3>1. k < Len(spans) /\ k + 1 \in DOMAIN spans /\ k + 1 <= l
            BY <1>1
        <3>2. d < spans[k + 1].start
            BY <1>1, <1>7, <2>2, <3>1 DEF Valid
        <3>3. k + 1 = l \/ spans[k + 1].start < spans[l].start
            BY <1>1, <3>1, <1>7 DEF Disjoint
        <3>. QED
            BY <1>1, <1>7, <1>12, <3>1, <3>2, <3>3
    <2>. QED
        BY <2>1, <2>2
<1>14. \A i, j \in DOMAIN spans : i < j => spans[i].start < spans[j].start
    BY <1>1, <1>7 DEF Disjoint
<1>15. k = l
    BY <1>1, <1>7, <1>12, <1>13, <1>14
<1>16. Candidate(m) = Key(spans[k])
    BY <1>6, <1>10, <1>11, <1>15
<1>17. Lookup(spans, Key(spans[k])) = k
    <2>1. Key(spans[k]) \in KeysOf(spans)
        BY DEF KeysOf
    <2>2. /\ Lookup(spans, Key(spans[k])) \in DOMAIN spans
          /\ Key(spans[Lookup(spans, Key(spans[k]))]) = Key(spans[k])
        BY <2>1, LookupFinds
    <2>3. spans[Lookup(spans, Key(spans[k]))].start = spans[k].start
        BY <1>2, <2>2
    <2>. QED
        BY <1>1, <1>7, <1>14, <2>2, <2>3
<1>. QED
    BY <1>4, <1>9, <1>16, <1>17

-----------------------------------------------------------------------------
(* The type of a reference.                                                *)

Overlapping(i) ==
    {k \in DOMAIN constant : Overlaps(FillInTimespan(constant, k), ComputeTimespan(body, i))}

LEMMA TypeIsAnEntry ==
    ASSUME constant \in GivenSpans, NEW i
    PROVE  TypeOfReference(i) \in DOMAIN constant
<1>1. /\ DOMAIN constant = 1 .. Len(constant) /\ Len(constant) \in Nat /\ Len(constant) # 0
      /\ Overlapping(i) \in SUBSET Nat
    BY LengthsAreTyped DEF Overlapping
<1>2. TypeOfReference(i) =
          IF Overlapping(i) = {} THEN Len(constant) ELSE Min(Overlapping(i))
    BY DEF TypeOfReference, Overlapping
<1>3. Overlapping(i) # {} => Min(Overlapping(i)) \in Overlapping(i)
    BY <1>1, MinOf
<1>. QED
    BY <1>1, <1>2, <1>3 DEF Overlapping

\* Statement i reads no version but k while it executes.
ReadsOnly(i, k) ==
    \A d \in Day, j \in DOMAIN constant \ {k} : Holds(body, i, d) => ~Valid(constant, j, d)

IsOrdered ==
    /\ Disjoint(constant) /\ AllStartsGiven(constant) /\ NoneReversed(constant)
    /\ Disjoint(body) /\ AllStartsGiven(body)

\* Span has the days on which entry j is valid, except perhaps for the last.
FitsEntry(span, j) ==
    /\ span.start \in Day /\ span.end \in Day
    /\ \A d \in Day :
           Valid(constant, j, d) /\ constant[j].end # d /\ d < today
               => span.start <= d /\ d < span.end
    /\ \A d \in Day : span.start <= d /\ d < span.end => Valid(constant, j, d)
    /\ j < Len(constant) => Valid(constant, j, span.start)
    /\ Valid(constant, j, span.end) \/ constant[j].end = NoDate

\* Span has the days before today on which statement i executes.
FitsStatement(span, i) ==
    /\ span.start \in Day /\ span.end \in Day
    /\ \A d \in Day : Holds(body, i, d) /\ d < today => span.start <= d /\ d < span.end
    /\ \A d \in Day : span.start <= d /\ d < span.end => Holds(body, i, d)

\* Where all starts are given, the bounds that the type computer fills in for an
\* entry enclose days on which it is valid, except perhaps for the last day.
LEMMA FilledInIsValid ==
    ASSUME constant \in GivenSpans, Disjoint(constant), AllStartsGiven(constant),
           NoneReversed(constant), today \in Day, NEW j \in DOMAIN constant
    PROVE  FitsEntry(FillInTimespan(constant, j), j)
<1>1. /\ DOMAIN constant = 1 .. Len(constant) /\ Len(constant) \in Nat
      /\ \A i \in DOMAIN constant : /\ constant[i].start \in Day /\ constant[i].start # NoDate
                                    /\ constant[i].end \in Day \cup {NoDate}
    BY LengthsAreTyped, BoundsAreTyped DEF AllStartsGiven
<1>2. Day \subseteq Nat /\ NoDate \notin Day
    BY TimespanAssumption DEF Day
<1>3. CASE constant[j].end # NoDate
    <2>1. FillInTimespan(constant, j) = constant[j]
        BY <1>1, <1>3 DEF FillInTimespan
    <2>2. constant[j].start <= constant[j].end
        BY <1>1, <1>3 DEF NoneReversed
    <2>3. \A d \in Day : Valid(constant, j, d)
              <=> constant[j].start <= d /\ d <= constant[j].end
        BY <1>1, <1>3 DEF Valid
    <2>4. constant[j].start \in Nat /\ constant[j].end \in Nat
        BY <1>1, <1>2, <1>3
    <2>. QED
        BY <1>1, <1>2, <1>3, <2>1, <2>2, <2>3, <2>4 DEF FitsEntry
<1>4. CASE constant[j].end = NoDate /\ j < Len(constant)
    <2>1. j + 1 \in DOMAIN constant /\ j < j + 1 /\ j # Len(constant)
        BY <1>1, <1>4
    <2>2. FillInTimespan(constant, j)
              = [start |-> constant[j].start, end |-> constant[j + 1].start]
        BY <1>1, <1>4, <2>1 DEF FillInTimespan
    <2>3. constant[j].start < constant[j + 1].start
        BY <1>1, <2>1 DEF Disjoint
    <2>4. \A d \in Day : Valid(constant, j, d)
              <=> constant[j].start <= d /\ d < constant[j + 1].start
        BY <1>1, <1>4, <2>1 DEF Valid
    <2>5. constant[j].start \in Nat /\ constant[j + 1].start \in Nat
        BY <1>1, <1>2, <2>1
    <2>. QED
        BY <1>1, <1>2, <1>4, <2>1, <2>2, <2>3, <2>4, <2>5 DEF FitsEntry
<1>5. CASE constant[j].end = NoDate /\ j = Len(constant)
    <2>1. FillInTimespan(constant, j) = [start |-> constant[j].start, end |-> today]
        BY <1>1, <1>5 DEF FillInTimespan
    <2>2. \A d \in Day : Valid(constant, j, d) <=> constant[j].start <= d
        BY <1>1, <1>5 DEF Valid
    <2>. QED
        BY <1>1, <1>2, <1>5, <2>1, <2>2 DEF FitsEntry
<1>. QED
    BY <1>1, <1>3, <1>4, <1>5

\* The same for the days on which a statement executes.
LEMMA ComputedHolds ==
    ASSUME body \in GivenSpans, AllStartsGiven(body), today \in Day,
           NEW i \in DOMAIN body
    PROVE  FitsStatement(ComputeTimespan(body, i), i)
<1>1. /\ DOMAIN body = 1 .. Len(body) /\ Len(body) \in Nat
      /\ \A k \in DOMAIN body : /\ body[k].start \in Day /\ body[k].start # NoDate
                                /\ body[k].end \in Day \cup {NoDate}
    BY LengthsAreTyped, BoundsAreTyped DEF AllStartsGiven
<1>2. GeneratedStart(body, i) = body[i].start
    BY <1>1 DEF GeneratedStart
<1>3. CASE body[i].end # NoDate
    <2>1. GeneratedEnd(body, i) = body[i].end
        BY <1>3 DEF GeneratedEnd
    <2>2. ComputeTimespan(body, i) = body[i]
        BY <1>1, <1>3 DEF ComputeTimespan
    <2>. QED
        BY <1>1, <1>2, <1>3, <2>1, <2>2 DEF Holds, FitsStatement
<1>4. CASE body[i].end = NoDate /\ i < Len(body)
    <2>1. i + 1 \in DOMAIN body
        BY <1>1, <1>4
    <2>2. GeneratedEnd(body, i) = body[i + 1].start
        BY <1>1, <1>4, <2>1 DEF GeneratedEnd
    <2>3. ComputeTimespan(body, i) = [start |-> body[i].start, end |-> body[i + 1].start]
        BY <1>1, <1>4, <2>1 DEF ComputeTimespan
    <2>. QED
        BY <1>1, <1>2, <2>1, <2>2, <2>3 DEF Holds, FitsStatement
<1>5. CASE body[i].end = NoDate /\ ~(i < Len(body))
    <2>1. GeneratedEnd(body, i) = LastDay + 1
        BY <1>5 DEF GeneratedEnd, AfterAllDays
    <2>2. ComputeTimespan(body, i) = [start |-> body[i].start, end |-> today]
        BY <1>1, <1>5 DEF ComputeTimespan
    <2>3. \A d \in Day : d < LastDay + 1
        BY TimespanAssumption DEF Day
    <2>. QED
        BY <1>1, <1>2, <2>1, <2>2, <2>3 DEF Holds, FitsStatement
<1>. QED
    BY <1>3, <1>4, <1>5

\* An entry without an end has a day on which it is valid, if it is not the last.
LEMMA EndsAreAfterStarts ==
    ASSUME constant \in GivenSpans, Disjoint(constant), AllStartsGiven(constant),
           NEW j \in DOMAIN constant, j < Len(constant), constant[j].end = NoDate
    PROVE  FillInTimespan(constant, j).start < FillInTimespan(constant, j).end
<1>1. DOMAIN constant = 1 .. Len(constant) /\ Len(constant) \in Nat
    BY LengthsAreTyped
<1>2. j + 1 \in DOMAIN constant /\ j < j + 1 /\ j # Len(constant)
    BY <1>1
<1>3. FillInTimespan(constant, j)
          = [start |-> constant[j].start, end |-> constant[j + 1].start]
    BY <1>1, <1>2 DEF FillInTimespan, AllStartsGiven
<1>4. constant[j].start < constant[j + 1].start
    BY <1>2 DEF Disjoint, AllStartsGiven
<1>. QED
    BY <1>3, <1>4

\* The version that is valid when a statement executes overlaps it.
LEMMA VersionOverlaps ==
    ASSUME constant \in GivenSpans, body \in GivenSpans, IsOrdered, today \in Day,
           NEW d \in Day, d < today, NEW i \in DOMAIN body, NEW k \in DOMAIN constant,
           Holds(body, i, d), Valid(constant, k, d), constant[k].end # d
    PROVE  k \in Overlapping(i)
<1>. DEFINE entry == FillInTimespan(constant, k)
            stmt == ComputeTimespan(body, i)
<1>1. FitsEntry(entry, k)
    BY FilledInIsValid DEF IsOrdered
<1>2. FitsStatement(stmt, i)
    BY ComputedHolds DEF IsOrdered
<1>. HIDE DEF entry, stmt
<1>3. entry.start <= d /\ d < entry.end /\ stmt.start <= d /\ d < stmt.end
    <2>1. entry.start <= d /\ d < entry.end
        BY <1>1 DEF FitsEntry
    <2>2. stmt.start <= d /\ d < stmt.end
        BY <1>2 DEF FitsStatement
    <2>. QED
        BY <2>1, <2>2
<1>4. /\ d \in Nat /\ NoDate \notin {entry.start, entry.end, stmt.start, stmt.end}
      /\ entry.start \in Nat /\ entry.end \in Nat /\ stmt.start \in Nat /\ stmt.end \in Nat
    BY <1>1, <1>2, TimespanAssumption DEF Day, FitsEntry, FitsStatement
<1>5. Overlaps(entry, stmt)
    BY <1>1, <1>2, <1>3, <1>4 DEF Overlaps, Leq, Less
<1>. QED
    BY <1>5 DEF Overlapping, entry, stmt

\* A version that overlaps a statement by more than its last version does is
\* valid on one of the days on which the statement executes.
LEMMA OverlappingIsRead ==
    ASSUME constant \in GivenSpans, body \in GivenSpans, IsOrdered, today \in Day,
           NEW d \in Day, d < today, NEW i \in DOMAIN body, Holds(body, i, d),
           NEW j \in Overlapping(i), j < Len(constant)
    PROVE  \E e \in Day : Holds(body, i, e) /\ Valid(constant, j, e)
<1>. DEFINE entry == FillInTimespan(constant, j)
            stmt == ComputeTimespan(body, i)
<1>1. j \in DOMAIN constant /\ Overlaps(entry, stmt)
    BY DEF Overlapping
<1>2. FitsEntry(entry, j)
    BY <1>1, FilledInIsValid DEF IsOrdered
<1>3. FitsStatement(stmt, i)
    BY ComputedHolds DEF IsOrdered
<1>4. constant[j].end = NoDate => entry.start < entry.end
    BY <1>1, EndsAreAfterStarts DEF IsOrdered
<1>. HIDE DEF entry, stmt
<1>5. /\ d \in Nat /\ NoDate \notin Day
      /\ entry.start \in Nat /\ entry.end \in Nat /\ stmt.start \in Nat /\ stmt.end \in Nat
      /\ \A e \in Nat : e + 1 \in Day => e \in Day
      /\ stmt.start <= d /\ d < stmt.end
    <2>1. stmt.start <= d /\ d < stmt.end
        BY <1>3 DEF FitsStatement
    <2>2. Day \subseteq Nat /\ NoDate \notin Day /\ \A e \in Nat : e + 1 \in Day => e \in Day
        BY TimespanAssumption DEF Day
    <2>. QED
        BY <1>2, <1>3, <2>1, <2>2 DEF FitsEntry, FitsStatement
<1>6. CASE stmt.start <= entry.start /\ entry.start < stmt.end
    BY <1>2, <1>3, <1>6 DEF FitsEntry, FitsStatement
<1>7. CASE stmt.start < entry.end /\ entry.end < stmt.end
    <2>1. CASE Valid(constant, j, entry.end)
        BY <1>2, <1>3, <1>5, <1>7, <2>1 DEF FitsEntry, FitsStatement
    <2>2. CASE constant[j].end = NoDate
        <3>1. PICK e \in Nat : entry.end = e + 1
            <4>1. entry.end # 0
                BY <1>4, <1>5, <2>2
            <4>2. entry.end - 1 \in Nat /\ entry.end = (entry.end - 1) + 1
                BY <1>5, <4>1
            <4>. QED
                BY <4>2
        <3>2. e \in Day
            BY <1>2, <1>5, <3>1 DEF FitsEntry, FitsStatement
        <3>3. Valid(constant, j, e)
            BY <1>2, <1>4, <1>5, <2>2, <3>1, <3>2 DEF FitsEntry, FitsStatement
        <3>4. Holds(body, i, e)
            BY <1>3, <1>5, <1>7, <3>1, <3>2 DEF FitsEntry, FitsStatement
        <3>. QED
            BY <3>2, <3>3, <3>4
    <2>. QED
        BY <1>2, <2>1, <2>2 DEF FitsEntry, FitsStatement
<1>8. CASE entry.start <= stmt.start /\ stmt.end <= entry.end
    BY <1>2, <1>3, <1>5, <1>8 DEF FitsEntry, FitsStatement
<1>. QED
    BY <1>1, <1>2, <1>3, <1>5, <1>6, <1>7, <1>8 DEF Overlaps, Leq, Less

\* At the time of the check the reference gets the type of the version it will
\* read, on every date before that day.
LEMMA TypeIsRead ==
    ASSUME constant \in GivenSpans, body \in GivenSpans, IsOrdered, today \in Day,
           NEW d \in Day, d < today, NEW i \in DOMAIN body, NEW k \in DOMAIN constant,
           Holds(body, i, d), Valid(constant, k, d), constant[k].end # d, ReadsOnly(i, k)
    PROVE  TypeOfReference(i) = k
<1>1. k \in Overlapping(i)
    BY VersionOverlaps
<1>2. /\ Overlapping(i) \in SUBSET Nat /\ Overlapping(i) \subseteq DOMAIN constant
      /\ DOMAIN constant = 1 .. Len(constant) /\ Len(constant) \in Nat
    BY LengthsAreTyped DEF Overlapping
<1>3. Min(Overlapping(i)) \in Overlapping(i) /\ Min(Overlapping(i)) <= k
    BY <1>1, <1>2, MinOf
<1>4. Min(Overlapping(i)) = k
    <2>. SUFFICES ASSUME Min(Overlapping(i)) < k PROVE FALSE
        BY <1>2, <1>3
    <2>1. Min(Overlapping(i)) < Len(constant)
        BY <1>2, <1>3
    <2>. QED
        BY <1>2, <1>3, <2>1, OverlappingIsRead DEF ReadsOnly
<1>. QED
    BY <1>1, <1>4 DEF TypeOfReference, Overlapping

-----------------------------------------------------------------------------
(* The inductive invariant.                                                *)

\* The types of the references are those of the day of the check, and stay
\* right on the days that follow.
PredictInv ==
    checkedOn # NoDate /\ IsOrdered =>
        \A d \in Day, i \in DOMAIN body, k \in DOMAIN constant :
            /\ d < checkedOn /\ Holds(body, i, d)
            /\ Valid(constant, k, d) /\ constant[k].end # d /\ ReadsOnly(i, k)
            => typed[i] = k

\* What has been looked up is what the constant yields on the simulated date.
\* The bound variables are rigid: the lookup itself stays as it is in a step.
LookupInv ==
    Simulated => \A spans \in GivenSpans, d \in Day :
                     spans = constant /\ d = date => value = GetValue(spans, d)

TimespansInv == TypeOK /\ ExecutionInv /\ LookupInv /\ PredictInv

LEMMA TimespansInvInitially == Init => TimespansInv
<1>. SUFFICES ASSUME Init PROVE TimespansInv
    OBVIOUS
<1>1. PICK p \in Programs : constant = p.constant /\ body = p.body
    BY DEF Init
<1>2. [constant |-> constant, body |-> body] \in Programs
    <2>1. p = [constant |-> p.constant, body |-> p.body]
        BY TimespanAssumption
    <2>. QED
        BY <1>1, <2>1
<1>3. TypeOK
    <2>1. today \in Day /\ typed = [i \in DOMAIN body |-> Untyped] /\ checkedOn = NoDate
          /\ date = NoDate /\ executed = {} /\ value = Unbound
        BY DEF Init
    <2>. QED
        BY <1>2, <2>1 DEF TypeOK
<1>4. LookupInv /\ PredictInv
    BY DEF Init, LookupInv, PredictInv, Simulated
<1>. QED
    BY <1>3, <1>4, ExecutionInvInitially DEF TimespansInv

\* A step that changes neither the program nor the results of a check keeps
\* them right.
LEMMA PredictionsStay ==
    ASSUME PredictInv, UNCHANGED <<constant, body, typed, checkedOn>>
    PROVE  PredictInv'
BY DEF PredictInv, IsOrdered, ReadsOnly, Disjoint, AllStartsGiven, NoneReversed, Valid, Holds,
       GeneratedStart, GeneratedEnd, PreviousTimespan

LEMMA StepsKeepTimespansInv == TimespansInv /\ [Next]_vars => TimespansInv'
<1>. SUFFICES ASSUME TimespansInv, [Next]_vars PROVE TimespansInv'
    OBVIOUS
<1>1. ExecutionInv'
    BY StepsKeepExecutionInv DEF TimespansInv
<1>2. /\ constant \in GivenSpans /\ body \in GivenSpans
      /\ TypeOK /\ LookupInv /\ PredictInv
    BY ProgramsAreGiven DEF TimespansInv, TypeOK
<1>3. CASE UNCHANGED vars
    <2>1. UNCHANGED <<constant, body, today, typed, checkedOn, date, executed, value>>
        BY <1>3 DEF vars
    <2>2. TypeOK'
        BY <1>2, <2>1 DEF TypeOK
    <2>3. LookupInv'
        BY <1>2, <2>1 DEF LookupInv, Simulated
    <2>. QED
        BY <1>1, <1>2, <2>1, <2>2, <2>3, PredictionsStay DEF TimespansInv
<1>4. CASE CheckTypes
    <2>1. /\ typed' = [i \in DOMAIN body |-> TypeOfReference(i)]
          /\ checkedOn' = today
          /\ UNCHANGED <<constant, body, today, date, executed, value>>
        BY <1>4 DEF CheckTypes
    <2>2. today \in Day
        BY <1>2 DEF TypeOK
    <2>3. TypeOK'
        BY <1>2, <2>1, <2>2, TypeIsAnEntry DEF TypeOK
    <2>4. LookupInv'
        BY <1>2, <2>1 DEF LookupInv, Simulated
    <2>5. ASSUME IsOrdered, NEW d \in Day, d < today,
                 NEW i \in DOMAIN body, NEW k \in DOMAIN constant, Holds(body, i, d),
                 Valid(constant, k, d), constant[k].end # d, ReadsOnly(i, k)
          PROVE  typed'[i] = k
        BY <1>2, <2>1, <2>2, <2>5, TypeIsRead
    <2>6. PredictInv'
        BY <2>1, <2>5
           DEF PredictInv, IsOrdered, ReadsOnly, Disjoint, AllStartsGiven, NoneReversed, Valid,
               Holds, GeneratedStart, GeneratedEnd, PreviousTimespan
    <2>. QED
        BY <1>1, <2>3, <2>4, <2>6 DEF TimespansInv
<1>5. ASSUME NEW d \in Day, Simulate(d) PROVE TimespansInv'
    <2>1. /\ date' = d
          /\ executed' = {i \in DOMAIN body : Holds(body, i, d)}
          /\ value' = GetValue(constant, d)
          /\ UNCHANGED <<constant, body, today, typed, checkedOn>>
        BY <1>5 DEF Simulate
    <2>2. TypeOK'
        BY <1>2, <2>1, ValueIsAnEntry DEF TypeOK
    <2>3. LookupInv'
        BY <2>1 DEF LookupInv
    <2>. QED
        BY <1>1, <1>2, <2>1, <2>2, <2>3, PredictionsStay DEF TimespansInv
<1>6. CASE Tomorrow
    <2>1. today' \in Day
        BY <1>2, <1>6, TimespanAssumption DEF TypeOK, Tomorrow, Day
    <2>2. UNCHANGED <<constant, body, typed, checkedOn, date, executed, value>>
        BY <1>6 DEF Tomorrow
    <2>3. TypeOK'
        BY <1>2, <2>1, <2>2 DEF TypeOK
    <2>4. LookupInv'
        BY <1>2, <2>2 DEF LookupInv, Simulated
    <2>. QED
        BY <1>1, <1>2, <2>2, <2>3, <2>4, PredictionsStay DEF TimespansInv
<1>. QED
    BY <1>3, <1>4, <1>5, <1>6 DEF Next

LEMMA TimespansInvHolds == Spec => []TimespansInv
BY TimespansInvInitially, StepsKeepTimespansInv, PTL DEF Spec

\* Types of references and values of lookups are entries of the constant.
THEOREM TimespansAreTyped == Spec => []TypeOK
<1>1. TimespansInv => TypeOK
    BY DEF TimespansInv
<1>. QED
    BY <1>1, TimespansInvHolds, PTL

\* A constant has the version that is valid on the simulated date, for
\* constants with any number of entries.
THEOREM VersionsAreInForce == Spec => []VersionInForce
<1>1. TimespansInv => VersionInForce
    <2>. SUFFICES ASSUME TimespansInv, Simulated, Disjoint(constant), AllStartsGiven(constant),
                         NEW k \in DOMAIN constant, Valid(constant, k, date)
                  PROVE  value = k
        BY DEF VersionInForce
    <2>1. constant \in GivenSpans /\ date \in Day /\ value = GetValue(constant, date)
        BY ProgramsAreGiven DEF TimespansInv, TypeOK, LookupInv, Simulated
    <2>. QED
        BY <2>1, LookupIsValid
<1>. QED
    BY <1>1, TimespansInvHolds, PTL

\* The type of a reference is the type of the version that the statement reads,
\* for functions and constants with any number of timespans and on whatever
\* later day the program is run.
THEOREM TypesAreRead == Spec => []TypesPredictPast
<1>1. TimespansInv => TypesPredictPast
    <2>. SUFFICES ASSUME TimespansInv, checkedOn # NoDate, Simulated, date < checkedOn,
                         IsOrdered, NEW i \in executed, NEW k \in DOMAIN constant,
                         Valid(constant, k, date), constant[k].end # date, ReadsOnly(i, k)
                  PROVE  typed[i] = k /\ value = k
        BY DEF TypesPredictPast, IsOrdered, ReadsOnly
    <2>1. /\ constant \in GivenSpans /\ date \in Day /\ value = GetValue(constant, date)
          /\ i \in DOMAIN body /\ Holds(body, i, date)
        BY ProgramsAreGiven DEF TimespansInv, TypeOK, LookupInv, Simulated, ExecutionInv
    <2>2. value = k
        BY <2>1, LookupIsValid DEF IsOrdered
    <2>3. typed[i] = k
        BY <2>1 DEF TimespansInv, PredictInv
    <2>. QED
        BY <2>2, <2>3
<1>. QED
    BY <1>1, TimespansInvHolds, PTL
=============================================================================
