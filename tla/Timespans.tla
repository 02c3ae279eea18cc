------------------------------ MODULE Timespans ------------------------------
(***************************************************************************)
(* Temporal validity.  A function may contain statements, and a constant   *)
(* entries, that are valid for a timespan whose start or end may be left   *)
(* out.  The bounds left out are filled in three times over: by the        *)
(* timespan computer for the statements of a function, by the type         *)
(* computer for the entries of a constant, and by the generator for the    *)
(* conditions of the Python program, whose class ClassConstants looks up   *)
(* the entries by yet another rule.  The module runs one function that     *)
(* reads one constant in each of its timespan statements.                  *)
(*                                                                         *)
(* Dates are ISO strings that the code compares as strings; here they are  *)
(* numbers of days, with '1900-01-01' as day 0.                            *)
(***************************************************************************)
EXTENDS Naturals, Sequences, FiniteSetsExt, Sorting

CONSTANTS
    LastDay,     \* bound on the dates that occur
    NoDate,      \* a bound that is left out, or undefined
    Unbound,     \* what a lookup yields that assigns no result
    Untyped,     \* the type of a reference that has not been computed
    Programs     \* the programs: the timespans of the entries of the constant
                 \* and of the statements of the function

Day == 0 .. LastDay
Beginning == 0

\* In the generated program the text "undefined" stands for a bound that is
\* missing, and is greater than every date.
AfterAllDays == LastDay + 1

Timespan == [start : Day \cup {NoDate}, end : Day \cup {NoDate}]

ASSUME TimespanAssumption ==
    /\ LastDay \in Nat
    /\ NoDate \notin 0 .. LastDay + 1
    /\ Unbound \notin Nat /\ Untyped \notin Nat
    /\ Programs \subseteq [{"constant", "body"} -> Seq(Timespan) \ {<<>>}]
    /\ \A p \in Programs : \A spans \in {p.constant, p.body} : \A i \in DOMAIN spans :
           spans[i].start # NoDate \/ spans[i].end # NoDate

VARIABLES
    constant,   \* the timespans of the entries of the constant
    body,       \* the timespans of the statements of the function
    today,      \* the day on which the program is checked
    typed,      \* typed[i]: the entry the reference in statement i has the type of
    checkedOn,  \* the day on which these types were computed
    date,       \* the date that is simulated, or NoDate
    executed,   \* the statements that the function executes on that date
    value       \* the entry that the lookup of the constant yields on that date

vars == <<constant, body, today, typed, checkedOn, date, executed, value>>

\* Array.at counts an index of -1 from the end: the span before the first one
\* is the last one.
PreviousTimespan(spans, i) == spans[IF i = 1 THEN Len(spans) ELSE i - 1]

-----------------------------------------------------------------------------
(* Type checking.                                                          *)

\* The containing timespan of a reference in statement i.
ComputeTimespan(spans, i) ==
    LET node == spans[i]
        followed == i < Len(spans) /\ spans[i + 1].start # NoDate
        before == PreviousTimespan(spans, i)
    IN  CASE node.end = NoDate ->
               [start |-> node.start, end |-> IF followed THEN spans[i + 1].start ELSE today]
          [] node.start = NoDate ->
               [start |-> IF before.end = NoDate THEN Beginning ELSE before.end, end |-> node.end]
          [] OTHER -> node

\* The timespan of entry i of a constant.
FillInTimespan(spans, i) ==
    LET node == spans[i]
    IN  CASE node.end = NoDate ->
               [start |-> node.start,
                end |-> IF i = Len(spans) THEN today ELSE spans[i + 1].start]
          [] node.start = NoDate ->
               [start |-> PreviousTimespan(spans, i).end, end |-> node.end]
          [] OTHER -> node

\* Comparisons with undefined are false.
Leq(a, b) == a # NoDate /\ b # NoDate /\ a <= b
Less(a, b) == Leq(a, b) /\ a # b

\* Mutant: an entry that ends on the day the statement starts counts.
TouchesOrOverlaps(entry, stmt) == Leq(entry.start, stmt.end) /\ Leq(stmt.start, entry.end)

Overlaps(entry, stmt) ==
    \/ Leq(stmt.start, entry.start) /\ Less(entry.start, stmt.end)
    \/ Less(stmt.start, entry.end) /\ Less(entry.end, stmt.end)
    \/ Leq(entry.start, stmt.start) /\ Leq(stmt.end, entry.end)

\* Mutant: without an overlap there is no entry to take the type of.
TypeOfReferenceByIndex(i) ==
    LET overlapping == {k \in DOMAIN constant :
                            Overlaps(FillInTimespan(constant, k), ComputeTimespan(body, i))}
    IN  IF overlapping = {} THEN 0 ELSE Min(overlapping)

\* The type of a reference in statement i is the type of the first entry that
\* overlaps the statement.  If there is none, indexOf yields -1 and at(-1) the
\* last entry.
TypeOfReference(i) ==
    LET overlapping == {k \in DOMAIN constant :
                            Overlaps(FillInTimespan(constant, k), ComputeTimespan(body, i))}
    IN  IF overlapping = {} THEN Len(constant) ELSE Min(overlapping)

-----------------------------------------------------------------------------
(* The generated program.                                                  *)

GeneratedStart(spans, i) ==
    CASE spans[i].start # NoDate -> spans[i].start
      [] spans[i].start = NoDate /\ PreviousTimespan(spans, i).end # NoDate
                                 -> PreviousTimespan(spans, i).end
      [] OTHER                   -> AfterAllDays

GeneratedEnd(spans, i) ==
    CASE spans[i].end # NoDate -> spans[i].end
      [] spans[i].end = NoDate /\ i < Len(spans) /\ spans[i + 1].start # NoDate
                               -> spans[i + 1].start
      [] OTHER                 -> AfterAllDays

\* Mutant: the end belongs to the timespan.
HoldsThroughEnd(spans, i, d) == GeneratedStart(spans, i) <= d /\ d <= GeneratedEnd(spans, i)

\* The condition generated for a timespan statement.
Holds(spans, i, d) == GeneratedStart(spans, i) <= d /\ d < GeneratedEnd(spans, i)

\* The key of an entry in the dictionary of the constant: 's' and its start,
\* or else 'e' and its end.
Key(span) ==
    IF span.start # NoDate
    THEN [mark |-> "s", day |-> span.start]
    ELSE [mark |-> "e", day |-> span.end]

\* sorted(keys): as strings, so that all 'e' keys come first.
SortedKeys(spans) ==
    SortedSeq({Key(spans[i]) : i \in DOMAIN spans},
              LAMBDA a, b : \/ a.mark = "e" /\ b.mark = "s"
                            \/ a.mark = b.mark /\ a.day < b.day)

\* Of entries with equal keys the dictionary keeps the last.
Lookup(spans, key) == Max({i \in DOMAIN spans : Key(spans[i]) = key})

\* Mutant: the loop ends at the first start that is not after the date.
GetFirstValue(spans, d) ==
    LET keys == SortedKeys(spans)
        assigning == {i \in DOMAIN keys : keys[i].mark = "e" \/ keys[i].day <= d}
    IN  IF assigning = {} THEN Unbound ELSE Lookup(spans, keys[Min(assigning)])

\* ClassConstants.getValue: the loop runs over all keys and keeps the last
\* assignment.  At an 'e' key it looks at the key counted from the end of the
\* list, which may be an 's' key, and then compares the date with "s...".
GetValue(spans, d) ==
    LET keys == SortedKeys(spans)
        Mirrored(i) == keys[Len(keys) + 1 - i]
        Candidate(i) == IF keys[i].mark = "s" THEN keys[i] ELSE Mirrored(i)
        Assigns(i) == IF keys[i].mark = "s"
                      THEN keys[i].day <= d
                      ELSE Mirrored(i).mark = "s" \/ d <= Mirrored(i).day
        assigning == {i \in DOMAIN keys : Assigns(i)}
    IN  IF assigning = {} THEN Unbound ELSE Lookup(spans, Candidate(Max(assigning)))

-----------------------------------------------------------------------------

Init ==
    /\ \E p \in Programs : constant = p.constant /\ body = p.body
    /\ today \in Day
    /\ typed = [i \in DOMAIN body |-> Untyped]
    /\ checkedOn = NoDate
    /\ date = NoDate
    /\ executed = {}
    /\ value = Unbound

CheckTypes ==
    /\ typed' = [i \in DOMAIN body |-> TypeOfReference(i)]
    /\ checkedOn' = today
    /\ UNCHANGED <<constant, body, today, date, executed, value>>

\* The program is generated and run for date d.
Simulate(d) ==
    /\ date' = d
    /\ executed' = {i \in DOMAIN body : Holds(body, i, d)}
    /\ value' = GetValue(constant, d)
    /\ UNCHANGED <<constant, body, today, typed, checkedOn>>

Tomorrow ==
    /\ today < LastDay
    /\ today' = today + 1
    /\ UNCHANGED <<constant, body, typed, checkedOn, date, executed, value>>

Next == CheckTypes \/ (\E d \in Day : Simulate(d)) \/ Tomorrow

Spec == Init /\ [][Next]_vars

-----------------------------------------------------------------------------
(* What the documentation of temporal validity says.                       *)

\* Span i is valid on day d: from its start, or from the beginning of time, to
\* its end, or to the day before the next span, or until the end of time.
Valid(spans, i, d) ==
    /\ spans[i].start # NoDate => spans[i].start <= d
    /\ IF spans[i].end # NoDate
       THEN d <= spans[i].end
       ELSE i < Len(spans) /\ spans[i + 1].start # NoDate => d < spans[i + 1].start

\* "It is important that the timeframes cannot overlap."
Disjoint(spans) ==
    \A i, j \in DOMAIN spans : i < j =>
        /\ spans[j].start # NoDate
        /\ spans[i].start # NoDate => spans[i].start < spans[j].start
        /\ spans[i].end # NoDate => spans[i].end < spans[j].start

AllStartsGiven(spans) == \A i \in DOMAIN spans : spans[i].start # NoDate

NoneReversed(spans) ==
    \A i \in DOMAIN spans :
        spans[i].start # NoDate /\ spans[i].end # NoDate => spans[i].start <= spans[i].end

Simulated == date # NoDate

-----------------------------------------------------------------------------
(* Properties.                                                             *)

\* The variables hold what the code computes, and nothing else.
TypeOK ==
    /\ [constant |-> constant, body |-> body] \in Programs
    /\ today \in Day
    /\ typed \in [DOMAIN body -> DOMAIN constant \cup {Untyped}]
    /\ checkedOn \in Day \cup {NoDate}
    /\ date \in Day \cup {NoDate}
    /\ executed \subseteq DOMAIN body
    /\ value \in DOMAIN constant \cup {Unbound}

\* On no date does the generated program execute two versions of a function
\* whose timespans do not overlap, whatever bounds are left out.
OneVersionPerDate == Disjoint(body) => \A i, j \in executed : i = j

\* The generator and the type checker agree on the dates of a statement, up to
\* the day of the check, where the type checker lets open timespans end, if the
\* timespans do not overlap and their starts are given.
ReadingsAgree ==
    Simulated /\ date < today /\ Disjoint(body) /\ AllStartsGiven(body) =>
        \A i \in DOMAIN body :
            LET span == ComputeTimespan(body, i)
            IN  i \in executed <=> span.start <= date /\ date < span.end

\* A constant has the version that is valid on the simulated date, if the
\* start of every entry is given.
VersionInForce ==
    Simulated /\ Disjoint(constant) /\ AllStartsGiven(constant) =>
        \A k \in DOMAIN constant : Valid(constant, k, date) => value = k

\* For dates before the day of the check, the version whose type a reference
\* in a statement has is the version that the statement reads when it executes,
\* if only one version is valid while it may execute.  The last day of a version
\* is left out: the type checker, like the generated conditions, does not count
\* the end it states.  So is a constant with an entry that ends before it
\* starts: it is never valid, but may overlap the statement by its end.
TypesPredictPast ==
    (/\ checkedOn # NoDate /\ Simulated /\ date < checkedOn
     /\ Disjoint(constant) /\ AllStartsGiven(constant) /\ NoneReversed(constant)
     /\ Disjoint(body) /\ AllStartsGiven(body))
        => \A i \in executed, k \in DOMAIN constant :
               /\ Valid(constant, k, date) /\ constant[k].end # date
               /\ \A d \in Day, j \in DOMAIN constant \ {k} :
                      Holds(body, i, d) => ~Valid(constant, j, d)
               => typed[i] = k /\ value = k

-----------------------------------------------------------------------------
(* What the documentation says and the code does not do.                   *)

\* "bar() is valid until 2024-12-31 with no lower bound", for a function with
\* a single timespan to 2024-12-31.  The last day itself is left out, so that
\* what is asked for is the lower bound alone.
ValidWithoutLowerBound ==
    Simulated /\ Len(body) = 1 /\ ~AllStartsGiven(body) /\ date < body[1].end =>
        executed = {1}
=============================================================================
