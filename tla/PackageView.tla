----------------------------- MODULE PackageView -----------------------------
(***************************************************************************)
(* What the workspace promises to the services that read it, without       *)
(* builders, phases, caches or packages: documents declare things, the     *)
(* package tree serves a copy of them, and what a document's references    *)
(* are linked to is an answer taken from the copy.  The copy may lag       *)
(* behind the documents, but no answer is given while it does.  An answer  *)
(* is registered some time after it was given, and from then on it does    *)
(* not survive an edit of a document it leads to.                          *)
(***************************************************************************)
EXTENDS TLAPS

CONSTANTS
    Document,
    Declaration   \* records whose field uri is the document they are in

VARIABLES
    documents,   \* the documents that exist
    declared,    \* declared[d]: what the current text of d declares
    served,      \* served[d]: what the package tree holds of d
    answered,    \* the documents whose references are linked
    registered,  \* those of them for which it is known where that leads
    answers      \* answers[d]: the declarations they are linked to

vars == <<documents, declared, served, answered, registered, answers>>

\* What the documents may declare: each its own declarations.
Declarations ==
    {f \in [Document -> SUBSET Declaration] : \A d \in Document : \A x \in f[d] : x.uri = d}

Init ==
    /\ documents \subseteq Document
    /\ declared \in Declarations
    /\ served = [d \in Document |-> {}]
    /\ answered = {}
    /\ registered = {}
    /\ answers = [d \in Document |-> {}]

\* Some documents get new texts, appear or vanish.  What is withdrawn are at
\* least their own answers and the registered ones that lead to them.
Edit ==
    \E touched \in SUBSET Document :
        /\ declared' \in Declarations
        /\ documents' \subseteq Document
        /\ \A d \in Document \ touched :
               declared'[d] = declared[d] /\ (d \in documents' <=> d \in documents)
        /\ answered' \subseteq answered \ touched
        /\ registered' = registered \cap answered'
        /\ \A d \in registered' : \A x \in answers[d] : x.uri \notin touched
        /\ answers' = [d \in Document |-> IF d \in answered' THEN answers[d] ELSE {}]
        /\ UNCHANGED served

Reindex ==
    /\ served' = declared
    /\ UNCHANGED <<documents, declared, answered, registered, answers>>

\* A document is linked to declarations of others that are served at a time
\* when they are up to date for all documents that exist.
Answer(d) ==
    /\ d \in documents \ answered
    /\ \A e \in documents : served[e] = declared[e]
    /\ answered' = answered \cup {d}
    /\ \E links \in SUBSET UNION {served[e] : e \in Document} :
           answers' = [answers EXCEPT ![d] = links]
    /\ UNCHANGED <<documents, declared, served, registered>>

Register(d) ==
    /\ d \in answered
    /\ registered' = registered \cup {d}
    /\ UNCHANGED <<documents, declared, served, answered, answers>>

Next ==
    \/ Edit
    \/ Reindex
    \/ \E d \in Document : Answer(d) \/ Register(d)

Spec == Init /\ [][Next]_vars

-----------------------------------------------------------------------------
(* What the services may rely on.                                          *)

\* The answers of d that the document they lead to does not declare (any more).
Stale(d) == {x \in answers[d] : x.uri \in documents /\ x \notin declared[x.uri]}

\* An answer is not stale when it is given, and becomes stale only by an edit
\* that comes before it is registered.
AnswersGoStaleUnregisteredOnly ==
    [][\A d \in Document :
           Stale(d)' \subseteq Stale(d) \/ d \in answered \ registered]_vars

Inv ==
    /\ documents \subseteq Document
    /\ declared \in Declarations
    /\ served \in Declarations
    /\ answers \in [Document -> SUBSET Declaration]

LEMMA EditKeepsPromise ==
    ASSUME Inv, Edit
    PROVE  /\ Inv'
           /\ \A d \in Document : Stale(d)' \subseteq Stale(d) \/ d \in answered \ registered
<1>1. PICK touched \in SUBSET Document :
          /\ declared' \in Declarations
          /\ documents' \subseteq Document
          /\ \A d \in Document \ touched :
                 declared'[d] = declared[d] /\ (d \in documents' <=> d \in documents)
          /\ answered' \subseteq answered
          /\ registered' = registered \cap answered'
          /\ \A d \in registered' : \A x \in answers[d] : x.uri \notin touched
          /\ answers' = [d \in Document |-> IF d \in answered' THEN answers[d] ELSE {}]
          /\ UNCHANGED served
    BY DEF Edit
<1>2. Inv'
    BY <1>1 DEF Inv, Declarations
<1>3. ASSUME NEW d \in Document, d \notin answered \ registered, NEW x \in Stale(d)'
      PROVE  x \in Stale(d)
    <2>1. x \in answers[d] /\ d \in registered' /\ x.uri \in documents' /\ x \notin declared'[x.uri]
        BY <1>1, <1>3 DEF Stale
    <2>2. x.uri \in Document \ touched
        BY <1>1, <2>1
    <2>. QED
        BY <1>1, <2>1, <2>2 DEF Stale
<1>. QED
    BY <1>2, <1>3

LEMMA AnswerKeepsPromise ==
    ASSUME Inv, NEW d \in Document, Answer(d)
    PROVE  Inv' /\ \A c \in Document : Stale(c)' \subseteq Stale(c)
<1>1. /\ \A e \in documents : served[e] = declared[e]
      /\ UNCHANGED <<documents, declared, served>>
    BY DEF Answer
<1>2. PICK links \in SUBSET UNION {served[e] : e \in Document} :
          answers' = [answers EXCEPT ![d] = links]
    BY DEF Answer
<1>3. \A x \in links : x \in Declaration /\ x.uri \in Document /\ x \in served[x.uri]
    BY DEF Inv, Declarations
<1>4. Stale(d)' = {}
    BY <1>1, <1>2, <1>3 DEF Inv, Stale
<1>5. \A c \in Document \ {d} : Stale(c)' = Stale(c)
    BY <1>1, <1>2 DEF Inv, Stale
<1>6. Inv'
    BY <1>1, <1>2, <1>3 DEF Inv, Declarations
<1>. QED
    BY <1>4, <1>5, <1>6

\* However edits, the refreshing of the copy, answers and their registration
\* interleave, an answer goes stale only by an edit before it is registered.
THEOREM AnswersStayDeclared == Spec => AnswersGoStaleUnregisteredOnly
<1>. DEFINE Promise ==
         \A d \in Document : Stale(d)' \subseteq Stale(d) \/ d \in answered \ registered
<1>1. Init => Inv
    BY DEF Init, Inv, Declarations
<1>2. Inv /\ [Next]_vars => Inv' /\ Promise
    <2>1. Inv /\ (Reindex \/ \E d \in Document : Register(d)) => Inv' /\ Promise
        BY DEF Inv, Stale, Reindex, Register
    <2>2. Inv /\ UNCHANGED vars => Inv' /\ Promise
        BY DEF Inv, Stale, vars
    <2>. QED
        BY <2>1, <2>2, EditKeepsPromise, AnswerKeepsPromise DEF Next
<1>. QED
    BY <1>1, <1>2, PTL DEF Spec, AnswersGoStaleUnregisteredOnly
=============================================================================
