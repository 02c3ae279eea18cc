----------------------------- MODULE BlocksProofs -----------------------------
(***************************************************************************)
(* Whatever the body of a function is, the generated function, and a slice *)
(* of it, reads no variable that is not bound, and the values it reads are *)
(* those of the declarations the scope provider has linked; and the check  *)
(* that a grouped function aggregates agrees with what it can execute.     *)
(***************************************************************************)
EXTENDS Blocks, SortingProofs

-----------------------------------------------------------------------------
(* The invariant.                                                          *)

NamesOf(declarations) == {program[d].name : d \in declarations}

IsIn(s, b) == s \in ToSet(body.blocks[b])

Joined(word, name) == word \o name

\* The names of the body, and those that a word and the name after it become.
WordsOf(S) ==
    NamesOf(S) \cup {Joined(word, name) : word \in {"pass"} \cup {program[s].word : s \in S}, name \in NamesOf(S)}

\* Code that was generated for the statements of the body.
Item ==
    {c \in [op : {"pass", "malformed", "expression", "return", "assign", "joined", "if", "while", "for"},
            source : Statement \cup {NoStatement}, names : SUBSET WordsOf(Statement), again : BOOLEAN] :
        /\ c.op \notin {"pass", "malformed"} => c.source \in Statement
        /\ c.op \in {"expression", "return"} => program[c.source].kind = c.op
        /\ c.op \in {"assign", "joined"} => program[c.source].kind \in {"declare", "assign"}
        /\ c.op = "assign" => c.names = {program[c.source].name}
        /\ c.op = "if" => program[c.source].kind \in {"if", "timespan"}
        /\ c.op = "while" => program[c.source].kind \in {"while", "for"}
        /\ c.op = "for" => program[c.source].kind = "foreach" /\ c.names = {program[c.source].name}}

IsAssigned(name, code, first, last) ==
    \E m \in first .. last : code[m].op = "assign" /\ name \in code[m].names

\* The names that the statements of the body refer to.
IsRead(n) == \E s \in Statement : n \in program[s].reads

\* The variables that have to be bound before an item: those it reads, and those
\* that can be seen from the blocks in it.
Needs(c) ==
    CASE c.op \in {"pass", "malformed"} -> {}
      [] c.op \in {"expression", "return", "assign", "joined"} -> program[c.source].reads
      [] c.op \in {"if", "while"} -> program[c.source].reads \cup NamesOf(LocalDeclarations(c.source))
      [] c.op = "for" -> program[c.source].reads \cup NamesOf(LocalDeclarations(c.source) \ {c.source})

IsReady(code, bound) ==
    \A k \in DOMAIN code : \A n \in Needs(code[k]) : n \in bound \/ IsAssigned(n, code, 1, k - 1)

\* What is bound when a block is entered.
BoundBefore(b) ==
    IF b = 1 THEN NamesOf(OfKind("parameter"))
    ELSE UNION {NamesOf(LocalDeclarations(o)) : o \in {o \in Statement : b \in NestedBlocks(program[o])}}

\* The statements around a statement, and itself.
IsInside(s, outer) ==
    \A S \in SUBSET Statement : s \in S /\ (\A t \in S : Outer(t) \subseteq S) => outer \in S

Anchor(c) == IF Loops(c.source) = {} THEN c.source ELSE Min(Loops(c.source))

\* The names that an item, or a block in it, may read.
MayRead(c, n) ==
    CASE c.op \in {"pass", "malformed"} -> FALSE
      [] c.op \in {"expression", "return", "assign", "joined"} -> n \in program[c.source].reads
      [] c.op \in {"if", "while"} -> TRUE
      [] c.op = "for" -> n \notin c.names

\* The statements that may assign a variable that is read when an item is executed.
Writers(c) ==
    CASE c.op = "assign" -> {c.source}
      [] c.op \in {"if", "while", "for"} -> {w \in Statement : IsInside(w, c.source)}
      [] OTHER -> {}

\* If the declaration whose variable w assigned can be seen from s, it is the
\* one its name refers to.
IsGood(w, s, n) ==
    LET declaration == DeclarationOf(w)
    IN  declaration \in LocalDeclarations(s) /\ program[declaration].name = n => declaration = Target(s, n)

\* What an item assigns is assigned again before an item that must not read it,
\* and what a joined line assigns is not read.
IsConsistent(code) ==
    \A k \in DOMAIN code :
        /\ code[k].op = "joined" => \A n \in code[k].names : ~IsRead(n)
        /\ \A j \in 1 .. k - 1 : \A w \in Writers(code[j]) :
               LET n == program[DeclarationOf(w)].name
               IN  MayRead(code[k], n) => IsAssigned(n, code, j + 1, k - 1) \/ IsGood(w, Anchor(code[k]), n)

\* What w assigned to the variable n is assigned again before an item of the
\* code that must not read it.
Reaches(code, n, w) ==
    \A k \in DOMAIN code : MayRead(code[k], n) => IsAssigned(n, code, 1, k - 1) \/ IsGood(w, Anchor(code[k]), n)

Follows(code, e) == \A n \in DOMAIN e : IsRead(n) => Reaches(code, n, e[n]) /\ program[e[n]].name = n

\* What enters a block can be seen from the statement around it.
IsConsistentIn(code, b) ==
    /\ IsConsistent(code)
    /\ \A o \in Statement : b \in NestedBlocks(program[o]) =>
           /\ \A j \in DOMAIN code : \A w \in Writers(code[j]) : IsInside(w, o)
           /\ \A w \in Statement : \A n : IsGood(w, o, n) => Reaches(code, n, w)

BlockIsReady(b) == IsReady(lines[b], BoundBefore(b))
BlockIsConsistent(b) == IsConsistentIn(lines[b], b)

Kept ==
    /\ body \in Bodies
    /\ links = Link
    /\ generations \in Seq(SUBSET Names) /\ Len(generations) <= MaxGenerations
    /\ blocks \in [Block -> Seq(Statement)]
    /\ \A b \in Block : ToSet(blocks[b]) = ToSet(body.blocks[b])
    /\ (\A i \in DOMAIN generations : generations[i] = {}) => blocks = body.blocks
    /\ lines \in [Block -> Seq(Item)]
    /\ todo \in Seq(Item)
    /\ Range(env) \subseteq Statement

ReadyInv ==
    HeadersLookBack /\ IsIntact =>
        /\ \A b \in Block : BlockIsReady(b)
        /\ IsReady(todo, DOMAIN env)
        /\ \A r \in reads : r.writer # Unbound

ConsistentInv ==
    DeclaresOncePerBlock /\ HeadersLookBack /\ IsIntact /\ JoinedNamesGoUnread =>
        /\ \A b \in Block : BlockIsConsistent(b)
        /\ IsConsistent(todo) /\ Follows(todo, env)

-----------------------------------------------------------------------------
(* The body is a tree.                                                     *)

LEMMA BodyIsBody ==
    ASSUME body \in Bodies
    PROVE  /\ IsBody(body)
           /\ MaxGenerations \in Nat /\ Unresolved \notin Nat /\ Unbound \notin Nat /\ NoStatement \notin Nat
BY BlocksAssumption

LEMMA Numbers ==
    ASSUME body \in Bodies
    PROVE  /\ Statement \subseteq Nat /\ \E last \in Nat : Statement \subseteq 1 .. last
           /\ Block \subseteq Nat /\ \E last \in Nat : Block \subseteq 1 .. last
           /\ \A b \in Block : b >= 1
           /\ 1 \in Block
           /\ Unresolved \notin Statement /\ Unbound \notin Statement /\ NoStatement \notin Statement
<1>1. PICK last \in Statement : Statement \subseteq 1 .. last
    BY BodyIsBody DEF IsBody, Statement, program
<1>2. last \in Nat
    <2>1. last \in 1 .. last
        BY <1>1
    <2>. QED
        BY <2>1
<1>3. PICK end \in Block : Block \subseteq 1 .. end
    BY BodyIsBody DEF IsBody, Block
<1>4. end \in Nat
    <2>1. end \in 1 .. end
        BY <1>3
    <2>. QED
        BY <2>1
<1>5. 1 \in Block
    BY BodyIsBody DEF IsBody, Block
<1>6. Statement \subseteq Nat /\ Block \subseteq Nat /\ \A b \in Block : b >= 1
    BY <1>1, <1>2, <1>3, <1>4
<1>7. Unresolved \notin Statement /\ Unbound \notin Statement /\ NoStatement \notin Statement
    BY <1>6, BodyIsBody
<1>. QED
    BY <1>1, <1>2, <1>3, <1>4, <1>5, <1>6, <1>7, Zenon

LEMMA StatementsOfBlocks ==
    ASSUME body \in Bodies, NEW b \in Block
    PROVE  /\ body.blocks[b] \in Seq(Statement)
           /\ \A s : IsIn(s, b) <=> \E i \in DOMAIN body.blocks[b] : body.blocks[b][i] = s
           /\ \A s : IsIn(s, b) => s \in Statement
           /\ \A s : \A c \in Block : IsIn(s, b) /\ IsIn(s, c) => b = c
           /\ \A i, j \in DOMAIN body.blocks[b] : body.blocks[b][i] = body.blocks[b][j] => i = j
<1>1. body.blocks[b] \in Seq(Statement)
    BY BodyIsBody DEF IsBody, Statement, program, Block
<1>2. \A c \in Block : \A i \in DOMAIN body.blocks[b], j \in DOMAIN body.blocks[c] :
          body.blocks[b][i] = body.blocks[c][j] => b = c /\ i = j
    BY BodyIsBody DEF IsBody, Block
<1>3. \A s, c : IsIn(s, c) <=> \E i \in DOMAIN body.blocks[c] : body.blocks[c][i] = s
    BY DEF IsIn, ToSet
<1>. QED
    BY <1>1, <1>2, <1>3

Kinds == {"parameter", "declare", "assign", "expression", "return", "if", "while", "for", "foreach", "timespan"}

LEMMA Containers ==
    ASSUME body \in Bodies, NEW s \in Statement
    PROVE  /\ program[s].kind \in Kinds
           /\ NestedBlocks(program[s]) \subseteq Block
           /\ Header(program[s]) \subseteq Statement
           /\ program[s].kind = "parameter" => \A b \in Block : ~IsIn(s, b)
           /\ program[s].kind # "parameter" =>
                  (\E b \in Block : IsIn(s, b)) \/ \E l \in Statement : s \in Header(program[l])
           /\ program[s].kind = "if" =>
                  program[s].block # NoBlock /\ program[s].block # program[s].elseBlock
           /\ program[s].kind = "for" =>
                  program[s].definition = NoStatement \/ program[s].definition # program[s].iteration
           /\ \A h \in Header(program[s]) :
                  program[h].kind \in {"declare", "assign"} /\ s < h /\ \A b \in Block : ~IsIn(h, b)
           /\ \A b \in NestedBlocks(program[s]) : \A t \in Statement : IsIn(t, b) => s < t
           /\ \A b \in Block : IsIn(s, b) => \A c \in NestedBlocks(program[s]) : b < c
           /\ \A t \in Statement :
                  s # t => /\ NestedBlocks(program[s]) \cap NestedBlocks(program[t]) = {}
                           /\ Header(program[s]) \cap Header(program[t]) = {}
BY BodyIsBody DEF IsBody, Statement, program, Block, IsIn, Kinds

LEMMA Owners ==
    ASSUME body \in Bodies, NEW s
    PROVE  /\ Loops(s) = {l \in Statement : s \in Header(program[l])}
           /\ \A o : o \in Outer(s) <=> /\ o \in Statement
                                       /\ \/ s \in Header(program[o])
                                          \/ \E b \in NestedBlocks(program[o]) : IsIn(s, b)
<1>1. \A l \in Statement : s \in Header(program[l]) => program[l].kind = "for"
    BY DEF Header
<1>2. Loops(s) = {l \in Statement : s \in Header(program[l])}
    BY <1>1 DEF Loops, OfKind
<1>. QED
    BY <1>2 DEF Outer, IsIn

LEMMA OuterIsBefore ==
    ASSUME body \in Bodies, NEW s \in Statement
    PROVE  /\ \A o \in Outer(s) : o \in Statement /\ o < s
           /\ \A o, p \in Outer(s) : o = p
           /\ \A o \in Outer(s) : Outer(s) = {o} /\ Min(Outer(s)) = o
<1>1. \A o \in Outer(s) : o \in Statement /\ o < s
    BY Owners, Containers
<1>2. ASSUME NEW o \in Outer(s), NEW p \in Outer(s) PROVE o = p
    <2>1. CASE s \in Header(program[o]) /\ s \in Header(program[p])
        BY <1>1, <2>1, Containers
    <2>2. CASE /\ \E b \in NestedBlocks(program[o]) : IsIn(s, b)
               /\ \E b \in NestedBlocks(program[p]) : IsIn(s, b)
        <3>1. PICK b \in NestedBlocks(program[o]), c \in NestedBlocks(program[p]) : IsIn(s, b) /\ IsIn(s, c)
            BY <2>2
        <3>2. b \in Block /\ c \in Block
            BY <1>1, Containers
        <3>3. b = c
            BY <3>1, <3>2, StatementsOfBlocks
        <3>. QED
            BY <1>1, <3>3, Containers
    <2>3. ASSUME NEW q \in Statement, NEW r \in Statement, s \in Header(program[q]),
                 \E b \in NestedBlocks(program[r]) : IsIn(s, b)
          PROVE  FALSE
        BY <2>3, Containers
    <2>. QED
        BY <1>1, <2>1, <2>2, <2>3, Owners
<1>3. ASSUME NEW o \in Outer(s) PROVE Outer(s) = {o} /\ Min(Outer(s)) = o
    <2>1. Outer(s) = {o}
        BY <1>2
    <2>2. Outer(s) \in SUBSET Nat
        BY <1>1, Numbers
    <2>. QED
        BY <2>1, <2>2, MinOf
<1>. QED
    BY <1>1, <1>2, <1>3

\* The block around a statement of a block, and around the header of a loop.
LEMMA ContainingBlocks ==
    ASSUME body \in Bodies, NEW s \in Statement, NEW b \in Block, IsIn(s, b)
    PROVE  /\ Loops(s) = {} /\ ContainingBlock(s) = b
           /\ program[s].kind # "parameter"
           /\ \A o \in Outer(s) : b \in NestedBlocks(program[o])
           /\ \A o \in Statement : b \in NestedBlocks(program[o]) => o \in Outer(s)
           /\ \A h \in Header(program[s]) : Loops(h) = {s} /\ Outer(h) = {s} /\ ContainingBlock(h) = b
<1>1. \A l \in Statement : s \notin Header(program[l])
    BY Containers
<1>2. Loops(s) = {}
    BY <1>1, Owners
<1>3. ASSUME NEW t, NEW c \in Block, ToSet(body.blocks[c]) \cap {t, s} # {}, \A d \in Block : ~IsIn(t, d) \/ t = s
      PROVE  c = b
    <2>1. IsIn(s, c)
        BY <1>3 DEF IsIn
    <2>. QED
        BY <2>1, StatementsOfBlocks
<1>4. ContainingBlock(s) = b
    <2>1. ToSet(body.blocks[b]) \cap ({s} \cup Loops(s)) # {}
        BY DEF IsIn
    <2>2. \A c \in Block : ToSet(body.blocks[c]) \cap ({s} \cup Loops(s)) # {} => c = b
        BY <1>2, <1>3
    <2>. QED
        BY <2>1, <2>2 DEF ContainingBlock
<1>5. ASSUME NEW o \in Outer(s) PROVE b \in NestedBlocks(program[o])
    <2>1. o \in Statement
        BY OuterIsBefore
    <2>2. PICK c \in NestedBlocks(program[o]) : IsIn(s, c)
        BY <1>1, Owners
    <2>3. c \in Block
        BY <2>1, Containers
    <2>. QED
        BY <2>2, <2>3, StatementsOfBlocks
<1>6. ASSUME NEW h \in Header(program[s])
      PROVE  Loops(h) = {s} /\ Outer(h) = {s} /\ ContainingBlock(h) = b
    <2>1. h \in Statement /\ \A d \in Block : ~IsIn(h, d)
        BY Containers
    <2>2. Loops(h) = {s}
        BY <2>1, Containers, Owners
    <2>3. Outer(h) = {s}
        <3>1. s \in Outer(h)
            BY Owners
        <3>. QED
            BY <2>1, <3>1, OuterIsBefore
    <2>4. ToSet(body.blocks[b]) \cap ({h} \cup Loops(h)) # {}
        BY <2>2 DEF IsIn
    <2>5. \A c \in Block : ToSet(body.blocks[c]) \cap ({h} \cup Loops(h)) # {} => c = b
        <3>1. {h} \cup Loops(h) = {h, s}
            BY <2>2
        <3>. QED
            BY <1>3, <2>1, <3>1
    <2>6. ContainingBlock(h) = b
        BY <2>4, <2>5 DEF ContainingBlock
    <2>. QED
        BY <2>2, <2>3, <2>6
<1>7. program[s].kind # "parameter"
    BY Containers
<1>8. \A o \in Statement : b \in NestedBlocks(program[o]) => o \in Outer(s)
    BY Owners
<1>. QED
    BY <1>2, <1>4, <1>5, <1>6, <1>7, <1>8

-----------------------------------------------------------------------------
(* The scopes of statements, from the outside to the inside.               *)

LEMMA ScopesCanBeComputed ==
    ASSUME body \in Bodies
    PROVE  \E f : f = [s \in Statement |-> Visible(s) \cup UNION {f[o] : o \in Outer(s)}]
<1>. DEFINE Value(s, f) == Visible(s) \cup UNION {f[o] : o \in Outer(s)}
            UpTo(k) == {s \in Statement : s <= k}
            IsComputed(k, f) == f = [s \in UpTo(k) |-> f[s]] /\ \A s \in UpTo(k) : f[s] = Value(s, f)
<1>0. PICK last \in Nat : Statement \subseteq 1 .. last
    BY Numbers
<1>. DEFINE missing == {k \in 0 .. last : ~ \E f : IsComputed(k, f)}
<1>1. missing = {}
    <2>. SUFFICES ASSUME missing # {} PROVE FALSE
        OBVIOUS
    <2>1. missing \in SUBSET Nat
        OBVIOUS
    <2>2. PICK k \in missing : \A j \in missing : k <= j
        BY <2>1, LeastExists
    <2>3. k # 0
        <3>. DEFINE none == [s \in UpTo(0) |-> 0]
        <3>1. UpTo(0) = {}
            BY <1>0
        <3>2. IsComputed(0, none)
            BY <3>1
        <3>. HIDE DEF IsComputed, none
        <3>. QED
            BY <2>2, <3>2
    <2>4. k \in Nat /\ k <= last /\ k - 1 \in 0 .. last /\ k - 1 < k
        BY <2>2, <2>3
    <2>5. PICK f : IsComputed(k - 1, f)
        <3>1. k - 1 \notin missing
            <4>. HIDE DEF missing
            <4>. QED
                BY <2>2, <2>4
        <3>. HIDE DEF IsComputed
        <3>. QED
            BY <2>4, <3>1
    <2>. DEFINE g == [s \in UpTo(k) |-> IF s = k THEN Value(k, f) ELSE f[s]]
    <2>6. ASSUME NEW s \in UpTo(k) PROVE Value(s, f) = Value(s, g)
        <3>1. \A o \in Outer(s) : o \in Statement /\ o < s /\ o \in Nat /\ s \in Nat
            BY OuterIsBefore, Numbers
        <3>2. \A o \in Outer(s) : g[o] = f[o]
            BY <2>4, <3>1
        <3>. HIDE DEF g
        <3>3. {f[o] : o \in Outer(s)} = {g[o] : o \in Outer(s)}
            BY <3>2
        <3>. QED
            BY <3>3
    <2>7. \A s \in UpTo(k) : g[s] = Value(s, f)
        <3>1. ASSUME NEW s \in UpTo(k) PROVE s = k \/ s \in UpTo(k - 1)
            BY <2>4, Numbers
        <3>. HIDE DEF Value
        <3>. QED
            BY <2>5, <3>1
    <2>8. IsComputed(k, g)
        <3>1. \A s \in UpTo(k) : g[s] = Value(s, g)
            <4>. HIDE DEF g, Value
            <4>. QED
                BY <2>6, <2>7
        <3>. QED
            BY <3>1
    <2>. QED
        BY <2>2, <2>8
<1>2. PICK f : IsComputed(last, f)
    BY <1>1
<1>3. UpTo(last) = Statement
    <2>1. \A s \in Statement : s <= last
        BY <1>0
    <2>. QED
        BY <2>1
<1>. QED
    BY <1>2, <1>3

LEMMA ScopeOf ==
    ASSUME body \in Bodies, NEW s \in Statement
    PROVE  LocalDeclarations(s) = Visible(s) \cup UNION {LocalDeclarations(o) : o \in Outer(s)}
<1>. DEFINE local == CHOOSE f : f = [t \in Statement |-> Visible(t) \cup UNION {f[o] : o \in Outer(t)}]
<1>1. local = [t \in Statement |-> Visible(t) \cup UNION {local[o] : o \in Outer(t)}]
    BY ScopesCanBeComputed
<1>2. \A t : LocalDeclarations(t) = local[t]
    BY DEF LocalDeclarations
<1>. HIDE DEF local
<1>3. local[s] = Visible(s) \cup UNION {local[o] : o \in Outer(s)}
    BY <1>1
<1>4. {local[o] : o \in Outer(s)} = {LocalDeclarations(o) : o \in Outer(s)}
    BY <1>2
<1>. QED
    BY <1>2, <1>3, <1>4

TargetFrom(s, name, f) ==
    IF VisibleTarget(s, name) # Unresolved \/ Outer(s) = {} THEN VisibleTarget(s, name) ELSE f[Min(Outer(s))]

LEMMA TargetsCanBeComputed ==
    ASSUME body \in Bodies, NEW name
    PROVE  \E f : f = [s \in Statement |-> TargetFrom(s, name, f)]
<1>. DEFINE UpTo(k) == {s \in Statement : s <= k}
            IsComputed(k, f) == f = [s \in UpTo(k) |-> f[s]] /\ \A s \in UpTo(k) : f[s] = TargetFrom(s, name, f)
<1>0. PICK last \in Nat : Statement \subseteq 1 .. last
    BY Numbers
<1>. DEFINE missing == {k \in 0 .. last : ~ \E f : IsComputed(k, f)}
<1>1. missing = {}
    <2>. SUFFICES ASSUME missing # {} PROVE FALSE
        OBVIOUS
    <2>1. missing \in SUBSET Nat
        OBVIOUS
    <2>2. PICK k \in missing : \A j \in missing : k <= j
        BY <2>1, LeastExists
    <2>3. k # 0
        <3>. DEFINE none == [s \in UpTo(0) |-> 0]
        <3>1. UpTo(0) = {}
            BY <1>0
        <3>2. IsComputed(0, none)
            BY <3>1
        <3>. HIDE DEF IsComputed, none
        <3>. QED
            BY <2>2, <3>2
    <2>4. k \in Nat /\ k <= last /\ k - 1 \in 0 .. last /\ k - 1 < k
        BY <2>2, <2>3
    <2>5. PICK f : IsComputed(k - 1, f)
        <3>1. k - 1 \notin missing
            <4>. HIDE DEF missing
            <4>. QED
                BY <2>2, <2>4
        <3>. HIDE DEF IsComputed
        <3>. QED
            BY <2>4, <3>1
    <2>. DEFINE g == [s \in UpTo(k) |-> IF s = k THEN TargetFrom(k, name, f) ELSE f[s]]
    <2>6. ASSUME NEW s \in UpTo(k) PROVE TargetFrom(s, name, f) = TargetFrom(s, name, g)
        <3>1. CASE Outer(s) = {}
            BY <3>1 DEF TargetFrom
        <3>2. CASE Outer(s) # {}
            <4>1. PICK o \in Outer(s) : Min(Outer(s)) = o /\ o \in Statement /\ o < s
                BY <3>2, OuterIsBefore
            <4>2. g[o] = f[o]
                BY <2>4, <4>1, Numbers
            <4>. HIDE DEF g
            <4>. QED
                BY <4>1, <4>2 DEF TargetFrom
        <3>. QED
            BY <3>1, <3>2
    <2>7. \A s \in UpTo(k) : g[s] = TargetFrom(s, name, f)
        <3>1. ASSUME NEW s \in UpTo(k) PROVE s = k \/ s \in UpTo(k - 1)
            BY <2>4, Numbers
        <3>. QED
            BY <2>5, <3>1
    <2>8. IsComputed(k, g)
        <3>1. \A s \in UpTo(k) : g[s] = TargetFrom(s, name, g)
            <4>. HIDE DEF g
            <4>. QED
                BY <2>6, <2>7
        <3>. QED
            BY <3>1
    <2>. QED
        BY <2>2, <2>8
<1>2. PICK f : IsComputed(last, f)
    BY <1>1
<1>3. UpTo(last) = Statement
    <2>1. \A s \in Statement : s <= last
        BY <1>0
    <2>. QED
        BY <2>1
<1>. QED
    BY <1>2, <1>3

LEMMA TargetOf ==
    ASSUME body \in Bodies, NEW s \in Statement, NEW name
    PROVE  /\ VisibleTarget(s, name) # Unresolved \/ Outer(s) = {} => Target(s, name) = VisibleTarget(s, name)
           /\ VisibleTarget(s, name) = Unresolved => \A o \in Outer(s) : Target(s, name) = Target(o, name)
<1>. DEFINE target == CHOOSE f : f = [t \in Statement |-> TargetFrom(t, name, f)]
<1>1. target = [t \in Statement |-> TargetFrom(t, name, target)]
    BY TargetsCanBeComputed
<1>2. \A t : Target(t, name) = target[t]
    BY DEF Target, TargetFrom
<1>. HIDE DEF target
<1>3. target[s] = TargetFrom(s, name, target)
    BY <1>1
<1>. QED
    BY <1>2, <1>3, OuterIsBefore DEF TargetFrom

Compound == OfKind("if") \cup OfKind("while") \cup OfKind("for") \cup OfKind("foreach") \cup OfKind("timespan")

LEMMA Placement ==
    ASSUME body \in Bodies, NEW s \in Statement, program[s].kind # "parameter"
    PROVE  /\ ContainingBlock(s) \in Block
           /\ \/ IsIn(s, ContainingBlock(s))
              \/ \E l \in Outer(s) : s \in Header(program[l]) /\ ContainingBlock(l) = ContainingBlock(s)
           /\ program[s].kind \notin {"declare", "assign"} => IsIn(s, ContainingBlock(s))
           /\ \A o \in Outer(s) : /\ o \in Compound /\ IsIn(o, ContainingBlock(o))
                                  /\ ContainingBlock(o) \in Block
                                  /\ ContainingBlock(o) <= ContainingBlock(s)
                                  /\ IsIn(s, ContainingBlock(s)) => ContainingBlock(o) < ContainingBlock(s)
<1>1. ASSUME NEW o \in Statement, o \in Compound
      PROVE  ContainingBlock(o) \in Block /\ IsIn(o, ContainingBlock(o))
    <2>1. program[o].kind \notin {"parameter", "declare", "assign"}
        BY <1>1 DEF Compound, OfKind
    <2>2. \A l \in Statement : o \notin Header(program[l])
        BY <2>1, Containers
    <2>3. PICK b \in Block : IsIn(o, b)
        BY <2>1, <2>2, Containers
    <2>. QED
        BY <2>3, ContainingBlocks
<1>2. ASSUME NEW o \in Outer(s) PROVE o \in Statement /\ o \in Compound
    <2>1. o \in Statement /\ (Header(program[o]) # {} \/ NestedBlocks(program[o]) # {})
        BY Owners
    <2>2. Header(program[o]) # {} => program[o].kind = "for"
        BY DEF Header
    <2>3. NestedBlocks(program[o]) # {} => program[o].kind \in {"if", "while", "for", "foreach", "timespan"}
        BY DEF NestedBlocks
    <2>. QED
        BY <2>1, <2>2, <2>3 DEF Compound, OfKind
<1>3. CASE \E b \in Block : IsIn(s, b)
    <2>1. PICK b \in Block : IsIn(s, b)
        BY <1>3
    <2>2. ContainingBlock(s) = b
        BY <2>1, ContainingBlocks
    <2>3. ASSUME NEW o \in Outer(s) PROVE ContainingBlock(o) < b
        BY <1>1, <1>2, <2>1, ContainingBlocks, Containers
    <2>4. \A o \in Outer(s) : ContainingBlock(o) \in Nat /\ b \in Nat
        BY <1>1, <1>2, Numbers
    <2>5. \A o \in Outer(s) : ContainingBlock(o) <= b
        BY <2>3, <2>4
    <2>. QED
        BY <1>1, <1>2, <2>1, <2>2, <2>3, <2>5
<1>4. CASE ~ \E b \in Block : IsIn(s, b)
    <2>1. PICK l \in Statement : s \in Header(program[l])
        BY <1>4, Containers
    <2>2. l \in Outer(s) /\ l \in Compound
        BY <1>2, <2>1, Owners
    <2>3. ContainingBlock(s) = ContainingBlock(l) /\ Outer(s) = {l}
        BY <1>1, <2>1, <2>2, ContainingBlocks
    <2>4. program[s].kind \in {"declare", "assign"}
        BY <2>1, Containers
    <2>5. ContainingBlock(l) \in Block /\ ContainingBlock(l) \in Nat
        BY <1>1, <2>2, Numbers
    <2>. QED
        BY <1>1, <1>4, <2>1, <2>2, <2>3, <2>4, <2>5
<1>. QED
    BY <1>3, <1>4

LEMMA VisibleDeclares ==
    ASSUME body \in Bodies, NEW s \in Statement, program[s].kind # "parameter"
    PROVE  /\ LoopVariable(s) \subseteq Statement /\ PlaceholdersUpToStatement(s) \subseteq OfKind("declare")
           /\ LoopVariable(s) # {} => \E v \in Statement : LoopVariable(s) = {v}
           /\ LoopVariable(s) \subseteq OfKind("declare") \cup OfKind("foreach")
           /\ Visible(s) \subseteq Statement
           /\ \A d \in Visible(s) : program[d].kind \in {"parameter", "declare", "foreach"}
           /\ Visible(s) \subseteq OfKind("parameter") \cup DeclarationsIn(ContainingBlock(s))
<1>1. LoopVariable(s) \subseteq OfKind("declare") \cup OfKind("foreach")
    BY DEF LoopVariable, OfKind
<1>2. PlaceholdersUpToStatement(s) \subseteq OfKind("declare")
    BY DEF PlaceholdersUpToStatement
<1>3. LoopVariable(s) # {} => \E v \in Statement : LoopVariable(s) = {v}
    BY DEF LoopVariable, OfKind
<1>4. PlaceholdersUpToStatement(s) \subseteq DeclarationsIn(ContainingBlock(s))
    BY Placement DEF PlaceholdersUpToStatement, DeclarationsIn, ToSet
<1>5. LoopVariable(s) \subseteq DeclarationsIn(ContainingBlock(s))
    <2>1. CASE program[s].kind \in {"for", "foreach"}
        <3>1. IsIn(s, ContainingBlock(s))
            BY <2>1, Placement
        <3>2. s \in OfKind("for") \/ s \in OfKind("foreach")
            BY <2>1 DEF OfKind
        <3>3. program[s].kind = "foreach" => LoopVariable(s) = {s}
            BY DEF LoopVariable
        <3>. QED
            BY <3>1, <3>2, <3>3 DEF DeclarationsIn, IsIn, OfKind
    <2>2. CASE program[s].kind \notin {"for", "foreach"}
        BY <2>2 DEF LoopVariable
    <2>. QED
        BY <2>1, <2>2
<1>. QED
    BY <1>1, <1>2, <1>3, <1>4, <1>5 DEF Visible, OfKind

LEMMA FirstInIsIn ==
    ASSUME NEW T, NEW list \in Seq(T), NEW S, \E i \in DOMAIN list : list[i] \in S
    PROVE  FirstIn(list, S) \in S /\ \E i \in DOMAIN list : list[i] = FirstIn(list, S)
<1>. DEFINE hits == {i \in DOMAIN list : list[i] \in S}
<1>1. hits \in SUBSET Nat /\ hits # {}
    OBVIOUS
<1>2. Min(hits) \in hits
    BY <1>1, MinOf
<1>. QED
    BY <1>2 DEF FirstIn

LEMMA VisibleTargetOf ==
    ASSUME body \in Bodies, NEW s \in Statement, program[s].kind # "parameter", NEW n
    PROVE  /\ VisibleTarget(s, n) # Unresolved =>
                  VisibleTarget(s, n) \in Visible(s) /\ program[VisibleTarget(s, n)].name = n
           /\ (\E d \in Visible(s) : program[d].name = n) => VisibleTarget(s, n) # Unresolved
<1>. DEFINE parameters == Named(OfKind("parameter"), n)
            variable == Named(LoopVariable(s), n)
            placeholders == Named(PlaceholdersUpToStatement(s), n)
<1>1. parameters \in SUBSET Nat /\ variable \in SUBSET Nat
    BY Numbers, VisibleDeclares DEF Named, OfKind
<1>2. CASE parameters # {}
    <2>1. VisibleTarget(s, n) = Min(parameters)
        BY <1>2 DEF VisibleTarget
    <2>2. Min(parameters) \in parameters
        BY <1>1, <1>2, MinOf
    <2>. QED
        BY <2>1, <2>2, Numbers DEF Visible, Named, OfKind
<1>3. CASE parameters = {} /\ variable # {}
    <2>1. VisibleTarget(s, n) = Min(variable)
        BY <1>3 DEF VisibleTarget
    <2>2. Min(variable) \in variable
        BY <1>1, <1>3, MinOf
    <2>. QED
        BY <2>1, <2>2, Numbers, VisibleDeclares DEF Visible, Named
<1>4. CASE parameters = {} /\ variable = {} /\ placeholders # {}
    <2>. DEFINE all == body.blocks[ContainingBlock(s)]
    <2>1. VisibleTarget(s, n) = FirstIn(all, placeholders)
        BY <1>4 DEF VisibleTarget
    <2>2. all \in Seq(Statement)
        BY Placement, StatementsOfBlocks
    <2>3. \E i \in DOMAIN all : all[i] \in placeholders
        BY <1>4 DEF PlaceholdersUpToStatement, Named
    <2>4. FirstIn(all, placeholders) \in placeholders
        BY <2>2, <2>3, FirstInIsIn
    <2>. QED
        BY <2>1, <2>4, Numbers, VisibleDeclares DEF Visible, Named, OfKind
<1>5. CASE parameters = {} /\ variable = {} /\ placeholders = {}
    <2>1. VisibleTarget(s, n) = Unresolved
        BY <1>5 DEF VisibleTarget
    <2>. QED
        BY <1>5, <2>1 DEF Visible, Named
<1>. QED
    BY <1>2, <1>3, <1>4, <1>5

\* A reference is linked to a declaration of its name that can be seen.
LEMMA TargetIsLocal ==
    ASSUME body \in Bodies, NEW n
    PROVE  \A s \in Statement : program[s].kind # "parameter" /\ Target(s, n) # Unresolved =>
               Target(s, n) \in LocalDeclarations(s) /\ program[Target(s, n)].name = n
<1>. DEFINE Holds(s) == Target(s, n) \in LocalDeclarations(s) /\ program[Target(s, n)].name = n
            wrong == {s \in Statement : program[s].kind # "parameter" /\ Target(s, n) # Unresolved /\ ~Holds(s)}
<1>1. wrong = {}
    <2>. SUFFICES ASSUME wrong # {} PROVE FALSE
        OBVIOUS
    <2>1. wrong \in SUBSET Nat
        BY Numbers
    <2>2. PICK s \in wrong : \A t \in wrong : s <= t
        BY <2>1, LeastExists
    <2>3. CASE VisibleTarget(s, n) # Unresolved
        BY <2>2, <2>3, TargetOf, VisibleTargetOf, ScopeOf
    <2>4. CASE VisibleTarget(s, n) = Unresolved /\ Outer(s) = {}
        BY <2>2, <2>4, TargetOf
    <2>5. CASE VisibleTarget(s, n) = Unresolved /\ Outer(s) # {}
        <3>1. PICK o \in Outer(s) : TRUE
            BY <2>5
        <3>2. o \in Statement /\ o < s /\ o \in Nat /\ s \in Nat /\ program[o].kind # "parameter"
            BY <2>1, <2>2, OuterIsBefore, Numbers, Placement DEF Compound, OfKind
        <3>3. Target(s, n) = Target(o, n)
            BY <2>2, <2>5, TargetOf
        <3>4. Holds(o)
            BY <2>2, <3>2, <3>3
        <3>. QED
            BY <2>2, <3>3, <3>4, ScopeOf
    <2>. QED
        BY <2>3, <2>4, <2>5
<1>. QED
    BY <1>1

\* What can be seen are parameters and the declarations of the blocks around.
LEMMA LocalsDeclare ==
    ASSUME body \in Bodies
    PROVE  \A s \in Statement : program[s].kind # "parameter" =>
               /\ OfKind("parameter") \subseteq LocalDeclarations(s)
               /\ \A d \in LocalDeclarations(s) :
                      /\ d \in Statement /\ program[d].kind \in {"parameter", "declare", "foreach"}
                      /\ \/ d \in OfKind("parameter")
                         \/ \E b \in Block : b <= ContainingBlock(s) /\ d \in DeclarationsIn(b)
<1>. DEFINE Fits(d, s) == /\ d \in Statement /\ program[d].kind \in {"parameter", "declare", "foreach"}
                          /\ \/ d \in OfKind("parameter")
                             \/ \E b \in Block : b <= ContainingBlock(s) /\ d \in DeclarationsIn(b)
            wrong == {s \in Statement : program[s].kind # "parameter" /\ \E d \in LocalDeclarations(s) : ~Fits(d, s)}
<1>1. ASSUME NEW s \in Statement, program[s].kind # "parameter" PROVE OfKind("parameter") \subseteq LocalDeclarations(s)
    BY <1>1, ScopeOf DEF Visible
<1>2. wrong = {}
    <2>. SUFFICES ASSUME wrong # {} PROVE FALSE
        OBVIOUS
    <2>1. wrong \in SUBSET Nat
        BY Numbers
    <2>2. PICK s \in wrong : \A t \in wrong : s <= t
        BY <2>1, LeastExists
    <2>3. s \in Statement /\ program[s].kind # "parameter"
        BY <2>2
    <2>4. PICK d \in LocalDeclarations(s) : ~Fits(d, s)
        BY <2>2
    <2>5. ContainingBlock(s) \in Block /\ ContainingBlock(s) \in Nat
        BY <2>3, Placement, Numbers
    <2>6. CASE d \in Visible(s)
        <3>1. d \in Statement /\ program[d].kind \in {"parameter", "declare", "foreach"}
            BY <2>3, <2>6, VisibleDeclares
        <3>2. d \in OfKind("parameter") \cup DeclarationsIn(ContainingBlock(s))
            BY <2>3, <2>6, VisibleDeclares
        <3>. QED
            BY <2>4, <2>5, <3>1, <3>2
    <2>7. CASE d \notin Visible(s)
        <3>1. PICK o \in Outer(s) : d \in LocalDeclarations(o)
            BY <2>3, <2>4, <2>7, ScopeOf
        <3>2. o \in Statement /\ o < s /\ o \in Nat /\ s \in Nat /\ program[o].kind # "parameter"
            BY <2>1, <2>2, <2>3, OuterIsBefore, Numbers, Placement DEF Compound, OfKind
        <3>3. Fits(d, o)
            <4>1. o \notin wrong
                <5>. HIDE DEF wrong
                <5>. QED
                    BY <2>1, <2>2, <3>2
            <4>. QED
                BY <3>1, <3>2, <4>1
        <3>4. ContainingBlock(o) \in Nat /\ ContainingBlock(o) <= ContainingBlock(s)
            BY <2>3, <3>1, Placement, Numbers
        <3>5. \A b \in Block : b \in Nat /\ (b <= ContainingBlock(o) => b <= ContainingBlock(s))
            BY <2>5, <3>4, Numbers
        <3>. QED
            BY <2>4, <3>3, <3>5
    <2>. QED
        BY <2>6, <2>7
<1>. QED
    BY <1>1, <1>2

-----------------------------------------------------------------------------
(* What refers to the same declaration.                                    *)

LEMMA DeclarationsApart ==
    ASSUME body \in Bodies, NEW b \in Block, NEW d \in DeclarationsIn(b)
    PROVE  /\ \A c \in Block : d \in DeclarationsIn(c) => b = c
           /\ d \in Statement /\ program[d].kind \in {"declare", "foreach"}
           /\ \/ IsIn(d, b)
              \/ \E l \in Statement : /\ IsIn(l, b) /\ program[l].kind = "for" /\ LoopVariable(l) = {d}
                                      /\ d = program[l].definition /\ d \in Header(program[l])
<1>1. ASSUME NEW c \in Block, d \in DeclarationsIn(c)
      PROVE  \/ IsIn(d, c)
             \/ \E l \in Statement : /\ IsIn(l, c) /\ program[l].kind = "for" /\ LoopVariable(l) = {d}
                                     /\ d = program[l].definition /\ d \in Header(program[l])
    <2>1. CASE d \in ToSet(body.blocks[c])
        BY <2>1 DEF IsIn
    <2>2. CASE d \notin ToSet(body.blocks[c])
        <3>1. PICK l \in ToSet(body.blocks[c]) \cap OfKind("for") : d \in LoopVariable(l)
            BY <1>1, <2>2 DEF DeclarationsIn
        <3>2. l \in Statement /\ program[l].kind = "for" /\ IsIn(l, c)
            BY <3>1 DEF OfKind, IsIn
        <3>3. LoopVariable(l) = {program[l].definition} \cap OfKind("declare")
            BY <3>2 DEF LoopVariable
        <3>4. d = program[l].definition /\ LoopVariable(l) = {d}
            BY <3>1, <3>3
        <3>5. d \in Header(program[l])
            BY <3>1, <3>2, <3>3, <3>4, Numbers DEF Header, OfKind
        <3>. QED
            BY <3>2, <3>4, <3>5
    <2>. QED
        BY <2>1, <2>2
<1>2. ASSUME NEW c \in Block, d \in DeclarationsIn(c) PROVE b = c
    <2>1. CASE IsIn(d, b) /\ IsIn(d, c)
        BY <2>1, StatementsOfBlocks
    <2>2. ASSUME NEW e \in Block, NEW l \in Statement, IsIn(d, e), d \in Header(program[l]) PROVE FALSE
        BY <2>2, Containers
    <2>3. ASSUME NEW l \in Statement, NEW m \in Statement, IsIn(l, b), IsIn(m, c),
                 d \in Header(program[l]), d \in Header(program[m])
          PROVE  b = c
        <3>1. l = m
            BY <2>3, Containers
        <3>. QED
            BY <2>3, <3>1, StatementsOfBlocks
    <2>. QED
        BY <1>1, <1>2, <2>1, <2>2, <2>3
<1>3. d \in Statement /\ program[d].kind \in {"declare", "foreach"}
    BY StatementsOfBlocks DEF DeclarationsIn, OfKind, LoopVariable
<1>. QED
    BY <1>1, <1>2, <1>3

\* Which block a declaration that can be seen is in.
LEMMA LevelOfLocal ==
    ASSUME body \in Bodies, NEW s \in Statement, program[s].kind # "parameter",
           NEW d \in LocalDeclarations(s), NEW b \in Block, d \in DeclarationsIn(b)
    PROVE  b <= ContainingBlock(s)
<1>1. d \notin OfKind("parameter")
    BY DeclarationsApart DEF OfKind
<1>2. PICK c \in Block : c <= ContainingBlock(s) /\ d \in DeclarationsIn(c)
    BY <1>1, LocalsDeclare
<1>. QED
    BY <1>2, DeclarationsApart

LEMMA VisibleIsTarget ==
    ASSUME body \in Bodies, DeclaresOncePerBlock, NEW s \in Statement, program[s].kind # "parameter",
           NEW d \in Visible(s)
    PROVE  VisibleTarget(s, program[d].name) = d /\ Target(s, program[d].name) = d
<1>. DEFINE e == VisibleTarget(s, program[d].name)
<1>1. e # Unresolved /\ e \in Visible(s) /\ program[e].name = program[d].name
    BY VisibleTargetOf
<1>2. ContainingBlock(s) \in Block
    BY Placement
<1>3. Visible(s) \subseteq DeclarationsIn(ContainingBlock(s)) \cup OfKind("parameter")
    BY VisibleDeclares
<1>4. e = d
    BY <1>1, <1>2, <1>3 DEF DeclaresOncePerBlock
<1>. QED
    BY <1>1, <1>4, TargetOf

LEMMA Inside ==
    ASSUME body \in Bodies, NEW w \in Statement
    PROVE  /\ IsInside(w, w)
           /\ \A u : IsInside(w, u) => u \in Statement /\ \A o \in Outer(u) : IsInside(w, o)
           /\ \A u : IsInside(w, u) /\ w # u => Outer(w) # {} /\ \A o \in Outer(w) : IsInside(o, u)
           /\ \A o \in Outer(w) : \A u : IsInside(o, u) => IsInside(w, u)
<1>1. IsInside(w, w)
    BY DEF IsInside
<1>2. ASSUME NEW u, IsInside(w, u) PROVE u \in Statement /\ \A o \in Outer(u) : IsInside(w, o)
    <2>1. \A t \in Statement : Outer(t) \subseteq Statement
        BY OuterIsBefore
    <2>2. u \in Statement
        BY <1>2, <2>1 DEF IsInside
    <2>3. ASSUME NEW o \in Outer(u), NEW S \in SUBSET Statement, w \in S, \A t \in S : Outer(t) \subseteq S
          PROVE  o \in S
        BY <1>2, <2>3 DEF IsInside
    <2>. QED
        BY <2>2, <2>3 DEF IsInside
<1>3. ASSUME NEW u, IsInside(w, u), w # u PROVE Outer(w) # {} /\ \A o \in Outer(w) : IsInside(o, u)
    <2>1. ASSUME Outer(w) = {} PROVE FALSE
        <3>1. {w} \in SUBSET Statement /\ \A t \in {w} : Outer(t) \subseteq {w}
            BY <2>1
        <3>. QED
            BY <1>3, <3>1 DEF IsInside
    <2>2. ASSUME NEW o \in Outer(w), NEW S \in SUBSET Statement, o \in S, \A t \in S : Outer(t) \subseteq S
          PROVE  u \in S
        <3>1. Outer(w) = {o}
            BY OuterIsBefore
        <3>2. S \cup {w} \in SUBSET Statement /\ \A t \in S \cup {w} : Outer(t) \subseteq S \cup {w}
            BY <2>2, <3>1
        <3>3. u \in S \cup {w}
            BY <1>3, <3>2 DEF IsInside
        <3>. QED
            BY <1>3, <3>3
    <2>. QED
        BY <2>1, <2>2 DEF IsInside
<1>4. ASSUME NEW o \in Outer(w), NEW u, IsInside(o, u),
             NEW S \in SUBSET Statement, w \in S, \A t \in S : Outer(t) \subseteq S
      PROVE  u \in S
    BY <1>4 DEF IsInside
<1>. QED
    BY <1>1, <1>2, <1>3, <1>4 DEF IsInside

LEMMA InsideTwice ==
    ASSUME NEW w, NEW v, NEW u, IsInside(w, v), IsInside(v, u)
    PROVE  IsInside(w, u)
BY DEF IsInside

\* What can be seen from a statement can be seen from inside it.
LEMMA LocalsGrow ==
    ASSUME body \in Bodies, NEW w \in Statement, NEW u, IsInside(w, u)
    PROVE  LocalDeclarations(u) \subseteq LocalDeclarations(w)
<1>. DEFINE S == {x \in Statement : LocalDeclarations(x) \subseteq LocalDeclarations(w)}
<1>1. ASSUME NEW x \in S, NEW o \in Outer(x) PROVE o \in S
    <2>1. o \in Statement /\ LocalDeclarations(o) \subseteq LocalDeclarations(x)
        BY OuterIsBefore, ScopeOf
    <2>. QED
        BY <2>1
<1>2. u \in S
    <2>1. S \in SUBSET Statement /\ w \in S
        OBVIOUS
    <2>. HIDE DEF S
    <2>. QED
        BY <1>1, <2>1 DEF IsInside
<1>. QED
    BY <1>2

LEMMA InsideIsDeeper ==
    ASSUME body \in Bodies, NEW w \in Statement, NEW u, IsInside(w, u), w # u, NEW b \in Block, IsIn(w, b)
    PROVE  ContainingBlock(u) < b
<1>. DEFINE S == {w} \cup {x \in Statement : program[x].kind # "parameter" /\ ContainingBlock(x) < b}
<1>1. ContainingBlock(w) = b /\ program[w].kind # "parameter" /\ b \in Nat
    BY ContainingBlocks, Numbers
<1>2. ASSUME NEW x \in S, NEW o \in Outer(x) PROVE o \in S
    <2>1. x \in Statement /\ program[x].kind # "parameter"
        BY <1>1
    <2>2. o \in Statement /\ program[o].kind # "parameter"
        BY <2>1, Placement DEF Compound, OfKind
    <2>3. ContainingBlock(o) \in Nat /\ ContainingBlock(x) \in Nat /\ ContainingBlock(o) <= ContainingBlock(x)
        BY <2>1, Placement, Numbers
    <2>4. CASE x = w
        BY <1>1, <2>1, <2>2, <2>4, Placement
    <2>5. CASE x # w
        BY <1>1, <2>2, <2>3, <2>5
    <2>. QED
        BY <2>4, <2>5
<1>3. u \in S
    BY <1>2 DEF IsInside
<1>. QED
    BY <1>3

\* What a name refers to inside a statement, and can be seen from the statement,
\* is what it refers to in the statement itself.
LEMMA TargetsAgree ==
    ASSUME body \in Bodies, DeclaresOncePerBlock, NEW w \in Statement, NEW u, IsInside(w, u),
           NEW b \in Block, IsIn(w, b), NEW c \in Block, IsIn(u, c), NEW n,
           Target(w, n) \in LocalDeclarations(u)
    PROVE  Target(w, n) = Target(u, n)
<1>. DEFINE T == Target(w, n)
            Placed(x) == program[x].kind # "parameter" /\ IsIn(x, ContainingBlock(x)) /\ ContainingBlock(x) \in Block
            S == {x \in Statement : /\ Placed(x)
                                    /\ \/ c < ContainingBlock(x) /\ Target(x, n) = T
                                       \/ ContainingBlock(x) <= c /\ x # u}
<1>1. u \in Statement /\ Placed(u) /\ Placed(w) /\ ContainingBlock(u) = c /\ ContainingBlock(w) = b
    BY StatementsOfBlocks, ContainingBlocks
<1>2. b \in Nat /\ c \in Nat /\ \A x : Placed(x) => ContainingBlock(x) \in Nat
    BY Numbers
<1>. SUFFICES ASSUME T # Target(u, n) PROVE FALSE
    OBVIOUS
<1>3. w # u /\ c < b
    BY <1>1, InsideIsDeeper
<1>4. w \in S
    BY <1>1, <1>2, <1>3
<1>5. program[T].name = n /\ T \in Statement
    BY <1>1, TargetIsLocal, LocalsDeclare, Numbers
<1>6. ASSUME NEW x \in S, NEW o \in Outer(x) PROVE o \in S
    <2>1. x \in Statement /\ Placed(x)
        OBVIOUS
    <2>2. o \in Statement /\ Placed(o) /\ ContainingBlock(o) < ContainingBlock(x)
        BY <2>1, Placement DEF Compound, OfKind
    <2>3. CASE c < ContainingBlock(x) /\ Target(x, n) = T
        <3>1. VisibleTarget(x, n) = Unresolved
            <4>. SUFFICES ASSUME VisibleTarget(x, n) # Unresolved PROVE FALSE
                OBVIOUS
            <4>1. T \in Visible(x)
                BY <2>1, <2>3, TargetOf, VisibleTargetOf
            <4>2. T \in OfKind("parameter") \cup DeclarationsIn(ContainingBlock(x))
                BY <2>1, <4>1, VisibleDeclares
            <4>3. CASE T \in OfKind("parameter")
                <5>1. T \in Visible(u)
                    BY <4>3 DEF Visible
                <5>. QED
                    BY <1>1, <1>5, <5>1, VisibleIsTarget
            <4>4. CASE T \in DeclarationsIn(ContainingBlock(x))
                <5>1. ContainingBlock(x) <= c
                    BY <1>1, <2>1, <4>4, LevelOfLocal
                <5>. QED
                    BY <1>2, <2>1, <2>3, <5>1
            <4>. QED
                BY <4>2, <4>3, <4>4
        <3>2. Target(o, n) = T
            BY <2>1, <2>3, <3>1, TargetOf
        <3>. QED
            BY <1>2, <2>2, <3>2
    <2>4. CASE ContainingBlock(x) <= c /\ x # u
        <3>1. ContainingBlock(o) < c
            BY <1>2, <2>1, <2>2, <2>4
        <3>. QED
            BY <1>1, <1>2, <2>2, <3>1
    <2>. QED
        BY <2>3, <2>4
<1>7. u \in S
    <2>. HIDE DEF S
    <2>1. S \in SUBSET Statement
        BY DEF S
    <2>. QED
        BY <1>4, <1>6, <2>1 DEF IsInside
<1>. QED
    BY <1>1, <1>2, <1>7

\* What the header of a loop refers to, its condition refers to as well.
LEMMA HeadersAgree ==
    ASSUME body \in Bodies, DeclaresOncePerBlock, HeadersLookBack, links = Link,
           NEW l \in Statement, NEW b \in Block, IsIn(l, b), NEW h \in Header(program[l]), NEW n \in References(h)
    PROVE  Target(h, n) = Target(l, n)
<1>1. /\ program[l].kind = "for" /\ l \in OfKind("for") /\ h \in Statement /\ Outer(h) = {l}
      /\ program[h].kind \in {"declare", "assign"}
    BY Containers, ContainingBlocks DEF Header, OfKind
<1>2. CASE VisibleTarget(h, n) = Unresolved
    BY <1>1, <1>2, TargetOf
<1>3. CASE VisibleTarget(h, n) # Unresolved
    <2>. DEFINE p == Target(h, n)
    <2>1. p = VisibleTarget(h, n) /\ p \in Visible(h) /\ program[p].name = n
        BY <1>1, <1>3, TargetOf, VisibleTargetOf
    <2>2. links[h][n] = p
        BY <1>1 DEF Link
    <2>3. ContainingBlock(h) = b /\ ContainingBlock(l) = b /\ program[l].kind # "parameter" /\ b \in Nat
        BY <1>1, ContainingBlocks, Numbers
    <2>4. ASSUME p \in Visible(l) PROVE Target(l, n) = p
        BY <2>1, <2>3, <2>4, VisibleIsTarget
    <2>5. CASE p \in PlaceholdersUpToStatement(l) \cup OfKind("parameter")
        BY <2>4, <2>5 DEF Visible
    <2>6. CASE p = program[l].definition
        <3>1. program[p].kind \in {"parameter", "declare", "foreach"}
            BY <1>1, <2>1, VisibleDeclares
        <3>2. p \in Header(program[l])
            BY <1>1, <2>1, <2>3, <2>6, VisibleDeclares, Numbers DEF Header
        <3>3. program[p].kind = "declare" /\ p \in Statement
            BY <3>1, <3>2, Containers
        <3>4. p \in LoopVariable(l)
            BY <1>1, <2>6, <3>3 DEF LoopVariable, OfKind
        <3>. QED
            BY <2>4, <3>4 DEF Visible
    <2>7. CASE \E o \in Outer(l) : p \in LocalDeclarations(o)
        <3>1. PICK o \in Outer(l) : p \in LocalDeclarations(o)
            BY <2>7
        <3>2. o \in Statement /\ program[o].kind # "parameter" /\ ContainingBlock(o) < b /\ ContainingBlock(o) \in Nat
            BY <2>3, Placement, Numbers DEF Compound, OfKind
        <3>3. p \notin DeclarationsIn(b)
            BY <2>3, <3>1, <3>2, LevelOfLocal
        <3>4. p \in OfKind("parameter")
            BY <1>1, <2>1, <2>3, <3>3, VisibleDeclares
        <3>. QED
            BY <2>4, <3>4 DEF Visible
    <2>8. \/ p \in PlaceholdersUpToStatement(l) \cup OfKind("parameter")
          \/ h = program[l].iteration /\ p = program[l].definition
          \/ \E o \in Outer(l) : p \in LocalDeclarations(o)
        BY <1>1, <2>2 DEF HeadersLookBack
    <2>. QED
        BY <2>4, <2>5, <2>6, <2>7, <2>8
<1>. QED
    BY <1>2, <1>3

\* What is assigned inside a statement, and can be seen from the statement, is
\* what the statement itself would refer to.
LEMMA WritersAreGood ==
    ASSUME body \in Bodies, DeclaresOncePerBlock, HeadersLookBack, links = Link,
           NEW u, NEW b \in Block, IsIn(u, b), NEW w \in Statement, IsInside(w, u), NEW n
    PROVE  IsGood(w, u, n)
<1>. DEFINE d == DeclarationOf(w)
<1>. SUFFICES ASSUME d \in LocalDeclarations(u), program[d].name = n PROVE d = Target(u, n)
    BY DEF IsGood
<1>1. u \in Statement /\ program[u].kind # "parameter" /\ ContainingBlock(u) = b /\ b \in Nat
    BY StatementsOfBlocks, ContainingBlocks, Numbers
<1>2. d \in Statement /\ program[d].kind \in {"parameter", "declare", "foreach"}
    BY <1>1, LocalsDeclare
<1>3. ASSUME d \in Visible(u) PROVE d = Target(u, n)
    BY <1>1, <1>3, VisibleIsTarget
<1>4. CASE d \in OfKind("parameter")
    BY <1>3, <1>4 DEF Visible
<1>5. CASE program[w].kind = "assign"
    <2>1. d = Target(w, program[w].name)
        BY <1>5 DEF DeclarationOf, Link, References
    <2>2. d # Unresolved
        BY <1>2, Numbers
    <2>3. program[w].name = n
        BY <1>5, <2>1, <2>2, TargetIsLocal
    <2>4. CASE \E c \in Block : IsIn(w, c)
        BY <1>1, <2>1, <2>3, <2>4, TargetsAgree
    <2>5. CASE ~ \E c \in Block : IsIn(w, c)
        <3>1. PICK l \in Outer(w) : w \in Header(program[l])
            BY <1>5, <2>5, Placement
        <3>2. l \in Statement /\ IsIn(l, ContainingBlock(l)) /\ ContainingBlock(l) \in Block
            BY <1>5, <3>1, Placement, OuterIsBefore
        <3>3. w # u
            BY <2>5
        <3>4. IsInside(l, u)
            BY <3>1, <3>3, Inside
        <3>5. n \in References(w)
            BY <1>5, <2>3 DEF References
        <3>6. Target(w, n) = Target(l, n)
            BY <3>1, <3>2, <3>5, HeadersAgree
        <3>. QED
            BY <2>1, <2>3, <3>2, <3>4, <3>6, TargetsAgree
    <2>. QED
        BY <2>4, <2>5
<1>6. CASE program[w].kind # "assign" /\ d \notin OfKind("parameter")
    <2>1. d = w /\ program[w].kind \in {"declare", "foreach"} /\ program[w].kind # "parameter"
        BY <1>2, <1>6 DEF DeclarationOf, OfKind
    <2>2. PICK c \in Block : c <= b /\ w \in DeclarationsIn(c)
        BY <1>1, <1>6, <2>1, LocalsDeclare
    <2>3. c \in Nat
        BY Numbers
    <2>4. CASE IsIn(w, c)
        <3>1. w = u
            BY <1>1, <2>2, <2>3, <2>4, InsideIsDeeper
        <3>2. CASE program[w].kind = "foreach"
            BY <1>3, <2>1, <3>1, <3>2 DEF Visible, LoopVariable
        <3>3. CASE program[w].kind = "declare"
            <4>1. u \notin Visible(u)
                <5>1. LoopVariable(u) = {}
                    BY <3>1, <3>3 DEF LoopVariable
                <5>2. u \notin PlaceholdersUpToStatement(u)
                    <6>1. body.blocks[ContainingBlock(u)] \in Seq(Statement)
                        BY <1>1, StatementsOfBlocks
                    <6>2. \A i \in DOMAIN body.blocks[ContainingBlock(u)] : i \in 1 .. i
                        BY <6>1
                    <6>. QED
                        BY <6>2 DEF PlaceholdersUpToStatement
                <5>. QED
                    BY <1>1, <5>1, <5>2 DEF Visible, OfKind
            <4>2. PICK o \in Outer(u) : u \in LocalDeclarations(o)
                BY <1>1, <2>1, <3>1, <4>1, ScopeOf
            <4>3. o \in Statement /\ program[o].kind # "parameter" /\ ContainingBlock(o) < b /\ ContainingBlock(o) \in Nat
                BY <1>1, Placement, Numbers DEF Compound, OfKind
            <4>4. c = b
                BY <2>4, <3>1, StatementsOfBlocks
            <4>. QED
                BY <1>1, <2>2, <3>1, <4>2, <4>3, <4>4, LevelOfLocal
        <3>. QED
            BY <2>1, <3>2, <3>3
    <2>5. CASE ~IsIn(w, c)
        <3>1. PICK l \in Statement : IsIn(l, c) /\ program[l].kind = "for" /\ LoopVariable(l) = {w} /\ w \in Header(program[l])
            BY <2>2, <2>5, DeclarationsApart
        <3>2. w # u /\ l \in Outer(w)
            BY <3>1, Containers, Owners
        <3>3. IsInside(l, u)
            BY <3>2, Inside
        <3>4. CASE l = u
            BY <1>3, <2>1, <3>1, <3>4 DEF Visible
        <3>5. CASE l # u
            BY <1>1, <2>2, <2>3, <3>1, <3>3, <3>5, InsideIsDeeper
        <3>. QED
            BY <3>4, <3>5
    <2>. QED
        BY <2>4, <2>5
<1>. QED
    BY <1>2, <1>4, <1>5, <1>6 DEF OfKind

-----------------------------------------------------------------------------
(* The code of a sequence of statements.                                   *)

Executable == {s \in Statement : program[s].kind # "parameter"}

\* A for loop may have no definition.
HasDefinition(s) == program[s].kind = "for" /\ program[s].definition # NoStatement

HeaderItem(s) == Assign(program[s].definition)

MainItem(s) ==
    CASE program[s].kind \in {"declare", "assign"} -> Assign(s)
      [] program[s].kind \in {"expression", "return", "if", "while"} -> Simple(program[s].kind, s)
      [] program[s].kind = "timespan" -> Simple("if", s)
      [] program[s].kind = "for" -> Simple("while", s)
      [] program[s].kind = "foreach" -> Python("for", s, {program[s].name})

\* Where the items of some code come from.
IsCodeOf(code, statements, at) ==
    /\ code \in Seq(Item)
    /\ at \in [DOMAIN code -> DOMAIN statements]
    /\ \A i, j \in DOMAIN code : i < j => at[i] <= at[j]
    /\ \A i \in DOMAIN code :
           LET s == statements[at[i]]
           IN  \/ code[i] = MainItem(s)
               \/ HasDefinition(s) /\ code[i] = HeaderItem(s)
    /\ \A q \in DOMAIN statements : \E i \in DOMAIN code : at[i] = q /\ code[i] = MainItem(statements[q])
    /\ \A i \in DOMAIN code :
           HasDefinition(statements[at[i]]) /\ code[i] = MainItem(statements[at[i]])
           => i - 1 \in DOMAIN code /\ at[i - 1] = at[i] /\ code[i - 1] = HeaderItem(statements[at[i]])

LEMMA Concatenation ==
    ASSUME NEW T, NEW c \in Seq(T), NEW d \in Seq(T)
    PROVE  /\ c \o d \in Seq(T) /\ Len(c \o d) = Len(c) + Len(d)
           /\ DOMAIN c = 1 .. Len(c) /\ DOMAIN d = 1 .. Len(d) /\ DOMAIN (c \o d) = 1 .. Len(c) + Len(d)
           /\ Len(c) \in Nat /\ Len(d) \in Nat
           /\ \A i \in 1 .. Len(c) : (c \o d)[i] = c[i]
           /\ \A i \in 1 .. Len(d) : (c \o d)[Len(c) + i] = d[i]
           /\ \A i \in 1 .. Len(c) + Len(d) : i > Len(c) => i - Len(c) \in 1 .. Len(d) /\ (c \o d)[i] = d[i - Len(c)]
OBVIOUS

LEMMA ItemsOf ==
    ASSUME body \in Bodies, NEW s \in Executable
    PROVE  /\ MainItem(s) \in Item /\ MainItem(s).source = s
           /\ HasDefinition(s) =>
                  /\ HeaderItem(s) \in Item /\ HeaderItem(s).source = program[s].definition
                  /\ program[s].definition \in Header(program[s])
                  /\ HeaderItem(s).op = "assign" /\ HeaderItem(s).names = {program[program[s].definition].name}
           /\ GenerateStatement(s) = IF HasDefinition(s) THEN <<HeaderItem(s), MainItem(s)>>
                                     ELSE <<MainItem(s)>>
<1>1. program[s].kind \in Kinds \ {"parameter"} /\ s \in Statement
    BY Containers DEF Executable
<1>2. ASSUME NEW t \in Statement, program[t].kind \in {"declare", "assign"}
      PROVE  Assign(t) \in Item
    BY <1>2 DEF Item, Assign, Python, NamesOf, WordsOf
<1>3. ASSUME HasDefinition(s)
      PROVE  program[s].definition \in Header(program[s]) /\ HeaderItem(s) \in Item
    <2>1. program[s].definition \in Header(program[s])
        BY <1>1, <1>3, Containers DEF Header, HasDefinition
    <2>2. program[s].definition \in Statement /\ program[program[s].definition].kind \in {"declare", "assign"}
        BY <1>1, <2>1, Containers
    <2>. QED
        BY <1>2, <2>1, <2>2 DEF HeaderItem
<1>4. CASE program[s].kind \in {"declare", "assign"}
    BY <1>1, <1>2, <1>4 DEF MainItem, GenerateStatement, Assign, Python, HasDefinition
<1>5. CASE program[s].kind \in {"expression", "return", "if", "while"}
    BY <1>1, <1>5 DEF MainItem, GenerateStatement, Simple, Python, Item, HasDefinition
<1>6. CASE program[s].kind = "timespan"
    BY <1>1, <1>6 DEF MainItem, GenerateStatement, Simple, Python, Item, HasDefinition
<1>7. CASE program[s].kind = "for"
    <2>1. MainItem(s) \in Item /\ MainItem(s).source = s
        BY <1>1, <1>7 DEF MainItem, Simple, Python, Item
    <2>2. GenerateStatement(s) = IF HasDefinition(s) THEN <<HeaderItem(s), MainItem(s)>> ELSE <<MainItem(s)>>
        BY <1>7 DEF MainItem, HeaderItem, GenerateStatement, HasDefinition
    <2>. QED
        BY <1>3, <1>7, <2>1, <2>2 DEF HeaderItem, Assign, Python
<1>8. CASE program[s].kind = "foreach"
    <2>1. {program[s].name} \in SUBSET WordsOf(Statement)
        BY <1>1 DEF NamesOf, WordsOf
    <2>2. MainItem(s) = Python("for", s, {program[s].name}) /\ GenerateStatement(s) = <<MainItem(s)>>
        BY <1>8 DEF MainItem, GenerateStatement
    <2>3. Python("for", s, {program[s].name}) \in Item /\ Python("for", s, {program[s].name}).source = s
        BY <1>1, <1>8, <2>1 DEF Python, Item
    <2>. QED
        BY <1>8, <2>2, <2>3 DEF HasDefinition
<1>. QED
    BY <1>1, <1>4, <1>5, <1>6, <1>7, <1>8 DEF Kinds

LEMMA CodeCanBeGenerated ==
    ASSUME NEW N \in Nat, NEW statements
    PROVE  \E f : f = [i \in 0 .. N |-> IF i = 0 THEN <<>> ELSE f[i - 1] \o GenerateStatement(statements[i])]
<1>. DEFINE Value(i, f) == IF i = 0 THEN <<>> ELSE f[i - 1] \o GenerateStatement(statements[i])
            IsComputed(k, f) == f = [i \in 0 .. k |-> f[i]] /\ \A i \in 0 .. k : f[i] = Value(i, f)
            missing == {k \in 0 .. N : ~ \E f : IsComputed(k, f)}
<1>1. missing = {}
    <2>. SUFFICES ASSUME missing # {} PROVE FALSE
        OBVIOUS
    <2>1. PICK k \in missing : \A j \in missing : k <= j
        <3>1. missing \in SUBSET Nat
            OBVIOUS
        <3>. QED
            BY <3>1, LeastExists
    <2>2. k # 0
        <3>. DEFINE none == [i \in 0 .. 0 |-> <<>>]
        <3>1. IsComputed(0, none)
            OBVIOUS
        <3>. HIDE DEF IsComputed, none
        <3>. QED
            BY <2>1, <3>1
    <2>3. k \in Nat /\ k <= N /\ k - 1 \in 0 .. N /\ k - 1 < k
        BY <2>1, <2>2
    <2>4. PICK f : IsComputed(k - 1, f)
        <3>1. k - 1 \notin missing
            <4>. HIDE DEF missing
            <4>. QED
                BY <2>1, <2>3
        <3>. HIDE DEF IsComputed
        <3>. QED
            BY <2>3, <3>1
    <2>. DEFINE g == [i \in 0 .. k |-> IF i = k THEN Value(k, f) ELSE f[i]]
    <2>5. ASSUME NEW i \in 0 .. k PROVE Value(i, f) = Value(i, g)
        <3>1. i # 0 => i - 1 \in 0 .. k /\ i - 1 # k
            BY <2>3
        <3>2. i # 0 => f[i - 1] = g[i - 1]
            BY <3>1
        <3>. HIDE DEF g
        <3>. QED
            BY <3>2
    <2>6. \A i \in 0 .. k : g[i] = Value(i, f)
        <3>1. ASSUME NEW i \in 0 .. k PROVE i = k \/ i \in 0 .. k - 1
            BY <2>3
        <3>. HIDE DEF Value
        <3>. QED
            BY <2>4, <3>1
    <2>7. IsComputed(k, g)
        <3>1. \A i \in 0 .. k : g[i] = Value(i, g)
            <4>. HIDE DEF g, Value
            <4>. QED
                BY <2>5, <2>6
        <3>. QED
            BY <3>1
    <2>. QED
        BY <2>1, <2>7
<1>2. PICK f : IsComputed(N, f)
    BY <1>1
<1>. QED
    BY <1>2

LEMMA GeneratedUpTo ==
    ASSUME NEW statements \in Seq(Statement)
    PROVE  \E upTo : /\ upTo[0] = <<>>
                     /\ \A i \in 1 .. Len(statements) : upTo[i] = upTo[i - 1] \o GenerateStatement(statements[i])
                     /\ GenerateStatements(statements) = upTo[Len(statements)]
<1>. DEFINE N == Len(statements)
            upTo == CHOOSE f : f = [i \in 0 .. N |-> IF i = 0 THEN <<>> ELSE f[i - 1] \o GenerateStatement(statements[i])]
<1>1. N \in Nat
    OBVIOUS
<1>2. upTo = [i \in 0 .. N |-> IF i = 0 THEN <<>> ELSE upTo[i - 1] \o GenerateStatement(statements[i])]
    <2>. HIDE DEF N
    <2>. QED
        BY <1>1, CodeCanBeGenerated
<1>3. GenerateStatements(statements) = upTo[N]
    BY DEF GenerateStatements
<1>. HIDE DEF upTo
<1>4. upTo[0] = <<>> /\ \A i \in 1 .. N : upTo[i] = upTo[i - 1] \o GenerateStatement(statements[i])
    BY <1>1, <1>2
<1>. QED
    BY <1>3, <1>4

LEMMA CodeOfOneMore ==
    ASSUME body \in Bodies, NEW statements \in Seq(Executable), NEW i \in 1 .. Len(statements), NEW c, NEW at,
           IsCodeOf(c, [q \in 1 .. i - 1 |-> statements[q]], at)
    PROVE  \E new : IsCodeOf(c \o GenerateStatement(statements[i]), [q \in 1 .. i |-> statements[q]], new)
<1>. DEFINE s == statements[i]
            g == GenerateStatement(s)
            before == [q \in 1 .. i - 1 |-> statements[q]]
            upTo == [q \in 1 .. i |-> statements[q]]
            all == c \o g
            new == [k \in 1 .. Len(c) + Len(g) |-> IF k <= Len(c) THEN at[k] ELSE i]
<1>1. s \in Executable /\ i \in Nat /\ i >= 1
    OBVIOUS
<1>2. c \in Seq(Item) /\ at \in [DOMAIN c -> 1 .. i - 1]
    BY DEF IsCodeOf
<1>3. /\ g \in Seq(Item) /\ Len(g) \in {1, 2} /\ g[Len(g)] = MainItem(s)
      /\ Len(g) = 2 => HasDefinition(s) /\ g[1] = HeaderItem(s)
      /\ HasDefinition(s) => Len(g) = 2
      /\ Len(g) \in Nat /\ Len(g) >= 1
    <2>1. CASE HasDefinition(s)
        <3>1. g = <<HeaderItem(s), MainItem(s)>> /\ HeaderItem(s) \in Item /\ MainItem(s) \in Item
            BY <1>1, <2>1, ItemsOf
        <3>. HIDE DEF g, s
        <3>. QED
            BY <2>1, <3>1
    <2>2. CASE ~HasDefinition(s)
        <3>1. g = <<MainItem(s)>> /\ MainItem(s) \in Item
            BY <1>1, <2>2, ItemsOf
        <3>. HIDE DEF g, s
        <3>. QED
            BY <2>2, <3>1
    <2>. QED
        BY <2>1, <2>2
<1>. HIDE DEF g
<1>4. /\ all \in Seq(Item) /\ DOMAIN all = 1 .. Len(c) + Len(g) /\ DOMAIN c = 1 .. Len(c)
      /\ Len(c) \in Nat /\ Len(g) \in Nat
      /\ \A k \in 1 .. Len(c) : all[k] = c[k]
      /\ \A k \in 1 .. Len(g) : all[Len(c) + k] = g[k]
    BY <1>2, <1>3, Concatenation
<1>. HIDE DEF all
<1>5. \A k \in 1 .. Len(c) : /\ k \in DOMAIN all /\ new[k] = at[k] /\ at[k] \in 1 .. i - 1
                             /\ upTo[at[k]] = statements[at[k]] /\ before[at[k]] = statements[at[k]]
    BY <1>1, <1>2, <1>4
<1>6. \A k \in DOMAIN all : k > Len(c) => /\ k \notin 1 .. Len(c) /\ new[k] = i
                                          /\ k - Len(c) \in 1 .. Len(g) /\ all[k] = g[k - Len(c)]
    BY <1>4
<1>7. \A k \in DOMAIN all : k \in 1 .. Len(c) \/ k > Len(c)
    BY <1>4
<1>8. upTo[i] = s /\ DOMAIN upTo = 1 .. i /\ DOMAIN before = 1 .. i - 1
    BY <1>1
<1>9. new \in [DOMAIN all -> DOMAIN upTo]
    <2>1. ASSUME NEW k \in DOMAIN all PROVE new[k] \in 1 .. i
        <3>. HIDE DEF new
        <3>1. CASE k \in 1 .. Len(c)
            <4>1. new[k] \in 1 .. i - 1
                BY <1>5, <3>1
            <4>. QED
                BY <1>1, <4>1
        <3>2. CASE k > Len(c)
            BY <1>1, <1>6, <3>2
        <3>. QED
            BY <1>7, <3>1, <3>2
    <2>. QED
        BY <1>4, <1>8, <2>1
<1>. HIDE DEF new, upTo
<1>10. \A k, m \in DOMAIN all : k < m => new[k] <= new[m]
    <2>. SUFFICES ASSUME NEW k \in DOMAIN all, NEW m \in DOMAIN all, k < m PROVE new[k] <= new[m]
        OBVIOUS
    <2>1. CASE m \in 1 .. Len(c)
        <3>1. k \in 1 .. Len(c)
            BY <1>4, <2>1
        <3>2. at[k] <= at[m]
            BY <1>4, <2>1, <3>1 DEF IsCodeOf
        <3>. QED
            BY <1>5, <2>1, <3>1, <3>2
    <2>2. CASE m > Len(c)
        <3>1. new[m] = i
            BY <1>6, <2>2
        <3>2. new[k] \in 1 .. i
            BY <1>8, <1>9
        <3>. QED
            BY <1>1, <3>1, <3>2
    <2>. QED
        BY <1>7, <2>1, <2>2
<1>11. \A k \in DOMAIN all : \/ all[k] = MainItem(upTo[new[k]])
                             \/ HasDefinition(upTo[new[k]]) /\ all[k] = HeaderItem(upTo[new[k]])
    <2>. SUFFICES ASSUME NEW k \in DOMAIN all
                  PROVE  \/ all[k] = MainItem(upTo[new[k]])
                         \/ HasDefinition(upTo[new[k]]) /\ all[k] = HeaderItem(upTo[new[k]])
        OBVIOUS
    <2>1. CASE k \in 1 .. Len(c)
        <3>1. \/ c[k] = MainItem(before[at[k]])
              \/ HasDefinition(before[at[k]]) /\ c[k] = HeaderItem(before[at[k]])
            BY <1>4, <2>1 DEF IsCodeOf
        <3>. QED
            BY <1>4, <1>5, <2>1, <3>1
    <2>2. CASE k > Len(c)
        BY <1>3, <1>6, <1>8, <2>2
    <2>. QED
        BY <1>7, <2>1, <2>2
<1>12. \A q \in DOMAIN upTo : \E k \in DOMAIN all : new[k] = q /\ all[k] = MainItem(upTo[q])
    <2>. SUFFICES ASSUME NEW q \in 1 .. i PROVE \E k \in DOMAIN all : new[k] = q /\ all[k] = MainItem(upTo[q])
        BY <1>8
    <2>1. CASE q = i
        <3>. DEFINE k == Len(c) + Len(g)
        <3>1. k \in DOMAIN all /\ k > Len(c) /\ k - Len(c) = Len(g) /\ Len(g) \in 1 .. Len(g)
            <4>1. Len(g) \in Nat /\ Len(g) >= 1 /\ Len(c) \in Nat
                BY <1>3, <1>4
            <4>2. k = Len(c) + Len(g) /\ k \in 1 .. Len(c) + Len(g)
                BY <4>1
            <4>. QED
                BY <1>4, <4>1, <4>2
        <3>2. all[k] = g[Len(g)]
            BY <1>4, <3>1
        <3>. HIDE DEF k
        <3>. QED
            BY <1>3, <1>6, <1>8, <2>1, <3>1, <3>2
    <2>2. CASE q # i
        <3>1. q \in 1 .. i - 1
            BY <1>1, <2>2
        <3>2. PICK k \in DOMAIN c : at[k] = q /\ c[k] = MainItem(before[q])
            BY <1>8, <3>1 DEF IsCodeOf
        <3>. QED
            BY <1>4, <1>5, <3>2
    <2>. QED
        BY <2>1, <2>2
<1>13. \A k \in DOMAIN all :
           HasDefinition(upTo[new[k]]) /\ all[k] = MainItem(upTo[new[k]])
           => k - 1 \in DOMAIN all /\ new[k - 1] = new[k] /\ all[k - 1] = HeaderItem(upTo[new[k]])
    <2>. SUFFICES ASSUME NEW k \in DOMAIN all, HasDefinition(upTo[new[k]]), all[k] = MainItem(upTo[new[k]])
                  PROVE  k - 1 \in DOMAIN all /\ new[k - 1] = new[k] /\ all[k - 1] = HeaderItem(upTo[new[k]])
        OBVIOUS
    <2>1. CASE k \in 1 .. Len(c)
        <3>1. HasDefinition(before[at[k]]) /\ c[k] = MainItem(before[at[k]])
            BY <1>4, <1>5, <2>1
        <3>2. k - 1 \in DOMAIN c /\ at[k - 1] = at[k] /\ c[k - 1] = HeaderItem(before[at[k]])
            BY <1>4, <2>1, <3>1 DEF IsCodeOf
        <3>. QED
            BY <1>4, <1>5, <2>1, <3>2
    <2>2. CASE k > Len(c)
        <3>1. HasDefinition(s) /\ Len(g) = 2 /\ all[k] = MainItem(s) /\ new[k] = i
            BY <1>3, <1>6, <1>8, <2>2
        <3>2. HeaderItem(s) # MainItem(s)
            BY <1>1, <3>1, ItemsOf DEF MainItem, HeaderItem, Assign, Simple, Python, HasDefinition
        <3>3. k = Len(c) + 2
            <4>1. k = Len(c) + 1 \/ k = Len(c) + 2
                BY <1>4, <1>6, <2>2, <3>1
            <4>2. k = Len(c) + 1 => all[k] = HeaderItem(s)
                BY <1>3, <1>4, <3>1
            <4>. QED
                BY <3>1, <3>2, <4>1, <4>2
        <3>4. k - 1 = Len(c) + 1 /\ k - 1 \in DOMAIN all /\ k - 1 > Len(c) /\ (k - 1) - Len(c) = 1
            BY <1>4, <3>1, <3>3
        <3>5. new[k - 1] = i /\ all[k - 1] = g[1]
            BY <1>6, <3>4
        <3>. QED
            BY <1>3, <1>8, <3>1, <3>4, <3>5
    <2>. QED
        BY <1>7, <2>1, <2>2
<1>14. IsCodeOf(all, upTo, new)
    BY <1>4, <1>9, <1>10, <1>11, <1>12, <1>13, Zenon DEF IsCodeOf
<1>. QED
    BY <1>14 DEF all, upTo, g

LEMMA CodeOfStatements ==
    ASSUME body \in Bodies, NEW statements \in Seq(Executable)
    PROVE  \E at : IsCodeOf(GenerateStatements(statements), statements, at)
<1>. DEFINE N == Len(statements)
            First(i) == [q \in 1 .. i |-> statements[q]]
<1>1. statements \in Seq(Statement) /\ N \in Nat
    BY DEF Executable
<1>2. PICK upTo : /\ upTo[0] = <<>>
                  /\ \A i \in 1 .. N : upTo[i] = upTo[i - 1] \o GenerateStatement(statements[i])
                  /\ GenerateStatements(statements) = upTo[N]
    BY <1>1, GeneratedUpTo
<1>. DEFINE wrong == {i \in 0 .. N : ~ \E at : IsCodeOf(upTo[i], First(i), at)}
<1>3. wrong = {}
    <2>. SUFFICES ASSUME wrong # {} PROVE FALSE
        OBVIOUS
    <2>1. PICK i \in wrong : \A j \in wrong : i <= j
        <3>1. wrong \in SUBSET Nat
            OBVIOUS
        <3>. QED
            BY <3>1, LeastExists
    <2>2. CASE i = 0
        <3>. DEFINE none == [k \in {} |-> 0]
        <3>1. IsCodeOf(<<>>, First(0), none)
            BY DEF IsCodeOf
        <3>. HIDE DEF First, none
        <3>. QED
            BY <1>2, <2>1, <2>2, <3>1
    <2>3. CASE i # 0
        <3>1. i \in 1 .. N /\ i - 1 \in 0 .. N /\ i - 1 < i
            BY <1>1, <2>1, <2>3
        <3>2. i - 1 \notin wrong
            <4>. HIDE DEF wrong
            <4>. QED
                BY <2>1, <3>1
        <3>3. PICK at : IsCodeOf(upTo[i - 1], First(i - 1), at)
            <4>. HIDE DEF First
            <4>. QED
                BY <3>1, <3>2
        <3>4. \E new : IsCodeOf(upTo[i - 1] \o GenerateStatement(statements[i]), First(i), new)
            BY <3>1, <3>3, CodeOfOneMore
        <3>. HIDE DEF First
        <3>. QED
            BY <1>2, <2>1, <3>1, <3>4
    <2>. QED
        BY <2>2, <2>3
<1>4. PICK at : IsCodeOf(upTo[N], First(N), at)
    <2>1. N \in 0 .. N
        BY <1>1
    <2>. HIDE DEF First, N
    <2>. QED
        BY <1>3, <2>1
<1>5. First(N) = statements
    OBVIOUS
<1>. HIDE DEF First, N
<1>. QED
    BY <1>2, <1>4, <1>5

LEMMA CodeIsNotEmpty ==
    ASSUME body \in Bodies, NEW statements \in Seq(Executable), statements # <<>>
    PROVE  GenerateStatements(statements) # <<>>
<1>. DEFINE code == GenerateStatements(statements)
<1>1. PICK at : IsCodeOf(code, statements, at)
    BY CodeOfStatements
<1>2. 1 \in DOMAIN statements
    OBVIOUS
<1>. HIDE DEF code
<1>3. \E i \in DOMAIN code : at[i] = 1
    BY <1>1, <1>2 DEF IsCodeOf
<1>4. code # <<>>
    BY <1>3
<1>. QED
    BY <1>4 DEF code

-----------------------------------------------------------------------------
(* Slices.                                                                 *)

\* The slice with one more statement before it.
Longer(s, later) ==
    IF s \in later.targets
    THEN [statements |-> <<s>> \o later.statements, targets |-> later.targets \cup ReferencedPlaceholders(s)]
    ELSE later

SliceFrom(i, N, statements, targets, f) ==
    IF i = N + 1 THEN [statements |-> <<>>, targets |-> targets] ELSE Longer(statements[i], f[i + 1])

LEMMA SlicesCanBeComputed ==
    ASSUME NEW N \in Nat, NEW statements, NEW targets
    PROVE  \E f : f = [i \in 1 .. N + 1 |-> SliceFrom(i, N, statements, targets, f)]
<1>. DEFINE IsComputed(k, f) ==
                /\ f = [i \in N + 1 - k .. N + 1 |-> f[i]]
                /\ \A i \in N + 1 - k .. N + 1 : f[i] = SliceFrom(i, N, statements, targets, f)
            missing == {k \in 0 .. N : ~ \E f : IsComputed(k, f)}
<1>1. missing = {}
    <2>. SUFFICES ASSUME missing # {} PROVE FALSE
        OBVIOUS
    <2>1. PICK k \in missing : \A j \in missing : k <= j
        <3>1. missing \in SUBSET Nat
            OBVIOUS
        <3>. QED
            BY <3>1, LeastExists
    <2>2. k # 0
        <3>. DEFINE none == [i \in N + 1 .. N + 1 |-> [statements |-> <<>>, targets |-> targets]]
        <3>1. IsComputed(0, none)
            BY DEF SliceFrom
        <3>. HIDE DEF IsComputed, none
        <3>. QED
            BY <2>1, <3>1
    <2>3. k \in Nat /\ k <= N /\ k - 1 \in 0 .. N /\ k - 1 < k
        BY <2>1, <2>2
    <2>4. PICK f : IsComputed(k - 1, f)
        <3>1. k - 1 \notin missing
            <4>. HIDE DEF missing
            <4>. QED
                BY <2>1, <2>3
        <3>. HIDE DEF IsComputed
        <3>. QED
            BY <2>3, <3>1
    <2>. DEFINE first == N + 1 - k
                g == [i \in first .. N + 1 |-> IF i = first THEN SliceFrom(first, N, statements, targets, f) ELSE f[i]]
    <2>5. first \in Nat /\ first + 1 = N + 1 - (k - 1) /\ first <= N /\ first >= 1
        BY <2>3
    <2>6. ASSUME NEW i \in first .. N + 1
          PROVE  SliceFrom(i, N, statements, targets, f) = SliceFrom(i, N, statements, targets, g)
        <3>1. i # N + 1 => i + 1 \in first .. N + 1 /\ i + 1 # first
            BY <2>5
        <3>2. i # N + 1 => f[i + 1] = g[i + 1]
            BY <3>1
        <3>. HIDE DEF g
        <3>. QED
            BY <3>2 DEF SliceFrom
    <2>7. \A i \in first .. N + 1 : g[i] = SliceFrom(i, N, statements, targets, f)
        <3>1. ASSUME NEW i \in first .. N + 1 PROVE i = first \/ i \in N + 1 - (k - 1) .. N + 1
            BY <2>3
        <3>. QED
            BY <2>4, <3>1
    <2>8. IsComputed(k, g)
        <3>1. \A i \in first .. N + 1 : g[i] = SliceFrom(i, N, statements, targets, g)
            <4>. HIDE DEF g
            <4>. QED
                BY <2>6, <2>7
        <3>. QED
            BY <3>1
    <2>. QED
        BY <2>1, <2>8
<1>2. PICK f : IsComputed(N, f)
    BY <1>1
<1>3. N + 1 - N = 1
    OBVIOUS
<1>. QED
    BY <1>2, <1>3

LEMMA SlicedFrom ==
    ASSUME NEW statements \in Seq(Statement), NEW targets
    PROVE  \E slice : /\ slice[Len(statements) + 1] = [statements |-> <<>>, targets |-> targets]
                      /\ \A i \in 1 .. Len(statements) : slice[i] = Longer(statements[i], slice[i + 1])
                      /\ ComputeBackwardSlice(statements, targets) = slice[1].statements
<1>. DEFINE N == Len(statements)
            slice == CHOOSE f : f = [i \in 1 .. N + 1 |-> SliceFrom(i, N, statements, targets, f)]
<1>1. N \in Nat
    OBVIOUS
<1>2. slice = [i \in 1 .. N + 1 |-> SliceFrom(i, N, statements, targets, slice)]
    <2>. HIDE DEF N
    <2>. QED
        BY <1>1, SlicesCanBeComputed
<1>3. ComputeBackwardSlice(statements, targets) = slice[1].statements
    BY DEF ComputeBackwardSlice, SliceFrom, Longer
<1>. HIDE DEF slice
<1>4. \A i \in 1 .. N + 1 : slice[i] = SliceFrom(i, N, statements, targets, slice)
    BY <1>2
<1>5. slice[N + 1] = [statements |-> <<>>, targets |-> targets]
    <2>1. N + 1 \in 1 .. N + 1
        BY <1>1
    <2>. HIDE DEF N
    <2>. QED
        BY <1>4, <2>1 DEF SliceFrom
<1>6. \A i \in 1 .. N : slice[i] = Longer(statements[i], slice[i + 1])
    BY <1>1, <1>4 DEF SliceFrom
<1>. QED
    BY <1>3, <1>5, <1>6

\* A slice of the statements from i on: where its elements come from, and that
\* it holds the placeholders they refer to.
IsSlice(r, i, all, e) ==
    /\ r.statements \in Seq(OfKind("declare"))
    /\ r.targets \subseteq OfKind("declare")
    /\ e \in [DOMAIN r.statements -> i .. Len(all)]
    /\ \A k, m \in DOMAIN r.statements : k < m => e[k] < e[m]
    /\ \A k \in DOMAIN r.statements :
           /\ r.statements[k] = all[e[k]]
           /\ ReferencedPlaceholders(r.statements[k]) \subseteq r.targets
           /\ \A d \in ReferencedPlaceholders(r.statements[k]) : \A j \in i .. Len(all) :
                  j < e[k] /\ all[j] = d => \E m \in DOMAIN r.statements : e[m] = j

LEMMA SliceOfOneMore ==
    ASSUME NEW all \in Seq(Statement), NEW i \in 1 .. Len(all), NEW r, NEW e, IsSlice(r, i + 1, all, e)
    PROVE  \E new : IsSlice(Longer(all[i], r), i, all, new)
<1>. DEFINE N == Len(all)
            s == all[i]
            st == r.statements
<1>1. N \in Nat /\ i \in Nat /\ i >= 1 /\ i <= N /\ s \in Statement
    OBVIOUS
<1>2. /\ st \in Seq(OfKind("declare")) /\ e \in [DOMAIN st -> i + 1 .. N]
      /\ DOMAIN st = 1 .. Len(st) /\ Len(st) \in Nat
    BY DEF IsSlice
<1>3. \A j \in i .. N : j = i \/ j \in i + 1 .. N
    BY <1>1
<1>4. CASE s \notin r.targets
    <2>1. Longer(s, r) = r
        BY <1>4 DEF Longer
    <2>2. e \in [DOMAIN st -> i .. N]
        BY <1>1, <1>2
    <2>3. ASSUME NEW k \in DOMAIN st, NEW d \in ReferencedPlaceholders(st[k]), NEW j \in i .. N, j < e[k], all[j] = d
          PROVE  \E m \in DOMAIN st : e[m] = j
        <3>1. j # i
            BY <1>4, <2>3 DEF IsSlice
        <3>2. j \in i + 1 .. N
            BY <1>3, <3>1
        <3>. QED
            BY <2>3, <3>2 DEF IsSlice
    <2>4. IsSlice(r, i, all, e)
        BY <2>2, <2>3 DEF IsSlice
    <2>. QED
        BY <2>1, <2>4
<1>5. CASE s \in r.targets
    <2>. DEFINE longer == <<s>> \o st
                targets == r.targets \cup ReferencedPlaceholders(s)
                new == [k \in 1 .. Len(st) + 1 |-> IF k = 1 THEN i ELSE e[k - 1]]
                slice == [statements |-> longer, targets |-> targets]
    <2>1. Longer(s, r) = slice
        BY <1>5 DEF Longer
    <2>2. s \in OfKind("declare")
        BY <1>5 DEF IsSlice
    <2>3. /\ longer \in Seq(OfKind("declare")) /\ DOMAIN longer = 1 .. Len(st) + 1
          /\ longer[1] = s /\ \A k \in 1 .. Len(st) + 1 : k # 1 => k - 1 \in 1 .. Len(st) /\ longer[k] = st[k - 1]
        <3>. HIDE DEF s, st
        <3>1. <<s>> \in Seq(OfKind("declare")) /\ Len(<<s>>) = 1 /\ <<s>>[1] = s
            BY <2>2
        <3>2. \A k \in 1 .. Len(st) + 1 : k # 1 => k > 1 /\ k - 1 \in 1 .. Len(st)
            BY <1>2
        <3>. QED
            BY <1>2, <3>1, <3>2, Concatenation
    <2>. HIDE DEF longer
    <2>4. new[1] = i /\ \A k \in 1 .. Len(st) + 1 : k # 1 => new[k] = e[k - 1] /\ e[k - 1] \in i + 1 .. N
        <3>1. 1 \in 1 .. Len(st) + 1
            BY <1>2
        <3>2. new[1] = i
            BY <3>1
        <3>3. ASSUME NEW k \in 1 .. Len(st) + 1, k # 1 PROVE new[k] = e[k - 1] /\ e[k - 1] \in i + 1 .. N
            <4>1. new[k] = e[k - 1]
                BY <3>3
            <4>2. k - 1 \in DOMAIN st
                BY <1>2, <2>3, <3>3
            <4>. QED
                BY <1>2, <4>1, <4>2
        <3>. QED
            BY <3>2, <3>3
    <2>5. new \in [1 .. Len(st) + 1 -> i .. N]
        <3>1. \A k \in 1 .. Len(st) + 1 : new[k] \in i .. N
            <4>. HIDE DEF new
            <4>. QED
                BY <1>1, <2>4
        <3>. QED
            BY <3>1
    <2>. HIDE DEF new
    <2>6. \A k, m \in 1 .. Len(st) + 1 : k < m => new[k] < new[m]
        <3>. SUFFICES ASSUME NEW k \in 1 .. Len(st) + 1, NEW m \in 1 .. Len(st) + 1, k < m PROVE new[k] < new[m]
            OBVIOUS
        <3>1. m # 1 /\ new[m] = e[m - 1] /\ e[m - 1] \in i + 1 .. N /\ m - 1 \in 1 .. Len(st)
            BY <2>3, <2>4
        <3>2. CASE k = 1
            BY <1>1, <2>4, <3>1, <3>2
        <3>3. CASE k # 1
            <4>1. new[k] = e[k - 1] /\ k - 1 \in 1 .. Len(st) /\ k - 1 < m - 1
                BY <2>3, <2>4, <3>1, <3>3
            <4>. QED
                BY <1>2, <3>1, <4>1 DEF IsSlice
        <3>. QED
            BY <3>2, <3>3
    <2>7. ASSUME NEW k \in 1 .. Len(st) + 1
          PROVE  longer[k] = all[new[k]] /\ ReferencedPlaceholders(longer[k]) \subseteq targets
        <3>1. CASE k = 1
            BY <2>3, <2>4, <3>1
        <3>2. CASE k # 1
            <4>1. longer[k] = st[k - 1] /\ k - 1 \in DOMAIN st /\ new[k] = e[k - 1]
                BY <1>2, <2>3, <2>4, <3>2
            <4>2. st[k - 1] = all[e[k - 1]] /\ ReferencedPlaceholders(st[k - 1]) \subseteq r.targets
                BY <4>1 DEF IsSlice
            <4>. QED
                BY <4>1, <4>2
        <3>. QED
            BY <3>1, <3>2
    <2>8. ASSUME NEW k \in 1 .. Len(st) + 1, NEW d \in ReferencedPlaceholders(longer[k]), NEW j \in i .. N,
                 j < new[k], all[j] = d
          PROVE  \E m \in 1 .. Len(st) + 1 : new[m] = j
        <3>1. CASE j = i
            <4>1. 1 \in 1 .. Len(st) + 1
                BY <1>2
            <4>. QED
                BY <2>4, <3>1, <4>1
        <3>2. CASE j # i
            <4>1. j \in i + 1 .. N
                BY <1>3, <3>2
            <4>2. k # 1
                BY <1>1, <2>4, <2>8, <4>1
            <4>3. longer[k] = st[k - 1] /\ k - 1 \in DOMAIN st /\ new[k] = e[k - 1]
                BY <1>2, <2>3, <2>4, <4>2
            <4>4. PICK m \in DOMAIN st : e[m] = j
                BY <2>8, <4>1, <4>3 DEF IsSlice
            <4>5. m + 1 \in 1 .. Len(st) + 1 /\ m + 1 # 1 /\ (m + 1) - 1 = m
                BY <1>2
            <4>. QED
                BY <2>4, <4>4, <4>5
        <3>. QED
            BY <3>1, <3>2
    <2>9. targets \subseteq OfKind("declare")
        BY DEF IsSlice, ReferencedPlaceholders
    <2>10. IsSlice(slice, i, all, new)
        <3>1. slice.statements = longer /\ slice.targets = targets
            OBVIOUS
        <3>. HIDE DEF slice, targets
        <3>. QED
            BY <2>3, <2>5, <2>6, <2>7, <2>8, <2>9, <3>1 DEF IsSlice
    <2>. QED
        BY <2>1, <2>10
<1>. QED
    BY <1>4, <1>5

LEMMA SlicesAreClosed ==
    ASSUME NEW all \in Seq(Statement), NEW targets \in SUBSET OfKind("declare")
    PROVE  \E r, e : IsSlice(r, 1, all, e) /\ r.statements = ComputeBackwardSlice(all, targets)
<1>. DEFINE N == Len(all)
<1>1. N \in Nat
    OBVIOUS
<1>2. PICK slice : /\ slice[N + 1] = [statements |-> <<>>, targets |-> targets]
                   /\ \A i \in 1 .. N : slice[i] = Longer(all[i], slice[i + 1])
                   /\ ComputeBackwardSlice(all, targets) = slice[1].statements
    BY SlicedFrom
<1>. DEFINE wrong == {k \in 0 .. N : ~ \E e : IsSlice(slice[N + 1 - k], N + 1 - k, all, e)}
<1>3. wrong = {}
    <2>. SUFFICES ASSUME wrong # {} PROVE FALSE
        OBVIOUS
    <2>1. PICK k \in wrong : \A j \in wrong : k <= j
        <3>1. wrong \in SUBSET Nat
            OBVIOUS
        <3>. QED
            BY <3>1, LeastExists
    <2>2. CASE k = 0
        <3>. DEFINE none == [i \in {} |-> 0]
        <3>1. N + 1 - 0 = N + 1
            BY <1>1
        <3>2. IsSlice(slice[N + 1], N + 1, all, none)
            <4>1. slice[N + 1].statements = <<>> /\ slice[N + 1].targets = targets /\ DOMAIN <<>> = {}
                BY <1>2
            <4>2. none \in [{} -> N + 1 .. Len(all)] /\ <<>> \in Seq(OfKind("declare"))
                OBVIOUS
            <4>. QED
                BY <4>1, <4>2 DEF IsSlice
        <3>. HIDE DEF none, N
        <3>. QED
            BY <2>1, <2>2, <3>1, <3>2
    <2>3. CASE k # 0
        <3>. DEFINE i == N + 1 - k
        <3>1. k \in 1 .. N /\ k - 1 \in 0 .. N /\ k - 1 < k /\ i \in 1 .. N /\ N + 1 - (k - 1) = i + 1
            BY <1>1, <2>1, <2>3
        <3>2. k - 1 \notin wrong
            <4>. HIDE DEF wrong
            <4>. QED
                BY <2>1, <3>1
        <3>3. PICK e : IsSlice(slice[i + 1], i + 1, all, e)
            <4>. HIDE DEF N, i
            <4>. QED
                BY <3>1, <3>2
        <3>4. \E new : IsSlice(Longer(all[i], slice[i + 1]), i, all, new)
            BY <3>1, <3>3, SliceOfOneMore
        <3>5. slice[i] = Longer(all[i], slice[i + 1])
            BY <1>2, <3>1
        <3>6. \E new : IsSlice(slice[i], i, all, new)
            BY <3>4, <3>5
        <3>. HIDE DEF N
        <3>. QED
            BY <2>1, <3>6
    <2>. QED
        BY <2>2, <2>3
<1>4. PICK e : IsSlice(slice[1], 1, all, e)
    <2>1. N \in 0 .. N /\ N + 1 - N = 1
        BY <1>1
    <2>. HIDE DEF N
    <2>. QED
        BY <1>3, <2>1
<1>. QED
    BY <1>2, <1>4

-----------------------------------------------------------------------------
(* The code of a block.                                                    *)

LEMMA OwnersOfBlocks ==
    ASSUME body \in Bodies, NEW b \in Block
    PROVE  /\ b # 1 <=> \E o \in Statement : b \in NestedBlocks(program[o])
           /\ Iteration(b) # {} =>
                  \E l \in OfKind("for") : /\ b \in NestedBlocks(program[l])
                                           /\ Min(Iteration(b)) = program[l].iteration
                                           /\ Min(Iteration(b)) \in Header(program[l])
<1>1. b # 1 <=> \E o \in Statement : b \in NestedBlocks(program[o])
    BY BodyIsBody DEF IsBody, Statement, program, Block
<1>2. ASSUME Iteration(b) # {}
      PROVE  \E l \in OfKind("for") : /\ b \in NestedBlocks(program[l])
                                      /\ Min(Iteration(b)) = program[l].iteration
                                      /\ Min(Iteration(b)) \in Header(program[l])
    <2>1. Iteration(b) \in SUBSET Nat
        BY Numbers DEF Iteration
    <2>2. Min(Iteration(b)) \in Iteration(b)
        BY <1>2, <2>1, MinOf
    <2>3. PICK l \in OfKind("for") : b = program[l].block /\ Min(Iteration(b)) = program[l].iteration
        BY <2>2 DEF Iteration
    <2>4. Min(Iteration(b)) \in Statement
        BY <2>2 DEF Iteration
    <2>5. b \in NestedBlocks(program[l]) /\ Min(Iteration(b)) \in Header(program[l])
        BY <2>3, <2>4, Numbers DEF NestedBlocks, Header, OfKind
    <2>. QED
        BY <2>3, <2>5
<1>. QED
    BY <1>1, <1>2

\* Where the items come from in the block as it was written.  The placeholders
\* before a statement are assigned before it, unless it is a declaration that
\* does not refer to them.
IsCodeOfBlock(code, b, at) ==
    LET all == body.blocks[b]
    IN  /\ code \in Seq(Item)
        /\ at \in [DOMAIN code -> DOMAIN all]
        /\ \A i, j \in DOMAIN code : i < j => at[i] <= at[j]
        /\ \A i \in DOMAIN code :
               /\ \/ code[i] = MainItem(all[at[i]])
                  \/ HasDefinition(all[at[i]]) /\ code[i] = HeaderItem(all[at[i]])
               /\ HasDefinition(all[at[i]]) /\ code[i] = MainItem(all[at[i]])
                  => i - 1 \in DOMAIN code /\ at[i - 1] = at[i] /\ code[i - 1] = HeaderItem(all[at[i]])
               /\ \A p \in DOMAIN all : p < at[i] /\ all[p] \in OfKind("declare") =>
                      \/ \E j \in DOMAIN code : at[j] = p /\ code[j] = MainItem(all[p])
                      \/ program[all[at[i]]].kind = "declare" /\ all[p] \notin ReferencedPlaceholders(all[at[i]])

LEMMA TargetsAreDeclared ==
    ASSUME blocks \in [Block -> Seq(Statement)], NEW b \in Block, NEW names
    PROVE  TargetsIn(b, names) \subseteq OfKind("declare")
<1>1. ASSUME NEW n PROVE GetPlaceholderByName(b, n) \subseteq OfKind("declare")
    <2>. DEFINE named == Named(ToSet(blocks[b]) \cap OfKind("declare"), n)
    <2>1. CASE named = {}
        BY <2>1 DEF GetPlaceholderByName
    <2>2. CASE named # {}
        <3>1. \E i \in DOMAIN blocks[b] : blocks[b][i] \in named
            BY <2>2 DEF Named, ToSet
        <3>2. FirstIn(blocks[b], named) \in named
            BY <3>1, FirstInIsIn
        <3>. QED
            BY <2>2, <3>2 DEF GetPlaceholderByName, Named
    <2>. QED
        BY <2>1, <2>2
<1>. QED
    BY <1>1 DEF TargetsIn

LEMMA CodeOfBlock ==
    ASSUME body \in Bodies, NEW b \in Block, blocks \in [Block -> Seq(Statement)],
           blocks[b] = body.blocks[b], NEW names
    PROVE  \E at : IsCodeOfBlock(GenerateStatements(StatementsToGenerate(b, names)), b, at)
<1>. DEFINE all == body.blocks[b]
            st == StatementsToGenerate(b, names)
            code == GenerateStatements(st)
<1>1. all \in Seq(Statement) /\ all \in Seq(Executable)
    <2>1. all \in Seq(Statement)
        BY StatementsOfBlocks
    <2>2. \A i \in DOMAIN all : all[i] \in Executable
        <3>1. \A i \in DOMAIN all : IsIn(all[i], b)
            BY StatementsOfBlocks
        <3>. QED
            BY <2>1, <3>1, ContainingBlocks DEF Executable
    <2>. QED
        BY <2>1, <2>2
<1>2. \E e : /\ st \in Seq(Executable)
             /\ e \in [DOMAIN st -> DOMAIN all]
             /\ \A k, m \in DOMAIN st : k <= m => e[k] <= e[m]
             /\ \A k \in DOMAIN st :
                    /\ st[k] = all[e[k]]
                    /\ \A p \in DOMAIN all : p < e[k] =>
                           \/ \E m \in DOMAIN st : e[m] = p
                           \/ program[st[k]].kind = "declare" /\ all[p] \notin ReferencedPlaceholders(st[k])
    <2>1. CASE TargetsIn(b, names) = {}
        <3>. DEFINE same == [k \in DOMAIN all |-> k]
        <3>1. st = all
            BY <2>1 DEF StatementsToGenerate
        <3>2. same \in [DOMAIN st -> DOMAIN all] /\ \A k \in DOMAIN st : same[k] = k
            BY <3>1
        <3>. HIDE DEF same, st, all
        <3>. QED
            BY <1>1, <3>1, <3>2
    <2>2. CASE TargetsIn(b, names) # {}
        <3>1. st = ComputeBackwardSlice(all, TargetsIn(b, names))
            BY <2>2 DEF StatementsToGenerate
        <3>2. PICK r, e : IsSlice(r, 1, all, e) /\ r.statements = st
            BY <1>1, <3>1, TargetsAreDeclared, SlicesAreClosed
        <3>3. st \in Seq(OfKind("declare")) /\ DOMAIN all = 1 .. Len(all) /\ e \in [DOMAIN st -> DOMAIN all]
            BY <1>1, <3>2 DEF IsSlice
        <3>4. st \in Seq(Executable) /\ \A k \in DOMAIN st : program[st[k]].kind = "declare"
            <4>1. OfKind("declare") \subseteq Executable
                BY DEF OfKind, Executable
            <4>2. \A k \in DOMAIN st : st[k] \in OfKind("declare")
                BY <3>3
            <4>. HIDE DEF st
            <4>. QED
                BY <3>3, <4>1, <4>2 DEF OfKind
        <3>5. \A k, m \in DOMAIN st : k <= m => e[k] <= e[m]
            <4>. HIDE DEF st
            <4>1. \A k \in DOMAIN st : k \in Nat /\ e[k] \in Nat
                BY <1>1, <3>3
            <4>2. \A k, m \in DOMAIN st : k < m => e[k] < e[m]
                BY <3>2 DEF IsSlice
            <4>. QED
                BY <4>1, <4>2
        <3>6. \A k \in DOMAIN st :
                  /\ st[k] = all[e[k]]
                  /\ \A p \in DOMAIN all : p < e[k] =>
                         \/ \E m \in DOMAIN st : e[m] = p
                         \/ all[p] \notin ReferencedPlaceholders(st[k])
            <4>. HIDE DEF st, all
            <4>. QED
                BY <3>2, <3>3 DEF IsSlice
        <3>. HIDE DEF st, all
        <3>7. \A k \in DOMAIN st :
                  /\ st[k] = all[e[k]]
                  /\ \A p \in DOMAIN all : p < e[k] =>
                         \/ \E m \in DOMAIN st : e[m] = p
                         \/ program[st[k]].kind = "declare" /\ all[p] \notin ReferencedPlaceholders(st[k])
            BY <3>4, <3>6, Zenon
        <3>. QED
            BY <3>3, <3>4, <3>5, <3>7, Zenon
    <2>. QED
        BY <2>1, <2>2
<1>3. PICK e : /\ st \in Seq(Executable)
               /\ e \in [DOMAIN st -> DOMAIN all]
               /\ \A k, m \in DOMAIN st : k <= m => e[k] <= e[m]
               /\ \A k \in DOMAIN st :
                      /\ st[k] = all[e[k]]
                      /\ \A p \in DOMAIN all : p < e[k] =>
                             \/ \E m \in DOMAIN st : e[m] = p
                             \/ program[st[k]].kind = "declare" /\ all[p] \notin ReferencedPlaceholders(st[k])
    BY <1>2
<1>4. PICK from : IsCodeOf(code, st, from)
    BY <1>3, CodeOfStatements
<1>. DEFINE at == [i \in DOMAIN code |-> e[from[i]]]
<1>. HIDE DEF st, code, all
<1>5. /\ code \in Seq(Item) /\ from \in [DOMAIN code -> DOMAIN st]
      /\ \A i \in DOMAIN code : at[i] = e[from[i]] /\ from[i] \in DOMAIN st /\ st[from[i]] = all[at[i]]
    BY <1>3, <1>4 DEF IsCodeOf
<1>6. at \in [DOMAIN code -> DOMAIN all]
    BY <1>3, <1>5
<1>. HIDE DEF at
<1>7. \A i, j \in DOMAIN code : i < j => at[i] <= at[j]
    BY <1>3, <1>4, <1>5 DEF IsCodeOf
<1>8. ASSUME NEW i \in DOMAIN code
      PROVE  /\ \/ code[i] = MainItem(all[at[i]])
                \/ HasDefinition(all[at[i]]) /\ code[i] = HeaderItem(all[at[i]])
             /\ HasDefinition(all[at[i]]) /\ code[i] = MainItem(all[at[i]])
                => i - 1 \in DOMAIN code /\ at[i - 1] = at[i] /\ code[i - 1] = HeaderItem(all[at[i]])
    BY <1>4, <1>5 DEF IsCodeOf
<1>9. ASSUME NEW i \in DOMAIN code, NEW p \in DOMAIN all, p < at[i]
      PROVE  \/ \E j \in DOMAIN code : at[j] = p /\ code[j] = MainItem(all[p])
             \/ program[all[at[i]]].kind = "declare" /\ all[p] \notin ReferencedPlaceholders(all[at[i]])
    <2>1. CASE \E m \in DOMAIN st : e[m] = p
        <3>1. PICK m \in DOMAIN st : e[m] = p
            BY <2>1
        <3>2. PICK j \in DOMAIN code : from[j] = m /\ code[j] = MainItem(st[m])
            BY <1>4 DEF IsCodeOf
        <3>. QED
            BY <1>3, <1>5, <3>1, <3>2
    <2>2. CASE ~ \E m \in DOMAIN st : e[m] = p
        BY <1>3, <1>5, <1>9, <2>2
    <2>. QED
        BY <2>1, <2>2
<1>10. IsCodeOfBlock(code, b, at)
    BY <1>5, <1>6, <1>7, <1>8, <1>9 DEF IsCodeOfBlock, all
<1>. QED
    BY <1>10 DEF code, st

LEMMA InnerIsLater ==
    ASSUME Kept, NEW c \in Block, NEW s \in ToSet(blocks[c])
    PROVE  /\ s \in Statement /\ NestedBlocks(program[s]) \subseteq Block
           /\ \A inner \in NestedBlocks(program[s]) : c < inner
           /\ program[s].kind \in Kinds
           /\ program[s].kind = "if" => program[s].block # NoBlock
<1>1. IsIn(s, c) /\ body \in Bodies
    BY DEF Kept, IsIn
<1>2. s \in Statement
    BY <1>1, StatementsOfBlocks
<1>. QED
    BY <1>1, <1>2, Containers

\* Whatever the slicer has done to the blocks, code is generated for statements
\* of the body.
LEMMA GeneratedStatements ==
    ASSUME Kept, NEW b \in Block, NEW names
    PROVE  /\ StatementsToGenerate(b, names) \in Seq(Executable)
           /\ \A i \in DOMAIN StatementsToGenerate(b, names) : StatementsToGenerate(b, names)[i] \in ToSet(blocks[b])
<1>. DEFINE st == StatementsToGenerate(b, names)
            all == blocks[b]
<1>1. body \in Bodies /\ blocks \in [Block -> Seq(Statement)] /\ all \in Seq(Statement)
    BY DEF Kept
<1>2. \A i \in DOMAIN all : all[i] \in ToSet(all)
    BY DEF ToSet
<1>3. all \in Seq(Executable)
    <2>1. \A i \in DOMAIN all : all[i] \in Executable
        <3>. SUFFICES ASSUME NEW i \in DOMAIN all PROVE all[i] \in Executable
            OBVIOUS
        <3>1. IsIn(all[i], b)
            BY <1>2 DEF Kept, IsIn
        <3>. QED
            BY <1>1, <3>1, ContainingBlocks, StatementsOfBlocks DEF Executable
    <2>. QED
        BY <1>1, <2>1
<1>4. CASE TargetsIn(b, names) = {}
    BY <1>2, <1>3, <1>4 DEF StatementsToGenerate
<1>5. CASE TargetsIn(b, names) # {}
    <2>1. st = ComputeBackwardSlice(all, TargetsIn(b, names))
        BY <1>5 DEF StatementsToGenerate
    <2>2. PICK r, e : IsSlice(r, 1, all, e) /\ r.statements = st
        BY <1>1, <2>1, TargetsAreDeclared, SlicesAreClosed
    <2>3. st \in Seq(OfKind("declare")) /\ OfKind("declare") \subseteq Executable
        BY <2>2 DEF IsSlice, OfKind, Executable
    <2>. HIDE DEF st, all
    <2>4. e \in [DOMAIN st -> 1 .. Len(all)] /\ \A k \in DOMAIN st : st[k] = all[e[k]]
        BY <2>2 DEF IsSlice
    <2>5. \A k \in DOMAIN st : st[k] \in ToSet(all)
        BY <1>1, <1>2, <2>4
    <2>. QED
        BY <2>3, <2>5 DEF st, all
<1>. QED
    BY <1>4, <1>5

LEMMA LastStatement ==
    ASSUME Kept, NEW b \in Block, NEW names, StatementsToGenerate(b, names) # <<>>
    PROVE  Last(StatementsToGenerate(b, names)) \in ToSet(blocks[b])
<1>. DEFINE st == StatementsToGenerate(b, names)
<1>1. st \in Seq(Executable) /\ \A i \in DOMAIN st : st[i] \in ToSet(blocks[b])
    BY GeneratedStatements
<1>. HIDE DEF st
<1>2. Len(st) \in DOMAIN st
    BY <1>1 DEF st
<1>. QED
    BY <1>1, <1>2 DEF Last, st

\* The recursion for the last line of a block.
LastLineFrom(c, names, f) ==
    LET statements == StatementsToGenerate(c, names)
        node == program[Last(statements)]
        inner == IF node.kind = "if" THEN node.elseBlock ELSE node.block
    IN  IF statements = <<>> \/ NestedBlocks(node) = {} THEN [block |-> c, empty |-> FALSE]
        ELSE IF inner = NoBlock THEN [block |-> c, empty |-> TRUE]
        ELSE IF f[inner].empty /\ Iteration(inner) # {} THEN [block |-> inner, empty |-> FALSE]
        ELSE f[inner]

LEMMA LastBlock ==
    ASSUME Kept, NEW c \in Block, NEW names, StatementsToGenerate(c, names) # <<>>,
           NEW node, node = program[Last(StatementsToGenerate(c, names))], NestedBlocks(node) # {},
           NEW inner, inner = IF node.kind = "if" THEN node.elseBlock ELSE node.block, inner # NoBlock
    PROVE  inner \in NestedBlocks(node) /\ inner \in Block /\ c < inner
<1>1. inner \in NestedBlocks(node)
    BY DEF NestedBlocks
<1>. QED
    BY <1>1, LastStatement, InnerIsLater

LEMMA LastLinesCanBeComputed ==
    ASSUME Kept, NEW names
    PROVE  \E f : f = [c \in Block |-> LastLineFrom(c, names, f)]
<1>. DEFINE From(k) == {c \in Block : k <= c}
            IsComputed(k, f) == f = [c \in From(k) |-> f[c]] /\ \A c \in From(k) : f[c] = LastLineFrom(c, names, f)
<1>0. PICK last \in Nat : Block \subseteq 1 .. last
    BY Numbers DEF Kept
<1>1. Block \subseteq Nat
    BY Numbers DEF Kept
<1>. DEFINE computed == {k \in 0 .. last + 1 : \E f : IsComputed(k, f)}
<1>2. last + 1 \in computed
    <2>. DEFINE none == [c \in From(last + 1) |-> 0]
    <2>0. \A c \in Block : ~(last + 1 <= c)
        BY <1>0
    <2>1. From(last + 1) = {}
        BY <2>0
    <2>2. IsComputed(last + 1, none)
        BY <2>1
    <2>. HIDE DEF IsComputed, none
    <2>. QED
        BY <2>2
<1>3. PICK k \in computed : \A j \in computed : k <= j
    <2>1. computed \subseteq 0 .. last + 1
        OBVIOUS
    <2>. HIDE DEF computed
    <2>2. computed \in SUBSET Nat /\ computed # {}
        BY <1>2, <2>1
    <2>. QED
        BY <2>2, LeastExists
<1>4. k = 0
    <2>. SUFFICES ASSUME k # 0 PROVE FALSE
        OBVIOUS
    <2>1. k \in Nat /\ k - 1 \in 0 .. last + 1 /\ ~(k <= k - 1)
        BY <1>3
    <2>2. PICK f : IsComputed(k, f)
        <3>. HIDE DEF IsComputed
        <3>. QED
            BY <1>3
    <2>. DEFINE g == [c \in From(k - 1) |-> IF c = k - 1 THEN LastLineFrom(c, names, f) ELSE f[c]]
    <2>3. ASSUME NEW c \in From(k - 1) PROVE LastLineFrom(c, names, g) = LastLineFrom(c, names, f)
        <3>1. ASSUME NEW inner \in Block, c < inner PROVE g[inner] = f[inner]
            BY <1>1, <2>1, <3>1
        <3>. HIDE DEF g
        <3>. QED
            BY <3>1, LastBlock DEF LastLineFrom
    <2>4. \A c \in From(k - 1) : g[c] = LastLineFrom(c, names, f)
        <3>1. ASSUME NEW c \in From(k - 1) PROVE c = k - 1 \/ c \in From(k)
            BY <1>1, <2>1
        <3>. QED
            BY <2>2, <3>1
    <2>5. IsComputed(k - 1, g)
        <3>1. \A c \in From(k - 1) : g[c] = LastLineFrom(c, names, g)
            <4>. HIDE DEF g, From
            <4>. QED
                BY <2>3, <2>4
        <3>. QED
            BY <3>1
    <2>6. k - 1 \in computed
        <3>. HIDE DEF IsComputed
        <3>. QED
            BY <2>1, <2>5
    <2>. QED
        BY <1>3, <2>1, <2>6
<1>5. PICK f : IsComputed(0, f)
    <2>. HIDE DEF IsComputed
    <2>. QED
        BY <1>3, <1>4
<1>6. From(0) = Block
    BY <1>1
<1>. QED
    BY <1>5, <1>6

\* The last line of a block is in the block, or in one in its last statement.
LEMMA LastLineOf ==
    ASSUME Kept, NEW names, NEW c \in Block
    PROVE  \/ LastLine(c, names).block = c /\ (StatementsToGenerate(c, names) = <<>> => ~LastLine(c, names).empty)
           \/ \E s \in ToSet(blocks[c]) : \E inner \in NestedBlocks(program[s]) :
                  /\ StatementsToGenerate(c, names) # <<>>
                  /\ LastLine(c, names).block \in {inner, LastLine(inner, names).block}
<1>. DEFINE IsLast(f) == f = [d \in Block |-> LastLineFrom(d, names, f)]
            last == CHOOSE f : IsLast(f)
            statements == StatementsToGenerate(c, names)
            node == program[Last(statements)]
            inner == IF node.kind = "if" THEN node.elseBlock ELSE node.block
<1>1. IsLast(last)
    <2>1. \E f : IsLast(f)
        BY LastLinesCanBeComputed
    <2>. HIDE DEF IsLast
    <2>. QED
        BY <2>1
<1>2. \A d : LastLine(d, names) = last[d]
    BY DEF LastLine, LastLineFrom
<1>. HIDE DEF last
<1>3. last[c] = LastLineFrom(c, names, last)
    BY <1>1
<1>. HIDE DEF IsLast
<1>4. CASE statements = <<>> \/ NestedBlocks(node) = {} \/ inner = NoBlock
    BY <1>2, <1>3, <1>4 DEF LastLineFrom
<1>5. CASE statements # <<>> /\ NestedBlocks(node) # {} /\ inner # NoBlock
    <2>1. inner \in NestedBlocks(node) /\ Last(statements) \in ToSet(blocks[c])
        BY <1>5, LastBlock, LastStatement
    <2>2. last[c].block \in {inner, last[inner].block}
        BY <1>3, <1>5 DEF LastLineFrom
    <2>. QED
        BY <1>2, <1>5, <2>1, <2>2
<1>. QED
    BY <1>4, <1>5

\* The last line of the block of a loop is inside the loop.
LEMMA LastLineIsInside ==
    ASSUME Kept, NEW names, NEW c \in Block, NEW l \in Statement, c \in NestedBlocks(program[l])
    PROVE  \E o \in Statement : LastLine(c, names).block \in NestedBlocks(program[o]) /\ IsInside(o, l)
<1>. DEFINE Goal(d) == \A k \in Statement : d \in NestedBlocks(program[k]) =>
                           \E o \in Statement : LastLine(d, names).block \in NestedBlocks(program[o]) /\ IsInside(o, k)
            wrong == {d \in Block : ~Goal(d)}
<1>1. body \in Bodies /\ Block \subseteq Nat /\ \E last \in Nat : Block \subseteq 1 .. last
    BY Numbers DEF Kept
<1>2. ASSUME NEW d \in Block, \A inner \in Block : d < inner => Goal(inner) PROVE Goal(d)
    <2>. SUFFICES ASSUME NEW k \in Statement, d \in NestedBlocks(program[k])
                  PROVE  \E o \in Statement : LastLine(d, names).block \in NestedBlocks(program[o]) /\ IsInside(o, k)
        OBVIOUS
    <2>1. CASE LastLine(d, names).block = d
        BY <1>1, <2>1, Inside
    <2>2. CASE LastLine(d, names).block # d
        <3>0. PICK s \in ToSet(blocks[d]) : \E inner \in NestedBlocks(program[s]) :
                  LastLine(d, names).block \in {inner, LastLine(inner, names).block}
            BY <2>2, LastLineOf
        <3>1. PICK inner \in NestedBlocks(program[s]) : LastLine(d, names).block \in {inner, LastLine(inner, names).block}
            BY <3>0
        <3>2. s \in Statement /\ inner \in Block /\ d < inner /\ IsIn(s, d)
            BY <3>1, InnerIsLater DEF Kept, IsIn
        <3>3. k \in Outer(s)
            BY <1>1, <3>2, ContainingBlocks
        <3>4. IsInside(k, k) /\ IsInside(s, s)
            BY <1>1, <3>2, Inside
        <3>5. IsInside(s, k)
            BY <1>1, <3>2, <3>3, <3>4, Inside
        <3>6. Goal(inner)
            <4>. HIDE DEF Goal
            <4>. QED
                BY <1>2, <3>2
        <3>7. PICK o \in Statement : LastLine(inner, names).block \in NestedBlocks(program[o]) /\ IsInside(o, s)
            BY <3>1, <3>2, <3>6
        <3>8. IsInside(o, k)
            BY <3>5, <3>7, InsideTwice
        <3>. QED
            BY <3>1, <3>2, <3>5, <3>7, <3>8
    <2>. QED
        BY <2>1, <2>2
<1>. HIDE DEF Goal
<1>3. wrong = {}
    <2>. SUFFICES ASSUME wrong # {} PROVE FALSE
        OBVIOUS
    <2>1. PICK last \in Nat : wrong \in SUBSET (0 .. last)
        <3>1. PICK last \in Nat : Block \subseteq 1 .. last
            BY <1>1
        <3>2. wrong \subseteq Block
            OBVIOUS
        <3>. HIDE DEF wrong
        <3>3. \A d \in wrong : d \in 0 .. last
            BY <3>1, <3>2
        <3>. QED
            BY <3>1, <3>3
    <2>2. PICK d \in wrong : \A e \in wrong : d >= e
        <3>. HIDE DEF wrong
        <3>. QED
            BY <2>1, GreatestExists
    <2>3. \A inner \in Block : d < inner => Goal(inner)
        BY <1>1, <2>2
    <2>. QED
        BY <1>2, <2>2, <2>3
<1>4. Goal(c)
    BY <1>3
<1>. QED
    BY <1>4 DEF Goal

\* The lines that the iterations of loops have continued.
JoinedIn(b) ==
    {c \in Item :
        \/ c.op = "malformed"
        \/ /\ c.op = "joined"
           /\ \E l \in OfKind("for") : \E o \in Statement :
                  c.source \in Header(program[l]) /\ b \in NestedBlocks(program[o]) /\ IsInside(o, l)}

\* What may follow the code of the statements in that of a block.
Tails(b) ==
    {<<>>, <<Pass>>} \cup {<<c>> : c \in JoinedIn(b)}
        \cup IF Iteration(b) = {} THEN {} ELSE {<<Assign(IterationOf(b))>>}

LEMMA JoinedWords ==
    ASSUME NEW word \in {"pass"} \cup {program[s].word : s \in Statement}, NEW name \in NamesOf(Statement)
    PROVE  Joined(word, name) \in WordsOf(Statement)
BY DEF WordsOf

LEMMA ContinuedLine ==
    ASSUME Kept, NEW b \in Block, NEW names, Continuing(b, names) # {}, NEW code \in Item
    PROVE  Continue(code, Continuing(b, names)) \in JoinedIn(b)
<1>. DEFINE continuing == Continuing(b, names)
            WordBefore(c) ==
                LET inner == {d \in continuing : c < d}
                IN  IF inner = {} THEN LastWord(code) ELSE program[IterationOf(Min(inner))].word
            all == code.names \cup {WordBefore(c) \o program[IterationOf(c)].name : c \in continuing}
            c == Min(continuing)
            s == IterationOf(c)
<1>1. body \in Bodies /\ Block \subseteq Nat /\ continuing \subseteq Block
    BY Numbers DEF Kept, Continuing
<1>2. \A S \in SUBSET continuing : S # {} => Min(S) \in S
    <2>. SUFFICES ASSUME NEW S \in SUBSET continuing, S # {} PROVE Min(S) \in S
        OBVIOUS
    <2>1. S \in SUBSET Nat
        BY <1>1
    <2>. QED
        BY <2>1, MinOf
<1>3. ASSUME NEW d \in continuing
      PROVE  \E l \in OfKind("for") : d \in NestedBlocks(program[l]) /\ IterationOf(d) \in Header(program[l])
    BY <1>1, OwnersOfBlocks DEF Continuing, IterationOf
<1>4. ASSUME NEW d \in continuing
      PROVE  IterationOf(d) \in Statement /\ program[IterationOf(d)].kind \in {"declare", "assign"}
    BY <1>1, <1>3, Containers DEF OfKind
<1>5. CASE \E d \in continuing : WordBefore(d) = NoWord
    <2>1. Continue(code, continuing) = Simple("malformed", code.source)
        BY <1>5 DEF Continue
    <2>2. Simple("malformed", code.source) \in Item /\ Simple("malformed", code.source).op = "malformed"
        BY DEF Simple, Python, Item
    <2>. QED
        BY <2>1, <2>2 DEF JoinedIn
<1>6. CASE \A d \in continuing : WordBefore(d) # NoWord
    <2>1. Continue(code, continuing) = Python("joined", s, all)
        BY <1>6 DEF Continue
    <2>2. ASSUME NEW d \in continuing PROVE WordBefore(d) \in {"pass"} \cup {program[t].word : t \in Statement}
        <3>. DEFINE inner == {e \in continuing : d < e}
        <3>1. CASE inner = {}
            <4>1. WordBefore(d) = LastWord(code) /\ LastWord(code) # NoWord
                BY <1>6, <3>1
            <4>2. code.op \in {"assign", "expression"} => code.source \in Statement
                BY DEF Item
            <4>. QED
                BY <4>1, <4>2 DEF LastWord
        <3>2. CASE inner # {}
            <4>1. WordBefore(d) = program[IterationOf(Min(inner))].word
                BY <3>2
            <4>2. Min(inner) \in continuing
                BY <1>2, <3>2
            <4>. QED
                BY <1>4, <4>1, <4>2
        <3>. QED
            BY <3>1, <3>2
    <2>3. all \subseteq WordsOf(Statement)
        <3>1. code.names \subseteq WordsOf(Statement)
            BY DEF Item
        <3>2. ASSUME NEW d \in continuing PROVE WordBefore(d) \o program[IterationOf(d)].name \in WordsOf(Statement)
            <4>1. program[IterationOf(d)].name \in NamesOf(Statement)
                BY <1>4 DEF NamesOf
            <4>. HIDE DEF WordBefore
            <4>2. Joined(WordBefore(d), program[IterationOf(d)].name) \in WordsOf(Statement)
                BY <2>2, <4>1, JoinedWords
            <4>. QED
                BY <4>2 DEF Joined
        <3>. HIDE DEF WordBefore
        <3>. QED
            BY <3>1, <3>2
    <2>4. c \in continuing /\ s \in Statement /\ program[s].kind \in {"declare", "assign"}
        BY <1>2, <1>4
    <2>5. PICK l \in OfKind("for") : c \in NestedBlocks(program[l]) /\ s \in Header(program[l])
        BY <1>3, <2>4
    <2>6. LastLine(c, names).block = b
        BY <2>4 DEF Continuing
    <2>7. PICK o \in Statement : b \in NestedBlocks(program[o]) /\ IsInside(o, l)
        BY <1>1, <2>4, <2>5, <2>6, LastLineIsInside DEF OfKind
    <2>. HIDE DEF all, s, c
    <2>8. Python("joined", s, all) \in Item /\ Python("joined", s, all).op = "joined" /\ Python("joined", s, all).source = s
        BY <2>3, <2>4 DEF Python, Item
    <2>. QED
        BY <2>1, <2>5, <2>7, <2>8 DEF JoinedIn
<1>. QED
    BY <1>5, <1>6

LEMMA Ends ==
    ASSUME NEW T, NEW code \in Seq(T)
    PROVE  /\ code # <<>> => /\ Front(code) \in Seq(T) /\ Last(code) \in T
                             /\ Len(Front(code)) = Len(code) - 1
                             /\ \A i \in 1 .. Len(code) - 1 : Front(code)[i] = code[i]
           /\ \A c \in T : /\ code \o <<c>> = Append(code, c) /\ Append(code, c) \in Seq(T)
                           /\ Front(Append(code, c)) = code /\ Last(Append(code, c)) = c
<1>1. ASSUME code # <<>>
      PROVE  /\ Front(code) \in Seq(T) /\ Last(code) \in T
             /\ Len(Front(code)) = Len(code) - 1
             /\ \A i \in 1 .. Len(code) - 1 : Front(code)[i] = code[i]
    <2>. DEFINE n == Len(code)
    <2>1. n \in Nat /\ n >= 1 /\ DOMAIN code = 1 .. n
        BY <1>1
    <2>2. SubSeq(code, 1, n - 1) = [i \in 1 .. n - 1 |-> code[i]]
        BY <2>1
    <2>3. \A i \in 1 .. n - 1 : code[i] \in T
        BY <2>1
    <2>4. n - 1 \in Nat /\ n \in 1 .. n
        BY <2>1
    <2>. HIDE DEF n
    <2>. QED
        BY <2>1, <2>2, <2>3, <2>4 DEF Front, Last, n
<1>2. ASSUME NEW c \in T
      PROVE  /\ code \o <<c>> = Append(code, c) /\ Append(code, c) \in Seq(T)
             /\ Front(Append(code, c)) = code /\ Last(Append(code, c)) = c
    <2>. DEFINE longer == Append(code, c)
    <2>1. /\ code \o <<c>> = longer /\ longer \in Seq(T) /\ Len(longer) = Len(code) + 1 /\ Len(code) \in Nat
          /\ longer[Len(code) + 1] = c /\ DOMAIN code = 1 .. Len(code)
          /\ \A i \in 1 .. Len(code) : longer[i] = code[i]
        OBVIOUS
    <2>2. SubSeq(longer, 1, Len(code)) = [i \in 1 .. Len(code) |-> longer[i]]
        BY <2>1
    <2>3. code = [i \in 1 .. Len(code) |-> code[i]]
        BY <2>1
    <2>. HIDE DEF longer
    <2>4. SubSeq(longer, 1, Len(code)) = code
        BY <2>1, <2>2, <2>3
    <2>5. (Len(code) + 1) - 1 = Len(code)
        BY <2>1
    <2>. QED
        BY <2>1, <2>4, <2>5 DEF Front, Last, longer
<1>. QED
    BY <1>1, <1>2

\* The code of the statements, or all of it but its last line, and something after it.
LEMMA FormOfBlock ==
    ASSUME Kept, NEW b \in Block, NEW names, NEW code \in Seq(Item),
           code = GenerateStatements(StatementsToGenerate(b, names)),
           StatementsToGenerate(b, names) # <<>> => code # <<>>
    PROVE  \E front, tail : /\ front \in {<<>>, code} \/ (front = Front(code) /\ code # <<>>)
                            /\ tail \in Tails(b)
                            /\ GenerateBlock(b, names) = front \o tail
<1>. DEFINE st == StatementsToGenerate(b, names)
            full == IF st = <<>> THEN <<Pass>> ELSE code
            written == IF Iteration(b) # {} /\ LastLine(b, names).empty
                       THEN Append(full, Assign(IterationOf(b))) ELSE full
            continuing == Continuing(b, names)
            Continued(line) == Continue(line, continuing)
            Form(front, tail) == /\ front \in {<<>>, code} \/ (front = Front(code) /\ code # <<>>)
                                 /\ tail \in Tails(b)
                                 /\ GenerateBlock(b, names) = front \o tail
<1>1. GenerateBlock(b, names) = IF continuing = {} THEN written ELSE Append(Front(written), Continued(Last(written)))
    BY DEF GenerateBlock
<1>2. body \in Bodies /\ Pass \in Item /\ <<>> \in Seq(Item)
    BY DEF Kept, Pass, Simple, Python, Item
<1>3. ASSUME continuing # {}, NEW line \in Item PROVE Continued(line) \in Item /\ <<Continued(line)>> \in Tails(b)
    BY <1>3, ContinuedLine DEF Tails, JoinedIn
<1>4. Iteration(b) # {} => Assign(IterationOf(b)) \in Item /\ <<Assign(IterationOf(b))>> \in Tails(b)
    <2>. SUFFICES ASSUME Iteration(b) # {} PROVE Assign(IterationOf(b)) \in Item /\ <<Assign(IterationOf(b))>> \in Tails(b)
        OBVIOUS
    <2>1. PICK l \in OfKind("for") : IterationOf(b) \in Header(program[l])
        BY <1>2, OwnersOfBlocks DEF IterationOf
    <2>2. IterationOf(b) \in Statement /\ program[IterationOf(b)].kind \in {"declare", "assign"}
        BY <1>2, <2>1, Containers DEF OfKind
    <2>. QED
        BY <2>2 DEF Assign, Python, Item, WordsOf, NamesOf, Tails
<1>5. CASE st = <<>>
    <2>1. ~LastLine(b, names).empty
        BY <1>5, LastLineOf
    <2>2. written = <<Pass>>
        BY <1>5, <2>1
    <2>3. <<>> \o <<Pass>> = Append(<<>>, Pass) /\ Front(<<Pass>>) = <<>> /\ Last(<<Pass>>) = Pass
        <3>1. <<Pass>> = Append(<<>>, Pass)
            OBVIOUS
        <3>. QED
            BY <1>2, <3>1, Ends
    <2>4. CASE continuing = {}
        <3>1. Form(<<>>, <<Pass>>)
            BY <1>1, <2>2, <2>3, <2>4 DEF Tails
        <3>. QED
            BY <3>1
    <2>5. CASE continuing # {}
        <3>1. <<>> \o <<Continued(Pass)>> = Append(<<>>, Continued(Pass))
            BY <1>2, <1>3, <2>5, Ends
        <3>2. Form(<<>>, <<Continued(Pass)>>)
            BY <1>1, <1>2, <1>3, <2>2, <2>3, <2>5, <3>1
        <3>. QED
            BY <3>2
    <2>. QED
        BY <2>4, <2>5
<1>6. CASE st # <<>> /\ Iteration(b) # {} /\ LastLine(b, names).empty
    <2>. DEFINE c == Assign(IterationOf(b))
    <2>1. written = Append(code, c) /\ c \in Item /\ <<c>> \in Tails(b)
        BY <1>4, <1>6
    <2>. HIDE DEF c, written, Continued
    <2>2. Append(code, c) = code \o <<c>> /\ Front(written) = code /\ Last(written) = c
        BY <2>1, Ends
    <2>3. CASE continuing = {}
        <3>1. Form(code, <<c>>)
            BY <1>1, <2>1, <2>2, <2>3
        <3>. QED
            BY <3>1
    <2>4. CASE continuing # {}
        <3>1. code \o <<Continued(c)>> = Append(code, Continued(c))
            BY <1>3, <2>1, <2>4, Ends
        <3>2. Form(code, <<Continued(c)>>)
            BY <1>1, <1>3, <2>1, <2>2, <2>4, <3>1
        <3>. QED
            BY <3>2
    <2>. QED
        BY <2>3, <2>4
<1>7. CASE st # <<>> /\ ~(Iteration(b) # {} /\ LastLine(b, names).empty)
    <2>1. written = code /\ code # <<>>
        BY <1>7
    <2>. HIDE DEF written, Continued
    <2>2. CASE continuing = {}
        <3>1. code \o <<>> = code /\ <<>> \in Tails(b)
            BY DEF Tails
        <3>2. Form(code, <<>>)
            BY <1>1, <2>1, <2>2, <3>1
        <3>. QED
            BY <3>2
    <2>3. CASE continuing # {}
        <3>1. Front(code) \in Seq(Item) /\ Last(code) \in Item
            BY <2>1, Ends
        <3>2. Continued(Last(code)) \in Item /\ <<Continued(Last(code))>> \in Tails(b)
            BY <1>3, <2>3, <3>1
        <3>3. Front(code) \o <<Continued(Last(code))>> = Append(Front(code), Continued(Last(code)))
            BY <3>1, <3>2, Ends
        <3>4. Form(Front(code), <<Continued(Last(code))>>)
            BY <1>1, <2>1, <2>3, <3>2, <3>3
        <3>. QED
            BY <3>4
    <2>. QED
        BY <2>2, <2>3
<1>. QED
    BY <1>5, <1>6, <1>7

LEMMA FrontOfCode ==
    ASSUME body \in Bodies, NEW b \in Block, NEW code, NEW at, IsCodeOfBlock(code, b, at), code # <<>>
    PROVE  \E to : IsCodeOfBlock(Front(code), b, to)
<1>. DEFINE all == body.blocks[b]
            n == Len(code) - 1
            to == [i \in 1 .. n |-> at[i]]
            front == Front(code)
<1>1. /\ code \in Seq(Item) /\ at \in [DOMAIN code -> DOMAIN all] /\ n \in Nat /\ DOMAIN code = 1 .. n + 1
      /\ front \in Seq(Item) /\ DOMAIN front = 1 .. n /\ \A i \in 1 .. n : front[i] = code[i] /\ to[i] = at[i]
    <2>1. code \in Seq(Item) /\ at \in [DOMAIN code -> DOMAIN all]
        BY DEF IsCodeOfBlock
    <2>2. n \in Nat /\ DOMAIN code = 1 .. n + 1
        BY <2>1
    <2>3. front \in Seq(Item) /\ Len(front) = n /\ \A i \in 1 .. n : front[i] = code[i]
        BY <2>1, Ends
    <2>. QED
        BY <2>1, <2>2, <2>3
<1>2. DOMAIN all \subseteq Nat
    <2>1. all \in Seq(Statement)
        BY StatementsOfBlocks
    <2>. QED
        BY <2>1
<1>3. to \in [DOMAIN front -> DOMAIN all]
    BY <1>1
<1>. HIDE DEF to, front, n, all
<1>4. ASSUME NEW i \in DOMAIN front, NEW p \in DOMAIN all, p < to[i], NEW j \in DOMAIN code, at[j] = p
      PROVE  j \in DOMAIN front
    <2>1. i \in DOMAIN code /\ to[i] = at[i] /\ i \in Nat /\ j \in Nat /\ at[i] \in Nat /\ p \in Nat
        BY <1>1, <1>2
    <2>2. ~(i < j) /\ i # j
        BY <1>4, <2>1 DEF IsCodeOfBlock
    <2>. QED
        BY <1>1, <2>1, <2>2
<1>5. ASSUME NEW i \in DOMAIN front, NEW p \in DOMAIN all, p < to[i], all[p] \in OfKind("declare")
      PROVE  \/ \E j \in DOMAIN front : to[j] = p /\ front[j] = MainItem(all[p])
             \/ program[all[to[i]]].kind = "declare" /\ all[p] \notin ReferencedPlaceholders(all[to[i]])
    <2>1. i \in DOMAIN code /\ to[i] = at[i]
        BY <1>1
    <2>2. \/ \E j \in DOMAIN code : at[j] = p /\ code[j] = MainItem(all[p])
          \/ program[all[at[i]]].kind = "declare" /\ all[p] \notin ReferencedPlaceholders(all[at[i]])
        BY <1>5, <2>1 DEF IsCodeOfBlock, all
    <2>. QED
        BY <1>1, <1>4, <1>5, <2>1, <2>2
<1>6. ASSUME NEW i \in DOMAIN front
      PROVE  /\ \/ front[i] = MainItem(all[to[i]])
                \/ HasDefinition(all[to[i]]) /\ front[i] = HeaderItem(all[to[i]])
             /\ HasDefinition(all[to[i]]) /\ front[i] = MainItem(all[to[i]])
                => i - 1 \in DOMAIN front /\ to[i - 1] = to[i] /\ front[i - 1] = HeaderItem(all[to[i]])
    <2>1. i \in DOMAIN code /\ to[i] = at[i] /\ front[i] = code[i]
        BY <1>1
    <2>2. i - 1 \in DOMAIN code => i - 1 \in DOMAIN front
        BY <1>1
    <2>. QED
        BY <1>1, <2>1, <2>2 DEF IsCodeOfBlock, all
<1>7. \A i, j \in DOMAIN front : i < j => to[i] <= to[j]
    BY <1>1 DEF IsCodeOfBlock
<1>8. IsCodeOfBlock(front, b, to)
    BY <1>1, <1>3, <1>5, <1>6, <1>7 DEF IsCodeOfBlock, all
<1>. QED
    BY <1>8 DEF front

LEMMA LinesOfBlock ==
    ASSUME Kept, NEW b \in Block, blocks[b] = body.blocks[b], NEW names
    PROVE  \E code, at : \E tail \in Tails(b) : IsCodeOfBlock(code, b, at) /\ GenerateBlock(b, names) = code \o tail
<1>. DEFINE st == StatementsToGenerate(b, names)
            code == GenerateStatements(st)
            none == [i \in {} |-> 0]
<1>1. body \in Bodies /\ blocks \in [Block -> Seq(Statement)]
    BY DEF Kept
<1>2. PICK at : IsCodeOfBlock(code, b, at)
    BY <1>1, CodeOfBlock
<1>3. code \in Seq(Item)
    BY <1>2 DEF IsCodeOfBlock
<1>4. st # <<>> => code # <<>>
    BY <1>1, GeneratedStatements, CodeIsNotEmpty
<1>5. PICK front, tail : /\ front \in {<<>>, code} \/ (front = Front(code) /\ code # <<>>)
                         /\ tail \in Tails(b)
                         /\ GenerateBlock(b, names) = front \o tail
    BY <1>3, <1>4, FormOfBlock
<1>6. IsCodeOfBlock(<<>>, b, none)
    BY DEF IsCodeOfBlock
<1>. HIDE DEF code, none
<1>7. \E to : IsCodeOfBlock(front, b, to)
    BY <1>1, <1>2, <1>5, <1>6, FrontOfCode
<1>. QED
    BY <1>5, <1>7

-----------------------------------------------------------------------------
(* The code of a block can be executed when the block is entered.          *)

LEMMA OpsOf ==
    ASSUME body \in Bodies, NEW s \in Executable
    PROVE  /\ s \in Statement /\ MainItem(s).source = s /\ MainItem(s).again = FALSE
           /\ program[s].kind \in {"declare", "assign"} => MainItem(s).op = "assign" /\ MainItem(s).names = {program[s].name}
           /\ program[s].kind \in {"expression", "return"} => MainItem(s).op \in {"expression", "return"}
           /\ program[s].kind \in {"if", "timespan"} => MainItem(s).op = "if"
           /\ program[s].kind \in {"while", "for"} => MainItem(s).op = "while"
           /\ program[s].kind = "foreach" => MainItem(s).op = "for" /\ MainItem(s).names = {program[s].name}
           /\ program[s].kind \in {"declare", "assign", "expression", "return", "if", "timespan", "while", "for", "foreach"}
<1>1. program[s].kind \in Kinds \ {"parameter"} /\ s \in Statement
    BY Containers DEF Executable
<1>2. program[s].kind \in {"declare", "assign", "expression", "return", "if", "timespan", "while", "for", "foreach"}
    BY <1>1 DEF Kinds
<1>3. CASE program[s].kind \in {"declare", "assign"}
    BY <1>1, <1>3 DEF MainItem, Assign, Python
<1>4. CASE program[s].kind \in {"expression", "return", "if", "while"}
    BY <1>1, <1>4 DEF MainItem, Simple, Python
<1>5. CASE program[s].kind \in {"timespan", "for", "foreach"}
    BY <1>1, <1>5 DEF MainItem, Simple, Python
<1>. QED
    BY <1>1, <1>2, <1>3, <1>4, <1>5

LEMMA BoundBeforeOf ==
    ASSUME body \in Bodies, NEW b \in Block
    PROVE  /\ NamesOf(OfKind("parameter")) \subseteq BoundBefore(b)
           /\ \A o \in Statement : b \in NestedBlocks(program[o]) =>
                  /\ program[o].kind # "parameter"
                  /\ BoundBefore(b) = NamesOf(LocalDeclarations(o))
           /\ b = 1 => BoundBefore(b) = NamesOf(OfKind("parameter"))
           /\ \A s \in Statement : IsIn(s, b) => \A o \in Outer(s) : NamesOf(LocalDeclarations(o)) \subseteq BoundBefore(b)
<1>1. ASSUME NEW o \in Statement, b \in NestedBlocks(program[o])
      PROVE  program[o].kind # "parameter" /\ BoundBefore(b) = NamesOf(LocalDeclarations(o))
    <2>1. program[o].kind # "parameter"
        BY <1>1 DEF NestedBlocks
    <2>2. b # 1
        BY <1>1, OwnersOfBlocks
    <2>3. {p \in Statement : b \in NestedBlocks(program[p])} = {o}
        BY <1>1, Containers
    <2>. QED
        BY <2>1, <2>2, <2>3 DEF BoundBefore
<1>2. NamesOf(OfKind("parameter")) \subseteq BoundBefore(b)
    <2>1. CASE b = 1
        BY <2>1 DEF BoundBefore
    <2>2. CASE b # 1
        <3>1. PICK o \in Statement : b \in NestedBlocks(program[o])
            BY <2>2, OwnersOfBlocks
        <3>2. OfKind("parameter") \subseteq LocalDeclarations(o)
            BY <1>1, <3>1, LocalsDeclare
        <3>. QED
            BY <1>1, <3>1, <3>2 DEF NamesOf
    <2>. QED
        BY <2>1, <2>2
<1>3. ASSUME NEW s \in Statement, IsIn(s, b), NEW o \in Outer(s)
      PROVE  NamesOf(LocalDeclarations(o)) \subseteq BoundBefore(b)
    <2>1. o \in Statement /\ b \in NestedBlocks(program[o])
        BY <1>3, ContainingBlocks, OuterIsBefore
    <2>. QED
        BY <1>1, <2>1
<1>. QED
    BY <1>1, <1>2, <1>3 DEF BoundBefore

LEMMA ReferencesAreResolved ==
    ASSUME body \in Bodies, links = Link, ~HasLinkingErrors, NEW s \in Statement, NEW n \in References(s)
    PROVE  /\ program[s].kind # "parameter"
           /\ links[s][n] = Target(s, n) /\ Target(s, n) # Unresolved
           /\ Target(s, n) \in LocalDeclarations(s) /\ program[Target(s, n)].name = n
<1>1. program[s].kind # "parameter"
    BY DEF References
<1>2. links[s][n] = Target(s, n)
    BY DEF Link
<1>3. Target(s, n) # Unresolved
    BY <1>2 DEF HasLinkingErrors
<1>. QED
    BY <1>1, <1>2, <1>3, TargetIsLocal

\* A placeholder before a statement is assigned before it.
LEMMA ItemOfPlaceholder ==
    ASSUME body \in Bodies, NEW b \in Block, NEW code, NEW at, IsCodeOfBlock(code, b, at), NEW k \in DOMAIN code,
           NEW d \in PlaceholdersUpToStatement(body.blocks[b][at[k]]),
           \/ program[body.blocks[b][at[k]]].kind # "declare"
           \/ d \in ReferencedPlaceholders(body.blocks[b][at[k]])
    PROVE  \E j \in 1 .. k - 1 : /\ j \in DOMAIN code /\ at[j] < at[k] /\ body.blocks[b][at[j]] = d
                                 /\ code[j] = Assign(d) /\ code[j] = MainItem(d)
<1>. DEFINE all == body.blocks[b]
            s == all[at[k]]
<1>1. /\ code \in Seq(Item) /\ at \in [DOMAIN code -> DOMAIN all] /\ all \in Seq(Statement)
      /\ DOMAIN code = 1 .. Len(code) /\ DOMAIN all = 1 .. Len(all) /\ Len(code) \in Nat /\ Len(all) \in Nat
    BY StatementsOfBlocks DEF IsCodeOfBlock
<1>2. IsIn(s, b) /\ ContainingBlock(s) = b
    <2>1. IsIn(s, b)
        BY <1>1, StatementsOfBlocks
    <2>. QED
        BY <2>1, ContainingBlocks, StatementsOfBlocks
<1>3. d \in OfKind("declare") /\ \E p \in DOMAIN all : all[p] = d /\ \A j \in 1 .. p : all[j] # s
    BY <1>2 DEF PlaceholdersUpToStatement
<1>4. PICK p \in DOMAIN all : all[p] = d /\ \A j \in 1 .. p : all[j] # s
    BY <1>3
<1>5. p < at[k]
    <2>1. at[k] \in DOMAIN all
        BY <1>1
    <2>2. ASSUME at[k] <= p PROVE FALSE
        BY <1>1, <1>4, <2>1, <2>2
    <2>. QED
        BY <1>1, <2>1, <2>2
<1>6. PICK j \in DOMAIN code : at[j] = p /\ code[j] = MainItem(d)
    BY <1>3, <1>4, <1>5 DEF IsCodeOfBlock
<1>7. j < k
    <2>1. ASSUME k < j PROVE FALSE
        <3>1. at[k] <= at[j]
            BY <2>1 DEF IsCodeOfBlock
        <3>2. at[k] \in DOMAIN all /\ at[j] \in DOMAIN all
            BY <1>1
        <3>. QED
            BY <1>1, <1>5, <1>6, <3>1, <3>2
    <2>2. j # k
        <3>1. at[k] \in DOMAIN all
            BY <1>1
        <3>. QED
            BY <1>1, <1>5, <1>6, <3>1
    <2>3. j \in Nat /\ k \in Nat
        BY <1>1
    <2>. QED
        BY <2>1, <2>2, <2>3
<1>8. MainItem(d) = Assign(d)
    BY <1>3 DEF MainItem, OfKind
<1>9. j \in 1 .. k - 1
    BY <1>1, <1>7
<1>. QED
    BY <1>4, <1>5, <1>6, <1>8, <1>9

LEMMA AssignedIsAssigned ==
    ASSUME NEW code, NEW j, NEW first, NEW last, j \in first .. last, NEW s, code[j] = Assign(s)
    PROVE  IsAssigned(program[s].name, code, first, last)
<1>1. code[j].op = "assign" /\ program[s].name \in code[j].names
    BY DEF Assign, Python
<1>. QED
    BY <1>1 DEF IsAssigned

\* The placeholders of the block, the parameters and the declarations around the block.
LEMMA LookingBackIsReady ==
    ASSUME body \in Bodies, NEW b \in Block, NEW code, NEW at, IsCodeOfBlock(code, b, at), NEW k \in DOMAIN code,
           NEW s, s = body.blocks[b][at[k]], NEW d,
           \/ d \in OfKind("parameter")
           \/ d \in PlaceholdersUpToStatement(s) /\ (program[s].kind # "declare" \/ d \in ReferencedPlaceholders(s))
           \/ \E o \in Outer(s) : d \in LocalDeclarations(o)
    PROVE  program[d].name \in BoundBefore(b) \/ IsAssigned(program[d].name, code, 1, k - 1)
<1>1. IsIn(s, b) /\ s \in Statement
    <2>1. at[k] \in DOMAIN body.blocks[b]
        BY DEF IsCodeOfBlock
    <2>. QED
        BY <2>1, StatementsOfBlocks
<1>2. CASE d \in OfKind("parameter")
    BY <1>2, BoundBeforeOf DEF NamesOf
<1>3. CASE \E o \in Outer(s) : d \in LocalDeclarations(o)
    BY <1>1, <1>3, BoundBeforeOf DEF NamesOf
<1>4. CASE d \in PlaceholdersUpToStatement(s) /\ (program[s].kind # "declare" \/ d \in ReferencedPlaceholders(s))
    <2>1. PICK j \in 1 .. k - 1 : code[j] = Assign(d)
        BY <1>4, ItemOfPlaceholder
    <2>. QED
        BY <2>1, AssignedIsAssigned
<1>. QED
    BY <1>2, <1>3, <1>4

LEMMA MainItemsAreReady ==
    ASSUME body \in Bodies, links = Link, ~HasLinkingErrors, HeadersLookBack,
           NEW b \in Block, NEW code, NEW at, IsCodeOfBlock(code, b, at), NEW k \in DOMAIN code,
           code[k] = MainItem(body.blocks[b][at[k]]), NEW n \in Needs(code[k])
    PROVE  n \in BoundBefore(b) \/ IsAssigned(n, code, 1, k - 1)
<1>. DEFINE s == body.blocks[b][at[k]]
            Known(d) == program[d].name \in BoundBefore(b) \/ IsAssigned(program[d].name, code, 1, k - 1)
<1>1. IsIn(s, b) /\ s \in Statement /\ s \in Executable /\ program[s].kind # "parameter"
    <2>1. at[k] \in DOMAIN body.blocks[b]
        BY DEF IsCodeOfBlock
    <2>2. IsIn(s, b) /\ s \in Statement
        BY <2>1, StatementsOfBlocks
    <2>. QED
        BY <2>2, ContainingBlocks DEF Executable
<1>2. code[k].source = s
    BY <1>1, OpsOf
<1>3. ASSUME NEW d \in LocalDeclarations(s), program[s].kind # "declare" \/ d \in ReferencedPlaceholders(s),
             program[s].kind = "foreach" => d # s
      PROVE  Known(d)
    <2>1. CASE d \in OfKind("parameter") \/ \E o \in Outer(s) : d \in LocalDeclarations(o)
        BY <2>1, LookingBackIsReady
    <2>2. CASE d \in PlaceholdersUpToStatement(s)
        BY <1>3, <2>2, LookingBackIsReady
    <2>3. CASE d \in LoopVariable(s)
        <3>1. program[s].kind = "for" /\ d = program[s].definition
            BY <1>3, <2>3 DEF LoopVariable
        <3>2. k - 1 \in DOMAIN code /\ code[k - 1] = HeaderItem(s)
            <4>1. d # NoStatement
                BY <2>3, <3>1, Numbers DEF LoopVariable, OfKind
            <4>. QED
                BY <3>1, <4>1 DEF IsCodeOfBlock, HasDefinition
        <3>3. code[k - 1] = Assign(d)
            BY <3>1, <3>2 DEF HeaderItem
        <3>4. k - 1 \in 1 .. k - 1
            <4>1. DOMAIN code = 1 .. Len(code) /\ Len(code) \in Nat
                BY DEF IsCodeOfBlock
            <4>. QED
                BY <3>2, <4>1
        <3>. QED
            BY <3>3, <3>4, AssignedIsAssigned
    <2>. QED
        BY <1>1, <2>1, <2>2, <2>3, ScopeOf DEF Visible
<1>4. ASSUME n \in program[s].reads PROVE n \in BoundBefore(b) \/ IsAssigned(n, code, 1, k - 1)
    <2>. DEFINE d == Target(s, n)
    <2>1. n \in References(s)
        BY <1>1, <1>4 DEF References
    <2>2. links[s][n] = d /\ d \in LocalDeclarations(s) /\ program[d].name = n
        BY <1>1, <2>1, ReferencesAreResolved
    <2>3. program[s].kind = "foreach" => d # s
        BY <1>1, <2>1, <2>2 DEF HeadersLookBack, OfKind
    <2>4. program[d].kind \in {"parameter", "declare", "foreach"} /\ d \in Statement
        BY <1>1, <2>2, LocalsDeclare
    <2>5. CASE program[s].kind # "declare"
        BY <1>3, <2>2, <2>3, <2>5
    <2>6. CASE program[d].kind = "declare"
        <3>1. d \in ReferencedPlaceholders(s)
            BY <2>1, <2>2, <2>4, <2>6 DEF ReferencedPlaceholders, OfKind
        <3>. QED
            BY <1>3, <2>2, <2>3, <3>1
    <2>7. CASE program[s].kind = "declare" /\ program[d].kind # "declare"
        <3>1. LoopVariable(s) = {}
            BY <2>7 DEF LoopVariable
        <3>2. d \in OfKind("parameter") \/ \E o \in Outer(s) : d \in LocalDeclarations(o)
            BY <1>1, <2>2, <2>7, <3>1, ScopeOf DEF Visible, PlaceholdersUpToStatement, OfKind
        <3>3. Known(d)
            BY <3>2, LookingBackIsReady
        <3>. QED
            BY <2>2, <3>3
    <2>. QED
        BY <2>5, <2>6, <2>7
<1>5. ASSUME NEW d \in LocalDeclarations(s), n = program[d].name, program[s].kind # "declare",
             program[s].kind = "foreach" => d # s
      PROVE  n \in BoundBefore(b) \/ IsAssigned(n, code, 1, k - 1)
    BY <1>3, <1>5
<1>6. CASE program[s].kind \in {"declare", "assign", "expression", "return"}
    <2>1. code[k].op \in {"expression", "return", "assign"}
        <3>1. MainItem(s).op \in {"expression", "return", "assign"}
            <4>. HIDE DEF s
            <4>1. CASE program[s].kind \in {"declare", "assign"}
                BY <1>1, <4>1, OpsOf
            <4>2. CASE program[s].kind \in {"expression", "return"}
                BY <1>1, <4>2, OpsOf
            <4>. QED
                BY <1>6, <4>1, <4>2
        <3>. QED
            BY <3>1
    <2>. QED
        BY <1>2, <1>4, <2>1 DEF Needs
<1>7. CASE program[s].kind \in {"if", "timespan", "while", "for"}
    <2>1. code[k].op \in {"if", "while"}
        BY <1>1, <1>7, OpsOf
    <2>2. n \in program[s].reads \/ \E d \in LocalDeclarations(s) : n = program[d].name
        BY <1>2, <2>1 DEF Needs, NamesOf
    <2>. QED
        BY <1>4, <1>5, <1>7, <2>2
<1>8. CASE program[s].kind = "foreach"
    <2>1. code[k].op = "for"
        <3>1. MainItem(s).op = "for"
            BY <1>1, <1>8, OpsOf
        <3>. QED
            BY <3>1
    <2>2. n \in program[s].reads \/ \E d \in LocalDeclarations(s) : d # s /\ n = program[d].name
        BY <1>2, <2>1 DEF Needs, NamesOf
    <2>. QED
        BY <1>4, <1>5, <1>8, <2>2
<1>. QED
    BY <1>1, <1>6, <1>7, <1>8, OpsOf

LEMMA HeaderItemsAreReady ==
    ASSUME body \in Bodies, links = Link, ~HasLinkingErrors, HeadersLookBack,
           NEW b \in Block, NEW code, NEW at, IsCodeOfBlock(code, b, at), NEW k \in DOMAIN code,
           HasDefinition(body.blocks[b][at[k]]),
           code[k] = HeaderItem(body.blocks[b][at[k]]), NEW n \in Needs(code[k])
    PROVE  n \in BoundBefore(b) \/ IsAssigned(n, code, 1, k - 1)
<1>. DEFINE l == body.blocks[b][at[k]]
            h == program[l].definition
<1>1. IsIn(l, b) /\ l \in Statement /\ l \in Executable /\ l \in OfKind("for")
    <2>1. at[k] \in DOMAIN body.blocks[b]
        BY DEF IsCodeOfBlock
    <2>2. IsIn(l, b) /\ l \in Statement
        BY <2>1, StatementsOfBlocks
    <2>. QED
        BY <2>2, ContainingBlocks DEF Executable, OfKind, HasDefinition
<1>2. /\ code[k].source = h /\ code[k].op = "assign" /\ h \in Header(program[l])
      /\ h \in Statement /\ program[h].kind \in {"declare", "assign"} /\ h # program[l].iteration
    BY <1>1, ItemsOf, Containers DEF HasDefinition
<1>3. n \in program[h].reads
    BY <1>2 DEF Needs
<1>4. n \in References(h)
    BY <1>2, <1>3 DEF References
<1>. DEFINE d == Target(h, n)
<1>5. links[h][n] = d /\ program[d].name = n
    BY <1>2, <1>4, ReferencesAreResolved
<1>6. \/ d \in PlaceholdersUpToStatement(l) \cup OfKind("parameter")
      \/ \E o \in Outer(l) : d \in LocalDeclarations(o)
    BY <1>1, <1>2, <1>4, <1>5 DEF HeadersLookBack
<1>7. program[d].name \in BoundBefore(b) \/ IsAssigned(program[d].name, code, 1, k - 1)
    BY <1>6, LookingBackIsReady DEF HasDefinition
<1>. QED
    BY <1>5, <1>7

\* What the iteration of a loop reads can be seen from the loop.
LEMMA IterationsAreReady ==
    ASSUME body \in Bodies, links = Link, ~HasLinkingErrors, HeadersLookBack,
           NEW l \in OfKind("for"), NEW s \in Header(program[l]), NEW n \in program[s].reads
    PROVE  n \in NamesOf(LocalDeclarations(l))
<1>1. /\ l \in Statement /\ program[l].kind = "for" /\ s \in Statement
      /\ program[s].kind \in {"declare", "assign"}
    BY Containers DEF OfKind
<1>2. n \in References(s)
    BY <1>1 DEF References
<1>. DEFINE d == Target(s, n)
<1>3. links[s][n] = d /\ program[d].name = n /\ d \in LocalDeclarations(s) /\ program[s].kind # "parameter"
    BY <1>1, <1>2, ReferencesAreResolved
<1>4. \/ d \in PlaceholdersUpToStatement(l) \cup OfKind("parameter")
      \/ d = program[l].definition
      \/ \E o \in Outer(l) : d \in LocalDeclarations(o)
    BY <1>1, <1>2, <1>3 DEF HeadersLookBack
<1>5. d \in LocalDeclarations(l)
    <2>1. Visible(l) \subseteq LocalDeclarations(l) /\ \A o \in Outer(l) : LocalDeclarations(o) \subseteq LocalDeclarations(l)
        BY <1>1, ScopeOf
    <2>2. CASE d = program[l].definition
        <3>1. d \in Statement /\ program[d].kind \in {"parameter", "declare", "foreach"}
            BY <1>1, <1>3, LocalsDeclare
        <3>2. d \in Header(program[l])
            BY <1>1, <2>2, <3>1, Numbers DEF Header
        <3>3. program[d].kind = "declare"
            BY <1>1, <3>1, <3>2, Containers
        <3>. QED
            BY <1>1, <2>1, <2>2, <3>1, <3>3 DEF Visible, LoopVariable, OfKind
    <2>. QED
        BY <1>4, <2>1, <2>2 DEF Visible
<1>. QED
    BY <1>3, <1>5 DEF NamesOf

LEMMA TailItems ==
    ASSUME body \in Bodies, NEW b \in Block, NEW tail \in Tails(b)
    PROVE  /\ tail \in Seq(Item) /\ Len(tail) \in {0, 1}
           /\ \A k \in DOMAIN tail :
                  /\ k = 1
                  /\ \/ tail[k].op \in {"pass", "malformed"}
                     \/ \E l \in OfKind("for") : \E o \in Statement :
                            /\ b \in NestedBlocks(program[o]) /\ IsInside(o, l)
                            /\ tail[k].source \in Header(program[l])
                            /\ tail[k].op = "joined" \/ (tail[k].op = "assign" /\ o = l)
<1>. DEFINE Known(c) == \/ c.op \in {"pass", "malformed"}
                        \/ \E l \in OfKind("for") : \E o \in Statement :
                               /\ b \in NestedBlocks(program[o]) /\ IsInside(o, l)
                               /\ c.source \in Header(program[l])
                               /\ c.op = "joined" \/ (c.op = "assign" /\ o = l)
<1>1. Pass \in Item /\ Known(Pass)
    BY DEF Pass, Simple, Python, Item
<1>2. \A c \in JoinedIn(b) : c \in Item /\ Known(c)
    BY DEF JoinedIn
<1>3. ASSUME Iteration(b) # {} PROVE Assign(IterationOf(b)) \in Item /\ Known(Assign(IterationOf(b)))
    <2>. DEFINE s == IterationOf(b)
    <2>1. PICK l \in OfKind("for") : b \in NestedBlocks(program[l]) /\ s \in Header(program[l])
        BY <1>3, OwnersOfBlocks DEF IterationOf
    <2>2. l \in Statement /\ s \in Statement /\ program[s].kind \in {"declare", "assign"}
        BY <2>1, Containers DEF OfKind
    <2>3. IsInside(l, l)
        BY <2>2, Inside
    <2>. HIDE DEF s
    <2>4. Assign(s) \in Item /\ Assign(s).source = s /\ Assign(s).op = "assign"
        BY <2>2 DEF Assign, Python, Item, WordsOf, NamesOf
    <2>. QED
        BY <2>1, <2>2, <2>3, <2>4 DEF s
<1>. HIDE DEF Known
<1>4. tail = <<>> \/ \E c \in Item : Known(c) /\ tail = <<c>>
    BY <1>1, <1>2, <1>3 DEF Tails
<1>5. CASE tail = <<>>
    <2>1. tail \in Seq(Item) /\ Len(tail) = 0 /\ DOMAIN tail = {}
        BY <1>5
    <2>. QED
        BY <2>1
<1>6. ASSUME NEW c \in Item, Known(c), tail = <<c>>
      PROVE  tail \in Seq(Item) /\ Len(tail) \in {0, 1} /\ \A k \in DOMAIN tail : k = 1 /\ Known(tail[k])
    <2>1. tail \in Seq(Item) /\ Len(tail) = 1 /\ DOMAIN tail = {1} /\ tail[1] = c
        BY <1>6
    <2>. QED
        BY <1>6, <2>1
<1>7. tail \in Seq(Item) /\ Len(tail) \in {0, 1} /\ \A k \in DOMAIN tail : k = 1 /\ Known(tail[k])
    <2>1. CASE tail = <<>>
        BY <1>5, <2>1
    <2>. QED
        BY <1>4, <1>6, <2>1
<1>. QED
    BY <1>7 DEF Known

LEMMA LinesAreItems ==
    ASSUME Kept, NEW b \in Block, NEW names
    PROVE  GenerateBlock(b, names) \in Seq(Item)
<1>. DEFINE st == StatementsToGenerate(b, names)
            code == GenerateStatements(st)
<1>1. body \in Bodies /\ st \in Seq(Executable)
    BY GeneratedStatements DEF Kept
<1>2. code \in Seq(Item) /\ (st # <<>> => code # <<>>)
    BY <1>1, CodeOfStatements, CodeIsNotEmpty DEF IsCodeOf
<1>3. PICK front, tail : /\ front \in {<<>>, code} \/ (front = Front(code) /\ code # <<>>)
                         /\ tail \in Tails(b)
                         /\ GenerateBlock(b, names) = front \o tail
    BY <1>2, FormOfBlock
<1>. HIDE DEF code
<1>4. front \in Seq(Item)
    <2>1. <<>> \in Seq(Item)
        OBVIOUS
    <2>2. code # <<>> => Front(code) \in Seq(Item)
        BY <1>2, Ends
    <2>. QED
        BY <1>2, <1>3, <2>1, <2>2
<1>5. tail \in Seq(Item)
    BY <1>1, <1>3, TailItems
<1>. QED
    BY <1>3, <1>4, <1>5, Concatenation

LEMMA LinesAreReady ==
    ASSUME body \in Bodies, links = Link, ~HasLinkingErrors, HeadersLookBack,
           NEW b \in Block, NEW code, NEW at, IsCodeOfBlock(code, b, at), NEW tail \in Tails(b)
    PROVE  IsReady(code \o tail, BoundBefore(b))
<1>. DEFINE lns == code \o tail
<1>. SUFFICES ASSUME NEW k \in DOMAIN lns, NEW n \in Needs(lns[k])
              PROVE  n \in BoundBefore(b) \/ IsAssigned(n, lns, 1, k - 1)
    BY DEF IsReady
<1>1. code \in Seq(Item) /\ tail \in Seq(Item)
    BY TailItems DEF IsCodeOfBlock
<1>2. k \in 1 .. Len(code) + Len(tail) /\ Len(code) \in Nat /\ Len(tail) \in Nat /\ DOMAIN code = 1 .. Len(code)
    BY <1>1, Concatenation
<1>3. CASE k <= Len(code)
    <2>1. k \in DOMAIN code /\ lns[k] = code[k]
        BY <1>1, <1>2, <1>3, Concatenation
    <2>2. n \in BoundBefore(b) \/ IsAssigned(n, code, 1, k - 1)
        <3>1. \/ code[k] = MainItem(body.blocks[b][at[k]])
              \/ HasDefinition(body.blocks[b][at[k]]) /\ code[k] = HeaderItem(body.blocks[b][at[k]])
            BY <2>1 DEF IsCodeOfBlock
        <3>. QED
            BY <2>1, <3>1, MainItemsAreReady, HeaderItemsAreReady
    <2>3. ASSUME IsAssigned(n, code, 1, k - 1) PROVE IsAssigned(n, lns, 1, k - 1)
        <3>1. PICK m \in 1 .. k - 1 : code[m].op = "assign" /\ n \in code[m].names
            BY <2>3 DEF IsAssigned
        <3>2. m \in 1 .. Len(code)
            BY <1>2, <1>3
        <3>3. lns[m] = code[m]
            BY <1>1, <3>2, Concatenation
        <3>. QED
            BY <3>1, <3>3 DEF IsAssigned
    <2>. QED
        BY <2>2, <2>3
<1>4. CASE k > Len(code)
    <2>1. k - Len(code) \in DOMAIN tail /\ lns[k] = tail[k - Len(code)]
        BY <1>1, <1>2, <1>4, Concatenation
    <2>2. CASE lns[k].op \in {"pass", "malformed"}
        BY <2>2 DEF Needs
    <2>3. ASSUME NEW l \in OfKind("for"), NEW o \in Statement, b \in NestedBlocks(program[o]), IsInside(o, l),
                 lns[k].source \in Header(program[l]), lns[k].op \in {"joined", "assign"}
          PROVE  n \in BoundBefore(b)
        <3>1. n \in program[lns[k].source].reads
            BY <2>3 DEF Needs
        <3>2. n \in NamesOf(LocalDeclarations(l))
            BY <2>3, <3>1, IterationsAreReady
        <3>3. LocalDeclarations(l) \subseteq LocalDeclarations(o)
            BY <2>3, LocalsGrow
        <3>. QED
            BY <2>3, <3>2, <3>3, BoundBeforeOf DEF NamesOf
    <2>. QED
        BY <2>1, <2>2, <2>3, TailItems
<1>. QED
    BY <1>2, <1>3, <1>4

-----------------------------------------------------------------------------
(* In the code of a block, what a name refers to is assigned last.         *)

LEMMA AnchorsOf ==
    ASSUME body \in Bodies, NEW b \in Block, NEW code, NEW at, IsCodeOfBlock(code, b, at), NEW k \in DOMAIN code,
           NEW s, s = body.blocks[b][at[k]]
    PROVE  /\ s \in Statement /\ s \in Executable /\ IsIn(s, b) /\ program[s].kind # "parameter"
           /\ Anchor(code[k]) = s
           /\ \A w \in Writers(code[k]) : w \in Statement /\ IsInside(w, s)
<1>1. IsIn(s, b) /\ s \in Statement /\ s \in Executable /\ Loops(s) = {} /\ program[s].kind # "parameter"
    <2>1. at[k] \in DOMAIN body.blocks[b]
        BY DEF IsCodeOfBlock
    <2>2. IsIn(s, b) /\ s \in Statement
        BY <2>1, StatementsOfBlocks
    <2>. QED
        BY <2>2, ContainingBlocks DEF Executable
<1>2. CASE code[k] = MainItem(s)
    <2>1. code[k].source = s
        BY <1>1, <1>2, OpsOf
    <2>2. Anchor(code[k]) = s
        BY <1>1, <2>1 DEF Anchor
    <2>3. \A w \in Writers(code[k]) : w \in Statement /\ IsInside(w, s)
        BY <1>1, <2>1, Inside DEF Writers
    <2>. QED
        BY <1>1, <2>2, <2>3
<1>3. CASE HasDefinition(s) /\ code[k] = HeaderItem(s)
    <2>. DEFINE h == program[s].definition
    <2>1. code[k].source = h /\ code[k].op = "assign" /\ h \in Header(program[s]) /\ h \in Statement
        BY <1>1, <1>3, ItemsOf, Containers
    <2>2. Loops(h) = {s} /\ Outer(h) = {s}
        BY <1>1, <2>1, ContainingBlocks
    <2>3. Anchor(code[k]) = s
        <3>1. {s} \in SUBSET Nat
            BY <1>1, Numbers
        <3>2. Min({s}) \in {s}
            BY <3>1, MinOf
        <3>. QED
            BY <2>1, <2>2, <3>2 DEF Anchor
    <2>4. IsInside(h, s)
        BY <1>1, <2>1, <2>2, Inside
    <2>5. Writers(code[k]) = {h}
        BY <2>1 DEF Writers
    <2>. QED
        BY <1>1, <2>1, <2>3, <2>4, <2>5
<1>. QED
    BY <1>2, <1>3 DEF IsCodeOfBlock

\* If a declaration around the block is hidden from an item, the one that hides
\* it is assigned before.
LEMMA HidingIsAssigned ==
    ASSUME body \in Bodies, DeclaresOncePerBlock, HeadersLookBack, links = Link, ~HasLinkingErrors,
           NEW b \in Block, NEW code, NEW at, IsCodeOfBlock(code, b, at), NEW k \in DOMAIN code,
           NEW s, s = body.blocks[b][at[k]], NEW n, MayRead(code[k], n), VisibleTarget(s, n) # Unresolved,
           NEW d \in LocalDeclarations(s), program[d].name = n, d \notin Visible(s)
    PROVE  LET e == VisibleTarget(s, n)
           IN  /\ e \in Visible(s) /\ program[e].kind = "declare" /\ e \in Statement
               /\ \E i \in 1 .. k - 1 :
                      /\ i \in DOMAIN code /\ code[i] = Assign(e)
                      /\ i = k - 1 \/ (at[i] < at[k] /\ body.blocks[b][at[i]] = e)
<1>. DEFINE e == VisibleTarget(s, n)
            all == body.blocks[b]
            Goal == /\ program[e].kind = "declare"
                    /\ \E i \in 1 .. k - 1 :
                           /\ i \in DOMAIN code /\ code[i] = Assign(e)
                           /\ i = k - 1 \/ (at[i] < at[k] /\ all[at[i]] = e)
<1>1. /\ s \in Statement /\ s \in Executable /\ IsIn(s, b) /\ program[s].kind # "parameter" /\ Loops(s) = {}
      /\ ContainingBlock(s) = b /\ b \in Nat
    BY AnchorsOf, ContainingBlocks, Numbers
<1>2. e \in Visible(s) /\ program[e].name = n /\ e = Target(s, n) /\ e \in Statement
    BY <1>1, VisibleTargetOf, TargetOf, VisibleDeclares
<1>3. e \notin OfKind("parameter")
    <2>. SUFFICES ASSUME e \in OfKind("parameter") PROVE FALSE
        OBVIOUS
    <2>1. d \notin OfKind("parameter")
        BY DEF Visible
    <2>2. PICK c \in Block : d \in DeclarationsIn(c)
        BY <1>1, <2>1, LocalsDeclare
    <2>3. d = e
        BY <1>2, <2>2 DEF DeclaresOncePerBlock
    <2>. QED
        BY <1>2, <2>3
<1>4. CASE /\ e \in PlaceholdersUpToStatement(s)
           /\ program[s].kind # "declare" \/ e \in ReferencedPlaceholders(s)
    <2>1. PICK j \in 1 .. k - 1 : /\ j \in DOMAIN code /\ at[j] < at[k] /\ all[at[j]] = e
                                 /\ code[j] = Assign(e)
        BY <1>4, ItemOfPlaceholder
    <2>2. program[e].kind = "declare"
        BY <1>1, <1>4, VisibleDeclares DEF OfKind
    <2>3. Goal
        BY <1>2, <2>1, <2>2
    <2>. QED
        BY <1>2, <2>3
<1>5. CASE code[k] = MainItem(s)
    <2>1. code[k].source = s
        BY <1>1, <1>5, OpsOf
    <2>2. CASE program[s].kind = "for" /\ e \in LoopVariable(s)
        <3>1. e = program[s].definition /\ program[e].kind = "declare"
            BY <2>2 DEF LoopVariable, OfKind
        <3>2. k - 1 \in DOMAIN code /\ code[k - 1] = HeaderItem(s)
            <4>1. e # NoStatement
                BY <2>2, Numbers DEF LoopVariable, OfKind
            <4>. QED
                BY <1>5, <2>2, <3>1, <4>1 DEF IsCodeOfBlock, HasDefinition
        <3>3. code[k - 1] = Assign(e)
            BY <1>2, <3>1, <3>2 DEF HeaderItem
        <3>4. k - 1 \in 1 .. k - 1
            <4>1. DOMAIN code = 1 .. Len(code) /\ Len(code) \in Nat
                BY DEF IsCodeOfBlock
            <4>. QED
                BY <3>2, <4>1
        <3>5. Goal
            BY <3>1, <3>2, <3>3, <3>4
        <3>. QED
            BY <1>2, <3>5
    <2>3. CASE program[s].kind = "foreach" /\ e \in LoopVariable(s)
        <3>1. e = s
            BY <2>3 DEF LoopVariable
        <3>2. code[k].op = "for" /\ code[k].names = {program[s].name}
            <4>1. MainItem(s).op = "for" /\ MainItem(s).names = {program[s].name}
                BY <1>1, <2>3, OpsOf
            <4>. QED
                BY <1>5, <4>1
        <3>. QED
            BY <1>2, <3>1, <3>2 DEF MayRead
    <2>4. CASE program[s].kind = "declare" /\ e \in PlaceholdersUpToStatement(s)
        <3>1. code[k].op = "assign"
            <4>1. MainItem(s).op = "assign"
                BY <1>1, <2>4, OpsOf
            <4>. QED
                BY <1>5, <4>1
        <3>2. n \in program[s].reads
            BY <2>1, <3>1 DEF MayRead
        <3>3. n \in References(s)
            BY <1>1, <3>2 DEF References
        <3>4. links[s][n] = e
            BY <1>1, <1>2, <3>3, ReferencesAreResolved
        <3>5. e \in ReferencedPlaceholders(s)
            <4>1. e \in OfKind("declare")
                BY <1>1, <2>4, VisibleDeclares
            <4>. QED
                BY <3>3, <3>4, <4>1 DEF ReferencedPlaceholders
        <3>. QED
            BY <1>4, <2>4, <3>5
    <2>5. e \in LoopVariable(s) => program[s].kind \in {"for", "foreach"}
        BY DEF LoopVariable
    <2>6. e \in LoopVariable(s) \/ e \in PlaceholdersUpToStatement(s)
        BY <1>2, <1>3 DEF Visible
    <2>. QED
        BY <1>4, <2>2, <2>3, <2>4, <2>5, <2>6
<1>6. CASE HasDefinition(s) /\ code[k] = HeaderItem(s)
    <2>. DEFINE h == program[s].definition
    <2>1. /\ code[k].source = h /\ code[k].op = "assign" /\ h \in Header(program[s])
          /\ h \in Statement /\ program[h].kind \in {"declare", "assign"} /\ h # program[s].iteration
        BY <1>1, <1>6, ItemsOf, Containers DEF HasDefinition
    <2>2. n \in program[h].reads
        BY <2>1 DEF MayRead
    <2>3. n \in References(h)
        BY <2>1, <2>2 DEF References
    <2>4. links[h][n] = e
        BY <1>1, <1>2, <2>1, <2>3, ReferencesAreResolved, HeadersAgree
    <2>5. \/ e \in PlaceholdersUpToStatement(s) \cup OfKind("parameter")
          \/ \E o \in Outer(s) : e \in LocalDeclarations(o)
        BY <1>1, <1>6, <2>1, <2>3, <2>4 DEF HeadersLookBack, OfKind, HasDefinition
    <2>6. ASSUME NEW o \in Outer(s), e \in LocalDeclarations(o) PROVE FALSE
        <3>1. o \in Statement /\ program[o].kind # "parameter" /\ ContainingBlock(o) < b /\ ContainingBlock(o) \in Nat
            <4>1. o \in Compound /\ ContainingBlock(o) \in Block /\ ContainingBlock(o) < b
                BY <1>1, Placement
            <4>2. ContainingBlock(o) \in Nat
                BY <4>1, Numbers
            <4>. QED
                BY <4>1, <4>2 DEF Compound, OfKind
        <3>2. e \in DeclarationsIn(b)
            BY <1>1, <1>2, <1>3, VisibleDeclares
        <3>. QED
            BY <1>1, <2>6, <3>1, <3>2, LevelOfLocal
    <2>. QED
        BY <1>3, <1>4, <1>6, <2>5, <2>6 DEF HasDefinition
<1>. QED
    BY <1>5, <1>6 DEF IsCodeOfBlock

LEMMA EnteringIsConsistent ==
    ASSUME body \in Bodies, DeclaresOncePerBlock, HeadersLookBack, links = Link, ~HasLinkingErrors,
           NEW b \in Block, NEW code, NEW at, IsCodeOfBlock(code, b, at), NEW k \in DOMAIN code,
           NEW o \in Statement, b \in NestedBlocks(program[o]), NEW w, NEW n,
           MayRead(code[k], n), IsGood(w, o, n)
    PROVE  IsAssigned(n, code, 1, k - 1) \/ IsGood(w, Anchor(code[k]), n)
<1>. DEFINE s == body.blocks[b][at[k]]
            d == DeclarationOf(w)
            e == VisibleTarget(s, n)
<1>1. s \in Statement /\ IsIn(s, b) /\ program[s].kind # "parameter" /\ Anchor(code[k]) = s /\ o \in Outer(s)
    BY AnchorsOf, ContainingBlocks
<1>. SUFFICES ASSUME d \in LocalDeclarations(s), program[d].name = n, d # Target(s, n)
              PROVE  IsAssigned(n, code, 1, k - 1)
    BY <1>1 DEF IsGood
<1>2. d \notin Visible(s)
    BY <1>1, VisibleIsTarget
<1>3. d \in LocalDeclarations(o)
    BY <1>1, <1>2, ScopeOf, OuterIsBefore
<1>4. CASE e = Unresolved
    <2>1. Target(s, n) = Target(o, n)
        BY <1>1, <1>4, TargetOf
    <2>. QED
        BY <1>3, <2>1 DEF IsGood
<1>5. CASE e # Unresolved
    <2>1. PICK i \in 1 .. k - 1 : code[i] = Assign(e)
        BY <1>2, <1>5, HidingIsAssigned
    <2>2. program[e].name = n
        BY <1>1, <1>5, VisibleTargetOf
    <2>3. IsAssigned(program[e].name, code, 1, k - 1)
        BY <2>1, AssignedIsAssigned
    <2>. QED
        BY <2>2, <2>3
<1>. QED
    BY <1>4, <1>5

LEMMA CodeIsConsistent ==
    ASSUME body \in Bodies, DeclaresOncePerBlock, HeadersLookBack, links = Link, ~HasLinkingErrors,
           NEW b \in Block, NEW code, NEW at, IsCodeOfBlock(code, b, at), NEW k \in DOMAIN code, NEW j \in 1 .. k - 1,
           NEW w \in Writers(code[j]), NEW n, n = program[DeclarationOf(w)].name, MayRead(code[k], n)
    PROVE  IsAssigned(n, code, j + 1, k - 1) \/ IsGood(w, Anchor(code[k]), n)
<1>. DEFINE all == body.blocks[b]
            s == all[at[k]]
            u == all[at[j]]
            d == DeclarationOf(w)
            e == VisibleTarget(s, n)
<1>1. /\ DOMAIN code = 1 .. Len(code) /\ Len(code) \in Nat /\ j \in DOMAIN code /\ j < k /\ j \in Nat /\ k \in Nat
      /\ at[j] \in DOMAIN all /\ at[k] \in DOMAIN all /\ at[j] <= at[k] /\ DOMAIN all = 1 .. Len(all) /\ Len(all) \in Nat
    <2>1. code \in Seq(Item) /\ all \in Seq(Statement) /\ at \in [DOMAIN code -> DOMAIN all]
        BY StatementsOfBlocks DEF IsCodeOfBlock
    <2>2. DOMAIN code = 1 .. Len(code) /\ Len(code) \in Nat /\ DOMAIN all = 1 .. Len(all) /\ Len(all) \in Nat
        BY <2>1
    <2>3. j \in DOMAIN code /\ j < k /\ j \in Nat /\ k \in Nat
        BY <2>2
    <2>. QED
        BY <2>1, <2>2, <2>3 DEF IsCodeOfBlock
<1>2. s \in Statement /\ IsIn(s, b) /\ program[s].kind # "parameter" /\ Anchor(code[k]) = s
    BY AnchorsOf
<1>3. u \in Statement /\ IsIn(u, b) /\ program[u].kind # "parameter" /\ w \in Statement /\ IsInside(w, u)
    BY <1>1, AnchorsOf
<1>4. Outer(u) = Outer(s) /\ ContainingBlock(s) = b /\ ContainingBlock(u) = b
    <2>1. \A o : o \in Outer(u) <=> o \in Outer(s)
        BY <1>2, <1>3, ContainingBlocks, OuterIsBefore
    <2>2. Outer(u) \subseteq Statement /\ Outer(s) \subseteq Statement
        BY <1>2, <1>3, OuterIsBefore
    <2>. QED
        BY <1>2, <1>3, <2>1, <2>2, ContainingBlocks
<1>. SUFFICES ASSUME d \in LocalDeclarations(s), d # Target(s, n)
              PROVE  IsAssigned(n, code, j + 1, k - 1)
    BY <1>2 DEF IsGood
<1>5. d \notin Visible(s)
    BY <1>2, VisibleIsTarget
<1>6. PICK o \in Outer(s) : d \in LocalDeclarations(o)
    BY <1>2, <1>5, ScopeOf
<1>7. CASE e = Unresolved
    <2>1. Target(s, n) = Target(o, n)
        BY <1>2, <1>7, TargetOf
    <2>2. IsInside(w, o)
        BY <1>3, <1>4, Inside
    <2>3. o \in Statement /\ IsIn(o, ContainingBlock(o)) /\ ContainingBlock(o) \in Block
        BY <1>2, Placement, OuterIsBefore
    <2>4. IsGood(w, o, n)
        BY <1>3, <2>2, <2>3, WritersAreGood
    <2>. QED
        BY <1>6, <2>1, <2>4 DEF IsGood
<1>8. CASE e # Unresolved
    <2>1. PICK i \in 1 .. k - 1 : /\ i \in DOMAIN code /\ code[i] = Assign(e)
                                  /\ i = k - 1 \/ (at[i] < at[k] /\ all[at[i]] = e)
        BY <1>5, <1>8, HidingIsAssigned
    <2>2. e \in Visible(s) /\ program[e].kind = "declare" /\ e \in Statement
        BY <1>5, <1>8, HidingIsAssigned
    <2>3. i \in Nat
        BY <1>1, <2>1
    <2>4. CASE j < i
        <3>1. i \in j + 1 .. k - 1
            BY <1>1, <2>1, <2>3, <2>4
        <3>2. program[e].name = n
            BY <1>2, <1>8, VisibleTargetOf
        <3>. QED
            BY <2>1, <3>1, <3>2, AssignedIsAssigned
    <2>5. ASSUME code[j] = Assign(e) PROVE FALSE
        <3>1. Writers(code[j]) = {e}
            BY <2>5 DEF Writers, Assign, Python
        <3>2. d = e
            BY <2>2, <3>1 DEF DeclarationOf
        <3>. QED
            BY <1>5, <2>2, <3>2
    <2>6. CASE i < j
        <3>1. at[i] < at[k] /\ all[at[i]] = e /\ at[i] <= at[j]
            BY <1>1, <2>1, <2>3, <2>6 DEF IsCodeOfBlock
        <3>2. at[i] \in DOMAIN all
            BY <2>1 DEF IsCodeOfBlock
        <3>3. CASE at[i] = at[j]
            <4>1. u = e
                BY <3>1, <3>3
            <4>2. code[j] = MainItem(e)
                BY <1>1, <2>2, <4>1 DEF IsCodeOfBlock, HasDefinition
            <4>3. MainItem(e) = Assign(e)
                BY <2>2 DEF MainItem
            <4>4. program[e].name = n
                BY <1>2, <1>8, VisibleTargetOf
            <4>. QED
                BY <2>5, <4>2, <4>3, <4>4
        <3>4. CASE at[i] # at[j]
            <4>1. at[i] < at[j]
                BY <1>1, <3>1, <3>2, <3>4
            <4>2. \A q \in 1 .. at[i] : all[q] # u
                <5>. SUFFICES ASSUME NEW q \in 1 .. at[i], all[q] = u PROVE FALSE
                    OBVIOUS
                <5>1. q \in DOMAIN all /\ q # at[j]
                    BY <1>1, <3>2, <4>1
                <5>. QED
                    BY <1>1, <5>1, StatementsOfBlocks
            <4>3. e \in PlaceholdersUpToStatement(u)
                BY <1>4, <2>2, <3>1, <3>2, <4>2 DEF PlaceholdersUpToStatement, OfKind
            <4>4. e \in Visible(u)
                BY <4>3 DEF Visible
            <4>5. program[e].name = n
                BY <1>2, <1>8, VisibleTargetOf
            <4>6. Target(u, n) = e
                BY <1>3, <4>4, <4>5, VisibleIsTarget
            <4>7. d \in LocalDeclarations(u)
                BY <1>3, <1>4, <1>6, ScopeOf
            <4>8. IsGood(w, u, n)
                BY <1>3, WritersAreGood
            <4>9. d = e
                BY <4>6, <4>7, <4>8 DEF IsGood
            <4>. QED
                BY <1>5, <2>2, <4>9
        <3>. QED
            BY <3>3, <3>4
    <2>7. CASE i = j
        BY <2>1, <2>5, <2>7
    <2>. QED
        BY <1>1, <2>3, <2>4, <2>6, <2>7
<1>. QED
    BY <1>7, <1>8

LEMMA AssignedInPrefix ==
    ASSUME NEW T, NEW c \in Seq(T), NEW d \in Seq(T), NEW n, NEW first \in Nat, first >= 1, NEW last \in Int, last <= Len(c)
    PROVE  IsAssigned(n, c \o d, first, last) <=> IsAssigned(n, c, first, last)
<1>1. Len(c) \in Nat
    OBVIOUS
<1>2. \A m \in first .. last : m \in 1 .. Len(c)
    BY <1>1
<1>3. \A m \in first .. last : (c \o d)[m] = c[m]
    BY <1>2, Concatenation
<1>. QED
    BY <1>3 DEF IsAssigned

LEMMA AssignedInSuffix ==
    ASSUME NEW T, NEW c \in Seq(T), NEW d \in Seq(T), NEW n, NEW first \in Nat, first >= 1, NEW last \in Int, last <= Len(d)
    PROVE  IsAssigned(n, c \o d, Len(c) + first, Len(c) + last) <=> IsAssigned(n, d, first, last)
<1>1. Len(c) \in Nat /\ Len(d) \in Nat
    OBVIOUS
<1>2. ASSUME NEW m \in first .. last PROVE Len(c) + m \in Len(c) + first .. Len(c) + last /\ (c \o d)[Len(c) + m] = d[m]
    <2>1. m \in 1 .. Len(d)
        BY <1>1
    <2>2. (c \o d)[Len(c) + m] = d[m]
        BY <2>1, Concatenation
    <2>3. Len(c) + m \in Len(c) + first .. Len(c) + last
        BY <1>1
    <2>. QED
        BY <2>2, <2>3
<1>3. ASSUME NEW m \in Len(c) + first .. Len(c) + last PROVE m - Len(c) \in first .. last /\ (c \o d)[m] = d[m - Len(c)]
    <2>1. m \in 1 .. Len(c) + Len(d) /\ m > Len(c) /\ m - Len(c) \in first .. last
        BY <1>1
    <2>. QED
        BY <2>1, Concatenation
<1>4. ASSUME IsAssigned(n, c \o d, Len(c) + first, Len(c) + last) PROVE IsAssigned(n, d, first, last)
    <2>1. PICK m \in Len(c) + first .. Len(c) + last : (c \o d)[m].op = "assign" /\ n \in (c \o d)[m].names
        BY <1>4 DEF IsAssigned
    <2>2. m - Len(c) \in first .. last /\ d[m - Len(c)].op = "assign" /\ n \in d[m - Len(c)].names
        BY <1>3, <2>1
    <2>. QED
        BY <2>2 DEF IsAssigned
<1>5. ASSUME IsAssigned(n, d, first, last) PROVE IsAssigned(n, c \o d, Len(c) + first, Len(c) + last)
    <2>1. PICK m \in first .. last : d[m].op = "assign" /\ n \in d[m].names
        BY <1>5 DEF IsAssigned
    <2>2. Len(c) + m \in Len(c) + first .. Len(c) + last /\ (c \o d)[Len(c) + m].op = "assign" /\ n \in (c \o d)[Len(c) + m].names
        BY <1>2, <2>1
    <2>. QED
        BY <2>2 DEF IsAssigned
<1>. QED
    BY <1>4, <1>5

LEMMA AssignedInMore ==
    ASSUME NEW code, NEW n, NEW first \in Int, NEW last \in Int, NEW from \in Int, NEW to \in Int,
           from <= first, last <= to, IsAssigned(n, code, first, last)
    PROVE  IsAssigned(n, code, from, to)
<1>1. first .. last \subseteq from .. to
    OBVIOUS
<1>. QED
    BY <1>1 DEF IsAssigned

LEMMA TailAnchors ==
    ASSUME body \in Bodies, NEW b \in Block, NEW tail \in Tails(b), NEW k \in DOMAIN tail
    PROVE  \/ /\ Writers(tail[k]) = {}
              /\ \A n : ~MayRead(tail[k], n)
           \/ \E l, o \in Statement :
                  /\ b \in NestedBlocks(program[o]) /\ IsInside(o, l) /\ Anchor(tail[k]) = l
                  /\ IsIn(l, ContainingBlock(l)) /\ ContainingBlock(l) \in Block
                  /\ \A w \in Writers(tail[k]) : w \in Statement /\ IsInside(w, o)
<1>1. CASE tail[k].op \in {"pass", "malformed"}
    BY <1>1 DEF Writers, MayRead
<1>2. ASSUME NEW l \in OfKind("for"), NEW o \in Statement, b \in NestedBlocks(program[o]), IsInside(o, l),
             tail[k].source \in Header(program[l]), tail[k].op = "joined" \/ (tail[k].op = "assign" /\ o = l)
      PROVE  /\ l \in Statement /\ Anchor(tail[k]) = l /\ IsIn(l, ContainingBlock(l)) /\ ContainingBlock(l) \in Block
             /\ \A w \in Writers(tail[k]) : w \in Statement /\ IsInside(w, o)
    <2>2. l \in Statement /\ program[l].kind = "for"
        BY DEF OfKind
    <2>3. IsIn(l, ContainingBlock(l)) /\ ContainingBlock(l) \in Block
        BY <2>2, Placement
    <2>. DEFINE s == tail[k].source
    <2>4. Loops(s) = {l} /\ Outer(s) = {l} /\ s \in Statement
        BY <1>2, <2>2, <2>3, ContainingBlocks, Containers
    <2>5. {l} \in SUBSET Nat
        BY <2>2, Numbers
    <2>6. Min({l}) = l
        BY <2>5, MinOf
    <2>7. Anchor(tail[k]) = l
        BY <2>4, <2>6 DEF Anchor
    <2>8. Writers(tail[k]) = {} \/ (Writers(tail[k]) = {s} /\ o = l)
        BY <1>2 DEF Writers
    <2>9. IsInside(s, l)
        BY <2>2, <2>4, Inside
    <2>. QED
        BY <2>2, <2>3, <2>4, <2>7, <2>8, <2>9
<1>. QED
    BY <1>1, <1>2, TailItems

LEMMA LinesAreConsistent ==
    ASSUME body \in Bodies, DeclaresOncePerBlock, HeadersLookBack, links = Link, ~HasLinkingErrors,
           NEW b \in Block, NEW code, NEW at, IsCodeOfBlock(code, b, at), NEW tail \in Tails(b),
           \A k \in DOMAIN (code \o tail) :
               (code \o tail)[k].op = "joined" => \A n \in (code \o tail)[k].names : ~IsRead(n)
    PROVE  IsConsistentIn(code \o tail, b)
<1>. DEFINE lns == code \o tail
<1>1. /\ code \in Seq(Item) /\ tail \in Seq(Item) /\ Len(tail) \in {0, 1}
      /\ DOMAIN code = 1 .. Len(code) /\ DOMAIN lns = 1 .. Len(code) + Len(tail) /\ Len(code) \in Nat
    <2>1. code \in Seq(Item) /\ tail \in Seq(Item) /\ Len(tail) \in {0, 1}
        BY TailItems DEF IsCodeOfBlock
    <2>. QED
        BY <2>1, Concatenation
<1>2. \A k \in DOMAIN code : lns[k] = code[k]
    BY <1>1, Concatenation
<1>3. \A k \in DOMAIN lns : k \notin DOMAIN code => k = Len(code) + 1 /\ 1 \in DOMAIN tail /\ lns[k] = tail[1]
    BY <1>1, Concatenation
<1>. HIDE DEF lns
<1>4. ASSUME NEW n, NEW first \in Nat, first >= 1, NEW k \in DOMAIN code, IsAssigned(n, code, first, k - 1)
      PROVE  IsAssigned(n, lns, first, k - 1)
    <2>1. k - 1 \in Int /\ k - 1 <= Len(code)
        BY <1>1
    <2>. QED
        BY <1>1, <1>4, <2>1, AssignedInPrefix DEF lns
<1>5. ASSUME NEW k \in DOMAIN lns, NEW j \in 1 .. k - 1, NEW w \in Writers(lns[j]), NEW n,
             n = program[DeclarationOf(w)].name, MayRead(lns[k], n)
      PROVE  IsAssigned(n, lns, j + 1, k - 1) \/ IsGood(w, Anchor(lns[k]), n)
    <2>1. j \in DOMAIN code /\ lns[j] = code[j] /\ j + 1 \in Nat /\ j + 1 >= 1
        <3>1. \A t \in {0, 1} : \A m \in Nat : \A x \in 1 .. m + t : \A y \in 1 .. x - 1 : y \in 1 .. m
            OBVIOUS
        <3>2. j \in 1 .. Len(code)
            BY <1>1, <3>1, Zenon
        <3>. QED
            BY <1>1, <1>2, <3>2
    <2>2. CASE k \in DOMAIN code
        <3>1. IsAssigned(n, code, j + 1, k - 1) \/ IsGood(w, Anchor(code[k]), n)
            BY <1>2, <1>5, <2>1, <2>2, CodeIsConsistent
        <3>. QED
            BY <1>2, <1>4, <2>1, <2>2, <3>1
    <2>3. CASE k \notin DOMAIN code
        <3>1. 1 \in DOMAIN tail /\ lns[k] = tail[1]
            BY <1>3, <2>3
        <3>2. PICK l, o \in Statement :
                  /\ b \in NestedBlocks(program[o]) /\ IsInside(o, l) /\ Anchor(lns[k]) = l
                  /\ IsIn(l, ContainingBlock(l)) /\ ContainingBlock(l) \in Block
            BY <1>5, <3>1, TailAnchors
        <3>. DEFINE s == body.blocks[b][at[j]]
        <3>3. s \in Statement /\ IsIn(s, b) /\ w \in Statement /\ IsInside(w, s)
            BY <1>5, <2>1, AnchorsOf
        <3>4. o \in Outer(s)
            BY <3>2, <3>3, ContainingBlocks
        <3>5. IsInside(w, l)
            BY <3>2, <3>3, <3>4, Inside, InsideTwice
        <3>. QED
            BY <3>2, <3>3, <3>5, WritersAreGood
    <2>. QED
        BY <2>2, <2>3
<1>6. ASSUME NEW o \in Statement, b \in NestedBlocks(program[o]), NEW j \in DOMAIN lns, NEW w \in Writers(lns[j])
      PROVE  IsInside(w, o)
    <2>1. CASE j \in DOMAIN code
        <3>. DEFINE s == body.blocks[b][at[j]]
        <3>1. s \in Statement /\ IsIn(s, b) /\ w \in Statement /\ IsInside(w, s)
            BY <1>2, <1>6, <2>1, AnchorsOf
        <3>2. o \in Outer(s)
            BY <1>6, <3>1, ContainingBlocks
        <3>. QED
            BY <3>1, <3>2, Inside
    <2>2. CASE j \notin DOMAIN code
        <3>1. 1 \in DOMAIN tail /\ lns[j] = tail[1]
            BY <1>3, <2>2
        <3>2. PICK p \in Statement : b \in NestedBlocks(program[p]) /\ IsInside(w, p)
            BY <1>6, <3>1, TailAnchors
        <3>3. p = o
            BY <1>6, <3>2, Containers
        <3>. QED
            BY <3>2, <3>3
    <2>. QED
        BY <2>1, <2>2
<1>7. ASSUME NEW o \in Statement, b \in NestedBlocks(program[o]), NEW k \in DOMAIN lns, NEW n, NEW w \in Statement,
             MayRead(lns[k], n), IsGood(w, o, n)
      PROVE  IsAssigned(n, lns, 1, k - 1) \/ IsGood(w, Anchor(lns[k]), n)
    <2>1. CASE k \in DOMAIN code
        <3>1. IsAssigned(n, code, 1, k - 1) \/ IsGood(w, Anchor(code[k]), n)
            BY <1>2, <1>7, <2>1, EnteringIsConsistent
        <3>. QED
            BY <1>2, <1>4, <2>1, <3>1
    <2>2. CASE k \notin DOMAIN code
        <3>1. 1 \in DOMAIN tail /\ lns[k] = tail[1]
            BY <1>3, <2>2
        <3>2. PICK l, p \in Statement :
                  /\ b \in NestedBlocks(program[p]) /\ IsInside(p, l) /\ Anchor(lns[k]) = l
                  /\ IsIn(l, ContainingBlock(l)) /\ ContainingBlock(l) \in Block
            BY <1>7, <3>1, TailAnchors
        <3>3. p = o
            BY <1>7, <3>2, Containers
        <3>4. IsIn(o, ContainingBlock(o)) /\ ContainingBlock(o) \in Block
            <4>1. program[o].kind \notin {"parameter", "declare", "assign"}
                BY <1>7 DEF NestedBlocks
            <4>. QED
                BY <4>1, Placement
        <3>. DEFINE d == DeclarationOf(w)
        <3>5. ASSUME d \in LocalDeclarations(l), program[d].name = n PROVE d = Target(l, n)
            <4>1. d \in LocalDeclarations(o)
                BY <3>2, <3>3, <3>5, LocalsGrow
            <4>2. d = Target(o, n)
                BY <1>7, <3>5, <4>1 DEF IsGood
            <4>. QED
                BY <3>2, <3>3, <3>4, <3>5, <4>2, TargetsAgree
        <3>. QED
            BY <3>2, <3>5 DEF IsGood
    <2>. QED
        BY <2>1, <2>2
<1>8. IsConsistent(lns)
    BY <1>5 DEF IsConsistent, lns
<1>9. IsConsistentIn(lns, b)
    BY <1>6, <1>7, <1>8 DEF IsConsistentIn, Reaches
<1>. QED
    BY <1>9 DEF lns

-----------------------------------------------------------------------------
(* Steps.                                                                  *)

\* The body and its links are never changed.
LEMMA BodyStays ==
    ASSUME UNCHANGED <<body, links>>
    PROVE  /\ program' = program /\ Statement' = Statement /\ Block' = Block /\ Item' = Item /\ Names' = Names
           /\ \A kind : OfKind(kind)' = OfKind(kind)
           /\ (DeclaresOncePerBlock' <=> DeclaresOncePerBlock) /\ (HeadersLookBack' <=> HeadersLookBack)
           /\ (HasLinkingErrors' <=> HasLinkingErrors) /\ Link' = Link
           /\ \A D : NamesOf(D)' = NamesOf(D)
           /\ \A n : IsRead(n)' <=> IsRead(n)
           /\ \A s : LocalDeclarations(s)' = LocalDeclarations(s)
           /\ \A s, n : Target(s, n)' = Target(s, n)
           /\ \A s : DeclarationOf(s)' = DeclarationOf(s)
           /\ \A b : BoundBefore(b)' = BoundBefore(b)
           /\ \A c : Needs(c)' = Needs(c) /\ Writers(c)' = Writers(c) /\ Anchor(c)' = Anchor(c)
           /\ \A w, s : IsInside(w, s)' <=> IsInside(w, s)
           /\ \A w, s, n : IsGood(w, s, n)' <=> IsGood(w, s, n)
           /\ \A c, n : MayRead(c, n)' <=> MayRead(c, n)
           /\ \A c, e : IsReady(c, e)' <=> IsReady(c, e)
           /\ \A c, e : Follows(c, e)' <=> Follows(c, e)
           /\ \A c : IsConsistent(c)' <=> IsConsistent(c)
           /\ \A c, b : IsConsistentIn(c, b)' <=> IsConsistentIn(c, b)
<1>1. program' = program /\ Statement' = Statement /\ Block' = Block
    BY DEF program, Statement, Block
<1>2. /\ \A kind : OfKind(kind)' = OfKind(kind)
      /\ \A D : NamesOf(D)' = NamesOf(D)
    BY <1>1 DEF OfKind, NamesOf
<1>3. \A s : Loops(s)' = Loops(s)
    BY <1>1, <1>2 DEF Loops
<1>4. \A s : ContainingBlock(s)' = ContainingBlock(s) /\ Outer(s)' = Outer(s)
    BY <1>1, <1>3 DEF ContainingBlock, Outer
<1>5. \A s : LoopVariable(s)' = LoopVariable(s) /\ PlaceholdersUpToStatement(s)' = PlaceholdersUpToStatement(s)
    BY <1>1, <1>2, <1>4 DEF LoopVariable, PlaceholdersUpToStatement
<1>6. \A s : Visible(s)' = Visible(s)
    BY <1>2, <1>5 DEF Visible
<1>7. \A s : LocalDeclarations(s)' = LocalDeclarations(s)
    BY <1>1, <1>4, <1>6 DEF LocalDeclarations
<1>8. \A D, n : Named(D, n)' = Named(D, n)
    BY <1>1 DEF Named
<1>9. \A s, n : VisibleTarget(s, n)' = VisibleTarget(s, n)
    BY <1>1, <1>2, <1>4, <1>5, <1>8 DEF VisibleTarget
<1>10. \A s, n : Target(s, n)' = Target(s, n)
    BY <1>1, <1>4, <1>9 DEF Target
<1>11. \A s : References(s)' = References(s)
    BY <1>1 DEF References
<1>12. (HasLinkingErrors' <=> HasLinkingErrors) /\ Link' = Link
    BY <1>1, <1>10, <1>11 DEF HasLinkingErrors, Link
<1>13. \A s : DeclarationOf(s)' = DeclarationOf(s)
    BY <1>1 DEF DeclarationOf
<1>14. \A b : DeclarationsIn(b)' = DeclarationsIn(b)
    BY <1>1, <1>2, <1>5 DEF DeclarationsIn
<1>15. (DeclaresOncePerBlock' <=> DeclaresOncePerBlock) /\ (HeadersLookBack' <=> HeadersLookBack)
    BY <1>1, <1>2, <1>4, <1>5, <1>7, <1>11, <1>14 DEF DeclaresOncePerBlock, HeadersLookBack
<1>16. /\ Item' = Item /\ Names' = Names
       /\ \A n : IsRead(n)' <=> IsRead(n)
    <2>1. \A S : WordsOf(S)' = WordsOf(S)
        BY <1>1, <1>2 DEF WordsOf, Joined
    <2>. QED
        BY <1>1, <1>2, <2>1 DEF Item, Names, IsRead
<1>17. \A b : BoundBefore(b)' = BoundBefore(b)
    BY <1>1, <1>2, <1>7 DEF BoundBefore
<1>18. \A w, s : IsInside(w, s)' <=> IsInside(w, s)
    BY <1>1, <1>4 DEF IsInside
<1>19. \A c : Needs(c)' = Needs(c) /\ Writers(c)' = Writers(c) /\ Anchor(c)' = Anchor(c)
    BY <1>1, <1>2, <1>3, <1>7, <1>18 DEF Needs, Writers, Anchor
<1>20. \A w, s, n : IsGood(w, s, n)' <=> IsGood(w, s, n)
    BY <1>1, <1>7, <1>10, <1>13 DEF IsGood
<1>21. \A c, n : MayRead(c, n)' <=> MayRead(c, n)
    BY <1>1 DEF MayRead
<1>22. \A c, n, w : Reaches(c, n, w)' <=> Reaches(c, n, w)
    BY <1>19, <1>20, <1>21 DEF Reaches
<1>23. \A c, e : (IsReady(c, e)' <=> IsReady(c, e)) /\ (Follows(c, e)' <=> Follows(c, e))
    BY <1>1, <1>16, <1>19, <1>20, <1>21, <1>22 DEF IsReady, Follows
<1>24. \A c : IsConsistent(c)' <=> IsConsistent(c)
    BY <1>1, <1>13, <1>16, <1>19, <1>20, <1>21 DEF IsConsistent
<1>25. \A c, b : IsConsistentIn(c, b)' <=> IsConsistentIn(c, b)
    BY <1>1, <1>18, <1>19, <1>20, <1>24, <1>22 DEF IsConsistentIn
<1>. QED
    BY <1>1, <1>2, <1>7, <1>10, <1>12, <1>13, <1>15, <1>16, <1>17, <1>18, <1>19, <1>20, <1>21, <1>23, <1>24, <1>25

LEMMA InitIsReady == Init => Kept /\ ReadyInv /\ ConsistentInv
<1>. SUFFICES ASSUME Init PROVE Kept /\ ReadyInv /\ ConsistentInv
    OBVIOUS
<1>0. /\ body \in Bodies /\ blocks = body.blocks /\ links = Link /\ lines = [b \in Block |-> <<>>]
      /\ todo = <<>> /\ env = <<>> /\ reads = {} /\ generations = <<>>
    BY DEF Init
<1>1. /\ todo \in Seq(Item) /\ DOMAIN todo = {} /\ DOMAIN env = {} /\ Range(env) = {}
      /\ generations \in Seq(SUBSET Names) /\ Len(generations) = 0
    BY <1>0 DEF Range
<1>2. \A b \in Block : lines[b] = <<>> /\ DOMAIN lines[b] = {} /\ lines[b] \in Seq(Item)
    BY <1>0
<1>3. blocks \in [Block -> Seq(Statement)]
    <2>1. body.blocks = [b \in Block |-> body.blocks[b]]
        BY <1>0, BodyIsBody DEF Block, IsBody
    <2>. QED
        BY <1>0, <2>1, StatementsOfBlocks
<1>4. Kept
    <2>1. Len(generations) <= MaxGenerations
        BY <1>0, <1>1, BodyIsBody
    <2>2. lines \in [Block -> Seq(Item)]
        BY <1>0
    <2>. QED
        BY <1>0, <1>1, <1>3, <2>1, <2>2 DEF Kept
<1>5. ReadyInv
    BY <1>0, <1>1, <1>2 DEF ReadyInv, BlockIsReady, IsReady
<1>6. ConsistentInv
    BY <1>1, <1>2 DEF ConsistentInv, BlockIsConsistent, IsConsistentIn, IsConsistent, Follows, Reaches
<1>. QED
    BY <1>4, <1>5, <1>6

-----------------------------------------------------------------------------
(* The function is generated and called.                                   *)

LEMMA GenerateKeeps ==
    ASSUME Kept, NEW names \in SUBSET Names, Generate(names)
    PROVE  Kept'
<1>1. /\ UNCHANGED <<body, links>> /\ Len(generations) < MaxGenerations /\ generations' = Append(generations, names)
      /\ lines' = [b \in Block |-> GenerateBlock(b, names)] /\ todo' = lines'[1]
      /\ blocks' = [b \in Block |-> IF b \in GeneratedBlocks(names) /\ TargetsIn(b, names) # {}
                                   THEN Reverse(blocks[b]) ELSE blocks[b]]
      /\ env' = [n \in {program[s].name : s \in OfKind("parameter")} |-> Min(Named(OfKind("parameter"), n))]
    BY DEF Generate
<1>2. /\ body \in Bodies /\ links = Link /\ generations \in Seq(SUBSET Names)
      /\ blocks \in [Block -> Seq(Statement)] /\ \A b \in Block : ToSet(blocks[b]) = ToSet(body.blocks[b])
      /\ (\A i \in DOMAIN generations : generations[i] = {}) => blocks = body.blocks
    BY DEF Kept
<1>3. /\ generations' \in Seq(SUBSET Names) /\ Len(generations') <= MaxGenerations
      /\ DOMAIN generations' = DOMAIN generations \cup {Len(generations) + 1}
      /\ generations'[Len(generations) + 1] = names
      /\ \A i \in DOMAIN generations : generations'[i] = generations[i]
    <2>1. MaxGenerations \in Nat
        BY <1>2, BodyIsBody
    <2>. QED
        BY <1>1, <1>2, <2>1
<1>4. ASSUME NEW b \in Block
      PROVE  /\ Reverse(blocks[b]) \in Seq(Statement) /\ ToSet(Reverse(blocks[b])) = ToSet(blocks[b])
    <2>. DEFINE all == blocks[b]
    <2>1. all \in Seq(Statement) /\ DOMAIN all = 1 .. Len(all) /\ Len(all) \in Nat
        BY <1>2
    <2>2. Reverse(all) = [i \in 1 .. Len(all) |-> all[(Len(all) - i) + 1]]
        BY DEF Reverse
    <2>. HIDE DEF all
    <2>3. \A i \in 1 .. Len(all) : (Len(all) - i) + 1 \in 1 .. Len(all) /\ (Len(all) - ((Len(all) - i) + 1)) + 1 = i
        BY <2>1
    <2>4. Reverse(all) \in Seq(Statement) /\ DOMAIN Reverse(all) = 1 .. Len(all)
        BY <2>1, <2>2, <2>3
    <2>5. \A i \in 1 .. Len(all) : Reverse(all)[i] = all[(Len(all) - i) + 1]
        BY <2>2
    <2>6. ToSet(Reverse(all)) = ToSet(all)
        <3>1. ASSUME NEW x \in ToSet(all) PROVE x \in ToSet(Reverse(all))
            <4>1. PICK i \in 1 .. Len(all) : all[i] = x
                BY <2>1, <3>1 DEF ToSet
            <4>2. (Len(all) - i) + 1 \in 1 .. Len(all) /\ Reverse(all)[(Len(all) - i) + 1] = x
                BY <2>3, <2>5, <4>1
            <4>. QED
                BY <2>4, <4>2 DEF ToSet
        <3>2. ASSUME NEW x \in ToSet(Reverse(all)) PROVE x \in ToSet(all)
            <4>1. PICK i \in 1 .. Len(all) : Reverse(all)[i] = x
                BY <2>4, <3>2 DEF ToSet
            <4>. QED
                BY <2>1, <2>3, <2>5, <4>1 DEF ToSet
        <3>. QED
            BY <3>1, <3>2
    <2>. QED
        BY <2>4, <2>6 DEF all
<1>5. blocks' \in [Block -> Seq(Statement)] /\ \A b \in Block : ToSet(blocks'[b]) = ToSet(body.blocks[b])
    <2>1. \A b \in Block : blocks'[b] = Reverse(blocks[b]) \/ blocks'[b] = blocks[b]
        BY <1>1
    <2>2. \A b \in Block : blocks'[b] \in Seq(Statement) /\ ToSet(blocks'[b]) = ToSet(body.blocks[b])
        BY <1>2, <1>4, <2>1
    <2>. QED
        BY <1>1, <2>2
<1>6. ASSUME \A i \in DOMAIN generations' : generations'[i] = {} PROVE blocks' = body.blocks
    <2>1. names = {} /\ \A i \in DOMAIN generations : generations[i] = {}
        BY <1>3, <1>6
    <2>2. \A b \in Block : TargetsIn(b, names) = {}
        BY <2>1 DEF TargetsIn
    <2>3. blocks' = [b \in Block |-> blocks[b]]
        BY <1>1, <2>2
    <2>. QED
        BY <1>2, <2>1, <2>3
<1>7. lines' \in [Block -> Seq(Item)] /\ todo' \in Seq(Item)
    <2>1. \A b \in Block : GenerateBlock(b, names) \in Seq(Item)
        BY LinesAreItems
    <2>. QED
        BY <1>1, <1>2, <2>1, Numbers
<1>8. Range(env') \subseteq Statement
    <2>1. OfKind("parameter") \subseteq Statement /\ DOMAIN env' = {program[s].name : s \in OfKind("parameter")}
        BY <1>1 DEF OfKind
    <2>2. ASSUME NEW n \in DOMAIN env' PROVE env'[n] \in Statement
        <3>1. Named(OfKind("parameter"), n) # {}
            BY <2>1 DEF Named
        <3>2. Named(OfKind("parameter"), n) \in SUBSET Nat
            BY <1>2, <2>1, Numbers DEF Named
        <3>3. Min(Named(OfKind("parameter"), n)) \in Named(OfKind("parameter"), n)
            BY <3>1, <3>2, MinOf
        <3>. QED
            BY <1>1, <2>1, <3>3 DEF Named
    <2>. QED
        BY <2>1, <2>2 DEF Range
<1>. QED
    BY <1>1, <1>2, <1>3, <1>5, <1>6, <1>7, <1>8, BodyStays DEF Kept

\* As long as no slice was generated before, the code is that of the blocks as
\* they were written.
LEMMA GeneratedLines ==
    ASSUME Kept, NEW names \in SUBSET Names, Generate(names), IsIntact', NEW b \in Block
    PROVE  \E code, at : \E tail \in Tails(b) : IsCodeOfBlock(code, b, at) /\ lines'[b] = code \o tail
<1>1. /\ generations' = Append(generations, names) /\ lines' = [c \in Block |-> GenerateBlock(c, names)]
      /\ generations \in Seq(SUBSET Names) /\ body \in Bodies /\ blocks \in [Block -> Seq(Statement)]
    BY DEF Generate, Kept
<1>2. \A i \in DOMAIN generations : generations[i] = {}
    <2>. SUFFICES ASSUME NEW i \in DOMAIN generations PROVE generations[i] = {}
        OBVIOUS
    <2>1. Len(generations') = Len(generations) + 1 /\ i \in 1 .. Len(generations') - 1 /\ generations'[i] = generations[i]
        BY <1>1
    <2>. QED
        BY <2>1 DEF IsIntact
<1>3. blocks[b] = body.blocks[b]
    BY <1>2 DEF Kept
<1>. QED
    BY <1>1, <1>3, LinesOfBlock

LEMMA GenerateIsReady ==
    ASSUME Kept, NEW names \in SUBSET Names, Generate(names)
    PROVE  ReadyInv' /\ ConsistentInv'
<1>1. /\ UNCHANGED <<body, links>> /\ body \in Bodies /\ links = Link /\ ~HasLinkingErrors
      /\ todo' = lines'[1] /\ reads' = {} /\ 1 \in Block
      /\ env' = [n \in {program[s].name : s \in OfKind("parameter")} |-> Min(Named(OfKind("parameter"), n))]
    BY Numbers DEF Generate, Kept
<1>2. Block' = Block /\ (HeadersLookBack' <=> HeadersLookBack) /\ (DeclaresOncePerBlock' <=> DeclaresOncePerBlock)
    BY <1>1, BodyStays
<1>3. DOMAIN env' = NamesOf(OfKind("parameter")) /\ BoundBefore(1) = NamesOf(OfKind("parameter"))
    BY <1>1, BoundBeforeOf DEF NamesOf
<1>4. ASSUME HeadersLookBack, IsIntact', NEW b \in Block PROVE IsReady(lines'[b], BoundBefore(b))
    <2>1. PICK code, at : \E tail \in Tails(b) : IsCodeOfBlock(code, b, at) /\ lines'[b] = code \o tail
        BY <1>4, GeneratedLines
    <2>. QED
        BY <1>1, <1>4, <2>1, LinesAreReady
<1>5. ASSUME DeclaresOncePerBlock, HeadersLookBack, IsIntact', JoinedNamesGoUnread', NEW b \in Block
      PROVE  IsConsistentIn(lines'[b], b)
    <2>1. PICK code, at : \E tail \in Tails(b) : IsCodeOfBlock(code, b, at) /\ lines'[b] = code \o tail
        BY <1>5, GeneratedLines
    <2>2. PICK tail \in Tails(b) : IsCodeOfBlock(code, b, at) /\ lines'[b] = code \o tail
        BY <2>1
    <2>3. program' = program /\ Statement' = Statement
        BY <1>1, BodyStays
    <2>4. \A k \in DOMAIN lines'[b] : lines'[b][k].op = "joined" => \A n \in lines'[b][k].names : ~IsRead(n)
        BY <1>2, <1>5, <2>3 DEF JoinedNamesGoUnread, ToSet, IsRead
    <2>5. IsConsistentIn(code \o tail, b)
        BY <1>1, <1>5, <2>2, <2>4, LinesAreConsistent
    <2>. QED
        BY <2>2, <2>5
<1>6. ASSUME DeclaresOncePerBlock, HeadersLookBack, IsIntact' PROVE Follows(lines'[1], env')
    <2>1. PICK code, at : \E tail \in Tails(1) : IsCodeOfBlock(code, 1, at) /\ lines'[1] = code \o tail
        BY <1>1, <1>6, GeneratedLines
    <2>2. PICK tail \in Tails(1) : IsCodeOfBlock(code, 1, at) /\ lines'[1] = code \o tail
        BY <2>1
    <2>3. code \in Seq(Item) /\ tail \in Seq(Item)
        BY <1>1, <2>2, TailItems DEF IsCodeOfBlock
    <2>4. ASSUME NEW n \in DOMAIN env' PROVE env'[n] \in OfKind("parameter") /\ program[env'[n]].name = n
        <3>1. Named(OfKind("parameter"), n) # {}
            BY <1>3 DEF NamesOf, Named
        <3>2. Named(OfKind("parameter"), n) \in SUBSET Nat
            BY <1>1, Numbers DEF Named, OfKind
        <3>3. Min(Named(OfKind("parameter"), n)) \in Named(OfKind("parameter"), n)
            BY <3>1, <3>2, MinOf
        <3>4. env'[n] = Min(Named(OfKind("parameter"), n))
            BY <1>1
        <3>. QED
            BY <3>3, <3>4 DEF Named
    <2>. SUFFICES ASSUME NEW k \in DOMAIN lines'[1], NEW n \in DOMAIN env', MayRead(lines'[1][k], n)
                  PROVE  IsGood(env'[n], Anchor(lines'[1][k]), n)
        BY <2>4 DEF Follows, Reaches
    <2>5. CASE k \in DOMAIN code
        <3>1. lines'[1][k] = code[k]
            BY <2>2, <2>3, <2>5, Concatenation
        <3>. DEFINE s == body.blocks[1][at[k]]
        <3>2. s \in Statement /\ program[s].kind # "parameter" /\ Anchor(code[k]) = s
            BY <1>1, <2>2, <2>5, AnchorsOf
        <3>3. env'[n] \in Visible(s)
            BY <2>4 DEF Visible
        <3>4. Target(s, n) = env'[n]
            BY <1>1, <1>6, <2>4, <3>2, <3>3, VisibleIsTarget
        <3>5. DeclarationOf(env'[n]) = env'[n]
            BY <2>4 DEF DeclarationOf, OfKind
        <3>. QED
            BY <3>1, <3>2, <3>4, <3>5 DEF IsGood
    <2>6. CASE k \notin DOMAIN code
        <3>1. \E i \in DOMAIN tail : lines'[1][k] = tail[i]
            BY <2>2, <2>3, <2>6, Concatenation
        <3>2. PICK i \in DOMAIN tail : lines'[1][k] = tail[i]
            BY <3>1
        <3>3. \A l \in Statement : 1 \notin NestedBlocks(program[l])
            BY <1>1, OwnersOfBlocks
        <3>. QED
            BY <1>1, <2>2, <3>2, <3>3, TailAnchors
    <2>. QED
        BY <2>5, <2>6
<1>7. \A c, e : (IsReady(c, e)' <=> IsReady(c, e)) /\ (Follows(c, e)' <=> Follows(c, e))
    BY <1>1, BodyStays
<1>8. \A c, b : (IsConsistent(c)' <=> IsConsistent(c)) /\ (IsConsistentIn(c, b)' <=> IsConsistentIn(c, b))
    BY <1>1, BodyStays
<1>9. \A b : BoundBefore(b)' = BoundBefore(b)
    BY <1>1, BodyStays
<1>10. ASSUME HeadersLookBack, IsIntact'
       PROVE  (\A b \in Block : BlockIsReady(b))' /\ IsReady(todo, DOMAIN env)'
    <2>1. \A b \in Block : IsReady(lines'[b], BoundBefore(b))
        BY <1>4, <1>10
    <2>2. IsReady(todo', DOMAIN env')
        BY <1>1, <1>3, <2>1
    <2>3. IsReady(todo, DOMAIN env)'
        BY <1>7, <2>2
    <2>4. (\A b \in Block : BlockIsReady(b))'
        BY <1>2, <1>7, <1>9, <2>1 DEF BlockIsReady
    <2>. QED
        BY <2>3, <2>4
<1>11. ReadyInv'
    BY <1>1, <1>2, <1>10 DEF ReadyInv
<1>12. ASSUME DeclaresOncePerBlock, HeadersLookBack, IsIntact', JoinedNamesGoUnread'
       PROVE  (\A b \in Block : BlockIsConsistent(b))' /\ IsConsistent(todo)' /\ Follows(todo, env)'
    <2>1. \A b \in Block : IsConsistentIn(lines'[b], b)
        BY <1>5, <1>12
    <2>2. IsConsistent(todo') /\ Follows(todo', env')
        BY <1>1, <1>6, <1>12, <2>1 DEF IsConsistentIn
    <2>3. IsConsistent(todo)' /\ Follows(todo, env)'
        BY <1>7, <1>8, <2>2
    <2>4. (\A b \in Block : BlockIsConsistent(b))'
        BY <1>2, <1>8, <2>1 DEF BlockIsConsistent
    <2>. QED
        BY <2>3, <2>4
<1>13. ConsistentInv'
    BY <1>2, <1>12 DEF ConsistentInv
<1>. QED
    BY <1>11, <1>13

-----------------------------------------------------------------------------
(* What is left to execute.                                                *)

LEMMA HeadAndTail ==
    ASSUME NEW T, NEW s \in Seq(T), s # <<>>
    PROVE  /\ Head(s) \in T /\ Head(s) = s[1] /\ Tail(s) \in Seq(T) /\ Len(s) \in Nat
           /\ DOMAIN s = 1 .. Len(s) /\ DOMAIN Tail(s) = 1 .. Len(s) - 1 /\ 1 \in DOMAIN s
           /\ \A k \in DOMAIN Tail(s) : k + 1 \in DOMAIN s /\ Tail(s)[k] = s[k + 1]
OBVIOUS

LEMMA AssignedInTail ==
    ASSUME NEW T, NEW s \in Seq(T), s # <<>>, NEW n, NEW k \in DOMAIN Tail(s), NEW first \in Nat, first >= 1,
           IsAssigned(n, s, first + 1, (k + 1) - 1)
    PROVE  IsAssigned(n, Tail(s), first, k - 1)
<1>1. PICK m \in first + 1 .. (k + 1) - 1 : s[m].op = "assign" /\ n \in s[m].names
    BY DEF IsAssigned
<1>2. k \in 1 .. Len(s) - 1 /\ Len(s) \in Nat
    BY HeadAndTail
<1>3. m - 1 \in first .. k - 1 /\ m - 1 \in 1 .. Len(s) - 1 /\ (m - 1) + 1 = m
    BY <1>2
<1>4. Tail(s)[m - 1] = s[m]
    BY <1>3, HeadAndTail
<1>. QED
    BY <1>1, <1>3, <1>4 DEF IsAssigned

LEMMA ReadyTail ==
    ASSUME NEW T, NEW s \in Seq(T), s # <<>>, NEW bound, IsReady(s, bound)
    PROVE  /\ Needs(Head(s)) \subseteq bound
           /\ Head(s).op # "assign" => IsReady(Tail(s), bound)
           /\ Head(s).op = "assign" => IsReady(Tail(s), bound \cup Head(s).names)
<1>1. Needs(Head(s)) \subseteq bound
    <2>1. \A n : ~IsAssigned(n, s, 1, 1 - 1)
        BY DEF IsAssigned
    <2>. QED
        BY <2>1, HeadAndTail DEF IsReady
<1>2. ASSUME NEW k \in DOMAIN Tail(s), NEW n \in Needs(Tail(s)[k])
      PROVE  n \in bound \/ IsAssigned(n, Tail(s), 1, k - 1) \/ (Head(s).op = "assign" /\ n \in Head(s).names)
    <2>1. k + 1 \in DOMAIN s /\ n \in Needs(s[k + 1]) /\ k \in Nat
        BY HeadAndTail
    <2>2. n \in bound \/ IsAssigned(n, s, 1, (k + 1) - 1)
        BY <2>1 DEF IsReady
    <2>3. CASE IsAssigned(n, s, 1, (k + 1) - 1)
        <3>1. PICK m \in 1 .. (k + 1) - 1 : s[m].op = "assign" /\ n \in s[m].names
            BY <2>3 DEF IsAssigned
        <3>2. CASE m = 1
            BY <3>1, <3>2, HeadAndTail
        <3>3. CASE m # 1
            <4>1. m \in 1 + 1 .. (k + 1) - 1
                BY <2>1, <3>3
            <4>2. IsAssigned(n, s, 1 + 1, (k + 1) - 1)
                BY <3>1, <4>1 DEF IsAssigned
            <4>. QED
                BY <4>2, AssignedInTail
        <3>. QED
            BY <3>2, <3>3
    <2>. QED
        BY <2>2, <2>3
<1>. QED
    BY <1>1, <1>2 DEF IsReady

LEMMA ReadyConcat ==
    ASSUME NEW T, NEW c \in Seq(T), NEW d \in Seq(T), NEW bound, IsReady(c, bound), IsReady(d, bound)
    PROVE  IsReady(c \o d, bound)
<1>. SUFFICES ASSUME NEW k \in DOMAIN (c \o d), NEW n \in Needs((c \o d)[k]), n \notin bound
              PROVE  IsAssigned(n, c \o d, 1, k - 1)
    BY DEF IsReady
<1>1. k \in 1 .. Len(c) + Len(d) /\ Len(c) \in Nat /\ Len(d) \in Nat /\ DOMAIN c = 1 .. Len(c) /\ DOMAIN d = 1 .. Len(d)
    BY Concatenation
<1>2. CASE k <= Len(c)
    <2>1. k \in DOMAIN c /\ (c \o d)[k] = c[k] /\ k - 1 \in Int /\ k - 1 <= Len(c)
        BY <1>1, <1>2, Concatenation
    <2>2. IsAssigned(n, c, 1, k - 1)
        BY <2>1 DEF IsReady
    <2>. QED
        BY <2>1, <2>2, AssignedInPrefix
<1>3. CASE k > Len(c)
    <2>. DEFINE i == k - Len(c)
    <2>1. i \in DOMAIN d /\ (c \o d)[k] = d[i] /\ i - 1 \in Int /\ i - 1 <= Len(d) /\ Len(c) + (i - 1) = k - 1 /\ Len(c) + 1 >= 1
        BY <1>1, <1>3, Concatenation
    <2>2. IsAssigned(n, d, 1, i - 1)
        BY <2>1 DEF IsReady
    <2>3. IsAssigned(n, c \o d, Len(c) + 1, Len(c) + (i - 1))
        BY <2>1, <2>2, AssignedInSuffix
    <2>4. IsAssigned(n, c \o d, Len(c) + 1, k - 1)
        <3>. HIDE DEF i
        <3>. QED
            BY <2>1, <2>3
    <2>. QED
        BY <1>1, <2>4, AssignedInMore
<1>. QED
    BY <1>1, <1>2, <1>3

LEMMA ReadyInMore ==
    ASSUME NEW code, NEW bound, NEW more, bound \subseteq more, IsReady(code, bound)
    PROVE  IsReady(code, more)
BY DEF IsReady

LEMMA NothingIsLeft ==
    ASSUME NEW bound, NEW e
    PROVE  /\ IsReady(<<>>, bound) /\ IsConsistent(<<>>)
           /\ (\A n \in DOMAIN e : IsRead(n) => program[e[n]].name = n) => Follows(<<>>, e)
<1>1. DOMAIN <<>> = {}
    OBVIOUS
<1>. QED
    BY <1>1 DEF IsReady, IsConsistent, Follows, Reaches

LEMMA SingleItem ==
    ASSUME NEW c
    PROVE  /\ \A bound : Needs(c) \subseteq bound => IsReady(<<c>>, bound)
           /\ c.op # "joined" => IsConsistent(<<c>>)
           /\ \A n, w : (MayRead(c, n) => IsGood(w, Anchor(c), n)) => Reaches(<<c>>, n, w)
<1>1. DOMAIN <<c>> = {1} /\ <<c>>[1] = c
    OBVIOUS
<1>2. c.op # "joined" => IsConsistent(<<c>>)
    <2>1. \A j \in 1 .. 1 - 1 : FALSE
        OBVIOUS
    <2>. QED
        BY <1>1, <2>1 DEF IsConsistent
<1>. QED
    BY <1>1, <1>2 DEF IsReady, Reaches

LEMMA ReachesTail ==
    ASSUME NEW T, NEW s \in Seq(T), s # <<>>, NEW n, NEW w, Reaches(s, n, w)
    PROVE  /\ MayRead(Head(s), n) => IsGood(w, Anchor(Head(s)), n)
           /\ ~(Head(s).op = "assign" /\ n \in Head(s).names) => Reaches(Tail(s), n, w)
<1>1. MayRead(Head(s), n) => IsGood(w, Anchor(Head(s)), n)
    <2>1. ~IsAssigned(n, s, 1, 1 - 1)
        BY DEF IsAssigned
    <2>. QED
        BY <2>1, HeadAndTail DEF Reaches
<1>2. ASSUME ~(Head(s).op = "assign" /\ n \in Head(s).names), NEW k \in DOMAIN Tail(s), MayRead(Tail(s)[k], n)
      PROVE  IsAssigned(n, Tail(s), 1, k - 1) \/ IsGood(w, Anchor(Tail(s)[k]), n)
    <2>1. k + 1 \in DOMAIN s /\ Tail(s)[k] = s[k + 1] /\ k \in Nat
        BY HeadAndTail
    <2>2. IsGood(w, Anchor(s[k + 1]), n) \/ IsAssigned(n, s, 1, (k + 1) - 1)
        BY <1>2, <2>1 DEF Reaches
    <2>3. CASE IsAssigned(n, s, 1, (k + 1) - 1)
        <3>1. PICK m \in 1 .. (k + 1) - 1 : s[m].op = "assign" /\ n \in s[m].names
            BY <2>3 DEF IsAssigned
        <3>2. m # 1
            BY <1>2, <3>1, HeadAndTail
        <3>3. m \in 1 + 1 .. (k + 1) - 1
            BY <2>1, <3>2
        <3>4. IsAssigned(n, s, 1 + 1, (k + 1) - 1)
            BY <3>1, <3>3 DEF IsAssigned
        <3>. QED
            BY <3>4, AssignedInTail
    <2>. QED
        BY <2>1, <2>2, <2>3
<1>. QED
    BY <1>1, <1>2 DEF Reaches

LEMMA ReachesConcat ==
    ASSUME NEW T, NEW c \in Seq(T), NEW d \in Seq(T), NEW n, NEW w, Reaches(c, n, w), Reaches(d, n, w)
    PROVE  Reaches(c \o d, n, w)
<1>. SUFFICES ASSUME NEW k \in DOMAIN (c \o d), MayRead((c \o d)[k], n), ~IsGood(w, Anchor((c \o d)[k]), n)
              PROVE  IsAssigned(n, c \o d, 1, k - 1)
    BY DEF Reaches
<1>1. k \in 1 .. Len(c) + Len(d) /\ Len(c) \in Nat /\ Len(d) \in Nat /\ DOMAIN c = 1 .. Len(c) /\ DOMAIN d = 1 .. Len(d)
    BY Concatenation
<1>2. CASE k <= Len(c)
    <2>1. k \in DOMAIN c /\ (c \o d)[k] = c[k] /\ k - 1 \in Int /\ k - 1 <= Len(c)
        BY <1>1, <1>2, Concatenation
    <2>2. IsAssigned(n, c, 1, k - 1)
        BY <2>1 DEF Reaches
    <2>. QED
        BY <2>1, <2>2, AssignedInPrefix
<1>3. CASE k > Len(c)
    <2>. DEFINE i == k - Len(c)
    <2>1. i \in DOMAIN d /\ (c \o d)[k] = d[i] /\ i - 1 \in Int /\ i - 1 <= Len(d) /\ Len(c) + (i - 1) = k - 1 /\ Len(c) + 1 >= 1
        BY <1>1, <1>3, Concatenation
    <2>2. IsAssigned(n, d, 1, i - 1)
        BY <2>1 DEF Reaches
    <2>3. IsAssigned(n, c \o d, Len(c) + 1, Len(c) + (i - 1))
        BY <2>1, <2>2, AssignedInSuffix
    <2>4. IsAssigned(n, c \o d, Len(c) + 1, k - 1)
        <3>. HIDE DEF i
        <3>. QED
            BY <2>1, <2>3
    <2>. QED
        BY <1>1, <2>4, AssignedInMore
<1>. QED
    BY <1>1, <1>2, <1>3

LEMMA ConsistentTail ==
    ASSUME NEW T, NEW s \in Seq(T), s # <<>>, IsConsistent(s)
    PROVE  /\ IsConsistent(Tail(s))
           /\ Head(s).op = "joined" => \A n \in Head(s).names : ~IsRead(n)
           /\ \A w \in Writers(Head(s)) : Reaches(Tail(s), program[DeclarationOf(w)].name, w)
<1>1. ASSUME NEW k \in DOMAIN Tail(s), NEW j \in 1 .. k - 1, NEW w \in Writers(Tail(s)[j]), NEW n,
             n = program[DeclarationOf(w)].name, MayRead(Tail(s)[k], n)
      PROVE  IsAssigned(n, Tail(s), j + 1, k - 1) \/ IsGood(w, Anchor(Tail(s)[k]), n)
    <2>1. k + 1 \in DOMAIN s /\ Tail(s)[k] = s[k + 1] /\ k \in 1 .. Len(s) - 1 /\ Len(s) \in Nat
        BY HeadAndTail
    <2>2. j \in DOMAIN Tail(s) /\ j + 1 \in 1 .. (k + 1) - 1 /\ j + 1 \in Nat /\ j + 1 >= 1
        BY <2>1, HeadAndTail
    <2>3. Tail(s)[j] = s[j + 1]
        BY <2>2, HeadAndTail
    <2>4. IsAssigned(n, s, (j + 1) + 1, (k + 1) - 1) \/ IsGood(w, Anchor(s[k + 1]), n)
        BY <1>1, <2>1, <2>2, <2>3 DEF IsConsistent
    <2>. QED
        BY <2>1, <2>2, <2>4, AssignedInTail
<1>2. ASSUME NEW w \in Writers(Head(s)), NEW n, n = program[DeclarationOf(w)].name,
             NEW k \in DOMAIN Tail(s), MayRead(Tail(s)[k], n)
      PROVE  IsAssigned(n, Tail(s), 1, k - 1) \/ IsGood(w, Anchor(Tail(s)[k]), n)
    <2>1. k + 1 \in DOMAIN s /\ Tail(s)[k] = s[k + 1] /\ k \in 1 .. Len(s) - 1 /\ Len(s) \in Nat
        BY HeadAndTail
    <2>2. 1 \in 1 .. (k + 1) - 1
        BY <2>1
    <2>3. Head(s) = s[1]
        BY HeadAndTail
    <2>4. IsAssigned(n, s, 1 + 1, (k + 1) - 1) \/ IsGood(w, Anchor(s[k + 1]), n)
        BY <1>2, <2>1, <2>2, <2>3 DEF IsConsistent
    <2>. QED
        BY <2>1, <2>4, AssignedInTail
<1>3. /\ \A k \in DOMAIN Tail(s) : Tail(s)[k].op = "joined" => \A n \in Tail(s)[k].names : ~IsRead(n)
      /\ Head(s).op = "joined" => \A n \in Head(s).names : ~IsRead(n)
    BY HeadAndTail DEF IsConsistent
<1>4. IsConsistent(Tail(s))
    BY <1>1, <1>3 DEF IsConsistent
<1>. QED
    BY <1>2, <1>3, <1>4 DEF Reaches

LEMMA ConsistentConcat ==
    ASSUME NEW T, NEW c \in Seq(T), NEW d \in Seq(T), IsConsistent(c), IsConsistent(d),
           \A j \in DOMAIN c : \A w \in Writers(c[j]) : Reaches(d, program[DeclarationOf(w)].name, w)
    PROVE  IsConsistent(c \o d)
<1>0. \A k \in DOMAIN (c \o d) : (c \o d)[k].op = "joined" => \A n \in (c \o d)[k].names : ~IsRead(n)
    <2>. SUFFICES ASSUME NEW k \in DOMAIN (c \o d)
                  PROVE  (c \o d)[k].op = "joined" => \A n \in (c \o d)[k].names : ~IsRead(n)
        OBVIOUS
    <2>1. \/ k \in DOMAIN c /\ (c \o d)[k] = c[k]
          \/ \E i \in DOMAIN d : (c \o d)[k] = d[i]
        BY Concatenation
    <2>. QED
        BY <2>1 DEF IsConsistent
<1>. SUFFICES ASSUME NEW k \in DOMAIN (c \o d), NEW j \in 1 .. k - 1, NEW w \in Writers((c \o d)[j]), NEW n,
                     n = program[DeclarationOf(w)].name, MayRead((c \o d)[k], n), ~IsGood(w, Anchor((c \o d)[k]), n)
              PROVE  IsAssigned(n, c \o d, j + 1, k - 1)
    BY <1>0 DEF IsConsistent
<1>1. /\ k \in 1 .. Len(c) + Len(d) /\ Len(c) \in Nat /\ Len(d) \in Nat /\ DOMAIN c = 1 .. Len(c) /\ DOMAIN d = 1 .. Len(d)
      /\ j \in 1 .. Len(c) + Len(d)
    <2>1. k \in 1 .. Len(c) + Len(d) /\ Len(c) \in Nat /\ Len(d) \in Nat /\ DOMAIN c = 1 .. Len(c) /\ DOMAIN d = 1 .. Len(d)
        BY Concatenation
    <2>. QED
        BY <2>1
<1>2. CASE k <= Len(c)
    <2>1. k \in DOMAIN c /\ (c \o d)[k] = c[k] /\ k - 1 \in Int /\ k - 1 <= Len(c)
        BY <1>1, <1>2, Concatenation
    <2>2. j \in DOMAIN c /\ j + 1 \in Nat /\ j + 1 >= 1
        BY <1>1, <1>2
    <2>3. (c \o d)[j] = c[j]
        BY <1>1, <2>2, Concatenation
    <2>4. IsAssigned(n, c, j + 1, k - 1)
        BY <2>1, <2>2, <2>3 DEF IsConsistent
    <2>. QED
        BY <2>1, <2>2, <2>4, AssignedInPrefix
<1>3. CASE k > Len(c)
    <2>. DEFINE i == k - Len(c)
    <2>1. i \in DOMAIN d /\ (c \o d)[k] = d[i] /\ i - 1 \in Int /\ i - 1 <= Len(d) /\ Len(c) + (i - 1) = k - 1 /\ i \in Nat
        BY <1>1, <1>3, Concatenation
    <2>2. CASE j <= Len(c)
        <3>1. j \in DOMAIN c /\ (c \o d)[j] = c[j]
            BY <1>1, <2>2, Concatenation
        <3>2. IsAssigned(n, d, 1, i - 1)
            BY <2>1, <3>1 DEF Reaches
        <3>3. IsAssigned(n, c \o d, Len(c) + 1, Len(c) + (i - 1))
            BY <2>1, <3>2, AssignedInSuffix
        <3>4. IsAssigned(n, c \o d, Len(c) + 1, k - 1)
            <4>. HIDE DEF i
            <4>. QED
                BY <2>1, <3>3
        <3>5. j + 1 <= Len(c) + 1 /\ j + 1 \in Int /\ k - 1 \in Int
            BY <1>1, <2>2
        <3>. QED
            BY <1>1, <3>4, <3>5, AssignedInMore
    <2>3. CASE j > Len(c)
        <3>. DEFINE m == j - Len(c)
        <3>1. m \in DOMAIN d /\ (c \o d)[j] = d[m] /\ m \in 1 .. i - 1 /\ m + 1 \in Nat /\ m + 1 >= 1 /\ Len(c) + (m + 1) = j + 1
            BY <1>1, <1>3, <2>3, Concatenation
        <3>2. IsAssigned(n, d, m + 1, i - 1)
            BY <2>1, <3>1 DEF IsConsistent
        <3>3. IsAssigned(n, c \o d, Len(c) + (m + 1), Len(c) + (i - 1))
            BY <2>1, <3>1, <3>2, AssignedInSuffix
        <3>. HIDE DEF i, m
        <3>. QED
            BY <2>1, <3>1, <3>3
    <2>. QED
        BY <1>1, <2>2, <2>3
<1>. QED
    BY <1>1, <1>2, <1>3

\* The variables that are bound by s, and the others that were bound before.
LEMMA BindFollows ==
    ASSUME NEW code, NEW names, NEW s, Bind(names, s),
           \A n \in DOMAIN env \ names : IsRead(n) => Reaches(code, n, env[n]) /\ program[env[n]].name = n,
           \A n \in names : IsRead(n) =>
               program[s].name = n /\ (program[DeclarationOf(s)].name = n => Reaches(code, n, s))
    PROVE  Follows(code, env')
<1>1. ASSUME NEW n, program[DeclarationOf(s)].name # n PROVE Reaches(code, n, s)
    BY <1>1 DEF Reaches, IsGood
<1>. QED
    BY <1>1 DEF Follows, Bind

-----------------------------------------------------------------------------
(* The function is executed.                                               *)

LEMMA NestedItem ==
    ASSUME body \in Bodies, NEW c \in Item, c.op \in {"if", "while", "for"}
    PROVE  LET s == c.source
           IN  /\ s \in Statement /\ Anchor(c) = s
               /\ IsIn(s, ContainingBlock(s)) /\ ContainingBlock(s) \in Block
               /\ \A b \in NestedBlocks(program[s]) : b \in Block /\ BoundBefore(b) = NamesOf(LocalDeclarations(s))
               /\ c.op # "if" => program[s].block \in NestedBlocks(program[s])
               /\ c.op = "for" => program[s].kind = "foreach" /\ c.names = {program[s].name}
               /\ Writers(c) = {w \in Statement : IsInside(w, s)}
               /\ \A n : MayRead(c, n) <=> (c.op = "for" => n \notin c.names)
<1>. DEFINE s == c.source
<1>1. s \in Statement /\ program[s].kind \in {"if", "timespan", "while", "for", "foreach"}
    BY DEF Item
<1>2. IsIn(s, ContainingBlock(s)) /\ ContainingBlock(s) \in Block
    BY <1>1, Placement
<1>3. Anchor(c) = s
    BY <1>1, <1>2, ContainingBlocks DEF Anchor
<1>4. \A b \in NestedBlocks(program[s]) : b \in Block /\ BoundBefore(b) = NamesOf(LocalDeclarations(s))
    BY <1>1, Containers, BoundBeforeOf
<1>5. c.op # "if" => program[s].block \in NestedBlocks(program[s])
    BY <1>1 DEF Item, NestedBlocks
<1>6. c.op = "for" => program[s].kind = "foreach" /\ c.names = {program[s].name}
    BY DEF Item
<1>7. Writers(c) = {w \in Statement : IsInside(w, s)}
    BY DEF Writers
<1>8. \A n : MayRead(c, n) <=> (c.op = "for" => n \notin c.names)
    BY DEF MayRead
<1>. QED
    BY <1>1, <1>2, <1>3, <1>4, <1>5, <1>6, <1>7, <1>8

Again(c) == [c EXCEPT !.again = TRUE]

LEMMA AgainItem ==
    ASSUME body \in Bodies, NEW c \in Item
    PROVE  /\ Again(c) \in Item /\ Again(c).op = c.op /\ Again(c).source = c.source /\ Again(c).names = c.names
           /\ Needs(Again(c)) = Needs(c) /\ Writers(Again(c)) = Writers(c) /\ Anchor(Again(c)) = Anchor(c)
           /\ \A n : MayRead(Again(c), n) <=> MayRead(c, n)
<1>1. /\ Again(c).op = c.op /\ Again(c).source = c.source /\ Again(c).names = c.names /\ Again(c).again = TRUE
      /\ Again(c) \in [op : {"pass", "malformed", "expression", "return", "assign", "joined", "if", "while", "for"},
                       source : Statement \cup {NoStatement}, names : SUBSET WordsOf(Statement), again : BOOLEAN]
    BY DEF Again, Item
<1>2. Again(c) \in Item
    BY <1>1 DEF Item
<1>. QED
    BY <1>1, <1>2 DEF Needs, Writers, Anchor, MayRead

\* The ways to go on after an item.
Skips(c) == c.op \notin {"assign", "joined"} /\ todo' \in {Tail(todo), <<>>} /\ env' = env

Assigns(c) == c.op \in {"assign", "joined"} /\ todo' = Tail(todo) /\ Bind(c.names, c.source)

Enters(c, b) == c.op = "if" /\ todo' = lines[b] \o Tail(todo) /\ env' = env

Repeats(c, b) ==
    /\ c.op \in {"while", "for"} /\ todo' = lines[b] \o <<Again(c)>> \o Tail(todo)
    /\ IF c.op = "while" THEN env' = env ELSE Bind(c.names, c.source)

LEMMA ExecuteCases ==
    ASSUME Kept, Execute
    PROVE  LET c == Head(todo)
           IN  /\ todo \in Seq(Item) /\ todo # <<>> /\ c \in Item /\ Tail(todo) \in Seq(Item)
               /\ UNCHANGED <<body, blocks, links, lines, generations>>
               /\ body \in Bodies /\ links = Link
               /\ reads' = IF c.op = "pass" \/ (c.op = "for" /\ c.again) THEN {} ELSE Reads(c)
               /\ c.op # "malformed"
               /\ \/ Skips(c)
                  \/ Assigns(c)
                  \/ \E b \in NestedBlocks(program[c.source]) : b \in Block /\ (Enters(c, b) \/ Repeats(c, b))
<1>. DEFINE c == Head(todo)
<1>1. todo \in Seq(Item) /\ todo # <<>> /\ c \in Item /\ Tail(todo) \in Seq(Item) /\ body \in Bodies /\ links = Link
    BY HeadAndTail DEF Kept, Execute
<1>2. UNCHANGED <<body, blocks, links, lines, generations>>
    BY DEF Execute
<1>3. reads' = IF c.op = "pass" \/ (c.op = "for" /\ c.again) THEN {} ELSE Reads(c)
    BY DEF Execute
<1>. HIDE DEF c
<1>4. \/ c.op \in {"pass", "expression"} /\ todo' = Tail(todo) /\ UNCHANGED env
      \/ c.op \in {"assign", "joined"} /\ todo' = Tail(todo) /\ Bind(c.names, c.source)
      \/ c.op = "return" /\ todo' = <<>> /\ UNCHANGED env
      \/ /\ c.op = "if"
         /\ \E branch \in Branches(program[c.source]) : todo' = branch \o Tail(todo)
         /\ UNCHANGED env
      \/ c.op \in {"while", "for"} /\ todo' = Tail(todo) /\ UNCHANGED env
      \/ c.op = "while" /\ todo' = lines[program[c.source].block] \o <<Again(c)>> \o Tail(todo) /\ UNCHANGED env
      \/ /\ c.op = "for" /\ todo' = lines[program[c.source].block] \o <<Again(c)>> \o Tail(todo)
         /\ Bind(c.names, c.source)
    BY DEF Execute, Again, c
<1>5. c.op # "malformed"
    BY <1>4
<1>6. CASE c.op = "if"
    <2>1. PICK branch \in Branches(program[c.source]) : todo' = branch \o Tail(todo) /\ UNCHANGED env
        BY <1>4, <1>6
    <2>2. CASE branch = <<>>
        <3>1. <<>> \o Tail(todo) = Tail(todo)
            BY <1>1
        <3>2. Skips(c)
            BY <1>6, <2>1, <2>2, <3>1 DEF Skips
        <3>. QED
            BY <1>1, <1>2, <1>3, <1>5, <3>2 DEF c
    <2>3. CASE branch # <<>>
        <3>1. PICK b \in NestedBlocks(program[c.source]) : branch = lines[b]
            BY <2>3 DEF Branches
        <3>2. b \in Block
            BY <1>1, <1>6, NestedItem
        <3>3. Enters(c, b)
            BY <1>6, <2>1, <3>1 DEF Enters
        <3>. QED
            BY <1>1, <1>2, <1>3, <1>5, <3>2, <3>3 DEF c
    <2>. QED
        BY <2>2, <2>3
<1>7. CASE /\ c.op \in {"while", "for"} /\ todo' = lines[program[c.source].block] \o <<Again(c)>> \o Tail(todo)
           /\ IF c.op = "while" THEN UNCHANGED env ELSE Bind(c.names, c.source)
    <2>1. program[c.source].block \in NestedBlocks(program[c.source]) /\ program[c.source].block \in Block
        BY <1>1, <1>7, NestedItem
    <2>2. Repeats(c, program[c.source].block)
        BY <1>7 DEF Repeats
    <2>. QED
        BY <1>1, <1>2, <1>3, <1>5, <2>1, <2>2 DEF c
<1>8. CASE c.op \in {"pass", "expression", "return", "while", "for"} /\ todo' \in {Tail(todo), <<>>} /\ UNCHANGED env
    <2>1. Skips(c)
        BY <1>8 DEF Skips
    <2>. QED
        BY <1>1, <1>2, <1>3, <1>5, <2>1 DEF c
<1>9. CASE c.op \in {"assign", "joined"} /\ todo' = Tail(todo) /\ Bind(c.names, c.source)
    <2>1. Assigns(c)
        BY <1>9 DEF Assigns
    <2>. QED
        BY <1>1, <1>2, <1>3, <1>5, <2>1 DEF c
<1>. QED
    BY <1>4, <1>6, <1>7, <1>8, <1>9

LEMMA ExecuteKeeps ==
    ASSUME Kept, Execute
    PROVE  Kept'
<1>. DEFINE c == Head(todo)
            IsKept(e) == Range(e) \subseteq Statement
<1>1. /\ c \in Item /\ Tail(todo) \in Seq(Item) /\ body \in Bodies
      /\ UNCHANGED <<body, blocks, links, lines, generations>>
      /\ lines \in [Block -> Seq(Item)] /\ IsKept(env)
    BY ExecuteCases DEF Kept
<1>2. ASSUME todo' \in Seq(Item), IsKept(env') PROVE Kept'
    BY <1>1, <1>2, BodyStays DEF Kept
<1>3. <<Again(c)>> \in Seq(Item) /\ <<>> \in Seq(Item)
    BY <1>1, AgainItem
<1>4. ASSUME c.op \in {"assign", "joined", "for"} PROVE c.source \in Statement
    BY <1>1, <1>4 DEF Item
<1>. HIDE DEF c
<1>5. ASSUME c.op \in {"assign", "joined", "for"}, env' = [n \in DOMAIN env \cup c.names |-> IF n \in c.names THEN c.source ELSE env[n]]
      PROVE  IsKept(env')
    <2>. DEFINE new == [n \in DOMAIN env \cup c.names |-> IF n \in c.names THEN c.source ELSE env[n]]
    <2>1. new = [n \in DOMAIN env \cup c.names |-> IF n \in c.names THEN c.source ELSE env[n]]
        OBVIOUS
    <2>. HIDE DEF new
    <2>2. Range(env) \subseteq Statement
        BY <1>1
    <2>5. c.source \in Statement
        BY <1>4, <1>5
    <2>6. Range(new) \subseteq Statement
        <3>. HIDE DEF IsKept
        <3>1. /\ DOMAIN new = DOMAIN env \cup c.names /\ (\A n \in c.names : new[n] = c.source)
              /\ \A n \in DOMAIN env : n \notin c.names => new[n] = env[n]
            BY <2>1
        <3>2. \A n \in DOMAIN env : env[n] \in Statement
            BY <2>2 DEF Range
        <3>3. \A n \in DOMAIN new : new[n] \in Statement
            BY <2>5, <3>1, <3>2
        <3>. QED
            BY <3>3 DEF Range
    <2>7. IsKept(new)
        BY <2>6
    <2>3. env' = new
        BY <1>5, <2>1
    <2>. QED
        BY <2>3, <2>7
<1>. HIDE DEF IsKept
<1>6. CASE Skips(c)
    <2>1. todo' \in {Tail(todo), <<>>} /\ env' = env
        BY <1>6 DEF Skips
    <2>. QED
        BY <1>1, <1>2, <1>3, <2>1, Zenon
<1>7. CASE Assigns(c)
    BY <1>1, <1>2, <1>5, <1>7 DEF Assigns, Bind
<1>8. ASSUME NEW b \in Block, Enters(c, b) PROVE Kept'
    <2>1. todo' \in Seq(Item) /\ env' = env
        BY <1>1, <1>8, Concatenation DEF Enters
    <2>. QED
        BY <1>1, <1>2, <2>1
<1>9. ASSUME NEW b \in Block, Repeats(c, b) PROVE Kept'
    <2>1. lines[b] \in Seq(Item)
        BY <1>1
    <2>2. lines[b] \o <<Again(c)>> \in Seq(Item)
        BY <1>3, <2>1, Concatenation
    <2>3. todo' \in Seq(Item)
        BY <1>1, <1>9, <2>2, Concatenation DEF Repeats
    <2>4. IsKept(env')
        BY <1>1, <1>5, <1>9 DEF Repeats, Bind
    <2>. QED
        BY <1>2, <2>3, <2>4
<1>10. \/ Skips(c)
       \/ Assigns(c)
       \/ \E b \in NestedBlocks(program[c.source]) : b \in Block /\ (Enters(c, b) \/ Repeats(c, b))
    BY ExecuteCases DEF c
<1>. QED
    BY <1>6, <1>7, <1>8, <1>9, <1>10

LEMMA ExecuteIsReady ==
    ASSUME Kept, ReadyInv, Execute
    PROVE  ReadyInv'
<1>. DEFINE c == Head(todo)
            rest == Tail(todo)
<1>1. /\ todo \in Seq(Item) /\ todo # <<>> /\ c \in Item /\ rest \in Seq(Item)
      /\ UNCHANGED <<body, blocks, links, lines, generations>> /\ body \in Bodies
      /\ reads' = IF c.op = "pass" \/ (c.op = "for" /\ c.again) THEN {} ELSE Reads(c)
      /\ c.op # "malformed"
      /\ \/ Skips(c)
         \/ Assigns(c)
         \/ \E b \in NestedBlocks(program[c.source]) : b \in Block /\ (Enters(c, b) \/ Repeats(c, b))
    BY ExecuteCases
<1>2. (HeadersLookBack' <=> HeadersLookBack) /\ (IsIntact' <=> IsIntact) /\ Block' = Block
    BY <1>1, BodyStays DEF IsIntact
<1>3. /\ \A d, e : IsReady(d, e)' <=> IsReady(d, e)
      /\ \A b : BoundBefore(b)' = BoundBefore(b)
    BY <1>1, BodyStays
<1>. SUFFICES ASSUME HeadersLookBack, IsIntact
              PROVE  /\ \A b \in Block : IsReady(lines[b], BoundBefore(b))
                     /\ IsReady(todo', DOMAIN env')
                     /\ \A r \in reads' : r.writer # Unbound
    <2>. SUFFICES ASSUME HeadersLookBack', IsIntact'
                  PROVE  /\ (\A b \in Block : BlockIsReady(b))'
                         /\ IsReady(todo, DOMAIN env)'
                         /\ (\A r \in reads : r.writer # Unbound)'
        BY DEF ReadyInv
    <2>1. /\ \A b \in Block : IsReady(lines[b], BoundBefore(b))
          /\ IsReady(todo', DOMAIN env')
          /\ \A r \in reads' : r.writer # Unbound
        BY <1>2
    <2>. QED
        BY <1>1, <1>2, <1>3, <2>1 DEF BlockIsReady
<1>4. (\A b \in Block : IsReady(lines[b], BoundBefore(b))) /\ IsReady(todo, DOMAIN env)
    BY DEF ReadyInv, BlockIsReady
<1>5. /\ Needs(c) \subseteq DOMAIN env
      /\ c.op # "assign" => IsReady(rest, DOMAIN env)
      /\ c.op = "assign" => IsReady(rest, DOMAIN env \cup c.names)
    BY <1>1, <1>4, ReadyTail
<1>. HIDE DEF c, rest
<1>6. IsReady(todo', DOMAIN env')
    <2>1. CASE Skips(c)
        BY <1>5, <2>1, NothingIsLeft DEF Skips, rest
    <2>2. CASE Assigns(c)
        <3>1. todo' = rest /\ DOMAIN env' = DOMAIN env \cup c.names /\ DOMAIN env \subseteq DOMAIN env'
            BY <2>2 DEF Assigns, Bind, rest
        <3>. QED
            BY <1>5, <3>1, ReadyInMore
    <2>3. ASSUME NEW b \in NestedBlocks(program[c.source]), b \in Block, Enters(c, b)
          PROVE  IsReady(todo', DOMAIN env')
        <3>1. c.op = "if" /\ todo' = lines[b] \o rest /\ env' = env
            BY <2>3 DEF Enters, rest
        <3>2. BoundBefore(b) = NamesOf(LocalDeclarations(c.source))
            BY <1>1, <2>3, <3>1, NestedItem
        <3>3. BoundBefore(b) \subseteq DOMAIN env
            BY <1>5, <3>1, <3>2 DEF Needs
        <3>4. IsReady(lines[b], DOMAIN env)
            BY <1>4, <2>3, <3>3, ReadyInMore
        <3>5. lines[b] \in Seq(Item)
            BY <2>3 DEF Kept
        <3>6. IsReady(lines[b] \o rest, DOMAIN env)
            BY <1>1, <1>5, <3>1, <3>4, <3>5, ReadyConcat
        <3>. QED
            BY <3>1, <3>6
    <2>4. ASSUME NEW b \in NestedBlocks(program[c.source]), b \in Block, Repeats(c, b)
          PROVE  IsReady(todo', DOMAIN env')
        <3>1. /\ c.op \in {"while", "for"} /\ todo' = lines[b] \o <<Again(c)>> \o rest
              /\ DOMAIN env' = IF c.op = "while" THEN DOMAIN env ELSE DOMAIN env \cup c.names
            BY <2>4 DEF Repeats, Bind, rest
        <3>2. BoundBefore(b) = NamesOf(LocalDeclarations(c.source)) /\ (c.op = "for" => c.names = {program[c.source].name})
            BY <1>1, <2>4, <3>1, NestedItem
        <3>3. BoundBefore(b) \subseteq DOMAIN env'
            <4>1. CASE c.op = "while"
                BY <1>5, <3>1, <3>2, <4>1 DEF Needs
            <4>2. CASE c.op = "for"
                <5>1. NamesOf(LocalDeclarations(c.source)) \subseteq NamesOf(LocalDeclarations(c.source) \ {c.source}) \cup c.names
                    BY <3>2, <4>2 DEF NamesOf
                <5>2. NamesOf(LocalDeclarations(c.source) \ {c.source}) \subseteq DOMAIN env
                    BY <1>5, <4>2 DEF Needs
                <5>. QED
                    BY <3>1, <3>2, <4>2, <5>1, <5>2
            <4>. QED
                BY <3>1, <4>1, <4>2
        <3>4. IsReady(lines[b], DOMAIN env')
            BY <1>4, <2>4, <3>3, ReadyInMore
        <3>5. IsReady(<<Again(c)>>, DOMAIN env')
            <4>1. Needs(Again(c)) \subseteq DOMAIN env'
                BY <1>1, <1>5, <3>1, AgainItem
            <4>. QED
                BY <4>1, SingleItem
        <3>6. IsReady(rest, DOMAIN env')
            <4>1. IsReady(rest, DOMAIN env) /\ DOMAIN env \subseteq DOMAIN env'
                BY <1>5, <3>1
            <4>. QED
                BY <4>1, ReadyInMore
        <3>7. lines[b] \in Seq(Item) /\ <<Again(c)>> \in Seq(Item)
            BY <1>1, <2>4, AgainItem DEF Kept
        <3>8. lines[b] \o <<Again(c)>> \in Seq(Item) /\ IsReady(lines[b] \o <<Again(c)>>, DOMAIN env')
            BY <3>4, <3>5, <3>7, ReadyConcat, Concatenation
        <3>9. IsReady((lines[b] \o <<Again(c)>>) \o rest, DOMAIN env')
            BY <1>1, <3>6, <3>8, ReadyConcat
        <3>. QED
            BY <3>1, <3>9
    <2>. QED
        BY <1>1, <2>1, <2>2, <2>3, <2>4
<1>7. ASSUME NEW r \in reads' PROVE r.writer # Unbound
    <2>1. c.op # "pass" /\ reads' = Reads(c)
        BY <1>1, <1>7
    <2>2. PICK n \in program[c.source].reads : r.writer = IF n \in DOMAIN env THEN env[n] ELSE Unbound
        BY <1>7, <2>1 DEF Reads
    <2>3. n \in Needs(c)
        BY <1>1, <2>1, <2>2 DEF Needs, Item
    <2>4. n \in DOMAIN env
        BY <1>5, <2>3
    <2>5. env[n] \in Statement
        BY <2>4 DEF Kept, Range
    <2>. QED
        BY <1>1, <2>2, <2>4, <2>5, Numbers
<1>. QED
    BY <1>4, <1>6, <1>7

LEMMA ExecuteIsConsistent ==
    ASSUME Kept, ConsistentInv, Execute
    PROVE  ConsistentInv'
<1>. DEFINE c == Head(todo)
            rest == Tail(todo)
            o == c.source
            NameOf(w) == program[DeclarationOf(w)].name
<1>1. /\ todo \in Seq(Item) /\ todo # <<>> /\ c \in Item /\ rest \in Seq(Item)
      /\ UNCHANGED <<body, blocks, links, lines, generations>> /\ body \in Bodies /\ links = Link
      /\ \/ Skips(c)
         \/ Assigns(c)
         \/ \E b \in NestedBlocks(program[o]) : b \in Block /\ (Enters(c, b) \/ Repeats(c, b))
    BY ExecuteCases
<1>2. /\ (HeadersLookBack' <=> HeadersLookBack) /\ (DeclaresOncePerBlock' <=> DeclaresOncePerBlock)
      /\ (IsIntact' <=> IsIntact) /\ (JoinedNamesGoUnread' <=> JoinedNamesGoUnread) /\ Block' = Block
    BY <1>1, BodyStays DEF IsIntact, JoinedNamesGoUnread
<1>3. /\ \A d, e : Follows(d, e)' <=> Follows(d, e)
      /\ \A d : IsConsistent(d)' <=> IsConsistent(d)
      /\ \A d, b : IsConsistentIn(d, b)' <=> IsConsistentIn(d, b)
    BY <1>1, BodyStays
<1>. SUFFICES ASSUME DeclaresOncePerBlock, HeadersLookBack, IsIntact, JoinedNamesGoUnread
              PROVE  /\ \A b \in Block : IsConsistentIn(lines[b], b)
                     /\ IsConsistent(todo') /\ Follows(todo', env')
    <2>. SUFFICES ASSUME DeclaresOncePerBlock', HeadersLookBack', IsIntact', JoinedNamesGoUnread'
                  PROVE  /\ (\A b \in Block : BlockIsConsistent(b))'
                         /\ IsConsistent(todo)' /\ Follows(todo, env)'
        BY DEF ConsistentInv
    <2>1. /\ \A b \in Block : IsConsistentIn(lines[b], b)
          /\ IsConsistent(todo') /\ Follows(todo', env')
        BY <1>2
    <2>. QED
        BY <1>1, <1>2, <1>3, <2>1 DEF BlockIsConsistent
<1>4. (\A b \in Block : IsConsistentIn(lines[b], b)) /\ IsConsistent(todo) /\ Follows(todo, env)
    BY DEF ConsistentInv, BlockIsConsistent
<1>5. /\ IsConsistent(rest) /\ \A w \in Writers(c) : Reaches(rest, NameOf(w), w)
      /\ c.op = "joined" => \A n \in c.names : ~IsRead(n)
    BY <1>1, <1>4, ConsistentTail
<1>6. ASSUME NEW n \in DOMAIN env, IsRead(n)
      PROVE  /\ MayRead(c, n) => IsGood(env[n], Anchor(c), n)
             /\ ~(c.op = "assign" /\ n \in c.names) => Reaches(rest, n, env[n])
             /\ env[n] \in Statement /\ program[env[n]].name = n
    <2>1. Reaches(todo, n, env[n]) /\ program[env[n]].name = n
        BY <1>4, <1>6 DEF Follows
    <2>2. env[n] \in Statement
        BY DEF Kept, Range
    <2>. QED
        BY <1>1, <2>1, <2>2, ReachesTail
<1>. HIDE DEF c, rest
<1>7. c.op # "assign" => Follows(rest, env)
    BY <1>6 DEF Follows
<1>8. CASE Skips(c)
    <2>1. c.op \notin {"assign", "joined"} /\ todo' \in {rest, <<>>} /\ env' = env
        BY <1>8 DEF Skips, rest
    <2>. QED
        BY <1>4, <1>5, <1>6, <1>7, <2>1, NothingIsLeft
<1>9. CASE Assigns(c)
    <2>1. /\ c.op \in {"assign", "joined"} /\ todo' = rest
          /\ Bind(c.names, o)
        BY <1>9 DEF Assigns, rest
    <2>2. \A n \in c.names : IsRead(n) => program[o].name = n /\ (NameOf(o) = n => Reaches(rest, n, o))
        <3>1. CASE c.op = "assign"
            <4>1. Reaches(rest, NameOf(o), o)
                BY <1>5, <3>1 DEF Writers
            <4>2. c.names = {program[o].name}
                BY <1>1, <3>1 DEF Item
            <4>. QED
                BY <4>1, <4>2
        <3>2. CASE c.op = "joined"
            BY <1>5, <3>2
        <3>. QED
            BY <2>1, <3>1, <3>2
    <2>3. \A n \in DOMAIN env \ c.names : IsRead(n) => Reaches(rest, n, env[n]) /\ program[env[n]].name = n
        BY <1>6
    <2>4. Follows(rest, env')
        BY <2>1, <2>2, <2>3, BindFollows
    <2>. QED
        BY <1>4, <1>5, <2>1, <2>4
<1>10. ASSUME NEW b \in NestedBlocks(program[o]), b \in Block, c.op \in {"if", "while", "for"}
       PROVE  /\ lines[b] \in Seq(Item) /\ IsConsistent(lines[b])
              /\ \A j \in DOMAIN lines[b] : \A w \in Writers(lines[b][j]) : w \in Writers(c)
              /\ \A n \in DOMAIN env : IsRead(n) /\ (c.op = "for" => n \notin c.names) => Reaches(lines[b], n, env[n])
              /\ \A w \in Statement : \A n : IsGood(w, o, n) => Reaches(lines[b], n, w)
    <2>1. o \in Statement /\ Anchor(c) = o /\ Writers(c) = {w \in Statement : IsInside(w, o)}
        BY <1>1, <1>10, NestedItem
    <2>2. \A n : MayRead(c, n) <=> (c.op = "for" => n \notin c.names)
        BY <1>1, <1>10, NestedItem
    <2>3. lines[b] \in Seq(Item)
        BY <1>10 DEF Kept
    <2>4. /\ IsConsistent(lines[b])
          /\ \A j \in DOMAIN lines[b] : \A w \in Writers(lines[b][j]) : IsInside(w, o)
          /\ \A w \in Statement : \A n : IsGood(w, o, n) => Reaches(lines[b], n, w)
        BY <1>4, <1>10, <2>1 DEF IsConsistentIn
    <2>5. ASSUME NEW j \in DOMAIN lines[b], NEW w \in Writers(lines[b][j]) PROVE w \in Statement
        <3>1. lines[b][j] \in Item
            BY <2>3
        <3>. QED
            BY <2>5, <3>1 DEF Writers, Item
    <2>6. \A n \in DOMAIN env : IsRead(n) /\ (c.op = "for" => n \notin c.names) => Reaches(lines[b], n, env[n])
        BY <1>6, <2>1, <2>2, <2>4
    <2>. QED
        BY <2>1, <2>3, <2>4, <2>5, <2>6
<1>11. ASSUME NEW b \in NestedBlocks(program[o]), b \in Block, Enters(c, b)
       PROVE  IsConsistent(todo') /\ Follows(todo', env')
    <2>1. c.op = "if" /\ todo' = lines[b] \o rest /\ env' = env
        BY <1>11 DEF Enters, rest
    <2>2. /\ lines[b] \in Seq(Item) /\ IsConsistent(lines[b])
          /\ \A j \in DOMAIN lines[b] : \A w \in Writers(lines[b][j]) : w \in Writers(c)
          /\ \A n \in DOMAIN env : IsRead(n) => Reaches(lines[b], n, env[n])
        BY <1>10, <1>11, <2>1
    <2>3. IsConsistent(lines[b] \o rest)
        BY <1>1, <1>5, <2>2, ConsistentConcat
    <2>4. \A n \in DOMAIN env : IsRead(n) => Reaches(lines[b] \o rest, n, env[n]) /\ program[env[n]].name = n
        BY <1>1, <1>6, <2>1, <2>2, ReachesConcat
    <2>. QED
        BY <2>1, <2>3, <2>4 DEF Follows
<1>12. ASSUME NEW b \in NestedBlocks(program[o]), b \in Block, Repeats(c, b)
       PROVE  IsConsistent(todo') /\ Follows(todo', env')
    <2>. DEFINE again == <<Again(c)>>
    <2>1. c.op \in {"while", "for"} /\ todo' = lines[b] \o again \o rest
        BY <1>12 DEF Repeats, rest
    <2>2. /\ lines[b] \in Seq(Item) /\ IsConsistent(lines[b])
          /\ \A j \in DOMAIN lines[b] : \A w \in Writers(lines[b][j]) : w \in Writers(c)
          /\ \A n \in DOMAIN env : IsRead(n) /\ (c.op = "for" => n \notin c.names) => Reaches(lines[b], n, env[n])
          /\ \A w \in Statement : \A n : IsGood(w, o, n) => Reaches(lines[b], n, w)
        BY <1>10, <1>12, <2>1
    <2>3. /\ o \in Statement /\ Anchor(c) = o /\ Writers(c) = {w \in Statement : IsInside(w, o)}
          /\ IsIn(o, ContainingBlock(o)) /\ ContainingBlock(o) \in Block
          /\ c.op = "for" => program[o].kind = "foreach" /\ c.names = {program[o].name}
          /\ \A n : MayRead(c, n) <=> (c.op = "for" => n \notin c.names)
        BY <1>1, <2>1, NestedItem
    <2>4. /\ Again(c) \in Item /\ Writers(Again(c)) = Writers(c) /\ Anchor(Again(c)) = o
          /\ \A n : MayRead(Again(c), n) <=> MayRead(c, n)
        BY <1>1, <2>3, AgainItem
    <2>5. ASSUME NEW w \in Writers(c), NEW n PROVE IsGood(w, o, n)
        BY <1>1, <2>3, WritersAreGood
    <2>6. \A w \in Writers(c) : \A n : Reaches(again, n, w)
        BY <2>4, <2>5, SingleItem
    <2>7. again \in Seq(Item) /\ IsConsistent(again) /\ DOMAIN again = {1} /\ again[1] = Again(c)
        <3>1. Again(c).op # "joined"
            BY <1>1, <2>1, AgainItem
        <3>. QED
            BY <2>4, <3>1, SingleItem
    <2>. HIDE DEF again
    <2>8. lines[b] \o again \in Seq(Item) /\ IsConsistent(lines[b] \o again)
        <3>1. IsConsistent(lines[b] \o again)
            BY <2>2, <2>6, <2>7, ConsistentConcat
        <3>. QED
            BY <2>2, <2>7, <3>1, Concatenation
    <2>9. ASSUME NEW j \in DOMAIN (lines[b] \o again), NEW w \in Writers((lines[b] \o again)[j])
          PROVE  w \in Writers(c)
        <3>1. \/ j \in DOMAIN lines[b] /\ (lines[b] \o again)[j] = lines[b][j]
              \/ \E i \in DOMAIN again : (lines[b] \o again)[j] = again[i]
            BY <2>2, <2>7, Concatenation
        <3>. QED
            BY <2>2, <2>4, <2>7, <2>9, <3>1
    <2>10. IsConsistent((lines[b] \o again) \o rest)
        BY <1>1, <1>5, <2>8, <2>9, ConsistentConcat
    <2>11. ASSUME NEW n, NEW w, Reaches(lines[b], n, w), Reaches(again, n, w), Reaches(rest, n, w)
           PROVE  Reaches((lines[b] \o again) \o rest, n, w)
        <3>1. Reaches(lines[b] \o again, n, w)
            BY <2>2, <2>7, <2>11, ReachesConcat
        <3>. QED
            BY <1>1, <2>8, <2>11, <3>1, ReachesConcat
    <2>12. ASSUME NEW n \in DOMAIN env, IsRead(n), c.op = "for" => n \notin c.names
           PROVE  Reaches((lines[b] \o again) \o rest, n, env[n]) /\ program[env[n]].name = n
        <3>1. IsGood(env[n], o, n)
            BY <1>6, <2>3, <2>12
        <3>2. Reaches(again, n, env[n])
            BY <2>4, <3>1, SingleItem DEF again
        <3>. QED
            BY <1>6, <2>1, <2>2, <2>11, <2>12, <3>2
    <2>13. CASE c.op = "while"
        <3>1. env' = env
            BY <1>12, <2>13 DEF Repeats
        <3>. QED
            BY <2>1, <2>10, <2>12, <2>13, <3>1 DEF Follows
    <2>14. CASE c.op = "for"
        <3>1. Bind(c.names, o)
            BY <1>12, <2>14 DEF Repeats
        <3>2. o \in Writers(c) /\ NameOf(o) = program[o].name /\ c.names = {program[o].name}
            BY <1>1, <2>3, <2>14, Inside DEF DeclarationOf
        <3>3. Reaches((lines[b] \o again) \o rest, program[o].name, o)
            BY <1>5, <2>2, <2>3, <2>5, <2>6, <2>11, <3>2
        <3>. DEFINE code == (lines[b] \o again) \o rest
        <3>4. \A n \in DOMAIN env \ c.names : IsRead(n) => Reaches(code, n, env[n]) /\ program[env[n]].name = n
            BY <2>12, <2>14
        <3>5. \A n \in c.names : IsRead(n) => program[o].name = n /\ (NameOf(o) = n => Reaches(code, n, o))
            BY <3>2, <3>3
        <3>. HIDE DEF code
        <3>6. Follows(code, env')
            BY <3>1, <3>4, <3>5, BindFollows
        <3>. QED
            BY <2>1, <2>10, <3>6 DEF code
    <2>. QED
        BY <2>1, <2>13, <2>14
<1>. QED
    BY <1>1, <1>4, <1>8, <1>9, <1>11, <1>12

-----------------------------------------------------------------------------
(* Reads.                                                                  *)

\* What a statement of the body declares or assigns has its name.
LEMMA NameOfDeclaration ==
    ASSUME body \in Bodies, links = Link, NEW w \in Statement, NEW s \in Statement, program[s].kind # "parameter",
           DeclarationOf(w) \in LocalDeclarations(s)
    PROVE  program[DeclarationOf(w)].name = program[w].name
<1>1. CASE program[w].kind = "assign"
    <2>. DEFINE n == program[w].name
    <2>1. n \in References(w) /\ links[w][n] = Target(w, n) /\ DeclarationOf(w) = Target(w, n)
        BY <1>1 DEF References, Link, DeclarationOf
    <2>2. Target(w, n) \in Statement
        BY <2>1, LocalsDeclare
    <2>3. Target(w, n) # Unresolved
        BY <2>2, Numbers, BodyIsBody
    <2>. QED
        BY <1>1, <2>1, <2>3, TargetIsLocal
<1>2. CASE program[w].kind # "assign"
    BY <1>2 DEF DeclarationOf
<1>. QED
    BY <1>1, <1>2

LEMMA ReadIsGood ==
    ASSUME Kept, ConsistentInv, DeclaresOncePerBlock, HeadersLookBack, IsIntact, JoinedNamesGoUnread, todo # <<>>,
           NEW c, c = Head(todo), c.op \notin {"pass", "malformed"},
           NEW n \in DOMAIN env, n \in program[c.source].reads,
           DeclarationOf(env[n]) \in LocalDeclarations(c.source)
    PROVE  links[c.source][n] = DeclarationOf(env[n])
<1>. DEFINE s == c.source
            w == env[n]
            d == DeclarationOf(w)
<1>1. /\ body \in Bodies /\ links = Link /\ c \in Item /\ s \in Statement /\ w \in Statement
      /\ Follows(todo, env)
    <2>1. c \in Item /\ todo \in Seq(Item)
        BY HeadAndTail DEF Kept
    <2>. QED
        BY <2>1 DEF Kept, ConsistentInv, Range, Item
<1>2. IsRead(n) /\ program[w].name = n
    BY <1>1 DEF IsRead, Follows
<1>3. program[s].kind # "parameter"
    BY <1>1 DEF Item
<1>4. n \in References(s) /\ links[s][n] = Target(s, n)
    <2>1. n \in References(s)
        BY <1>3 DEF References
    <2>. QED
        BY <1>1, <2>1 DEF Link
<1>5. program[d].name = n
    BY <1>1, <1>2, <1>3, NameOfDeclaration
<1>6. MayRead(c, n) => IsGood(w, Anchor(c), n)
    <2>1. Reaches(todo, n, w) /\ todo \in Seq(Item)
        BY <1>1, <1>2 DEF Follows, Kept
    <2>. QED
        BY <2>1, ReachesTail
<1>7. CASE Loops(s) = {}
    <2>1. Anchor(c) = s
        BY <1>7 DEF Anchor
    <2>2. MayRead(c, n)
        <3>1. ASSUME c.op = "for", n \in c.names PROVE FALSE
            <4>1. program[s].kind = "foreach" /\ c.names = {program[s].name}
                BY <1>1, <3>1 DEF Item
            <4>2. s \in Visible(s) /\ s \in OfKind("foreach")
                BY <1>1, <4>1 DEF Visible, LoopVariable, OfKind
            <4>3. Target(s, n) = s
                BY <1>1, <1>3, <3>1, <4>1, <4>2, VisibleIsTarget
            <4>. QED
                BY <1>4, <4>2, <4>3 DEF HeadersLookBack
        <3>2. c.op \in {"expression", "return", "assign", "joined", "if", "while", "for"}
            BY <1>1 DEF Item
        <3>. QED
            BY <3>1, <3>2 DEF MayRead
    <2>. QED
        BY <1>4, <1>5, <1>6, <2>1, <2>2 DEF IsGood
<1>8. CASE Loops(s) # {}
    <2>1. PICK l \in Loops(s) : l \in Statement /\ program[l].kind = "for" /\ s \in Header(program[l])
        BY <1>8 DEF Loops, OfKind
    <2>2. IsIn(l, ContainingBlock(l)) /\ ContainingBlock(l) \in Block
        BY <1>1, <2>1, Placement
    <2>3. Loops(s) = {l} /\ Outer(s) = {l}
        BY <1>1, <2>1, <2>2, ContainingBlocks
    <2>4. Anchor(c) = l
        <3>1. {l} \in SUBSET Nat
            BY <1>1, <2>1, Numbers
        <3>2. Min({l}) \in {l}
            BY <3>1, MinOf
        <3>. QED
            BY <1>8, <2>3, <3>2 DEF Anchor
    <2>5. c.op \in {"assign", "joined"} /\ MayRead(c, n)
        <3>1. program[s].kind \in {"declare", "assign"}
            BY <1>1, <2>1, Containers
        <3>. QED
            BY <1>1, <3>1 DEF Item, MayRead
    <2>6. CASE d \in Visible(s)
        BY <1>1, <1>3, <1>4, <1>5, <2>6, VisibleIsTarget
    <2>7. CASE d \in LocalDeclarations(l)
        <3>1. d = Target(l, n)
            BY <1>5, <1>6, <2>4, <2>5, <2>7 DEF IsGood
        <3>2. Target(s, n) = Target(l, n)
            BY <1>1, <1>4, <2>1, <2>2, HeadersAgree
        <3>. QED
            BY <1>4, <3>1, <3>2
    <2>. QED
        BY <1>1, <2>3, <2>6, <2>7, ScopeOf
<1>. QED
    BY <1>7, <1>8

LEMMA ExecuteFollowsLinks ==
    ASSUME Kept, ConsistentInv, Execute
    PROVE  ReadsFollowLinks'
<1>. DEFINE c == Head(todo)
<1>1. /\ todo # <<>> /\ UNCHANGED <<body, generations, links, lines>> /\ c.op # "malformed"
      /\ reads' = IF c.op = "pass" \/ (c.op = "for" /\ c.again) THEN {} ELSE Reads(c)
    BY ExecuteCases
<1>2. /\ (HeadersLookBack' <=> HeadersLookBack) /\ (DeclaresOncePerBlock' <=> DeclaresOncePerBlock)
      /\ (IsIntact' <=> IsIntact) /\ (JoinedNamesGoUnread' <=> JoinedNamesGoUnread)
      /\ \A s : LocalDeclarations(s)' = LocalDeclarations(s)
      /\ \A s : DeclarationOf(s)' = DeclarationOf(s)
    BY <1>1, BodyStays DEF IsIntact, JoinedNamesGoUnread
<1>. HIDE DEF c
<1>3. ASSUME DeclaresOncePerBlock, HeadersLookBack, IsIntact, JoinedNamesGoUnread, NEW r \in reads',
             r.writer # Unbound, DeclarationOf(r.writer) \in LocalDeclarations(r.source)
      PROVE  links[r.source][r.name] = DeclarationOf(r.writer)
    <2>1. c.op # "pass" /\ r \in Reads(c)
        BY <1>1, <1>3
    <2>2. PICK n \in program[c.source].reads :
              r = [source |-> c.source, name |-> n, again |-> c.again,
                   writer |-> IF n \in DOMAIN env THEN env[n] ELSE Unbound]
        BY <2>1 DEF Reads
    <2>3. n \in DOMAIN env /\ r.source = c.source /\ r.name = n /\ r.writer = env[n]
        BY <1>3, <2>2
    <2>4. DeclarationOf(env[n]) \in LocalDeclarations(c.source)
        BY <1>3, <2>3
    <2>5. links[c.source][n] = DeclarationOf(env[n])
        BY <1>1, <1>3, <2>1, <2>3, <2>4, ReadIsGood DEF c
    <2>. QED
        BY <2>3, <2>5
<1>. SUFFICES ASSUME DeclaresOncePerBlock', HeadersLookBack', IsIntact', JoinedNamesGoUnread', NEW r \in reads',
                     r.writer # Unbound, DeclarationOf(r.writer)' \in LocalDeclarations(r.source)'
              PROVE  links'[r.source][r.name] = DeclarationOf(r.writer)'
    BY DEF ReadsFollowLinks
<1>. QED
    BY <1>1, <1>2, <1>3

-----------------------------------------------------------------------------
(* The theorems.                                                           *)

IInv == Kept /\ ReadyInv /\ ConsistentInv /\ ReadsFollowLinks

LEMMA NextKeeps == IInv /\ [Next]_vars => IInv'
<1>. SUFFICES ASSUME IInv, [Next]_vars PROVE IInv'
    OBVIOUS
<1>1. ASSUME NEW names \in SUBSET Names, Generate(names) PROVE IInv'
    <2>1. Kept' /\ ReadyInv' /\ ConsistentInv'
        BY <1>1, GenerateKeeps, GenerateIsReady DEF IInv
    <2>2. ReadsFollowLinks'
        <3>1. reads' = {}
            BY <1>1 DEF Generate
        <3>. QED
            BY <3>1 DEF ReadsFollowLinks
    <2>. QED
        BY <2>1, <2>2 DEF IInv
<1>2. CASE Execute
    BY <1>2, ExecuteKeeps, ExecuteIsReady, ExecuteIsConsistent, ExecuteFollowsLinks DEF IInv
<1>3. CASE UNCHANGED vars
    <2>1. UNCHANGED <<body, blocks, links, lines, todo, env, reads, generations>>
        BY <1>3 DEF vars
    <2>2. /\ Statement' = Statement /\ Block' = Block /\ Item' = Item /\ Names' = Names
          /\ (DeclaresOncePerBlock' <=> DeclaresOncePerBlock) /\ (HeadersLookBack' <=> HeadersLookBack)
          /\ (IsIntact' <=> IsIntact) /\ (JoinedNamesGoUnread' <=> JoinedNamesGoUnread)
          /\ program' = program /\ Link' = Link
        BY <2>1, BodyStays DEF IsIntact, JoinedNamesGoUnread
    <2>4. Kept'
        BY <2>1, <2>2 DEF IInv, Kept
    <2>5. ReadyInv'
        <3>1. IsReady(todo, DOMAIN env)' <=> IsReady(todo, DOMAIN env)
            BY <2>1, BodyStays
        <3>2. \A b : BlockIsReady(b)' <=> BlockIsReady(b)
            BY <2>1, BodyStays DEF BlockIsReady
        <3>. QED
            BY <2>1, <2>2, <3>1, <3>2 DEF IInv, ReadyInv
    <2>6. ConsistentInv'
        <3>1. (IsConsistent(todo)' <=> IsConsistent(todo)) /\ (Follows(todo, env)' <=> Follows(todo, env))
            BY <2>1, BodyStays
        <3>2. \A b : BlockIsConsistent(b)' <=> BlockIsConsistent(b)
            BY <2>1, BodyStays DEF BlockIsConsistent
        <3>. QED
            BY <2>1, <2>2, <3>1, <3>2 DEF IInv, ConsistentInv
    <2>7. ReadsFollowLinks'
        <3>1. /\ \A s : LocalDeclarations(s)' = LocalDeclarations(s)
              /\ \A s : DeclarationOf(s)' = DeclarationOf(s)
            BY <2>1, BodyStays
        <3>. QED
            BY <2>1, <2>2, <3>1 DEF IInv, ReadsFollowLinks
    <2>. QED
        BY <2>4, <2>5, <2>6, <2>7 DEF IInv
<1>. QED
    BY <1>1, <1>2, <1>3 DEF Next

LEMMA AlwaysIInv == Spec => []IInv
<1>1. Init => IInv
    BY InitIsReady DEF Init, IInv, ReadsFollowLinks
<1>. QED
    BY <1>1, NextKeeps, PTL DEF Spec

LEMMA KeptIsTyped == Kept => TypeOK
<1>. SUFFICES ASSUME Kept PROVE TypeOK
    OBVIOUS
<1>1. ASSUME NEW s \in Statement, NEW n \in References(s)
      PROVE  links[s][n] = Unresolved \/ program[links[s][n]].name = n
    <2>1. program[s].kind # "parameter" /\ links[s][n] = Target(s, n)
        BY DEF Kept, References, Link
    <2>. QED
        BY <2>1, TargetIsLocal DEF Kept
<1>. QED
    BY <1>1 DEF Kept, TypeOK

\* No generation of a file loses a statement of a block, the references lead to
\* declarations of their names, and the variables of a generated function are
\* assigned by statements of its body, however the body is nested.
THEOREM BlocksTypeCorrect == Spec => []TypeOK
BY AlwaysIInv, KeptIsTyped, PTL DEF IInv

\* The generated function, and any slice of it, binds every variable before it
\* reads it, on every way through its conditions and loops.
THEOREM AllReadsAreBound == Spec => []ReadsAreBound
<1>1. IInv => ReadsAreBound
    BY DEF IInv, ReadyInv, ReadsAreBound
<1>. QED
    BY <1>1, AlwaysIInv, PTL

\* The value that the generated function reads for a reference is that of the
\* declaration the scope provider linked, if the one that was assigned last can
\* be seen at the reference at all.  Names are declared once per block, headers
\* of loops refer to what is before them, the slicer has not reversed a block,
\* and nothing refers to the variables, such as "passi", that an increment of
\* "i" makes when it continues the line before it.
THEOREM AllReadsFollowLinks == Spec => []ReadsFollowLinks
BY AlwaysIInv, PTL DEF IInv

-----------------------------------------------------------------------------
(* Grouped functions.                                                      *)

\* The blocks of W are those through which there is a way on which nothing is aggregated.
Avoids(c, W) ==
    \A s \in ToSet(blocks[c]) :
        /\ ~program[s].aggregates
        /\ NestedBlocks(program[s]) # {} =>
               \/ \E inner \in NestedBlocks(program[s]) : inner \in W
               \/ program[s].kind = "if" /\ program[s].elseBlock = NoBlock

LEMMA AvoidanceCanBeComputed ==
    ASSUME Kept
    PROVE  \E W : \A c \in Block : c \in W <=> Avoids(c, W)
<1>. DEFINE IsComputed(k, W) == \A c \in Block : k <= c => (c \in W <=> Avoids(c, W))
<1>0. PICK last \in Nat : Block \subseteq 1 .. last
    BY Numbers DEF Kept
<1>1. Block \subseteq Nat
    BY Numbers DEF Kept
<1>. DEFINE computed == {k \in 0 .. last + 1 : \E W : IsComputed(k, W)}
<1>2. last + 1 \in computed
    <2>1. IsComputed(last + 1, {})
        BY <1>0
    <2>. QED
        BY <2>1
<1>3. PICK k \in computed : \A j \in computed : k <= j
    <2>1. computed \subseteq 0 .. last + 1
        OBVIOUS
    <2>. HIDE DEF computed
    <2>2. computed \in SUBSET Nat /\ computed # {}
        BY <1>2, <2>1
    <2>. QED
        BY <2>2, LeastExists
<1>4. k = 0
    <2>. SUFFICES ASSUME k # 0 PROVE FALSE
        OBVIOUS
    <2>1. k \in Nat /\ k - 1 \in 0 .. last + 1 /\ ~(k <= k - 1)
        BY <1>3
    <2>2. PICK W : IsComputed(k, W)
        BY <1>3
    <2>. DEFINE V == {c \in Block : IF c = k - 1 THEN Avoids(c, W) ELSE c \in W}
    <2>3. ASSUME NEW c \in Block, k - 1 <= c PROVE Avoids(c, V) <=> Avoids(c, W)
        <3>1. ASSUME NEW s \in ToSet(blocks[c]), NEW inner \in NestedBlocks(program[s])
              PROVE  inner \in V <=> inner \in W
            <4>1. inner \in Block /\ c < inner
                BY InnerIsLater
            <4>2. inner # k - 1
                BY <1>1, <2>1, <2>3, <4>1
            <4>. QED
                BY <4>1, <4>2
        <3>. HIDE DEF V
        <3>. QED
            BY <3>1 DEF Avoids
    <2>4. ASSUME NEW c \in Block, k - 1 <= c PROVE c \in V <=> Avoids(c, W)
        <3>1. c = k - 1 \/ k <= c
            BY <1>1, <2>1, <2>4
        <3>2. ASSUME k <= c PROVE c # k - 1
            BY <1>1, <2>1, <3>2
        <3>. QED
            BY <2>2, <3>1, <3>2
    <2>5. IsComputed(k - 1, V)
        <3>. HIDE DEF V
        <3>. QED
            BY <2>3, <2>4
    <2>6. k - 1 \in computed
        <3>. HIDE DEF IsComputed
        <3>. QED
            BY <2>1, <2>5
    <2>. QED
        BY <1>3, <2>1, <2>6
<1>5. PICK W : IsComputed(0, W)
    BY <1>3, <1>4
<1>. QED
    BY <1>1, <1>5

\* On every way through the statement an aggregation is evaluated in its blocks.
Aggregates(s, W) ==
    /\ NestedBlocks(program[s]) # {}
    /\ \A inner \in NestedBlocks(program[s]) : inner \notin W
    /\ ~(program[s].kind = "if" /\ program[s].elseBlock = NoBlock)

\* What is found after a statement.
After(s, found, inBlock) ==
    IF program[s].kind = "if"
    THEN /\ inBlock[program[s].block][found]
         /\ IF program[s].elseBlock = NoBlock THEN found ELSE inBlock[program[s].elseBlock][found]
    ELSE IF NestedBlocks(program[s]) # {} THEN inBlock[program[s].block][found]
    ELSE found

LEMMA AfterStatement ==
    ASSUME Kept, NEW c \in Block, NEW s \in ToSet(blocks[c]), NEW W, NEW inBlock, NEW found \in BOOLEAN,
           \A inner \in NestedBlocks(program[s]) : inBlock[inner][found] = (found \/ inner \notin W)
    PROVE  After(s, found, inBlock) = (found \/ Aggregates(s, W))
<1>. DEFINE node == program[s]
<1>1. node.kind \in Kinds /\ (node.kind = "if" => node.block # NoBlock)
    BY InnerIsLater
<1>2. CASE node.kind = "if" /\ node.elseBlock = NoBlock
    <2>1. NestedBlocks(node) = {node.block}
        BY <1>1, <1>2 DEF NestedBlocks
    <2>2. inBlock[node.block][found] = (found \/ node.block \notin W)
        BY <2>1
    <2>. QED
        BY <1>2, <2>2 DEF After, Aggregates
<1>3. CASE node.kind = "if" /\ node.elseBlock # NoBlock
    <2>1. NestedBlocks(node) = {node.block, node.elseBlock}
        BY <1>1, <1>3 DEF NestedBlocks
    <2>2. /\ inBlock[node.block][found] = (found \/ node.block \notin W)
          /\ inBlock[node.elseBlock][found] = (found \/ node.elseBlock \notin W)
        BY <2>1
    <2>3. Aggregates(s, W) <=> node.block \notin W /\ node.elseBlock \notin W
        BY <1>3, <2>1 DEF Aggregates
    <2>. QED
        BY <1>3, <2>2, <2>3 DEF After
<1>4. CASE node.kind \in {"while", "for", "foreach", "timespan"}
    <2>1. NestedBlocks(node) = {node.block}
        BY <1>4 DEF NestedBlocks
    <2>2. inBlock[node.block][found] = (found \/ node.block \notin W)
        BY <2>1
    <2>3. Aggregates(s, W) <=> node.block \notin W
        BY <1>4, <2>1 DEF Aggregates
    <2>. QED
        BY <1>4, <2>1, <2>2, <2>3 DEF After
<1>5. CASE node.kind \notin {"if", "while", "for", "foreach", "timespan"}
    <2>1. NestedBlocks(node) = {}
        BY <1>5 DEF NestedBlocks
    <2>. QED
        BY <1>5, <2>1 DEF After, Aggregates
<1>. QED
    BY <1>2, <1>3, <1>4, <1>5

\* What has been found before the first statement of a block.
FoundBefore(c, found) == found \/ \E s \in ToSet(blocks[c]) : program[s].aggregates

\* The recursion of the check over the statements of a block.
IsFoundUpTo(u, c, found, inBlock) ==
    u = [i \in 0 .. Len(blocks[c]) |->
            IF i = 0 THEN FoundBefore(c, found) ELSE After(blocks[c][i], u[i - 1], inBlock)]

LEMMA FoundInBlock ==
    ASSUME Kept, NEW c \in Block, NEW W, c \in W <=> Avoids(c, W), NEW inBlock, NEW found \in BOOLEAN,
           \A s \in ToSet(blocks[c]) : \A inner \in NestedBlocks(program[s]) : \A p \in BOOLEAN :
               inBlock[inner][p] = (p \/ inner \notin W)
    PROVE  Found(c, found, inBlock) = (found \/ c \notin W)
<1>. DEFINE st == blocks[c]
            n == Len(st)
            Upto(i) == FoundBefore(c, found) \/ \E j \in 1 .. i : Aggregates(st[j], W)
            v == [i \in 0 .. n |-> Upto(i)]
            u == CHOOSE f : IsFoundUpTo(f, c, found, inBlock)
<1>1. st \in Seq(Statement) /\ n \in Nat /\ DOMAIN st = 1 .. n
    BY DEF Kept
<1>2. \A i \in 1 .. n : st[i] \in ToSet(st)
    BY <1>1 DEF ToSet
<1>. HIDE DEF st, n
<1>3. ASSUME NEW i \in 1 .. n, NEW p \in BOOLEAN PROVE After(st[i], p, inBlock) = (p \/ Aggregates(st[i], W))
    <2>1. st[i] \in ToSet(blocks[c])
        BY <1>2 DEF st
    <2>. QED
        BY <2>1, AfterStatement
<1>4. ASSUME NEW i \in 1 .. n PROVE Upto(i) = (Upto(i - 1) \/ Aggregates(st[i], W))
    <2>1. \A j : j \in 1 .. i <=> j \in 1 .. i - 1 \/ j = i
        BY <1>1
    <2>. QED
        BY <2>1
<1>5. \A i : Upto(i) \in BOOLEAN
    OBVIOUS
<1>6. Upto(0) = FoundBefore(c, found)
    <2>1. 1 .. 0 = {}
        OBVIOUS
    <2>. QED
        BY <2>1 DEF FoundBefore
<1>. HIDE DEF Upto
<1>7. IsFoundUpTo(v, c, found, inBlock)
    <2>1. ASSUME NEW i \in 0 .. n
          PROVE  v[i] = IF i = 0 THEN FoundBefore(c, found) ELSE After(st[i], v[i - 1], inBlock)
        <3>1. CASE i = 0
            BY <1>6, <3>1
        <3>2. CASE i # 0
            <4>1. i \in 1 .. n /\ i - 1 \in 0 .. n
                BY <1>1, <3>2
            <4>2. v[i] = Upto(i) /\ v[i - 1] = Upto(i - 1)
                BY <4>1
            <4>3. After(st[i], Upto(i - 1), inBlock) = (Upto(i - 1) \/ Aggregates(st[i], W))
                BY <1>3, <1>5, <4>1
            <4>. QED
                BY <1>4, <3>2, <4>1, <4>2, <4>3
        <3>. QED
            BY <3>1, <3>2
    <2>2. v = [i \in 0 .. n |-> v[i]]
        OBVIOUS
    <2>. HIDE DEF v
    <2>. QED
        BY <2>1, <2>2 DEF IsFoundUpTo, st, n
<1>8. IsFoundUpTo(u, c, found, inBlock)
    <2>. HIDE DEF v
    <2>. QED
        BY <1>7
<1>9. Found(c, found, inBlock) = u[n]
    BY DEF Found, IsFoundUpTo, FoundBefore, After, st, n
<1>. HIDE DEF u
<1>10. /\ u[0] = FoundBefore(c, found)
       /\ \A i \in 1 .. n : u[i] = After(st[i], u[i - 1], inBlock)
    <2>1. u = [i \in 0 .. n |-> IF i = 0 THEN FoundBefore(c, found) ELSE After(st[i], u[i - 1], inBlock)]
        BY <1>8 DEF IsFoundUpTo, st, n
    <2>2. \A i \in 0 .. n : u[i] = IF i = 0 THEN FoundBefore(c, found) ELSE After(st[i], u[i - 1], inBlock)
        BY <2>1
    <2>. QED
        BY <1>1, <2>2
<1>. DEFINE wrong == {i \in 0 .. n : u[i] # Upto(i)}
<1>11. wrong = {}
    <2>. SUFFICES ASSUME wrong # {} PROVE FALSE
        OBVIOUS
    <2>1. wrong \in SUBSET Nat
        OBVIOUS
    <2>2. PICK i \in wrong : \A j \in wrong : i <= j
        BY <2>1, LeastExists
    <2>3. i # 0
        BY <1>6, <1>10, <2>2
    <2>4. i \in 1 .. n /\ i - 1 \in 0 .. n /\ ~(i <= i - 1)
        BY <1>1, <2>2, <2>3
    <2>5. u[i - 1] = Upto(i - 1)
        BY <2>2, <2>4
    <2>6. u[i] = After(st[i], Upto(i - 1), inBlock)
        BY <1>10, <2>4, <2>5
    <2>7. u[i] = (Upto(i - 1) \/ Aggregates(st[i], W))
        BY <1>3, <1>5, <2>4, <2>6
    <2>. QED
        BY <1>4, <2>2, <2>4, <2>7
<1>12. u[n] = Upto(n)
    BY <1>1, <1>11
<1>13. Upto(n) = (found \/ c \notin W)
    <2>1. \A s : s \in ToSet(blocks[c]) <=> \E j \in 1 .. n : s = st[j]
        BY <1>1 DEF ToSet, st
    <2>2. (\E j \in 1 .. n : Aggregates(st[j], W)) <=> \E s \in ToSet(blocks[c]) : Aggregates(s, W)
        BY <2>1
    <2>3. ASSUME NEW s PROVE ~Aggregates(s, W) <=>
              (NestedBlocks(program[s]) # {} =>
                  \/ \E inner \in NestedBlocks(program[s]) : inner \in W
                  \/ program[s].kind = "if" /\ program[s].elseBlock = NoBlock)
        BY DEF Aggregates
    <2>4. c \in W <=> \A s \in ToSet(blocks[c]) : ~program[s].aggregates /\ ~Aggregates(s, W)
        BY <2>3 DEF Avoids
    <2>. QED
        BY <2>2, <2>4 DEF Upto, FoundBefore
<1>. QED
    BY <1>9, <1>12, <1>13

\* What holds of a block if it does of those with higher numbers, which the inner
\* ones have, holds of all.
LEMMA FromInsideOut ==
    ASSUME Kept, NEW S, \A c \in Block : (\A d \in Block : c < d => d \in S) => c \in S
    PROVE  \A c \in Block : c \in S
<1>1. PICK last \in Nat : Block \subseteq 1 .. last
    BY Numbers DEF Kept
<1>. DEFINE wrong == Block \ S
<1>. SUFFICES ASSUME wrong # {} PROVE FALSE
    OBVIOUS
<1>2. wrong \in SUBSET (0 .. last)
    <2>1. \A c \in wrong : c \in 0 .. last
        BY <1>1
    <2>. QED
        BY <2>1
<1>3. PICK c \in wrong : \A d \in wrong : c >= d
    <2>. HIDE DEF wrong
    <2>. QED
        BY <1>1, <1>2, GreatestExists
<1>4. \A d \in Block : c < d => d \in S
    BY <1>1, <1>3
<1>. QED
    BY <1>3, <1>4

\* The check finds nothing in the blocks of W, and in them only.
LEMMA HasAggregationOf ==
    ASSUME Kept, NEW W, \A c \in Block : c \in W <=> Avoids(c, W)
    PROVE  \A c \in Block : HasAggregation(c, FALSE) <=> c \notin W
<1>. DEFINE HasAll(f) == f = [c \in Block |-> [found \in BOOLEAN |-> Found(c, found, f)]]
            has == CHOOSE f : HasAll(f)
<1>1. \A c : HasAggregation(c, FALSE) = has[c][FALSE]
    BY DEF HasAggregation
<1>2. HasAll(has)
    <2>. DEFINE f == [c \in Block |-> [found \in BOOLEAN |-> found \/ c \notin W]]
    <2>1. ASSUME NEW c \in Block, NEW found \in BOOLEAN PROVE f[c][found] = Found(c, found, f)
        <3>1. \A s \in ToSet(blocks[c]) : \A inner \in NestedBlocks(program[s]) : \A p \in BOOLEAN :
                  f[inner][p] = (p \/ inner \notin W)
            BY InnerIsLater
        <3>2. f[c][found] = (found \/ c \notin W)
            OBVIOUS
        <3>. HIDE DEF f
        <3>3. Found(c, found, f) = (found \/ c \notin W)
            BY <3>1, FoundInBlock
        <3>. QED
            BY <3>2, <3>3
    <2>2. f = [c \in Block |-> [found \in BOOLEAN |-> f[c][found]]]
        OBVIOUS
    <2>. HIDE DEF f
    <2>3. HasAll(f)
        BY <2>1, <2>2
    <2>. HIDE DEF HasAll
    <2>. QED
        BY <2>3
<1>. HIDE DEF has
<1>3. \A c \in Block : \A found \in BOOLEAN : has[c][found] = Found(c, found, has)
    BY <1>2
<1>. HIDE DEF HasAll
<1>. DEFINE S == {c \in Block : \A p \in BOOLEAN : has[c][p] = (p \/ c \notin W)}
<1>4. ASSUME NEW c \in Block, \A inner \in Block : c < inner => inner \in S
      PROVE  c \in S
    <2>1. \A s \in ToSet(blocks[c]) : \A inner \in NestedBlocks(program[s]) : \A q \in BOOLEAN :
              has[inner][q] = (q \/ inner \notin W)
        BY <1>4, InnerIsLater
    <2>2. ASSUME NEW p \in BOOLEAN PROVE has[c][p] = (p \/ c \notin W)
        <3>1. Found(c, p, has) = (p \/ c \notin W)
            BY <2>1, FoundInBlock
        <3>. QED
            BY <1>3, <3>1
    <2>. QED
        BY <2>2
<1>. HIDE DEF S
<1>5. \A c \in Block : c \in S
    BY <1>4, FromInsideOut
<1>6. \A c \in Block : has[c][FALSE] = (FALSE \/ c \notin W)
    BY <1>5 DEF S
<1>. QED
    BY <1>1, <1>6

-----------------------------------------------------------------------------
(* The ways through a function on which nothing is aggregated.             *)

\* A statement can end in a way, if its blocks can in those of f.
Takes(s, way, f) ==
    /\ ~program[s].aggregates
    /\ \/ \E inner \in NestedBlocks(program[s]) : way \in f[inner]
       \/ way = "return" /\ program[s].kind = "return"
       \/ way = "end" /\ program[s].kind \notin {"return", "if"}
       \/ way = "end" /\ program[s].kind = "if" /\ program[s].elseBlock = NoBlock

GetsTo(c, i, f) == \A j \in 1 .. i - 1 : Takes(body.blocks[c][j], "end", f)

\* The recursion for the ways around the aggregations of a block.
WaysFrom(c, f) ==
    {way \in {"end", "return"} :
        \/ way = "end" /\ GetsTo(c, Len(body.blocks[c]) + 1, f)
        \/ /\ way = "return"
           /\ \E i \in DOMAIN body.blocks[c] : GetsTo(c, i, f) /\ Takes(body.blocks[c][i], way, f)}

LEMMA StatementsOfBlock ==
    ASSUME Kept, NEW c \in Block
    PROVE  /\ Len(body.blocks[c]) \in Nat /\ DOMAIN body.blocks[c] = 1 .. Len(body.blocks[c])
           /\ \A i \in DOMAIN body.blocks[c] : body.blocks[c][i] \in ToSet(blocks[c]) /\ IsIn(body.blocks[c][i], c)
           /\ \A s \in ToSet(blocks[c]) : \E i \in DOMAIN body.blocks[c] : s = body.blocks[c][i]
<1>1. body \in Bodies /\ ToSet(blocks[c]) = ToSet(body.blocks[c])
    BY DEF Kept
<1>2. body.blocks[c] \in Seq(Statement)
    BY <1>1, StatementsOfBlocks
<1>3. \A s : s \in ToSet(blocks[c]) <=> \E i \in DOMAIN body.blocks[c] : body.blocks[c][i] = s
    BY <1>1, StatementsOfBlocks DEF IsIn
<1>. QED
    BY <1>1, <1>2, <1>3 DEF IsIn

LEMMA SameWays ==
    ASSUME Kept, NEW c \in Block, NEW f, NEW g, \A inner \in Block : c < inner => f[inner] = g[inner]
    PROVE  WaysFrom(c, f) = WaysFrom(c, g)
<1>. DEFINE st == body.blocks[c]
<1>1. Len(st) \in Nat /\ DOMAIN st = 1 .. Len(st) /\ \A i \in DOMAIN st : st[i] \in ToSet(blocks[c])
    BY StatementsOfBlock
<1>. HIDE DEF st
<1>2. ASSUME NEW i \in DOMAIN st, NEW way PROVE Takes(st[i], way, f) <=> Takes(st[i], way, g)
    <2>1. \A inner \in NestedBlocks(program[st[i]]) : f[inner] = g[inner]
        BY <1>1, InnerIsLater
    <2>. QED
        BY <2>1 DEF Takes
<1>3. ASSUME NEW i \in 1 .. Len(st) + 1 PROVE GetsTo(c, i, f) <=> GetsTo(c, i, g)
    <2>1. \A j \in 1 .. i - 1 : j \in DOMAIN st
        BY <1>1
    <2>. QED
        BY <1>2, <2>1 DEF GetsTo, st
<1>4. Len(st) + 1 \in 1 .. Len(st) + 1 /\ \A i \in DOMAIN st : i \in 1 .. Len(st) + 1
    BY <1>1
<1>. QED
    BY <1>2, <1>3, <1>4 DEF WaysFrom, st

LEMMA WaysCanBeComputed ==
    ASSUME Kept
    PROVE  \E f : f = [c \in Block |-> WaysFrom(c, f)]
<1>. DEFINE From(k) == {c \in Block : k <= c}
            IsComputed(k, f) == f = [c \in From(k) |-> f[c]] /\ \A c \in From(k) : f[c] = WaysFrom(c, f)
<1>0. PICK last \in Nat : Block \subseteq 1 .. last
    BY Numbers DEF Kept
<1>1. Block \subseteq Nat
    BY Numbers DEF Kept
<1>. DEFINE computed == {k \in 0 .. last + 1 : \E f : IsComputed(k, f)}
<1>2. last + 1 \in computed
    <2>. DEFINE none == [c \in From(last + 1) |-> {}]
    <2>0. \A c \in Block : ~(last + 1 <= c)
        BY <1>0
    <2>1. From(last + 1) = {}
        BY <2>0
    <2>2. IsComputed(last + 1, none)
        BY <2>1
    <2>. HIDE DEF IsComputed, none
    <2>. QED
        BY <2>2
<1>3. PICK k \in computed : \A j \in computed : k <= j
    <2>1. computed \subseteq 0 .. last + 1
        OBVIOUS
    <2>. HIDE DEF computed
    <2>2. computed \in SUBSET Nat /\ computed # {}
        BY <1>2, <2>1
    <2>. QED
        BY <2>2, LeastExists
<1>4. k = 0
    <2>. SUFFICES ASSUME k # 0 PROVE FALSE
        OBVIOUS
    <2>1. k \in Nat /\ k - 1 \in 0 .. last + 1 /\ ~(k <= k - 1)
        BY <1>3
    <2>2. PICK f : IsComputed(k, f)
        <3>. HIDE DEF IsComputed
        <3>. QED
            BY <1>3
    <2>. DEFINE g == [c \in From(k - 1) |-> IF c = k - 1 THEN WaysFrom(c, f) ELSE f[c]]
    <2>3. ASSUME NEW c \in From(k - 1) PROVE WaysFrom(c, g) = WaysFrom(c, f)
        <3>1. ASSUME NEW inner \in Block, c < inner PROVE g[inner] = f[inner]
            BY <1>1, <2>1, <3>1
        <3>. HIDE DEF g
        <3>. QED
            BY <3>1, SameWays
    <2>4. \A c \in From(k - 1) : g[c] = WaysFrom(c, f)
        <3>1. ASSUME NEW c \in From(k - 1) PROVE c = k - 1 \/ c \in From(k)
            BY <1>1, <2>1
        <3>. QED
            BY <2>2, <3>1
    <2>5. IsComputed(k - 1, g)
        <3>1. \A c \in From(k - 1) : g[c] = WaysFrom(c, g)
            <4>. HIDE DEF g, From
            <4>. QED
                BY <2>3, <2>4
        <3>. QED
            BY <3>1
    <2>6. k - 1 \in computed
        <3>. HIDE DEF IsComputed
        <3>. QED
            BY <2>1, <2>5
    <2>. QED
        BY <1>3, <2>1, <2>6
<1>5. PICK f : IsComputed(0, f)
    <2>. HIDE DEF IsComputed
    <2>. QED
        BY <1>3, <1>4
<1>6. From(0) = Block
    BY <1>1
<1>. QED
    BY <1>5, <1>6

LEMMA WaysOf ==
    ASSUME Kept
    PROVE  \E f : \A c \in Block : WaysAround(c) = f[c] /\ f[c] = WaysFrom(c, f)
<1>. DEFINE AreWays(f) == f = [d \in Block |-> WaysFrom(d, f)]
            ways == CHOOSE f : AreWays(f)
<1>1. AreWays(ways)
    <2>1. \E f : AreWays(f)
        BY WaysCanBeComputed
    <2>. HIDE DEF AreWays
    <2>. QED
        BY <2>1
<1>2. \A d : WaysAround(d) = ways[d]
    BY DEF WaysAround, WaysFrom, Takes, GetsTo
<1>. HIDE DEF ways
<1>3. \A c \in Block : ways[c] = WaysFrom(c, ways)
    BY <1>1
<1>. QED
    BY <1>2, <1>3

\* What the check finds nothing in can be executed without an aggregation.
LEMMA NothingIsOverlooked ==
    ASSUME Kept, NEW W, \A c \in Block : c \in W <=> Avoids(c, W),
           NEW f, \A c \in Block : f[c] = WaysFrom(c, f)
    PROVE  \A c \in Block : c \in W => f[c] # {}
<1>. DEFINE S == {c \in Block : c \in W => f[c] # {}}
<1>1. ASSUME NEW c \in Block, \A inner \in Block : c < inner => inner \in S, c \in W
      PROVE  f[c] # {}
    <2>. DEFINE st == body.blocks[c]
                n == Len(st)
                stuck == {i \in 1 .. n : ~Takes(st[i], "end", f)}
    <2>1. n \in Nat /\ DOMAIN st = 1 .. n /\ \A i \in 1 .. n : st[i] \in ToSet(blocks[c])
        BY StatementsOfBlock
    <2>. HIDE DEF st, n
    <2>2. CASE stuck = {}
        <3>1. GetsTo(c, n + 1, f)
            <4>1. \A j \in 1 .. (n + 1) - 1 : j \in 1 .. n
                BY <2>1
            <4>. QED
                BY <2>2, <4>1 DEF GetsTo, st
        <3>. QED
            BY <3>1 DEF WaysFrom, st, n
    <2>3. CASE stuck # {}
        <3>1. stuck \in SUBSET Nat
            BY <2>1
        <3>2. PICK i \in stuck : \A j \in stuck : i <= j
            <4>. HIDE DEF stuck
            <4>. QED
                BY <2>3, <3>1, LeastExists
        <3>3. i \in 1 .. n /\ ~Takes(st[i], "end", f)
            BY <3>2
        <3>4. GetsTo(c, i, f)
            <4>1. ASSUME NEW j \in 1 .. i - 1 PROVE j \in 1 .. n /\ ~(i <= j)
                BY <2>1, <3>3
            <4>. QED
                BY <3>2, <4>1 DEF GetsTo, st
        <3>5. /\ program[st[i]].kind \in Kinds
              /\ \A inner \in NestedBlocks(program[st[i]]) : inner \in Block /\ c < inner
            BY <2>1, <3>3, InnerIsLater
        <3>6. /\ ~program[st[i]].aggregates
              /\ NestedBlocks(program[st[i]]) # {} =>
                     \/ \E inner \in NestedBlocks(program[st[i]]) : inner \in W
                     \/ program[st[i]].kind = "if" /\ program[st[i]].elseBlock = NoBlock
            BY <1>1, <2>1, <3>3 DEF Avoids
        <3>7. Takes(st[i], "return", f)
            <4>1. CASE program[st[i]].kind = "return"
                BY <3>6, <4>1 DEF Takes
            <4>2. CASE program[st[i]].kind = "if" /\ program[st[i]].elseBlock # NoBlock
                <5>1. NestedBlocks(program[st[i]]) # {}
                    BY <4>2 DEF NestedBlocks
                <5>2. PICK inner \in NestedBlocks(program[st[i]]) : inner \in W
                    BY <3>6, <4>2, <5>1
                <5>3. inner \in Block /\ f[inner] # {} /\ f[inner] \subseteq {"end", "return"}
                    <6>1. inner \in Block /\ f[inner] # {}
                        BY <1>1, <3>5, <5>2
                    <6>2. f[inner] = WaysFrom(inner, f)
                        BY <6>1
                    <6>. QED
                        BY <6>1, <6>2 DEF WaysFrom
                <5>4. "end" \notin f[inner]
                    BY <3>3, <3>6, <5>2 DEF Takes
                <5>. QED
                    BY <3>6, <5>2, <5>3, <5>4 DEF Takes
            <4>3. program[st[i]].kind \in {"return", "if"}
                BY <3>3, <3>6 DEF Takes
            <4>4. ~(program[st[i]].kind = "if" /\ program[st[i]].elseBlock = NoBlock)
                BY <3>3, <3>6 DEF Takes
            <4>. QED
                BY <4>1, <4>2, <4>3, <4>4
        <3>. QED
            BY <2>1, <3>3, <3>4, <3>7 DEF WaysFrom, st
    <2>. QED
        BY <2>2, <2>3
<1>. HIDE DEF S
<1>2. \A c \in Block : (\A inner \in Block : c < inner => inner \in S) => c \in S
    BY <1>1 DEF S
<1>3. \A c \in Block : c \in S
    BY <1>2, FromInsideOut
<1>. QED
    BY <1>3 DEF S

\* A call only returns from the statements of the function itself.
LEMMA ReturnsFromTheFunction ==
    ASSUME Kept, ReturnsAtTheEnd, NEW f, \A c \in Block : f[c] = WaysFrom(c, f)
    PROVE  \A c \in Block : c # 1 => f[c] \subseteq {"end"}
<1>. DEFINE S == {c \in Block : c # 1 => "return" \notin f[c]}
<1>0. body \in Bodies /\ 1 \in Block /\ \A b \in Block : b \in Nat /\ b >= 1
    BY Numbers DEF Kept
<1>1. ASSUME NEW c \in Block, \A inner \in Block : c < inner => inner \in S, c # 1
      PROVE  "return" \notin f[c]
    <2>. SUFFICES ASSUME "return" \in f[c] PROVE FALSE
        OBVIOUS
    <2>1. "return" \in WaysFrom(c, f)
        OBVIOUS
    <2>2. PICK i \in DOMAIN body.blocks[c] : Takes(body.blocks[c][i], "return", f)
        BY <2>1 DEF WaysFrom
    <2>. DEFINE s == body.blocks[c][i]
    <2>3. s \in ToSet(blocks[c]) /\ IsIn(s, c)
        BY StatementsOfBlock
    <2>. HIDE DEF s
    <2>4. ASSUME NEW inner \in NestedBlocks(program[s]) PROVE "return" \notin f[inner]
        <3>1. inner \in Block /\ c < inner
            BY <2>3, InnerIsLater
        <3>2. inner # 1
            BY <1>0, <3>1
        <3>. QED
            BY <1>1, <3>1, <3>2
    <2>5. program[s].kind = "return" /\ s \in Statement
        <3>1. s \in Statement
            BY <2>3, InnerIsLater
        <3>. QED
            BY <2>2, <2>4, <3>1 DEF Takes, s
    <2>6. body.blocks[1] # <<>> /\ s = Last(body.blocks[1])
        BY <2>5 DEF ReturnsAtTheEnd, OfKind
    <2>7. IsIn(s, 1)
        <3>1. Len(body.blocks[1]) \in Nat /\ DOMAIN body.blocks[1] = 1 .. Len(body.blocks[1])
            BY <1>0, StatementsOfBlock
        <3>2. body.blocks[1] \in Seq(Statement)
            BY <1>0, StatementsOfBlocks
        <3>3. Len(body.blocks[1]) \in DOMAIN body.blocks[1]
            BY <2>6, <3>1, <3>2
        <3>. QED
            BY <1>0, <2>6, <3>3, StatementsOfBlock DEF Last
    <2>. QED
        BY <1>0, <1>1, <2>3, <2>7, StatementsOfBlocks
<1>. HIDE DEF S
<1>2. \A c \in Block : (\A inner \in Block : c < inner => inner \in S) => c \in S
    BY <1>1 DEF S
<1>3. \A c \in Block : c \in S
    BY <1>2, FromInsideOut
<1>4. \A c \in Block : f[c] \subseteq {"end", "return"}
    BY DEF WaysFrom
<1>. QED
    BY <1>3, <1>4 DEF S

\* If loops and timespans can do without an aggregation, a statement that can be
\* executed up to its end has none that the check finds.
LEMMA EndsAreFound ==
    ASSUME Kept, SkipsNoAggregation, ReturnsAtTheEnd,
           NEW W, \A c \in Block : c \in W <=> Avoids(c, W),
           NEW f, \A c \in Block : WaysAround(c) = f[c] /\ f[c] = WaysFrom(c, f),
           NEW c \in Block, \A inner \in Block : c < inner => ("end" \in f[inner] => inner \in W),
           NEW s \in ToSet(blocks[c]), Takes(s, "end", f)
    PROVE  /\ ~program[s].aggregates
           /\ NestedBlocks(program[s]) # {} =>
                  \/ \E inner \in NestedBlocks(program[s]) : inner \in W
                  \/ program[s].kind = "if" /\ program[s].elseBlock = NoBlock
<1>1. ~program[s].aggregates
    BY DEF Takes
<1>2. /\ s \in Statement /\ program[s].kind \in Kinds
      /\ \A inner \in NestedBlocks(program[s]) : inner \in Block /\ c < inner
    BY InnerIsLater
<1>3. \A b \in Block : b \in Nat /\ b >= 1
    BY Numbers DEF Kept
<1>4. CASE program[s].kind \in {"while", "for", "foreach", "timespan"}
    <2>. DEFINE inner == program[s].block
    <2>1. NestedBlocks(program[s]) = {inner}
        BY <1>4 DEF NestedBlocks
    <2>2. inner \in Block /\ c < inner /\ inner # 1
        BY <1>2, <1>3, <2>1
    <2>3. WaysAround(inner) # {}
        BY <1>2, <1>4 DEF SkipsNoAggregation, OfKind, CanAvoidAggregation
    <2>. HIDE DEF inner
    <2>4. f[inner] # {} /\ f[inner] \subseteq {"end"}
        BY <2>2, <2>3, ReturnsFromTheFunction
    <2>5. inner \in W
        BY <2>2, <2>4
    <2>. QED
        BY <1>1, <2>1, <2>5
<1>5. CASE program[s].kind = "if"
    <2>. SUFFICES ASSUME program[s].elseBlock # NoBlock
                  PROVE  \E inner \in NestedBlocks(program[s]) : inner \in W
        BY <1>1, <1>5
    <2>1. PICK inner \in NestedBlocks(program[s]) : "end" \in f[inner]
        BY <1>5 DEF Takes
    <2>. QED
        BY <1>2, <2>1
<1>6. CASE program[s].kind \notin {"if", "while", "for", "foreach", "timespan"}
    <2>1. NestedBlocks(program[s]) = {}
        BY <1>6 DEF NestedBlocks
    <2>. QED
        BY <1>1, <2>1
<1>. QED
    BY <1>4, <1>5, <1>6

LEMMA WaysAreFound ==
    ASSUME Kept, SkipsNoAggregation, ReturnsAtTheEnd,
           NEW W, \A c \in Block : c \in W <=> Avoids(c, W),
           NEW f, \A c \in Block : WaysAround(c) = f[c] /\ f[c] = WaysFrom(c, f)
    PROVE  f[1] # {} => 1 \in W
<1>. DEFINE S == {c \in Block : "end" \in f[c] => c \in W}
<1>0. body \in Bodies /\ 1 \in Block /\ \A b \in Block : b \in Nat /\ b >= 1
    BY Numbers DEF Kept
<1>1. ASSUME NEW c \in Block, \A inner \in Block : c < inner => inner \in S, "end" \in f[c]
      PROVE  c \in W
    <2>1. GetsTo(c, Len(body.blocks[c]) + 1, f)
        <3>1. "end" \in WaysFrom(c, f)
            BY <1>1
        <3>. QED
            BY <3>1 DEF WaysFrom
    <2>2. ASSUME NEW s \in ToSet(blocks[c]) PROVE Takes(s, "end", f)
        <3>1. PICK i \in DOMAIN body.blocks[c] : s = body.blocks[c][i]
            BY StatementsOfBlock
        <3>2. i \in 1 .. (Len(body.blocks[c]) + 1) - 1
            BY StatementsOfBlock
        <3>. QED
            BY <2>1, <3>1, <3>2 DEF GetsTo
    <2>3. \A inner \in Block : c < inner => ("end" \in f[inner] => inner \in W)
        BY <1>1
    <2>. HIDE DEF S
    <2>4. ASSUME NEW s \in ToSet(blocks[c])
          PROVE  /\ ~program[s].aggregates
                 /\ NestedBlocks(program[s]) # {} =>
                        \/ \E inner \in NestedBlocks(program[s]) : inner \in W
                        \/ program[s].kind = "if" /\ program[s].elseBlock = NoBlock
        <3>1. Takes(s, "end", f)
            BY <2>2
        <3>. QED
            BY <2>3, <3>1, EndsAreFound
    <2>5. Avoids(c, W)
        BY <2>4 DEF Avoids
    <2>. QED
        BY <2>5
<1>. HIDE DEF S
<1>2. \A c \in Block : (\A inner \in Block : c < inner => inner \in S) => c \in S
    BY <1>1 DEF S
<1>3. \A c \in Block : "end" \in f[c] => c \in W
    <2>1. \A c \in Block : c \in S
        BY <1>2, FromInsideOut
    <2>. QED
        BY <2>1 DEF S
<1>4. ASSUME "return" \in f[1] PROVE 1 \in W
    <2>. DEFINE st == body.blocks[1]
                n == Len(st)
    <2>1. /\ n \in Nat /\ DOMAIN st = 1 .. n /\ \A i \in 1 .. n : st[i] \in ToSet(blocks[1])
          /\ \A s \in ToSet(blocks[1]) : \E i \in DOMAIN st : s = st[i]
        BY <1>0, StatementsOfBlock
    <2>2. \A i, j \in DOMAIN st : st[i] = st[j] => i = j
        BY <1>0, StatementsOfBlocks
    <2>3. "return" \in WaysFrom(1, f)
        BY <1>0, <1>4
    <2>4. PICK i \in DOMAIN st : GetsTo(1, i, f) /\ Takes(st[i], "return", f)
        BY <2>3 DEF WaysFrom
    <2>. HIDE DEF st, n
    <2>5. /\ st[i] \in Statement
          /\ \A inner \in NestedBlocks(program[st[i]]) : inner \in Block /\ 1 < inner
        BY <1>0, <2>1, InnerIsLater
    <2>6. ASSUME NEW inner \in NestedBlocks(program[st[i]]) PROVE "return" \notin f[inner]
        <3>1. inner \in Block /\ inner # 1
            BY <1>0, <2>5
        <3>. QED
            BY <3>1, ReturnsFromTheFunction
    <2>7. program[st[i]].kind = "return" /\ ~program[st[i]].aggregates
        BY <2>4, <2>6 DEF Takes
    <2>8. st # <<>> /\ st[i] = st[n]
        BY <2>5, <2>7 DEF ReturnsAtTheEnd, OfKind, Last, st, n
    <2>9. i = n
        BY <2>1, <2>2, <2>8
    <2>10. ASSUME NEW s \in ToSet(blocks[1])
           PROVE  /\ ~program[s].aggregates
                  /\ NestedBlocks(program[s]) # {} =>
                         \/ \E inner \in NestedBlocks(program[s]) : inner \in W
                         \/ program[s].kind = "if" /\ program[s].elseBlock = NoBlock
        <3>1. PICK j \in DOMAIN st : s = st[j]
            BY <2>1
        <3>2. CASE j = n
            <4>1. NestedBlocks(program[s]) = {}
                BY <2>7, <2>9, <3>1, <3>2 DEF NestedBlocks
            <4>. QED
                BY <2>7, <2>9, <3>1, <3>2, <4>1
        <3>3. CASE j # n
            <4>1. j \in 1 .. i - 1
                BY <2>1, <2>9, <3>3
            <4>2. Takes(s, "end", f)
                BY <2>4, <3>1, <4>1 DEF GetsTo, st
            <4>. QED
                BY <1>0, <1>3, <4>2, EndsAreFound
        <3>. QED
            BY <3>2, <3>3
    <2>11. Avoids(1, W)
        BY <2>10 DEF Avoids
    <2>. QED
        BY <1>0, <2>11
<1>5. f[1] \subseteq {"end", "return"}
    BY <1>0 DEF WaysFrom
<1>. QED
    BY <1>0, <1>3, <1>4, <1>5

LEMMA GroupingIsSound ==
    ASSUME Kept
    PROVE  GroupedFunctionsAggregate
<1>1. PICK W : \A c \in Block : c \in W <=> Avoids(c, W)
    BY AvoidanceCanBeComputed
<1>2. PICK f : \A c \in Block : WaysAround(c) = f[c] /\ f[c] = WaysFrom(c, f)
    BY WaysOf
<1>3. 1 \in Block
    BY Numbers DEF Kept
<1>4. HasAggregation(1, FALSE) <=> 1 \notin W
    BY <1>1, <1>3, HasAggregationOf
<1>5. 1 \in W => f[1] # {}
    BY <1>1, <1>2, <1>3, NothingIsOverlooked
<1>6. SkipsNoAggregation /\ ReturnsAtTheEnd => (f[1] # {} => 1 \in W)
    BY <1>1, <1>2, WaysAreFound
<1>7. CanAvoidAggregation(1) <=> f[1] # {}
    BY <1>2, <1>3 DEF CanAvoidAggregation
<1>. QED
    BY <1>4, <1>5, <1>6, <1>7 DEF GroupedFunctionsAggregate

\* A grouped function that cannot be executed without an aggregation is accepted,
\* however its conditions and loops are nested and whichever of its blocks the
\* slicer has reversed.  One that can be is rejected if every loop and timespan
\* can be executed without one, and only its last statement returns.
THEOREM AcceptedFunctionsAggregate == Spec => []GroupedFunctionsAggregate
BY AlwaysIInv, GroupingIsSound, PTL DEF IInv
===============================================================================
