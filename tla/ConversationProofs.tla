-------------------------- MODULE ConversationProofs --------------------------
(***************************************************************************)
(* The safety properties of MessageHistory and of TelegramAdapter, for any *)
(* agents, budgets and costs of messages, and for any updates, deliveries, *)
(* crashes, replies, lengths of a message and numbers of ids kept.         *)
(*                                                                         *)
(* The arguments.  Of the histories: an update leaves all from a human     *)
(* message on that is not after the latest one (TrimFacts), a batch is     *)
(* behind the latest one as long as the specialist is at work (AfterHumans *)
(* in HistoryInv) and no human message is inside a batch (SuffixIsWhole).  *)
(*                                                                         *)
(* Of the adapter: each turn waits for the one before it, so that a turn   *)
(* that starts finds all before it settled (ChainInv).  An update has been *)
(* accepted once for each time its id has been forgotten, and once more if *)
(* it is remembered (MarkInv).  The buffers and the turns divide what is   *)
(* held among them (KeptInv).  splitMessage cuts a reply, its loop by      *)
(* induction over the lines (LoopCuts), and a turn that sends has messages *)
(* left to send (SendInv).                                                 *)
(***************************************************************************)
EXTENDS MessageHistory, TelegramAdapter, FiniteSetTheorems, TLAPS

\* Induction, from the pigeonhole principle: if n were missing from T, adding one would map the
\* members of T below n into those above 0.
LEMMA Induction ==
    ASSUME NEW T \in SUBSET Nat, 0 \in T, \A n \in T : n + 1 \in T
    PROVE  T = Nat
  <1> SUFFICES ASSUME NEW n \in Nat \ T PROVE FALSE
    OBVIOUS
  <1> DEFINE S == T \cap (0..n)
             f == [x \in S |-> x + 1]
  <1>1. IsFiniteSet(S) /\ 0 \in S
    <2>1. IsFiniteSet(0..n)
      BY FS_Interval
    <2>2. S \in SUBSET (0..n) /\ 0 \in S
      OBVIOUS
    <2> HIDE DEF S
    <2> QED BY <2>1, <2>2, FS_Subset
  <1>2. f \in [S -> S \ {0}]
    <2> SUFFICES ASSUME NEW x \in S PROVE x + 1 \in S \ {0}
      OBVIOUS
    <2> QED OBVIOUS
  <1>3. IsFiniteSet(S \ {0}) /\ Cardinality(S \ {0}) < Cardinality(S)
    <2> HIDE DEF S
    <2>1. IsFiniteSet(S \ {0}) /\ Cardinality(S \ {0}) = Cardinality(S) - 1
      BY <1>1, FS_RemoveElement
    <2> QED BY <1>1, <2>1, FS_CardinalityType
  <1>4. PICK x, y \in S : x # y /\ f[x] = f[y]
    <2> HIDE DEF S, f
    <2> QED BY <1>1, <1>2, <1>3, FS_PigeonHole
  <1> QED BY <1>4

(***************************************************************************)
(* Greatest and least elements, and the elements of a set in order.        *)
(***************************************************************************)
\* By induction on the bound.
LEMMA MaxFact ==
    ASSUME NEW n \in Nat, NEW S \in SUBSET (1..n), S # {}
    PROVE  Max(S) \in S /\ \A x \in S : x <= Max(S)
  <1> DEFINE T == {k \in Nat : \A R \in SUBSET (1..k) : R # {} => \E m \in R : \A x \in R : m >= x}
  <1>1. 0 \in T
    <2>1. \A R \in SUBSET (1..0) : R = {}
      OBVIOUS
    <2> QED BY <2>1
  <1>2. ASSUME NEW k \in T PROVE k + 1 \in T
    <2> SUFFICES ASSUME NEW R \in SUBSET (1..(k + 1)), R # {}
                 PROVE  \E m \in R : \A x \in R : m >= x
      BY <1>2
    <2>1. CASE k + 1 \in R
      BY <2>1
    <2>2. CASE k + 1 \notin R
      <3>1. R \in SUBSET (1..k)
        BY <2>2
      <3> QED BY <3>1, <1>2
    <2> QED BY <2>1, <2>2
  <1>3. T = Nat
    <2>1. T \in SUBSET Nat
      OBVIOUS
    <2> HIDE DEF T
    <2> QED BY <1>1, <1>2, <2>1, Induction
  <1>4. \E m \in S : \A x \in S : m >= x
    BY <1>3
  <1>5. Max(S) \in S /\ \A x \in S : Max(S) >= x
    BY <1>4 DEF Max
  <1> QED BY <1>5

\* The least is the greatest of the mirrored set.
LEMMA MinFact ==
    ASSUME NEW n \in Nat, NEW S \in SUBSET (1..n), S # {}
    PROVE  Min(S) \in S /\ \A x \in S : Min(S) <= x
  <1> DEFINE R == {n + 1 - x : x \in S}
  <1>1. R \in SUBSET (1..n) /\ R # {}
    <2>1. \A x \in S : n + 1 - x \in 1..n
      OBVIOUS
    <2> QED BY <2>1
  <1>2. Max(R) \in R /\ \A x \in R : x <= Max(R)
    <2> HIDE DEF R
    <2> QED BY <1>1, MaxFact
  <1>3. PICK m \in S : Max(R) = n + 1 - m
    BY <1>2
  <1>4. \A x \in S : m <= x
    <2> TAKE x \in S
    <2>1. n + 1 - x \in R /\ x \in 1..n /\ m \in 1..n
      OBVIOUS
    <2>2. n + 1 - x <= n + 1 - m
      BY <1>2, <1>3, <2>1
    <2> QED BY <2>1, <2>2
  <1>5. Min(S) \in S /\ \A x \in S : Min(S) <= x
    BY <1>4 DEF Min
  <1> QED BY <1>5

\* 0 stands for no index.
LEMMA HighestFact ==
    ASSUME NEW n \in Nat, NEW S \in SUBSET (1..n)
    PROVE  /\ Highest(S) \in 0..n /\ \A x \in S : x <= Highest(S)
           /\ Highest(S) > 0 => Highest(S) \in S
           /\ S # {} => Highest(S) > 0
  <1>1. CASE S = {}
    BY <1>1 DEF Highest
  <1>2. CASE S # {}
    <2>1. Max(S) \in S /\ \A x \in S : x <= Max(S)
      BY <1>2, MaxFact
    <2>2. Highest(S) = Max(S)
      BY <1>2 DEF Highest
    <2> HIDE DEF Highest
    <2>3. Max(S) \in 1..n
      BY <2>1
    <2> QED BY <2>1, <2>2, <2>3
  <1> QED BY <1>1, <1>2

\* Picked takes each of the chosen messages once, in their order.
LEMMA PickedFact ==
    ASSUME NEW S, NEW h \in Seq(S), NEW P \in SUBSET DOMAIN h
    PROVE  /\ Picked(h, P) \in Seq(S)
           /\ \A n \in DOMAIN Picked(h, P) : \E i \in P : Picked(h, P)[n] = h[i]
           /\ \A i \in P : \E n \in DOMAIN Picked(h, P) : Picked(h, P)[n] = h[i]
  <1> DEFINE Below(i) == {j \in P : j <= i}
             Rank(i) == Cardinality(Below(i))
             c == Cardinality(P)
             rank == [i \in P |-> Rank(i)]
  <1>1. P \in SUBSET (1..Len(h)) /\ Len(h) \in Nat
    OBVIOUS
  <1>2. IsFiniteSet(P) /\ c \in Nat
    <2>1. IsFiniteSet(1..Len(h))
      BY <1>1, FS_Interval
    <2> QED BY <1>1, <2>1, FS_Subset, FS_CardinalityType
  <1>3. \A i \in P : IsFiniteSet(Below(i)) /\ Rank(i) \in 1..c
    <2> TAKE i \in P
    <2>1. Below(i) \in SUBSET P /\ Below(i) # {}
      BY <1>1
    <2> HIDE DEF Below
    <2>2. IsFiniteSet(Below(i)) /\ Rank(i) <= c
      BY <2>1, <1>2, FS_Subset
    <2>3. Rank(i) \in Nat /\ Rank(i) # 0
      BY <2>1, <2>2, FS_CardinalityType, FS_EmptySet
    <2> QED BY <1>2, <2>2, <2>3
  <1>4. \A i, j \in P : Rank(i) = Rank(j) => i = j
    <2>1. ASSUME NEW i \in P, NEW j \in P, i < j PROVE Rank(i) # Rank(j)
      <3>1. Below(i) \in SUBSET Below(j) /\ Below(i) # Below(j)
        BY <1>1, <2>1
      <3>2. IsFiniteSet(Below(j))
        BY <1>3
      <3> HIDE DEF Below
      <3> QED BY <3>1, <3>2, FS_Subset
    <2> HIDE DEF Rank
    <2> QED BY <1>1, <2>1
  <1> HIDE DEF Rank
  <1>5. \A n \in 1..c : \E i \in P : Rank(i) = n
    <2>1. rank \in Injection(P, 1..c)
      BY <1>3, <1>4 DEF Injection, IsInjective
    <2>2. IsFiniteSet(1..c) /\ Cardinality(1..c) = c
      BY <1>2, FS_Interval
    <2>3. rank \in Surjection(P, 1..c)
      <3> HIDE DEF rank
      <3> QED BY <2>1, <2>2, FS_Injection
    <2> QED BY <2>3 DEF Surjection
  <1> DEFINE At(n) == CHOOSE i \in P : Rank(i) = n
  <1>6. \A n \in 1..c : At(n) \in P /\ Rank(At(n)) = n
    BY <1>5
  <1>7. Picked(h, P) = [n \in 1..c |-> h[At(n)]]
    BY DEF Picked, Rank
  <1>8. \A i \in P : At(Rank(i)) = i
    BY <1>3, <1>4, <1>6
  <1> HIDE DEF At
  <1>9. Picked(h, P) \in Seq(S)
    BY <1>2, <1>6, <1>7
  <1>10. DOMAIN Picked(h, P) = 1..c
    BY <1>7
  <1> QED BY <1>3, <1>6, <1>7, <1>8, <1>9, <1>10

(***************************************************************************)
(* What messages cost.                                                     *)
(***************************************************************************)
Priced(h) == DOMAIN h = 1..Len(h) /\ Len(h) \in Nat /\ \A i \in DOMAIN h : h[i].tokens \in Nat
Cost(h, s) == UNION {{i} \X (1..h[i].tokens) : i \in s..Len(h)}

LEMMA CostIsFinite ==
    ASSUME NEW h, Priced(h), NEW s \in Nat \ {0}
    PROVE  IsFiniteSet(Cost(h, s)) /\ Tokens(h, s) \in Nat
  <1> DEFINE Parts == {{i} \X (1..h[i].tokens) : i \in s..Len(h)}
  <1>1. IsFiniteSet(s..Len(h))
    BY FS_Interval DEF Priced
  <1>2. IsFiniteSet(Parts)
    <2> DEFINE Part(i) == {i} \X (1..h[i].tokens)
    <2>1. [i \in s..Len(h) |-> Part(i)] \in Surjection(s..Len(h), Parts)
      BY DEF Surjection
    <2> HIDE DEF Part, Parts
    <2> QED BY <1>1, <2>1, FS_Surjection
  <1>3. \A T \in Parts : IsFiniteSet(T)
    <2> SUFFICES ASSUME NEW i \in s..Len(h) PROVE IsFiniteSet({i} \X (1..h[i].tokens))
      OBVIOUS
    <2>1. IsFiniteSet({i})
      BY FS_Singleton
    <2>2. i \in DOMAIN h /\ h[i].tokens \in Nat
      BY DEF Priced
    <2>3. IsFiniteSet(1..h[i].tokens)
      <3> DEFINE k == h[i].tokens
      <3>1. k \in Int
        BY <2>2
      <3> HIDE DEF k
      <3>2. IsFiniteSet(1..k)
        BY <3>1, FS_Interval
      <3> QED BY <3>2 DEF k
    <2> QED BY <2>1, <2>3, FS_Product
  <1>4. IsFiniteSet(UNION Parts)
    <2> HIDE DEF Parts
    <2> QED BY <1>2, <1>3, FS_UNION
  <1> QED BY <1>4, FS_CardinalityType DEF Cost, Tokens

\* The fewer messages, the fewer tokens.
LEMMA FewerCostLess ==
    ASSUME NEW h, Priced(h), NEW s \in Nat \ {0}, NEW t \in Nat, s <= t
    PROVE  Tokens(h, t) <= Tokens(h, s)
  <1>1. Cost(h, t) \in SUBSET Cost(h, s)
    BY DEF Cost, Priced
  <1>2. IsFiniteSet(Cost(h, s))
    BY CostIsFinite
  <1>3. Cardinality(Cost(h, t)) <= Cardinality(Cost(h, s))
    BY <1>1, <1>2, FS_Subset
  <1> QED BY <1>3 DEF Tokens, Cost

\* Where they stand does not matter.
LEMMA ShiftCosts ==
    ASSUME NEW h, Priced(h), NEW g, Priced(g), NEW s \in 1..Len(h),
           Len(g) = Len(h) - s + 1, \A i \in 1..Len(g) : g[i].tokens = h[i + s - 1].tokens
    PROVE  Tokens(g, 1) = Tokens(h, s)
  <1> DEFINE f == [x \in Cost(g, 1) |-> <<x[1] + s - 1, x[2]>>]
  <1>1. \A i, k : <<i, k>> \in Cost(g, 1) <=> i \in 1..Len(g) /\ k \in 1..g[i].tokens
    BY DEF Cost
  <1>2. \A i, k : <<i, k>> \in Cost(h, s) <=> i \in s..Len(h) /\ k \in 1..h[i].tokens
    BY DEF Cost
  <1>3. /\ \A x \in Cost(g, 1) : x = <<x[1], x[2]>>
        /\ \A x \in Cost(h, s) : x = <<x[1], x[2]>>
    BY DEF Cost
  <1>4. \A i \in 1..Len(g) : i + s - 1 \in s..Len(h)
    BY DEF Priced
  <1>5. f \in [Cost(g, 1) -> Cost(h, s)]
    <2> SUFFICES ASSUME NEW x \in Cost(g, 1) PROVE <<x[1] + s - 1, x[2]>> \in Cost(h, s)
      OBVIOUS
    <2>1. x[1] \in 1..Len(g) /\ x[2] \in 1..g[x[1]].tokens
      BY <1>1, <1>3
    <2>2. x[1] + s - 1 \in s..Len(h) /\ x[2] \in 1..h[x[1] + s - 1].tokens
      BY <2>1, <1>4
    <2> QED BY <1>2, <2>2
  <1>6. f \in Injection(Cost(g, 1), Cost(h, s))
    <2> SUFFICES ASSUME NEW x \in Cost(g, 1), NEW y \in Cost(g, 1), f[x] = f[y] PROVE x = y
      BY <1>5 DEF Injection, IsInjective
    <2>1. x[1] \in Int /\ y[1] \in Int
      BY <1>1, <1>3
    <2>2. x[1] + s - 1 = y[1] + s - 1 /\ x[2] = y[2]
      OBVIOUS
    <2> QED BY <1>3, <2>1, <2>2
  <1>7. f \in Surjection(Cost(g, 1), Cost(h, s))
    <2> SUFFICES ASSUME NEW y \in Cost(h, s) PROVE \E x \in Cost(g, 1) : f[x] = y
      BY <1>5 DEF Surjection
    <2> DEFINE x == <<y[1] - s + 1, y[2]>>
    <2>1. y[1] \in s..Len(h) /\ y[2] \in 1..h[y[1]].tokens
      BY <1>2, <1>3
    <2>2. /\ y[1] - s + 1 \in 1..Len(g) /\ (y[1] - s + 1) + s - 1 = y[1]
      <3> DEFINE a == y[1]
                 n == Len(h)
                 m == Len(g)
      <3>1. a \in s..n /\ s \in 1..n /\ n \in Nat /\ m = n - s + 1
        BY <2>1 DEF Priced
      <3> HIDE DEF a, n, m
      <3>2. a - s + 1 \in 1..m /\ (a - s + 1) + s - 1 = a
        BY <3>1
      <3> QED BY <3>2 DEF a, n, m
    <2>3. x \in Cost(g, 1)
      BY <1>1, <2>1, <2>2
    <2>4. f[x] = y
      BY <1>3, <2>2, <2>3
    <2> QED BY <2>3, <2>4
  <1>8. IsFiniteSet(Cost(g, 1))
    BY CostIsFinite
  <1>9. ExistsBijection(Cost(g, 1), Cost(h, s))
    BY <1>6, <1>7 DEF ExistsBijection, Bijection
  <1>10. Cardinality(Cost(h, s)) = Cardinality(Cost(g, 1))
    BY <1>8, <1>9, FS_Bijection
  <1> QED BY <1>10 DEF Tokens, Cost

(***************************************************************************)
(* Messages.                                                               *)
(***************************************************************************)
Names == Agents \cup {"user", "supervisor", "tool"}
Message ==
    {m \in [kind : {"human", "ai", "tool"}, by : Names, tokens : Nat, calls : SUBSET (Nat \ {0}),
            answers : Nat, text : BOOLEAN, raw : BOOLEAN] :
        /\ m.kind = "tool" <=> m.answers # 0
        /\ m.calls # {} => m.kind = "ai"}
Plain == {m \in Message : m.kind # "tool" /\ m.calls = {} /\ m.raw}

\* The messages that the actions make.
LEMMA NewMessages ==
    ASSUME NEW n \in Sizes, NEW a \in Agents \cup {"user", "supervisor"}, NEW t \in BOOLEAN,
           NEW ids \in SUBSET (Nat \ {0}), NEW id \in Nat \ {0}
    PROVE  /\ Human(a, n) \in Plain
           /\ Ai(a, n, ids, t) \in Message /\ Ai(a, n, {}, t) \in Plain
           /\ Result(id, n) \in Message
  BY TokensAssumption DEF Human, Ai, Result, Message, Plain, Names

LEMMA HistoryFacts ==
    ASSUME NEW h \in Seq(Message)
    PROVE  /\ DOMAIN h = 1..Len(h) /\ Len(h) \in Nat /\ Priced(h)
           /\ \A i \in DOMAIN h :
                /\ h[i] \in Message
                /\ h[i].kind \in {"human", "ai", "tool"} /\ h[i].tokens \in Nat
                /\ h[i].calls \in SUBSET (Nat \ {0}) /\ h[i].answers \in Nat
                /\ h[i].kind = "tool" <=> h[i].answers # 0
                /\ h[i].calls # {} => h[i].kind = "ai"
  <1>1. DOMAIN h = 1..Len(h) /\ Len(h) \in Nat /\ \A i \in DOMAIN h : h[i] \in Message
    OBVIOUS
  <1> QED BY <1>1 DEF Message, Priced

\* g says what h says, but for the costs.
SameShape(g, h) ==
    /\ DOMAIN g = DOMAIN h /\ Len(g) = Len(h)
    /\ \A i \in DOMAIN h : SameMessage(g[i], h[i])

LEMMA SameFields ==
    ASSUME NEW m \in Message, NEW k \in Message, SameMessage(m, k)
    PROVE  m.kind = k.kind /\ m.by = k.by /\ m.calls = k.calls /\ m.answers = k.answers /\ m.text = k.text
  <1> DEFINE M == [m EXCEPT !.tokens = 0, !.raw = TRUE]
             K == [k EXCEPT !.tokens = 0, !.raw = TRUE]
  <1>1. M = K
    BY DEF SameMessage
  <1>2. /\ M.kind = m.kind /\ M.by = m.by /\ M.calls = m.calls /\ M.answers = m.answers /\ M.text = m.text
        /\ K.kind = k.kind /\ K.by = k.by /\ K.calls = k.calls /\ K.answers = k.answers /\ K.text = k.text
    BY DEF Message
  <1> QED BY <1>1, <1>2

(***************************************************************************)
(* Batches.                                                                *)
(***************************************************************************)
\* A batch is of results behind their call.
LEMMA BatchFacts ==
    ASSUME NEW h \in Seq(Message), NEW i \in DOMAIN h
    PROVE  /\ \A j \in Batch(h, i) : j \in DOMAIN h /\ j > i /\ h[j].kind = "tool"
           /\ h[i].calls = {} => Batch(h, i) = {}
  <1>1. \A j \in Batch(h, i) : j \in (i + 1)..Len(h) /\ h[j].answers \in h[i].calls
    <2> TAKE j \in Batch(h, i)
    <2>1. j \in (i + 1)..Len(h) /\ \A k \in (i + 1)..j : h[k].answers \in h[i].calls
      BY DEF Batch
    <2>2. j \in (i + 1)..j
      BY <2>1
    <2> QED BY <2>1, <2>2
  <1> QED BY <1>1, HistoryFacts

\* Batches depend on calls and answers only.
LEMMA BatchSame ==
    ASSUME NEW g \in Seq(Message), NEW h \in Seq(Message), SameShape(g, h), NEW i \in DOMAIN h
    PROVE  Batch(g, i) = Batch(h, i) /\ g[i].kind = h[i].kind /\ g[i].calls = h[i].calls /\ g[i].answers = h[i].answers
  <1>1. \A j \in DOMAIN h : g[j].kind = h[j].kind /\ g[j].calls = h[j].calls /\ g[j].answers = h[j].answers
    BY SameFields, HistoryFacts DEF SameShape
  <1>2. \A j \in (i + 1)..Len(h) : \A k \in (i + 1)..j : k \in DOMAIN h
    BY HistoryFacts
  <1>3. \A j \in (i + 1)..Len(h) :
           (\A k \in (i + 1)..j : g[k].answers \in g[i].calls) <=> (\A k \in (i + 1)..j : h[k].answers \in h[i].calls)
    BY <1>1, <1>2
  <1>4. Len(g) = Len(h)
    BY DEF SameShape
  <1> QED BY <1>1, <1>3, <1>4 DEF Batch

\* Every result follows its call, and every call but the last has all its results.
Whole(h) ==
    /\ \A t \in OfKind(h, "tool") : \E i \in OfKind(h, "ai") : t \in Batch(h, i)
    /\ \A i \in DOMAIN h : i # Len(h) => h[i].calls = {h[j].answers : j \in Batch(h, i)}

LEMMA WholeSame ==
    ASSUME NEW g \in Seq(Message), NEW h \in Seq(Message), SameShape(g, h), Whole(h)
    PROVE  Whole(g)
  <1>1. DOMAIN g = DOMAIN h /\ Len(g) = Len(h)
    BY DEF SameShape
  <1>2. \A i \in DOMAIN h : Batch(g, i) = Batch(h, i) /\ g[i].kind = h[i].kind /\ g[i].calls = h[i].calls /\ g[i].answers = h[i].answers
    BY BatchSame
  <1>3. \A i \in DOMAIN h : {g[j].answers : j \in Batch(g, i)} = {h[j].answers : j \in Batch(h, i)}
    BY <1>2, BatchFacts
  <1> QED BY <1>1, <1>2, <1>3 DEF Whole, OfKind

LEMMA PlainIsWhole ==
    ASSUME NEW h \in Seq(Plain)
    PROVE  Whole(h)
  <1>1. h \in Seq(Message) /\ \A i \in DOMAIN h : h[i].kind # "tool" /\ h[i].calls = {}
    BY DEF Plain
  <1>2. \A i \in DOMAIN h : Batch(h, i) = {}
    BY <1>1, BatchFacts
  <1> QED BY <1>1, <1>2 DEF Whole, OfKind

\* What the end of a sequence is.
LEMMA SuffixFacts ==
    ASSUME NEW S, NEW h \in Seq(S), NEW s \in 1..(Len(h) + 1)
    PROVE  LET g == SubSeq(h, s, Len(h)) IN
           /\ g \in Seq(S) /\ Len(g) = Len(h) - s + 1 /\ DOMAIN g = 1..(Len(h) - s + 1)
           /\ \A i \in DOMAIN g : i + s - 1 \in DOMAIN h /\ g[i] = h[i + s - 1]
  OBVIOUS

LEMMA Shifted ==
    ASSUME NEW i \in Int, NEW s \in Int, NEW j \in Int, NEW n \in Int, 1 <= i, i + s - 1 < j, j <= n
    PROVE  j - s + 1 \in 1..(n - s + 1) /\ (j - s + 1) + s - 1 = j /\ j - s + 1 \in Int
  OBVIOUS

\* A human message is in no batch, so a cut before one leaves the batches whole.
LEMMA SuffixIsWhole ==
    ASSUME NEW h \in Seq(Message), Whole(h), NEW s \in DOMAIN h, s = 1 \/ h[s].kind = "human"
    PROVE  Whole(SubSeq(h, s, Len(h)))
  <1> DEFINE g == SubSeq(h, s, Len(h))
             at(i) == i + s - 1
  <1>1. s \in 1..Len(h) /\ Len(h) \in Nat /\ DOMAIN h = 1..Len(h)
    BY HistoryFacts
  <1>2. /\ g \in Seq(Message) /\ Len(g) = Len(h) - s + 1 /\ DOMAIN g = 1..(Len(h) - s + 1)
        /\ \A i \in DOMAIN g : i + s - 1 \in DOMAIN h /\ g[i] = h[i + s - 1]
    BY <1>1, SuffixFacts
  <1> HIDE DEF g
  <1>3. \A i \in DOMAIN g, j \in Int : j \in Batch(g, i) <=> at(j) \in Batch(h, at(i))
    <2> TAKE i \in DOMAIN g, j \in Int
    <2>1. j \in (i + 1)..Len(g) <=> at(j) \in (at(i) + 1)..Len(h)
      BY <1>1, <1>2
    <2>2. ASSUME j \in (i + 1)..Len(g)
          PROVE  (\A k \in (i + 1)..j : g[k].answers \in g[i].calls)
                    <=> (\A k \in (at(i) + 1)..at(j) : h[k].answers \in h[at(i)].calls)
      <3>1. \A k \in (i + 1)..j : at(k) \in (at(i) + 1)..at(j) /\ g[k] = h[at(k)]
        <4> TAKE k \in (i + 1)..j
        <4>1. k \in DOMAIN g /\ k \in Int /\ i \in Int /\ s \in Int
          BY <1>1, <1>2, <2>2
        <4>2. at(k) \in (at(i) + 1)..at(j)
          BY <1>1, <4>1
        <4>3. g[k] = h[at(k)]
          BY <1>2, <4>1
        <4> QED BY <4>2, <4>3
      <3>2. \A k \in (at(i) + 1)..at(j) : k - s + 1 \in (i + 1)..j /\ g[k - s + 1] = h[k]
        <4> TAKE k \in (at(i) + 1)..at(j)
        <4>1. i \in Int /\ s \in Int /\ 1 <= i /\ Len(g) \in Int /\ DOMAIN g = 1..Len(g) /\ j <= Len(g)
          BY <1>1, <1>2, <2>2
        <4>2. k - s + 1 \in (i + 1)..j /\ k - s + 1 + s - 1 = k
          <5>1. k \in (i + s - 1 + 1)..(j + s - 1)
            OBVIOUS
          <5>2. i \in Int /\ s \in Int /\ j \in Int
            BY <4>1
          <5>3. k - s + 1 \in (i + 1)..j /\ k - s + 1 + s - 1 = k
            BY ONLY <5>1, <5>2
          <5> QED BY <5>3
        <4>3. k - s + 1 \in DOMAIN g
          <5> DEFINE x == k - s + 1
          <5>1. x \in (i + 1)..j
            BY <4>2
          <5> HIDE DEF x
          <5>2. x \in DOMAIN g
            BY <4>1, <5>1
          <5> QED BY <5>2 DEF x
        <4> QED BY <1>2, <4>2, <4>3
      <3>3. g[i] = h[at(i)]
        BY <1>2
      <3> QED BY <3>1, <3>2, <3>3
    <2> QED BY <2>1, <2>2 DEF Batch
  <1>4. ASSUME NEW t \in OfKind(g, "tool")
        PROVE  \E i \in OfKind(g, "ai") : t \in Batch(g, i)
    <2>1. t \in DOMAIN g /\ at(t) \in OfKind(h, "tool")
      BY <1>2 DEF OfKind
    <2>2. PICK i \in OfKind(h, "ai") : at(t) \in Batch(h, i)
      BY <2>1 DEF Whole
    <2>3. i \in DOMAIN h /\ h[i].kind = "ai" /\ \A k \in (i + 1)..at(t) : h[k].answers \in h[i].calls
      BY <2>2 DEF OfKind, Batch
    <2>4. s <= i
      <3> SUFFICES ASSUME i < s PROVE FALSE
        BY <1>1, <2>3
      <3>1. s \in (i + 1)..at(t)
        BY <1>1, <1>2, <2>1, <2>3
      <3>2. h[s].answers \in h[i].calls /\ h[s].kind = "human"
        BY <1>1, <2>3, <3>1
      <3> QED BY <2>3, <3>2, HistoryFacts
    <2>5. i - s + 1 \in DOMAIN g /\ at(i - s + 1) = i
      BY <1>1, <1>2, <2>3, <2>4
    <2>6. i - s + 1 \in OfKind(g, "ai")
      BY <1>2, <2>3, <2>5 DEF OfKind
    <2>7. t \in Int
      BY <1>2, <2>1
    <2>8. t \in Batch(g, i - s + 1)
      BY <1>3, <2>2, <2>5, <2>7
    <2> QED BY <2>6, <2>8
  <1>5. ASSUME NEW i \in DOMAIN g, i # Len(g)
        PROVE  g[i].calls = {g[j].answers : j \in Batch(g, i)}
    <2>1. at(i) \in DOMAIN h /\ at(i) # Len(h) /\ g[i] = h[at(i)]
      BY <1>1, <1>2, <1>5
    <2>2. h[at(i)].calls = {h[j].answers : j \in Batch(h, at(i))}
      BY <2>1 DEF Whole
    <2>3. \A j \in Batch(g, i) : at(j) \in Batch(h, at(i)) /\ g[j] = h[at(j)]
      <3> TAKE j \in Batch(g, i)
      <3>1. j \in DOMAIN g
        BY <1>2, BatchFacts
      <3>2. j \in Int
        BY <1>2, <3>1
      <3> QED BY <1>2, <1>3, <3>1, <3>2
    <2>4. \A j \in Batch(h, at(i)) : j - s + 1 \in Batch(g, i) /\ g[j - s + 1] = h[j]
      <3> TAKE j \in Batch(h, at(i))
      <3>1. j \in DOMAIN h /\ j > at(i)
        BY <2>1, BatchFacts
      <3>2. j - s + 1 \in DOMAIN g /\ at(j - s + 1) = j /\ j - s + 1 \in Int
        <4>1. i \in Int /\ s \in Int /\ j \in Int /\ Len(h) \in Int /\ 1 <= i /\ i + s - 1 < j /\ j <= Len(h)
          BY <1>1, <1>2, <3>1
        <4>2. j - s + 1 \in 1..(Len(h) - s + 1) /\ (j - s + 1) + s - 1 = j /\ j - s + 1 \in Int
          BY <4>1, Shifted, Zenon
        <4> QED BY <1>2, <4>2
      <3> QED BY <1>2, <1>3, <3>2
    <2>5. {g[j].answers : j \in Batch(g, i)} = {h[j].answers : j \in Batch(h, at(i))}
      <3> DEFINE A == Batch(g, i)
                 B == Batch(h, at(i))
      <3>1. \A j \in A : \E k \in B : g[j].answers = h[k].answers
        BY <2>3
      <3>2. \A k \in B : \E j \in A : g[j].answers = h[k].answers
        BY <2>4
      <3> HIDE DEF A, B
      <3>3. {g[j].answers : j \in A} = {h[j].answers : j \in B}
        BY <3>1, <3>2
      <3> QED BY <3>3 DEF A, B
    <2> QED BY <2>1, <2>2, <2>5
  <1> QED BY <1>4, <1>5 DEF Whole, g

LEMMA Concatenated ==
    ASSUME NEW S, NEW h \in Seq(S), NEW r \in Seq(S)
    PROVE  /\ h \o r \in Seq(S) /\ Len(h \o r) = Len(h) + Len(r) /\ DOMAIN (h \o r) = 1..(Len(h) + Len(r))
           /\ \A i \in 1..Len(h) : (h \o r)[i] = h[i]
           /\ \A i \in 1..Len(r) : (h \o r)[Len(h) + i] = r[i]
  OBVIOUS

\* What is behind a message that is no result is not in a batch before it.
LEMMA BatchEnds ==
    ASSUME NEW h \in Seq(Message), NEW i \in DOMAIN h, NEW n \in DOMAIN h, i < n, h[n].kind # "tool"
    PROVE  \A j \in Batch(h, i) : j < n
  <1> SUFFICES ASSUME NEW j \in Batch(h, i), n <= j PROVE FALSE
    BY BatchFacts, HistoryFacts
  <1>1. j \in DOMAIN h /\ n \in (i + 1)..j
    BY BatchFacts, HistoryFacts
  <1>2. h[n].answers \in h[i].calls
    BY <1>1 DEF Batch
  <1> QED BY <1>2, HistoryFacts

\* What is added behind may only make the last batch longer.
LEMMA BatchGrows ==
    ASSUME NEW h \in Seq(Message), NEW r \in Seq(Message), NEW i \in DOMAIN h
    PROVE  /\ Batch(h, i) \subseteq Batch(h \o r, i)
           /\ \A j \in Batch(h \o r, i) : j <= Len(h) => j \in Batch(h, i)
  <1> DEFINE w == h \o r
  <1>1. /\ Len(w) = Len(h) + Len(r) /\ Len(h) \in Nat /\ Len(r) \in Nat /\ i \in 1..Len(h)
        /\ \A j \in 1..Len(h) : w[j] = h[j]
    BY Concatenated, HistoryFacts
  <1> HIDE DEF w
  <1>2. \A j \in (i + 1)..Len(h) :
           (\A k \in (i + 1)..j : w[k].answers \in w[i].calls) <=> (\A k \in (i + 1)..j : h[k].answers \in h[i].calls)
    <2> TAKE j \in (i + 1)..Len(h)
    <2>1. \A k \in (i + 1)..j : w[k] = h[k]
      BY <1>1
    <2>2. w[i] = h[i]
      BY <1>1
    <2> QED BY <2>1, <2>2
  <1>3. \A j \in (i + 1)..Len(h) : j \in (i + 1)..Len(w)
    BY <1>1
  <1>4. \A j \in (i + 1)..Len(w) : j <= Len(h) => j \in (i + 1)..Len(h)
    BY <1>1
  <1> QED BY <1>2, <1>3, <1>4 DEF Batch, w

\* The answer of a model.
LEMMA AnswerIsWhole ==
    ASSUME NEW h \in Seq(Message), Whole(h), h # <<>>, h[Len(h)].calls = {},
           NEW m \in Message, m.kind = "ai"
    PROVE  Whole(h \o <<m>>)
  <1> DEFINE r == <<m>>
             w == h \o r
  <1>1. r \in Seq(Message) /\ Len(r) = 1 /\ r[1] = m
    OBVIOUS
  <1> HIDE DEF r
  <1>2. /\ w \in Seq(Message) /\ Len(w) = Len(h) + 1 /\ DOMAIN w = 1..(Len(h) + 1) /\ DOMAIN h = 1..Len(h)
        /\ Len(h) \in Nat /\ \A i \in 1..Len(h) : w[i] = h[i]
    BY <1>1, Concatenated, HistoryFacts
  <1>3. w[Len(h) + 1] = m
    <2>1. 1 \in DOMAIN r /\ DOMAIN r = 1..Len(r)
      BY <1>1
    <2>2. w[Len(h) + 1] = r[1]
      BY <1>1, <1>2, <2>1
    <2> QED BY <1>1, <2>2
  <1> HIDE DEF w
  <1>4. \A i \in DOMAIN h : Batch(w, i) = Batch(h, i)
    <2> TAKE i \in DOMAIN h
    <2>1. /\ Batch(h, i) \subseteq Batch(w, i)
          /\ \A j \in Batch(w, i) : j <= Len(h) => j \in Batch(h, i)
      BY <1>1, BatchGrows DEF w
    <2>2. i \in DOMAIN w /\ Len(h) + 1 \in DOMAIN w /\ i < Len(h) + 1 /\ w[Len(h) + 1].kind # "tool"
      BY <1>2, <1>3
    <2>3. \A j \in Batch(w, i) : j < Len(h) + 1
      BY <1>2, <2>2, BatchEnds
    <2>4. \A j \in Batch(w, i) : j <= Len(h)
      BY <1>2, <2>2, <2>3, BatchFacts
    <2> QED BY <2>1, <2>4
  <1>5. ASSUME NEW t \in OfKind(w, "tool") PROVE \E i \in OfKind(w, "ai") : t \in Batch(w, i)
    <2>1. t \in OfKind(h, "tool")
      BY <1>2, <1>3, <1>5 DEF OfKind
    <2>2. PICK i \in OfKind(h, "ai") : t \in Batch(h, i)
      BY <2>1 DEF Whole
    <2> QED BY <1>2, <1>4, <2>2 DEF OfKind
  <1>6. ASSUME NEW i \in DOMAIN w, i # Len(w) PROVE w[i].calls = {w[j].answers : j \in Batch(w, i)}
    <2>1. i \in DOMAIN h /\ w[i] = h[i] /\ Batch(w, i) = Batch(h, i)
      BY <1>2, <1>4, <1>6
    <2>2. \A j \in Batch(h, i) : w[j] = h[j]
      BY <1>2, <2>1, BatchFacts
    <2>3. {w[j].answers : j \in Batch(w, i)} = {h[j].answers : j \in Batch(h, i)}
      BY <2>1, <2>2
    <2>4. CASE i # Len(h)
      BY <2>1, <2>3, <2>4 DEF Whole
    <2>5. CASE i = Len(h)
      <3>1. Batch(h, i) = {}
        BY <2>1, <2>5, BatchFacts
      <3> QED BY <2>1, <2>3, <2>5, <3>1
    <2> QED BY <2>4, <2>5
  <1> QED BY <1>5, <1>6 DEF Whole, w, r

\* The results of the last message's calls.
LEMMA ResultsAreWhole ==
    ASSUME NEW h \in Seq(Message), Whole(h), h # <<>>, NEW r \in Seq(Message), r # <<>>,
           \A j \in DOMAIN r : r[j].kind = "tool",
           h[Len(h)].kind = "ai", h[Len(h)].calls = {r[j].answers : j \in DOMAIN r}
    PROVE  Whole(h \o r)
  <1> DEFINE w == h \o r
             n == Len(h)
  <1>1. /\ w \in Seq(Message) /\ Len(w) = n + Len(r) /\ DOMAIN w = 1..(n + Len(r)) /\ DOMAIN h = 1..n
        /\ n \in Nat \ {0} /\ Len(r) \in Nat \ {0} /\ DOMAIN r = 1..Len(r)
        /\ \A i \in 1..n : w[i] = h[i]
        /\ \A j \in 1..Len(r) : w[n + j] = r[j]
    BY Concatenated, HistoryFacts
  <1>2. n \in DOMAIN h /\ w[n] = h[n]
    BY <1>1
  <1> HIDE DEF w, n
  <1>3. \A j \in (n + 1)..Len(w) : w[j] = r[j - n] /\ j - n \in DOMAIN r
    <2> TAKE j \in (n + 1)..Len(w)
    <2>1. j - n \in 1..Len(r) /\ n + (j - n) = j
      BY <1>1
    <2> QED BY <1>1, <2>1
  <1>4. \A j \in (n + 1)..Len(w) : w[j].kind = "tool" /\ w[j].answers \in w[n].calls
    BY <1>2, <1>3 DEF n
  <1>5. Batch(w, n) = (n + 1)..Len(w)
    <2>1. \A j \in (n + 1)..Len(w) : \A k \in (n + 1)..j : k \in (n + 1)..Len(w)
      BY <1>1
    <2> QED BY <1>4, <2>1 DEF Batch
  <1>6. \A i \in 1..(n - 1) : Batch(w, i) = Batch(h, i) /\ i \in DOMAIN h /\ i \in DOMAIN w
    <2> TAKE i \in 1..(n - 1)
    <2>1. i \in DOMAIN h /\ i \in DOMAIN w /\ i < n /\ n \in DOMAIN w /\ w[n].kind # "tool"
      BY <1>1, <1>2 DEF n
    <2>2. /\ Batch(h, i) \subseteq Batch(w, i)
          /\ \A j \in Batch(w, i) : j <= n => j \in Batch(h, i)
      BY <2>1, BatchGrows DEF w, n
    <2>3. \A j \in Batch(w, i) : j < n
      BY <1>1, <2>1, BatchEnds
    <2>4. \A j \in Batch(w, i) : j <= n
      <3>1. \A j \in Batch(w, i) : j \in DOMAIN w
        BY <1>1, <2>1, BatchFacts
      <3> QED BY <1>1, <2>3, <3>1
    <2> QED BY <2>1, <2>2, <2>4
  <1>7. ASSUME NEW t \in OfKind(w, "tool") PROVE \E i \in OfKind(w, "ai") : t \in Batch(w, i)
    <2>1. t \in 1..Len(w) /\ w[t].kind = "tool"
      BY <1>1, <1>7 DEF OfKind
    <2>2. CASE t > n
      <3>1. n \in OfKind(w, "ai")
        BY <1>1, <1>2 DEF OfKind, n
      <3>2. t \in (n + 1)..Len(w)
        BY <1>1, <2>1, <2>2
      <3> QED BY <1>5, <3>1, <3>2
    <2>3. CASE t <= n
      <3>1. t \in DOMAIN h /\ w[t] = h[t]
        BY <1>1, <2>1, <2>3
      <3>2. PICK i \in OfKind(h, "ai") : t \in Batch(h, i)
        BY <2>1, <3>1 DEF Whole, OfKind
      <3>3. i \in DOMAIN h /\ h[i].kind = "ai" /\ i < t
        BY <1>1, <3>2, BatchFacts DEF OfKind
      <3>4. i \in 1..(n - 1)
        BY <1>1, <2>1, <2>3, <3>3
      <3> QED BY <1>1, <1>6, <3>2, <3>3, <3>4 DEF OfKind
    <2> QED BY <1>1, <2>1, <2>2, <2>3
  <1>8. ASSUME NEW i \in DOMAIN w, i # Len(w) PROVE w[i].calls = {w[j].answers : j \in Batch(w, i)}
    <2>1. CASE i < n
      <3>1. i \in 1..(n - 1) /\ w[i] = h[i] /\ i # n
        BY <1>1, <2>1
      <3>2. Batch(w, i) = Batch(h, i) /\ i \in DOMAIN h
        BY <1>6, <3>1
      <3>3. \A j \in Batch(h, i) : w[j] = h[j]
        BY <1>1, <3>2, BatchFacts
      <3>4. {w[j].answers : j \in Batch(w, i)} = {h[j].answers : j \in Batch(h, i)}
        BY <3>2, <3>3
      <3> QED BY <3>1, <3>2, <3>4 DEF Whole, n
    <2>2. CASE i = n
      <3>1. \A j \in DOMAIN r : n + j \in (n + 1)..Len(w) /\ w[n + j] = r[j]
        BY <1>1
      <3>2. {w[j].answers : j \in (n + 1)..Len(w)} = {r[j].answers : j \in DOMAIN r}
        BY <1>3, <3>1
      <3> QED BY <1>2, <1>5, <2>2, <3>2 DEF n
    <2>3. CASE i > n
      <3>1. i \in (n + 1)..Len(w) /\ i \in 1..Len(w)
        BY <1>1, <2>3
      <3>2. w[i].kind = "tool" /\ w[i].calls = {}
        BY <1>1, <1>4, <3>1, HistoryFacts
      <3>3. Batch(w, i) = {}
        BY <1>1, <3>2, BatchFacts
      <3> QED BY <3>2, <3>3
    <2> QED BY <1>1, <2>1, <2>2, <2>3
  <1> QED BY <1>7, <1>8 DEF Whole, w

(***************************************************************************)
(* The reducer.                                                            *)
(***************************************************************************)
\* Compaction changes what results cost and whether they can be read, and nothing in flight.
LEMMA CompactFacts ==
    ASSUME NEW h \in Seq(Message)
    PROVE  /\ Compact(h) \in Seq(Message) /\ SameShape(Compact(h), h)
           /\ \A i \in DOMAIN h : h[i].kind # "tool" => Compact(h)[i] = h[i]
           /\ InFlight(h) => Compact(h) = h
  <1>1. DOMAIN h = 1..Len(h) /\ Len(h) \in Nat /\ \A i \in DOMAIN h : h[i] \in Message
    BY HistoryFacts
  <1>2. ASSUME NEW m \in Message PROVE Marker(m) \in Message /\ SameMessage(Marker(m), m) /\ SameMessage(m, m)
    <2>1. m \in [kind : {"human", "ai", "tool"}, by : Names, tokens : Nat, calls : SUBSET (Nat \ {0}),
                 answers : Nat, text : BOOLEAN, raw : BOOLEAN]
      BY DEF Message
    <2>2. MarkerTokens \in Nat
      BY TokensAssumption
    <2>3. Marker(m) \in Message
      BY <2>2 DEF Marker, Message
    <2>4. SameMessage(Marker(m), m)
      BY <2>1 DEF Marker, SameMessage
    <2> QED BY <2>3, <2>4 DEF SameMessage
  <1>3. \A j \in Consumed(h) : j \in DOMAIN h => h[j].kind = "tool"
    BY BatchFacts DEF Consumed
  <1>4. /\ WithMarkers(h) \in Seq(Message) /\ Len(WithMarkers(h)) = Len(h) /\ DOMAIN WithMarkers(h) = DOMAIN h
        /\ \A i \in DOMAIN h : WithMarkers(h)[i] = IF i \in Consumed(h) THEN Marker(h[i]) ELSE h[i]
    BY <1>1, <1>2 DEF WithMarkers
  <1>5. /\ SameShape(WithMarkers(h), h) /\ SameShape(h, h)
    BY <1>1, <1>2, <1>4 DEF SameShape
  <1> QED BY <1>3, <1>4, <1>5 DEF Compact

HasHuman(h) == OfKind(h, "human") # {}
\* Calls and their results are behind the last human message.
AfterHumans(h) ==
    \A i \in OfKind(h, "human"), j \in DOMAIN h : h[j].kind = "tool" \/ h[j].calls # {} => i < j

\* What the two searches from the end find.
LEMMA LatestFacts ==
    ASSUME NEW h \in Seq(Message)
    PROVE  /\ LatestHuman(h) \in 0..Len(h)
           /\ LatestHuman(h) > 0 => LatestHuman(h) \in OfKind(h, "human")
           /\ HasHuman(h) => LatestHuman(h) > 0
           /\ \A i \in OfKind(h, "human") : i <= LatestHuman(h)
           /\ ActiveCall(h) \in 0..Len(h)
           /\ ActiveCall(h) > 0 => ActiveCall(h) \in DOMAIN h /\ h[ActiveCall(h)].calls # {}
  <1> DEFINE A == {i \in DOMAIN h : h[i].calls # {} /\ (i + 1)..Len(h) = Batch(h, i)}
  <1>1. Len(h) \in Nat /\ OfKind(h, "human") \in SUBSET (1..Len(h)) /\ A \in SUBSET (1..Len(h))
    BY HistoryFacts DEF OfKind
  <1>2. A \subseteq {i \in DOMAIN h : h[i].calls # {}}
    OBVIOUS
  <1>3. LatestHuman(h) = Highest(OfKind(h, "human")) /\ ActiveCall(h) = Highest(A)
    BY DEF LatestHuman, ActiveCall
  <1> HIDE DEF A
  <1>4. /\ LatestHuman(h) \in 0..Len(h)
        /\ LatestHuman(h) > 0 => LatestHuman(h) \in OfKind(h, "human")
        /\ OfKind(h, "human") # {} => LatestHuman(h) > 0
        /\ \A i \in OfKind(h, "human") : i <= LatestHuman(h)
    BY <1>1, <1>3, HighestFact
  <1>5. ActiveCall(h) \in 0..Len(h) /\ (ActiveCall(h) > 0 => ActiveCall(h) \in A)
    BY <1>1, <1>3, HighestFact
  <1> QED BY <1>2, <1>4, <1>5 DEF HasHuman

\* The check that the latest human message is kept never changes anything: what remains begins with
\* a human message, and none comes after the latest.
THEOREM RetentionCheckIsRedundant ==
    \A h \in Seq(Message) : Retained(h) = Window(h)
  <1> SUFFICES ASSUME NEW h \in Seq(Message), LatestHuman(h) > 0
               PROVE  ~ Window(h) > LatestHuman(h)
    BY DEF Retained
  <1> DEFINE F == {i \in OfKind(h, "human") : Fits(h, i)}
  <1>1. CASE F = {}
    <2>1. Window(h) = LatestHuman(h)
      BY <1>1 DEF Window, Fallback
    <2> QED BY <2>1, LatestFacts, HistoryFacts
  <1>2. CASE F # {}
    <2>1. F \in SUBSET (1..Len(h)) /\ Len(h) \in Nat
      BY HistoryFacts DEF OfKind
    <2>2. F \subseteq OfKind(h, "human") /\ Window(h) = Min(F)
      BY <1>2 DEF Window
    <2> HIDE DEF F
    <2>3. Min(F) \in F
      BY <1>2, <2>1, MinFact
    <2>4. Window(h) \in OfKind(h, "human") /\ Window(h) \in 1..Len(h)
      BY <2>1, <2>2, <2>3
    <2>5. Window(h) <= LatestHuman(h) /\ LatestHuman(h) \in 0..Len(h)
      BY <2>4, LatestFacts
    <2> QED BY <2>1, <2>4, <2>5
  <1> QED BY <1>1, <1>2

\* Where a history that is over the budget is cut.
LEMMA FirstKeptFacts ==
    ASSUME NEW h \in Seq(Message), HasHuman(h), AfterHumans(h)
    PROVE  /\ FirstKept(h) \in OfKind(h, "human")
           /\ Fits(h, FirstKept(h)) \/ FirstKept(h) = LatestHuman(h)
           /\ \A i \in OfKind(h, "human") : i < FirstKept(h) => ~ Fits(h, i)
  <1> DEFINE F == {i \in OfKind(h, "human") : Fits(h, i)}
             L == LatestHuman(h)
             A == ActiveCall(h)
  <1>1. /\ L \in OfKind(h, "human") /\ L \in 1..Len(h) /\ Len(h) \in Nat /\ DOMAIN h = 1..Len(h)
        /\ \A i \in OfKind(h, "human") : i \in 1..Len(h) /\ i <= L
        /\ A \in 0..Len(h) /\ (A > 0 => A \in DOMAIN h /\ h[A].calls # {})
    BY LatestFacts, HistoryFacts DEF OfKind
  <1>2. CASE A > 0 /\ ~ Fits(h, A)
    <2>1. L < A
      BY <1>1, <1>2 DEF AfterHumans
    <2>2. FirstKept(h) = L
      BY <1>1, <1>2, <2>1 DEF FirstKept
    <2>3. \A i \in 1..A : ~ Fits(h, i)
      <3> TAKE i \in 1..A
      <3>1. i \in Nat \ {0} /\ A \in Nat \ {0} /\ i <= A /\ Priced(h)
        BY <1>1, <1>2, HistoryFacts
      <3>2. Tokens(h, A) <= Tokens(h, i) /\ Tokens(h, A) \in Nat /\ Tokens(h, i) \in Nat
        BY <3>1, FewerCostLess, CostIsFinite
      <3> QED BY <1>2, <3>2, TokensAssumption DEF Fits
    <2> QED BY <1>1, <2>1, <2>2, <2>3
  <1>3. CASE ~ (A > 0 /\ ~ Fits(h, A))
    <2> DEFINE s == Window(h)
    <2>1. /\ s \in OfKind(h, "human") /\ (Fits(h, s) \/ s = L)
          /\ \A i \in OfKind(h, "human") : i < s => ~ Fits(h, i)
      <3>1. CASE F = {}
        <4>1. s = L
          BY <1>1, <3>1 DEF Window, Fallback
        <4> QED BY <1>1, <3>1, <4>1
      <3>2. CASE F # {}
        <4>1. F \in SUBSET (1..Len(h)) /\ s = Min(F)
          BY <1>1, <3>2 DEF Window
        <4>2. Min(F) \in F /\ \A x \in F : Min(F) <= x
          <5> HIDE DEF F
          <5> QED BY <1>1, <3>2, <4>1, MinFact
        <4>3. s \in OfKind(h, "human") /\ Fits(h, s)
          BY <4>1, <4>2
        <4>4. ASSUME NEW i \in OfKind(h, "human"), i < s, Fits(h, i) PROVE FALSE
          <5>1. s <= i /\ i \in Int /\ s \in Int
            BY <1>1, <4>1, <4>2, <4>3, <4>4
          <5> QED BY <4>4, <5>1
        <4> QED BY <4>3, <4>4
      <3> QED BY <3>1, <3>2
    <2>2. FirstKept(h) = Stripped(h, s)
      BY <1>3, RetentionCheckIsRedundant DEF FirstKept
    <2>3. Stripped(h, s) = s
      <3> DEFINE K == {i \in s..Len(h) : h[i].kind # "tool" \/ i = A} \cup {Len(h) + 1}
      <3>1. s \in 1..Len(h) /\ h[s].kind = "human"
        BY <1>1, <2>1 DEF OfKind
      <3> HIDE DEF s
      <3>2. s \in K /\ \A k \in K : s <= k /\ k \in Int
        BY <1>1, <3>1
      <3>3. \A m \in K : (\A k \in K : m <= k) => m = s
        BY <3>1, <3>2
      <3>4. Min(K) = s
        BY <3>2, <3>3 DEF Min
      <3> QED BY <3>4 DEF Stripped
    <2> QED BY <2>1, <2>2, <2>3
  <1> QED BY <1>2, <1>3

\* A history keeps all from s on, which is no later than the latest human message.
LEMMA TrimFacts ==
    ASSUME NEW h \in Seq(Message), HasHuman(h), AfterHumans(h)
    PROVE  \E s \in 1..LatestHuman(h) :
              /\ Trim(h) = SubSeq(h, s, Len(h)) /\ s \in DOMAIN h
              /\ s = 1 \/ h[s].kind = "human"
              /\ Fits(h, s) \/ s = LatestHuman(h)
              /\ \A i \in OfKind(h, "human") : i < s => ~ Fits(h, i)
  <1>1. /\ LatestHuman(h) \in 1..Len(h) /\ Len(h) \in Nat /\ DOMAIN h = 1..Len(h)
        /\ \A i \in OfKind(h, "human") : i \in 1..LatestHuman(h) /\ h[i].kind = "human"
    BY LatestFacts, HistoryFacts DEF OfKind
  <1>2. CASE Fits(h, 1)
    <2>1. h = SubSeq(h, 1, Len(h))
      OBVIOUS
    <2>2. Trim(h) = h
      BY <1>2 DEF Trim
    <2>3. 1 \in 1..LatestHuman(h) /\ 1 \in DOMAIN h /\ \A i \in OfKind(h, "human") : ~ i < 1
      BY <1>1
    <2> QED BY <1>2, <2>1, <2>2, <2>3
  <1>3. CASE ~ Fits(h, 1)
    <2> DEFINE s == FirstKept(h)
    <2>1. /\ s \in OfKind(h, "human") /\ (Fits(h, s) \/ s = LatestHuman(h))
          /\ \A i \in OfKind(h, "human") : i < s => ~ Fits(h, i)
      BY FirstKeptFacts
    <2>2. Trim(h) = SubSeq(h, s, Len(h))
      BY <1>3 DEF Trim
    <2> HIDE DEF s
    <2>3. s \in 1..LatestHuman(h) /\ h[s].kind = "human" /\ s \in DOMAIN h
      BY <1>1, <2>1
    <2> QED BY <2>1, <2>2, <2>3
  <1> QED BY <1>2, <1>3

\* A cut leaves the order of kinds, the last message and the last human one.
LEMMA CutFacts ==
    ASSUME NEW h \in Seq(Message), HasHuman(h), AfterHumans(h), NEW s \in 1..LatestHuman(h)
    PROVE  LET g == SubSeq(h, s, Len(h)) IN
           /\ g \in Seq(Message) /\ Len(g) = Len(h) - s + 1 /\ Len(g) >= 1 /\ g[Len(g)] = h[Len(h)]
           /\ \A i \in DOMAIN g : i + s - 1 \in DOMAIN h /\ g[i] = h[i + s - 1]
           /\ HasHuman(g) /\ AfterHumans(g) /\ LatestHuman(g) = LatestHuman(h) - s + 1
  <1> DEFINE g == SubSeq(h, s, Len(h))
             L == LatestHuman(h)
             n == Len(h)
  <1>1. /\ L \in OfKind(h, "human") /\ L \in 1..n /\ s \in 1..L /\ n \in Nat /\ DOMAIN h = 1..n
        /\ \A i \in OfKind(h, "human") : i <= L /\ i \in 1..n
        /\ s \in 1..(n + 1)
    BY LatestFacts, HistoryFacts DEF OfKind
  <1>2. /\ g \in Seq(Message) /\ Len(g) = n - s + 1 /\ DOMAIN g = 1..(n - s + 1)
        /\ \A i \in DOMAIN g : i + s - 1 \in DOMAIN h /\ g[i] = h[i + s - 1]
    BY <1>1, SuffixFacts
  <1> HIDE DEF g, L
  <1>3. Len(g) \in DOMAIN g /\ Len(g) + s - 1 = n /\ Len(g) >= 1
    <2> HIDE DEF n
    <2> QED BY <1>1, <1>2
  <1>4. g[Len(g)] = h[n]
    BY <1>2, <1>3
  <1>5. \A i \in OfKind(g, "human") : i \in DOMAIN g /\ i + s - 1 \in OfKind(h, "human")
    BY <1>2 DEF OfKind
  <1>6. L - s + 1 \in OfKind(g, "human")
    <2>1. L - s + 1 \in DOMAIN g /\ (L - s + 1) + s - 1 = L
      <3> HIDE DEF n
      <3> QED BY <1>1, <1>2
    <2> QED BY <1>1, <1>2, <2>1 DEF OfKind
  <1>7. HasHuman(g)
    BY <1>6 DEF HasHuman
  <1>8. AfterHumans(g)
    <2> SUFFICES ASSUME NEW i \in OfKind(g, "human"), NEW j \in DOMAIN g, g[j].kind = "tool" \/ g[j].calls # {}
                 PROVE  i < j
      BY DEF AfterHumans
    <2>1. i + s - 1 < j + s - 1
      <3>1. i + s - 1 \in OfKind(h, "human") /\ j + s - 1 \in DOMAIN h /\ g[j] = h[j + s - 1]
        BY <1>2, <1>5
      <3> QED BY <3>1 DEF AfterHumans
    <2>2. i \in DOMAIN g /\ \A k \in DOMAIN g : k \in Int
      BY <1>2, <1>5
    <2>3. i \in Int /\ j \in Int /\ s \in Int
      BY <1>1, <2>2
    <2> QED BY <2>1, <2>3
  <1>9. LatestHuman(g) = L - s + 1
    <2>1. LatestHuman(g) \in OfKind(g, "human") /\ L - s + 1 <= LatestHuman(g)
      BY <1>2, <1>6, <1>7, LatestFacts
    <2>2. LatestHuman(g) + s - 1 <= L
      BY <1>1, <1>5, <2>1
    <2>3. LatestHuman(g) \in Int /\ L \in Int /\ s \in Int
      BY <1>1, <1>2, <2>1 DEF OfKind
    <2> QED BY <2>1, <2>2, <2>3
  <1> QED BY <1>2, <1>3, <1>4, <1>7, <1>8, <1>9 DEF g, L

LEMMA SameKinds ==
    ASSUME NEW g \in Seq(Message), NEW h \in Seq(Message), SameShape(g, h)
    PROVE  /\ \A k : OfKind(g, k) = OfKind(h, k)
           /\ LatestHuman(g) = LatestHuman(h) /\ (HasHuman(h) => HasHuman(g)) /\ (AfterHumans(h) => AfterHumans(g))
  <1>1. DOMAIN g = DOMAIN h /\ \A i \in DOMAIN h : g[i].kind = h[i].kind /\ g[i].calls = h[i].calls
    BY BatchSame DEF SameShape
  <1>2. \A k : OfKind(g, k) = OfKind(h, k)
    BY <1>1 DEF OfKind
  <1> QED BY <1>1, <1>2 DEF LatestHuman, HasHuman, AfterHumans

\* An update and what it leaves.
Update(h, r) ==
    /\ h \in Seq(Message) /\ r \in Seq(Message) /\ r # <<>>
    /\ HasHuman(h \o r) /\ AfterHumans(h \o r) /\ LatestHuman(h \o r) <= Len(h) + 1

\* What an update of a history leaves as it was.
LEMMA ReduceFacts ==
    ASSUME NEW h, NEW r, Update(h, r)
    PROVE  LET w == h \o r
               g == Reduce(h, r)
           IN  /\ g \in Seq(Message) /\ g # <<>> /\ HasHuman(g) /\ AfterHumans(g)
               /\ Whole(w) => Whole(g)
               /\ g[Len(g)].kind = r[Len(r)].kind /\ g[Len(g)].calls = r[Len(r)].calls
               /\ (\A i \in DOMAIN w : w[i].raw) /\ InFlight(w) => \A i \in DOMAIN g : g[i].raw
               /\ (\A i \in DOMAIN w : w[i] \in Plain) => \A i \in DOMAIN g : g[i] \in Plain
  <1> DEFINE w == h \o r
             u == Compact(w)
             g == Reduce(h, r)
  <1>1. w \in Seq(Message) /\ Len(w) = Len(h) + Len(r) /\ Len(r) \in Nat /\ Len(r) > 0 /\ Len(h) \in Nat
    BY Concatenated, HistoryFacts DEF Update
  <1>2. w[Len(w)] = r[Len(r)]
    BY Concatenated, <1>1 DEF Update
  <1>3. HasHuman(w) /\ AfterHumans(w)
    BY DEF Update
  <1> HIDE DEF w
  <1>4. /\ u \in Seq(Message) /\ SameShape(u, w)
        /\ \A i \in DOMAIN w : w[i].kind # "tool" => u[i] = w[i]
        /\ InFlight(w) => u = w
    BY <1>1, CompactFacts
  <1>5. HasHuman(u) /\ AfterHumans(u) /\ DOMAIN u = DOMAIN w /\ Len(u) = Len(w)
    BY <1>1, <1>3, <1>4, SameKinds DEF SameShape
  <1>6. g = Trim(u)
    BY DEF Reduce, w
  <1> HIDE DEF g, u
  <1>7. PICK s \in 1..LatestHuman(u) : g = SubSeq(u, s, Len(u)) /\ s \in DOMAIN u /\ (s = 1 \/ u[s].kind = "human")
    BY <1>4, <1>5, <1>6, TrimFacts
  <1>8. /\ g \in Seq(Message) /\ Len(g) >= 1 /\ g[Len(g)] = u[Len(u)]
        /\ \A i \in DOMAIN g : i + s - 1 \in DOMAIN u /\ g[i] = u[i + s - 1]
        /\ HasHuman(g) /\ AfterHumans(g)
    BY <1>4, <1>5, <1>7, CutFacts
  <1>9. g # <<>>
    BY <1>8
  <1>10. ASSUME Whole(w) PROVE Whole(g)
    <2>1. Whole(u)
      BY <1>1, <1>4, <1>10, WholeSame
    <2> QED BY <1>4, <1>7, <2>1, SuffixIsWhole
  <1>11. g[Len(g)].kind = r[Len(r)].kind /\ g[Len(g)].calls = r[Len(r)].calls
    <2>1. Len(w) \in DOMAIN w
      BY <1>1
    <2>2. u[Len(w)].kind = w[Len(w)].kind /\ u[Len(w)].calls = w[Len(w)].calls
      BY <1>1, <1>4, <2>1, BatchSame
    <2> QED BY <1>2, <1>5, <1>8, <2>2
  <1>12. ASSUME \A i \in DOMAIN w : w[i].raw, InFlight(w) PROVE \A i \in DOMAIN g : g[i].raw
    BY <1>4, <1>8, <1>12
  <1>13. ASSUME \A i \in DOMAIN w : w[i] \in Plain PROVE \A i \in DOMAIN g : g[i] \in Plain
    <2>1. \A i \in DOMAIN w : u[i] = w[i]
      BY <1>4, <1>13 DEF Plain
    <2> QED BY <1>5, <1>8, <1>13, <2>1
  <1> QED BY <1>8, <1>9, <1>10, <1>11, <1>12, <1>13 DEF w, g

LEMMA StretchFacts ==
    ASSUME NEW S, NEW h \in Seq(S), NEW i \in 1..Len(h), NEW d \in 0..Len(h), i <= d
    PROVE  /\ SubSeq(h, i, d) \in Seq(S) /\ Len(SubSeq(h, i, d)) = d - i + 1
           /\ \A k \in 1..(d - i + 1) : SubSeq(h, i, d)[k] = h[i + k - 1]
  OBVIOUS

\* What it drops.
LEMMA UpdateDropsOldTurns ==
    ASSUME NEW h, NEW r, Update(h, r)
    PROVE  DropsOldTurns(h, Reduce(h, r))
  <1> DEFINE w == h \o r
             u == Compact(w)
             g == Reduce(h, r)
  <1>1. /\ w \in Seq(Message) /\ Len(w) = Len(h) + Len(r) /\ Len(r) \in Nat /\ Len(r) > 0 /\ Len(h) \in Nat
        /\ DOMAIN h = 1..Len(h) /\ h \in Seq(Message) /\ DOMAIN w = 1..Len(w)
        /\ \A i \in 1..Len(h) : w[i] = h[i]
    BY Concatenated, HistoryFacts DEF Update
  <1>2. HasHuman(w) /\ AfterHumans(w) /\ LatestHuman(w) <= Len(h) + 1
    BY DEF Update
  <1> HIDE DEF w
  <1>3. /\ u \in Seq(Message) /\ SameShape(u, w)
        /\ \A i \in DOMAIN w : w[i].kind # "tool" => u[i] = w[i]
    BY <1>1, CompactFacts
  <1>4. HasHuman(u) /\ AfterHumans(u) /\ LatestHuman(u) = LatestHuman(w) /\ DOMAIN u = DOMAIN w /\ Len(u) = Len(w)
        /\ OfKind(u, "human") = OfKind(w, "human")
    BY <1>1, <1>2, <1>3, SameKinds DEF SameShape
  <1>5. g = Trim(u)
    BY DEF Reduce, w
  <1> HIDE DEF g, u
  <1>6. PICK s \in 1..LatestHuman(u) :
              /\ g = SubSeq(u, s, Len(u)) /\ s \in DOMAIN u
              /\ s = 1 \/ u[s].kind = "human"
              /\ Fits(u, s) \/ s = LatestHuman(u)
              /\ \A i \in OfKind(u, "human") : i < s => ~ Fits(u, i)
    BY <1>3, <1>4, <1>5, TrimFacts
  <1>7. /\ g \in Seq(Message) /\ Len(g) = Len(u) - s + 1 /\ Len(g) >= 1
        /\ \A i \in DOMAIN g : i + s - 1 \in DOMAIN u /\ g[i] = u[i + s - 1]
        /\ LatestHuman(g) = LatestHuman(u) - s + 1
    BY <1>3, <1>4, <1>6, CutFacts
  <1>8. LatestHuman(u) \in OfKind(w, "human") /\ LatestHuman(u) \in 1..Len(w) /\ LatestHuman(u) <= Len(h) + 1
    BY <1>1, <1>2, <1>4, LatestFacts DEF OfKind
  <1> DEFINE d == s - 1
  <1>9. d \in 0..Len(h) /\ Len(g) = Len(w) - d /\ Len(g) > Len(h) - d /\ s = d + 1 /\ d < LatestHuman(u) /\ s \in 1..Len(w)
    <2>1. s \in 1..LatestHuman(u) /\ Len(g) = Len(w) - s + 1
      BY <1>4, <1>6, <1>7
    <2> QED BY <1>1, <1>8, <2>1
  <1> HIDE DEF d
  <1>10. DOMAIN g = 1..(Len(w) - d)
    BY <1>7, <1>9, HistoryFacts
  <1>11. ASSUME NEW i \in (d + 1)..Len(h) PROVE SameMessage(g[i - d], h[i])
    <2> DEFINE n == Len(h)
               m == Len(w)
    <2>1. i \in (d + 1)..n /\ d \in 0..n /\ s = d + 1 /\ n \in Nat /\ m \in Nat /\ n <= m /\ DOMAIN g = 1..(m - d) /\ DOMAIN w = 1..m
      BY <1>1, <1>9, <1>10
    <2> HIDE DEF n, m
    <2>3. i - d \in 1..(m - d) /\ (i - d) + s - 1 = i /\ i \in 1..m /\ i \in 1..n
      BY <2>1
    <2>4. i - d \in DOMAIN g /\ i \in DOMAIN w /\ i \in 1..Len(h)
      BY <2>1, <2>3 DEF n
    <2>2. g[i - d] = u[i] /\ w[i] = h[i]
      BY <1>1, <1>7, <2>3, <2>4
    <2>5. SameMessage(u[i], w[i])
      BY <1>3, <2>4 DEF SameShape
    <2> QED BY <2>2, <2>5
  <1>12. ASSUME d > 0 PROVE g[1].kind = "human"
    <2>1. 1 \in DOMAIN g /\ 1 + s - 1 = s /\ s # 1
      BY <1>1, <1>9, <1>10, <1>12
    <2> QED BY <1>6, <1>7, <2>1
  <1>13. Fits(g, 1) \/ LatestHuman(g) = 1
    <2>1. CASE Fits(u, s)
      <3>1. /\ Priced(u) /\ Priced(g) /\ s \in 1..Len(u) /\ Len(g) = Len(u) - s + 1
            /\ \A i \in 1..Len(g) : g[i].tokens = u[i + s - 1].tokens
        BY <1>3, <1>4, <1>7, <1>9, HistoryFacts
      <3>2. Tokens(g, 1) = Tokens(u, s)
        BY <3>1, ShiftCosts
      <3> QED BY <2>1, <3>2 DEF Fits
    <2>2. CASE s = LatestHuman(u)
      BY <1>1, <1>7, <1>8, <1>9, <2>2
    <2> QED BY <1>6, <2>1, <2>2
  <1>14. ASSUME NEW i \in 1..d, h[i].kind = "human" PROVE ~ Fits(SubSeq(h, i, d) \o g, 1)
    <2> DEFINE f == SubSeq(h, i, d)
               v == f \o g
    <2>1. i \in 1..Len(h) /\ i \in 1..Len(w) /\ i < s /\ i <= d /\ d <= Len(h) /\ d \in Nat /\ i \in Nat \ {0}
      BY <1>1, <1>9
    <2>2. i \in OfKind(u, "human") /\ ~ Fits(u, i)
      BY <1>1, <1>4, <1>6, <1>14, <2>1 DEF OfKind
    <2>3. /\ f \in Seq(Message) /\ Len(f) = d - i + 1
          /\ \A k \in 1..(d - i + 1) : f[k] = h[i + k - 1]
      <3>1. h \in Seq(Message) /\ i \in 1..Len(h) /\ d \in 0..Len(h) /\ i <= d
        BY <1>1, <1>9, <2>1
      <3> QED BY <3>1, StretchFacts
    <2>4. /\ v \in Seq(Message) /\ Len(v) = Len(f) + Len(g)
          /\ \A k \in 1..Len(f) : v[k] = f[k]
          /\ \A k \in 1..Len(g) : v[Len(f) + k] = g[k]
      <3>1. f \in Seq(Message) /\ g \in Seq(Message)
        BY <1>7, <2>3
      <3> HIDE DEF f
      <3> QED BY <3>1, Concatenated
    <2> HIDE DEF f, v
    <2>5. Len(v) = Len(u) - i + 1
      BY <1>1, <1>4, <1>9, <2>1, <2>3, <2>4
    <2>6. \A j \in 1..d : u[j] = h[j]
      <3> TAKE j \in 1..d
      <3>1. j \in DOMAIN w /\ j \in 1..Len(h) /\ ~ LatestHuman(u) < j
        BY <1>1, <1>8, <1>9
      <3>2. w[j].kind # "tool"
        BY <1>2, <1>8, <3>1 DEF AfterHumans
      <3> QED BY <1>1, <1>3, <3>1, <3>2
    <2>7. ASSUME NEW k \in 1..Len(v) PROVE v[k].tokens = u[k + i - 1].tokens
      <3>1. CASE k <= Len(f)
        <4>1. k \in 1..(d - i + 1) /\ k \in 1..Len(f) /\ i + k - 1 \in 1..d /\ i + k - 1 = k + i - 1
          BY <1>9, <2>1, <2>3, <2>7, <3>1
        <4>2. v[k] = h[i + k - 1] /\ h[i + k - 1] = u[i + k - 1]
          BY <2>3, <2>4, <2>6, <4>1
        <4> QED BY <4>1, <4>2
      <3>2. CASE k > Len(f)
        <4> DEFINE m == k - Len(f)
        <4>1. m \in 1..Len(g) /\ Len(f) + m = k /\ m + s - 1 = k + i - 1
          BY <1>1, <1>9, <2>1, <2>3, <2>4, <2>7, <3>2
        <4> HIDE DEF m
        <4>2. v[Len(f) + m] = g[m] /\ g[m] = u[m + s - 1]
          BY <1>7, <1>9, <1>10, <2>4, <4>1
        <4> QED BY <4>1, <4>2
      <3> QED BY <2>3, <2>1, <3>1, <3>2
    <2>8. Priced(u) /\ Priced(v) /\ i \in 1..Len(u)
      BY <1>3, <1>4, <2>1, <2>4, HistoryFacts
    <2>9. Tokens(v, 1) = Tokens(u, i)
      BY <2>5, <2>7, <2>8, ShiftCosts
    <2> QED BY <2>2, <2>9 DEF Fits, v, f
  <1> QED BY <1>9, <1>11, <1>12, <1>13, <1>14 DEF DropsOldTurns, g

(***************************************************************************)
(* What a specialist begins with.                                          *)
(***************************************************************************)
LEMMA PlainFacts ==
    ASSUME NEW h \in Seq(Plain)
    PROVE  /\ h \in Seq(Message) /\ DOMAIN h = 1..Len(h) /\ Len(h) \in Nat /\ AfterHumans(h)
           /\ \A i \in DOMAIN h : h[i] \in Plain /\ h[i].kind # "tool" /\ h[i].calls = {} /\ h[i].raw
  <1>1. h \in Seq(Message) /\ \A i \in DOMAIN h : h[i] \in Plain /\ h[i].kind # "tool" /\ h[i].calls = {} /\ h[i].raw
    BY DEF Plain
  <1> QED BY <1>1, HistoryFacts DEF AfterHumans

\* It has a human message, as the conversation has one.
LEMMA ScopedFacts ==
    ASSUME NEW h \in Seq(Plain), HasHuman(h), NEW a \in Agents
    PROVE  Scoped(h, a) \in Seq(Plain) /\ HasHuman(Scoped(h, a))
  <1> DEFINE L == LatestHuman(h)
             p == Picked(h, Owned(h, a))
             x == IF L \in Owned(h, a) \cup {0} THEN <<>> ELSE <<h[L]>>
             w == WithLatest(h, a)
             c == Recent(w)
  <1>1. L \in DOMAIN h /\ h[L].kind = "human" /\ L # 0
    BY PlainFacts, LatestFacts DEF OfKind
  <1>2. Owned(h, a) \in SUBSET DOMAIN h
    BY DEF Owned
  <1>3. p \in Seq(Plain) /\ \A i \in Owned(h, a) : \E n \in DOMAIN p : p[n] = h[i]
    BY <1>2, PickedFact
  <1>4. x \in Seq(Plain)
    BY <1>1, PlainFacts
  <1>5. w = p \o x
    BY DEF WithLatest
  <1> HIDE DEF p, w
  <1>6. /\ w \in Seq(Plain) /\ DOMAIN w = 1..(Len(p) + Len(x)) /\ Len(w) = Len(p) + Len(x)
        /\ \A i \in 1..Len(p) : w[i] = p[i]
        /\ \A i \in 1..Len(x) : w[Len(p) + i] = x[i]
    <2> HIDE DEF x
    <2> QED BY <1>3, <1>4, <1>5, Concatenated
  <1>7. HasHuman(w)
    <2>1. CASE L \in Owned(h, a)
      <3>1. PICK n \in DOMAIN p : p[n] = h[L]
        BY <1>3, <2>1
      <3>2. n \in 1..Len(p) /\ n \in DOMAIN w
        BY <1>3, <1>4, <1>6
      <3> QED BY <1>1, <1>6, <3>1, <3>2 DEF HasHuman, OfKind
    <2>2. CASE L \notin Owned(h, a)
      <3>1. x = <<h[L]>>
        BY <1>1, <2>2
      <3>2. Len(x) = 1 /\ x[1] = h[L] /\ 1 \in 1..Len(x)
        BY <3>1
      <3>3. Len(p) \in Nat /\ Len(p) + 1 \in DOMAIN w
        BY <1>3, <1>6, <3>2
      <3>4. w[Len(p) + 1] = h[L]
        BY <1>6, <3>2
      <3> QED BY <1>1, <3>3, <3>4 DEF HasHuman, OfKind
    <2> QED BY <2>1, <2>2
  <1>8. c \in Seq(Plain) /\ HasHuman(c)
    <2> DEFINE humans == OfKind(w, "human")
               first == {i \in humans : Cardinality({j \in humans : j >= i}) <= HumanTurns}
    <2>1. c = SubSeq(w, Min(first), Len(w))
      BY <1>7 DEF Recent, HasHuman
    <2>2. LatestHuman(w) \in first
      <3> DEFINE M == LatestHuman(w)
      <3>1. M \in humans /\ \A j \in humans : j <= M /\ j \in Nat
        BY <1>6, <1>7, PlainFacts, LatestFacts DEF OfKind
      <3>2. {j \in humans : j >= M} = {M}
        <4> HIDE DEF humans, M
        <4> QED BY <3>1
      <3>3. Cardinality({j \in humans : j >= M}) = 1
        BY <3>2, FS_Singleton
      <3>4. 1 <= HumanTurns
        BY TokensAssumption
      <3> HIDE DEF M, humans
      <3> QED BY <3>1, <3>3, <3>4 DEF M
    <2>3. first \in SUBSET (1..Len(w)) /\ first \subseteq humans /\ Len(w) \in Nat
      BY <1>6, PlainFacts DEF OfKind
    <2> HIDE DEF first
    <2>4. Min(first) \in first
      BY <2>2, <2>3, MinFact
    <2> DEFINE k == Min(first)
               n == Len(w)
    <2>5. /\ k \in 1..n /\ LatestHuman(w) \in 1..n /\ n \in Nat /\ k <= LatestHuman(w)
      <3>1. k <= LatestHuman(w)
        BY <2>2, <2>3, MinFact
      <3> QED BY <2>2, <2>3, <2>4, <3>1
    <2> HIDE DEF k, n
    <2>5a. k \in 1..LatestHuman(w) /\ k \in 1..(n + 1)
      BY <2>5
    <2>6. HasHuman(c)
      <3>1. w \in Seq(Message) /\ AfterHumans(w)
        BY <1>6, PlainFacts
      <3> QED BY <1>7, <2>1, <2>5a, <3>1, CutFacts DEF k
    <2>7. c \in Seq(Plain)
      <3>1. Min(first) \in 1..(Len(w) + 1)
        BY <2>5a DEF k, n
      <3> QED BY <1>6, <2>1, <3>1, SuffixFacts
    <2> QED BY <2>6, <2>7
  <1> HIDE DEF c
  <1> DEFINE S == {i \in DOMAIN c : ~ (c[i].kind = "ai" /\ i + 1 \in OfKind(c, "ai"))}
  <1>9. S \in SUBSET DOMAIN c /\ OfKind(c, "human") \subseteq S
    BY DEF OfKind
  <1>10. Scoped(h, a) = Picked(c, S)
    BY DEF Scoped, Collapsed, c, w
  <1>11. PICK i \in S : c[i].kind = "human"
    BY <1>8, <1>9 DEF HasHuman, OfKind
  <1> HIDE DEF S
  <1>12. Picked(c, S) \in Seq(Plain) /\ \E n \in DOMAIN Picked(c, S) : Picked(c, S)[n] = c[i]
    BY <1>8, <1>9, PickedFact
  <1> QED BY <1>10, <1>11, <1>12 DEF HasHuman, OfKind

(***************************************************************************)
(* Updates.                                                                *)
(***************************************************************************)
\* What a model or the tools add has no human message.
LEMMA AgentUpdate ==
    ASSUME NEW h \in Seq(Message), HasHuman(h), AfterHumans(h), NEW r \in Seq(Message), r # <<>>,
           \A j \in DOMAIN r : r[j].kind # "human"
    PROVE  Update(h, r)
  <1> DEFINE w == h \o r
  <1>1. /\ w \in Seq(Message) /\ Len(w) = Len(h) + Len(r) /\ DOMAIN w = 1..(Len(h) + Len(r))
        /\ Len(h) \in Nat /\ Len(r) \in Nat /\ DOMAIN h = 1..Len(h) /\ DOMAIN r = 1..Len(r)
        /\ \A i \in 1..Len(h) : w[i] = h[i]
        /\ \A i \in 1..Len(r) : w[Len(h) + i] = r[i]
    BY Concatenated, HistoryFacts
  <1> HIDE DEF w
  <1>2. \A i \in DOMAIN w : i > Len(h) => w[i].kind # "human"
    <2> TAKE i \in DOMAIN w
    <2> HAVE i > Len(h)
    <2>1. i - Len(h) \in 1..Len(r) /\ Len(h) + (i - Len(h)) = i
      BY <1>1
    <2>2. w[i] = r[i - Len(h)]
      BY <1>1, <2>1
    <2> QED BY <1>1, <2>1, <2>2
  <1>3. OfKind(w, "human") = OfKind(h, "human") /\ \A i \in OfKind(h, "human") : i \in 1..Len(h)
    BY <1>1, <1>2 DEF OfKind
  <1>4. AfterHumans(w)
    <2> SUFFICES ASSUME NEW i \in OfKind(h, "human"), NEW j \in DOMAIN w, w[j].kind = "tool" \/ w[j].calls # {}
                 PROVE  i < j
      BY <1>3 DEF AfterHumans
    <2>1. CASE j \in 1..Len(h)
      <3>1. j \in DOMAIN h /\ w[j] = h[j]
        BY <1>1, <2>1
      <3> QED BY <3>1 DEF AfterHumans
    <2>2. CASE j > Len(h)
      BY <1>1, <1>3, <2>2
    <2> QED BY <1>1, <2>1, <2>2
  <1>5. HasHuman(w) /\ LatestHuman(w) = LatestHuman(h)
    BY <1>3 DEF HasHuman, LatestHuman
  <1>6. LatestHuman(h) \in 0..Len(h)
    BY LatestFacts
  <1>7. LatestHuman(w) <= Len(h) + 1
    BY <1>1, <1>5, <1>6
  <1> QED BY <1>4, <1>5, <1>7 DEF Update, w

\* The conversation gets one message at a time and never a call.
LEMMA PlainUpdate ==
    ASSUME NEW h \in Seq(Plain), NEW m \in Plain, HasHuman(h) \/ m.kind = "human"
    PROVE  /\ Reduce(h, <<m>>) \in Seq(Plain) /\ HasHuman(Reduce(h, <<m>>))
           /\ DropsOldTurns(h, Reduce(h, <<m>>))
  <1> DEFINE r == <<m>>
             w == h \o r
             g == Reduce(h, r)
  <1>1. r \in Seq(Plain) /\ Len(r) = 1 /\ r[1] = m /\ r # <<>>
    OBVIOUS
  <1> HIDE DEF r
  <1>2. /\ w \in Seq(Plain) /\ Len(w) = Len(h) + 1 /\ DOMAIN w = 1..(Len(h) + 1) /\ Len(h) \in Nat
        /\ DOMAIN h = 1..Len(h) /\ \A i \in 1..Len(h) : w[i] = h[i]
        /\ \A i \in 1..1 : w[Len(h) + i] = r[i]
    BY <1>1, Concatenated, PlainFacts
  <1> HIDE DEF w
  <1>3. w \in Seq(Message) /\ AfterHumans(w) /\ h \in Seq(Message) /\ r \in Seq(Message)
    BY <1>1, <1>2, PlainFacts
  <1>4. HasHuman(w)
    <2>1. CASE HasHuman(h)
      <3>1. PICK i \in DOMAIN h : h[i].kind = "human"
        BY <2>1 DEF HasHuman, OfKind
      <3> QED BY <1>2, <3>1 DEF HasHuman, OfKind
    <2>2. CASE m.kind = "human"
      <3>1. Len(h) + 1 \in DOMAIN w /\ 1 \in 1..1
        BY <1>2
      <3>2. w[Len(h) + 1] = m
        BY <1>1, <1>2, <3>1
      <3> QED BY <2>2, <3>1, <3>2 DEF HasHuman, OfKind
    <2> QED BY <2>1, <2>2
  <1>5. LatestHuman(w) \in 0..(Len(h) + 1)
    BY <1>2, <1>3, LatestFacts
  <1>6. Update(h, r)
    BY <1>1, <1>2, <1>3, <1>4, <1>5 DEF Update, w
  <1>7. \A i \in DOMAIN w : w[i] \in Plain
    BY <1>2, PlainFacts
  <1>8. g \in Seq(Message) /\ HasHuman(g) /\ \A i \in DOMAIN g : g[i] \in Plain
    BY <1>6, <1>7, ReduceFacts DEF w
  <1>9. DropsOldTurns(h, g)
    BY <1>6, UpdateDropsOldTurns
  <1> HIDE DEF g
  <1>10. g \in Seq(Plain)
    BY <1>8
  <1> QED BY <1>8, <1>9, <1>10 DEF g, r

(***************************************************************************)
(* The turn.                                                               *)
(***************************************************************************)
AtWork == stage \in {"llm", "tools"}
Newest == agentMessages[Len(agentMessages)]

HistoryInv ==
    /\ messages \in Seq(Plain) /\ agentMessages \in Seq(Message)
    /\ stage \in {"idle", "supervisor", "llm", "tools", "finalize"} /\ agent \in Agents
    /\ called \in 0..MaxCalls
    /\ Whole(agentMessages)
    /\ stage # "idle" => HasHuman(messages)
    /\ AtWork => /\ HasHuman(agentMessages) /\ AfterHumans(agentMessages)
                 /\ \A i \in DOMAIN agentMessages : agentMessages[i].raw
    /\ stage = "llm" => Newest.calls = {}
    /\ stage = "tools" => Newest.kind = "ai" /\ \E i, j \in 1..MaxCalls : i <= j /\ Newest.calls = i..j

LEMMA Constants ==
    /\ MaxCalls \in Nat \ {0} /\ Sizes \subseteq Nat \ {0} /\ MaxTokens \in Nat /\ HumanTurns \in Nat \ {0}
  BY TokensAssumption

LEMMA NonEmpty ==
    ASSUME NEW h \in Seq(Message), HasHuman(h)
    PROVE  h # <<>> /\ Len(h) \in DOMAIN h
  <1>1. PICK i \in DOMAIN h : h[i].kind = "human"
    BY DEF HasHuman, OfKind
  <1> QED BY <1>1, HistoryFacts

\* The model answers: it is in flight exactly if it calls tools.
LEMMA AnswerStep ==
    ASSUME HistoryInv, NEW n \in Sizes, NEW k \in 0..MaxCalls, NEW t \in BOOLEAN, ModelAnswers(k, n, t)
    PROVE  HistoryInv' /\ DropsOldTurns(agentMessages, agentMessages')
  <1> DEFINE h == agentMessages
             ids == (called + 1)..(called + k)
             m == Ai(agent, n, ids, t)
             r == <<m>>
  <1>1. /\ h \in Seq(Message) /\ Whole(h) /\ HasHuman(h) /\ AfterHumans(h) /\ h[Len(h)].calls = {}
        /\ \A i \in DOMAIN h : h[i].raw
    BY DEF HistoryInv, AtWork, Newest, ModelAnswers
  <1>2. called \in Nat /\ called + k \in 0..MaxCalls /\ ids \in SUBSET (Nat \ {0}) /\ (k = 0 => ids = {})
    BY Constants DEF HistoryInv, ModelAnswers
  <1>3. m \in Message /\ m.kind = "ai" /\ m.calls = ids /\ m.raw
    <2> HIDE DEF ids
    <2>1. agent \in Agents \cup {"user", "supervisor"}
      BY DEF HistoryInv
    <2>2. Ai(agent, n, ids, t) \in Message
      BY <1>2, <2>1, NewMessages
    <2>3. m.kind = "ai" /\ m.calls = ids /\ m.raw
      BY DEF Ai
    <2> QED BY <2>2, <2>3
  <1> HIDE DEF m, h
  <1>4. r \in Seq(Message) /\ r # <<>> /\ Len(r) = 1 /\ r[1] = m /\ \A j \in DOMAIN r : r[j].kind # "human"
    BY <1>3
  <1>5. Update(h, r)
    <2> HIDE DEF r
    <2> QED BY <1>1, <1>4, AgentUpdate
  <1>6. Whole(h \o r)
    BY <1>1, <1>3, NonEmpty, AnswerIsWhole
  <1>7. agentMessages' = Reduce(h, r) /\ called' = called + k /\ stage' = IF k = 0 THEN "finalize" ELSE "tools"
    BY DEF ModelAnswers, h, m
  <1> HIDE DEF r
  <1> DEFINE g == Reduce(h, r)
  <1>8. /\ g \in Seq(Message) /\ g # <<>> /\ HasHuman(g) /\ AfterHumans(g) /\ Whole(g)
        /\ g[Len(g)].kind = "ai" /\ g[Len(g)].calls = ids
    BY <1>3, <1>4, <1>5, <1>6, ReduceFacts
  <1>9. ASSUME k # 0 PROVE \A i \in DOMAIN g : g[i].raw
    <2> DEFINE w == h \o r
    <2>1. /\ w \in Seq(Message) /\ Len(w) = Len(h) + 1 /\ DOMAIN w = 1..(Len(h) + 1) /\ Len(h) \in Nat /\ DOMAIN h = 1..Len(h)
          /\ \A i \in 1..Len(h) : w[i] = h[i]
          /\ \A i \in 1..1 : w[Len(h) + i] = r[i]
      BY <1>1, <1>4, Concatenated, HistoryFacts
    <2> HIDE DEF w
    <2>2. 1 \in 1..1 /\ w[Len(h) + 1] = m
      BY <1>4, <2>1
    <2>3. \A i \in DOMAIN w : w[i].raw
      BY <1>1, <1>3, <2>1, <2>2
    <2>4. called + 1 \in ids
      BY <1>2, <1>9
    <2>5. InFlight(w)
      <3>1. w # <<>> /\ w[Len(w)] = m /\ m.calls # {} /\ m.kind = "ai"
        BY <1>3, <2>1, <2>2, <2>4
      <3> QED BY <3>1 DEF InFlight
    <2> QED BY <1>5, <2>3, <2>5, ReduceFacts DEF w
  <1>10. ASSUME k # 0 PROVE \E i, j \in 1..MaxCalls : i <= j /\ ids = i..j
    <2>1. called + 1 \in 1..MaxCalls /\ called + k \in 1..MaxCalls /\ called + 1 <= called + k
      BY <1>2, <1>10, Constants DEF HistoryInv
    <2> QED BY <2>1
  <1>11. /\ messages' = messages /\ agent' = agent /\ stage = "llm"
    BY DEF ModelAnswers
  <1> HIDE DEF ids, g
  <1>12. HistoryInv'
    <2>1. CASE k = 0
      BY <1>2, <1>7, <1>8, <1>11, <2>1 DEF HistoryInv, AtWork, Newest, g
    <2>2. CASE k # 0
      BY <1>2, <1>7, <1>8, <1>9, <1>10, <1>11, <2>2 DEF HistoryInv, AtWork, Newest, g
    <2> QED BY <2>1, <2>2
  <1> QED BY <1>5, <1>7, <1>12, UpdateDropsOldTurns DEF h

\* The tools answer all the calls of the last message.
LEMMA ToolsStep ==
    ASSUME HistoryInv, NEW sizes \in [1..MaxCalls -> Sizes], ToolsAnswer(sizes)
    PROVE  HistoryInv' /\ DropsOldTurns(agentMessages, agentMessages')
  <1> DEFINE h == agentMessages
             ids == h[Len(h)].calls
             c == Cardinality(ids)
             r == [j \in 1..c |-> Result(Min(ids) + j - 1, sizes[j])]
  <1>1. /\ h \in Seq(Message) /\ Whole(h) /\ HasHuman(h) /\ AfterHumans(h) /\ h[Len(h)].kind = "ai"
        /\ \A i \in DOMAIN h : h[i].raw
    BY DEF HistoryInv, AtWork, Newest, ToolsAnswer
  <1>2. PICK a \in 1..MaxCalls, b \in 1..MaxCalls : a <= b /\ ids = a..b
    BY DEF HistoryInv, Newest, ToolsAnswer
  <1> HIDE DEF ids
  <1>3. c = b - a + 1 /\ c \in 1..MaxCalls
    <2>1. a \in Int /\ b \in Int /\ 1 <= a /\ a <= b /\ b <= MaxCalls
      BY <1>2, Constants
    <2>2. Cardinality(a..b) = b - a + 1
      BY <2>1, FS_Interval
    <2> QED BY <1>2, <2>1, <2>2, Constants
  <1>4. Min(ids) = a
    <2>1. a \in ids /\ \A k \in ids : a <= k /\ k \in Int
      BY <1>2
    <2>2. \A m \in ids : (\A k \in ids : m <= k) => m = a
      BY <2>1
    <2> QED BY <2>1, <2>2 DEF Min
  <1> HIDE DEF c
  <1>5. \A j \in 1..c : /\ a + j - 1 \in Nat \ {0} /\ a + j - 1 \in ids
                        /\ r[j] \in Message /\ r[j].kind = "tool" /\ r[j].answers = a + j - 1 /\ r[j].raw
    <2> TAKE j \in 1..c
    <2>1. a + j - 1 \in Nat \ {0} /\ a + j - 1 \in a..b
      BY <1>2, <1>3, Constants
    <2>2. sizes[j] \in Sizes
      BY <1>3, Constants
    <2>3. r[j] = Result(a + j - 1, sizes[j])
      BY <1>4
    <2>4. Result(a + j - 1, sizes[j]) \in Message
      BY <2>1, <2>2, TokensAssumption DEF Result, Message, Names
    <2> QED BY <1>2, <2>1, <2>3, <2>4 DEF Result
  <1>6. DOMAIN r = 1..c /\ r \in Seq(Message) /\ Len(r) = c /\ r # <<>> /\ c \in Nat /\ c >= 1
    <2>1. c \in Nat /\ c >= 1 /\ DOMAIN r = 1..c
      BY <1>3
    <2>2. r \in [1..c -> Message]
      BY <1>5
    <2> HIDE DEF r
    <2>3. r \in Seq(Message) /\ Len(r) = c
      BY <2>1, <2>2
    <2> QED BY <2>1, <2>3
  <1>7. {r[j].answers : j \in DOMAIN r} = ids
    <2>1. \A k \in ids : k - a + 1 \in 1..c /\ a + (k - a + 1) - 1 = k
      BY <1>2, <1>3
    <2> HIDE DEF r
    <2>2. \A k \in ids : \E j \in DOMAIN r : r[j].answers = k
      <3> TAKE k \in ids
      <3> DEFINE j == k - a + 1
      <3>1. j \in 1..c /\ a + j - 1 = k
        BY <2>1
      <3> HIDE DEF j
      <3>2. j \in DOMAIN r /\ r[j].answers = a + j - 1
        BY <1>5, <1>6, <3>1
      <3> QED BY <3>1, <3>2
    <2>3. \A j \in DOMAIN r : r[j].answers \in ids
      <3> TAKE j \in DOMAIN r
      <3>1. j \in 1..c
        BY <1>6
      <3> QED BY <1>5, <3>1
    <2> QED BY <2>2, <2>3, Zenon
  <1>8. agentMessages' = Reduce(h, r) /\ stage' \in {"llm", "finalize"}
    BY DEF ToolsAnswer, ids, c
  <1> HIDE DEF r, h
  <1>9. Update(h, r)
    BY <1>1, <1>5, <1>6, AgentUpdate
  <1>10. Whole(h \o r)
    <2>1. \A j \in DOMAIN r : r[j].kind = "tool"
      BY <1>5, <1>6
    <2>2. h # <<>> /\ h[Len(h)].calls = {r[j].answers : j \in DOMAIN r}
      BY <1>1, <1>7, NonEmpty DEF ids
    <2> QED BY <1>1, <1>6, <2>1, <2>2, ResultsAreWhole
  <1> DEFINE g == Reduce(h, r)
  <1>11. /\ g \in Seq(Message) /\ g # <<>> /\ HasHuman(g) /\ AfterHumans(g) /\ Whole(g)
         /\ g[Len(g)].calls = r[Len(r)].calls
    BY <1>9, <1>10, ReduceFacts
  <1>12. g[Len(g)].calls = {}
    <2>1. c \in DOMAIN r /\ r[c].kind = "tool"
      BY <1>5, <1>6
    <2>2. r[c].calls = {}
      BY <1>6, <2>1, HistoryFacts
    <2> QED BY <1>6, <1>11, <2>2
  <1>13. \A i \in DOMAIN g : g[i].raw
    <2> DEFINE w == h \o r
    <2>1. /\ w \in Seq(Message) /\ Len(w) = Len(h) + c /\ DOMAIN w = 1..(Len(h) + c) /\ Len(h) \in Nat /\ DOMAIN h = 1..Len(h)
          /\ \A i \in 1..Len(h) : w[i] = h[i]
          /\ \A i \in 1..c : w[Len(h) + i] = r[i]
      <3>1. /\ w \in Seq(Message) /\ Len(w) = Len(h) + Len(r) /\ DOMAIN w = 1..(Len(h) + Len(r))
            /\ \A i \in 1..Len(h) : w[i] = h[i]
            /\ \A i \in 1..Len(r) : w[Len(h) + i] = r[i]
        <4>1. h \in Seq(Message) /\ r \in Seq(Message)
          BY <1>1, <1>6
        <4> QED BY <4>1, Concatenated
      <3> HIDE DEF w
      <3> QED BY <1>1, <1>6, <3>1, HistoryFacts
    <2> HIDE DEF w
    <2>2. \A i \in DOMAIN w : i > Len(h) => w[i].raw /\ w[i].kind = "tool"
      <3> TAKE i \in DOMAIN w
      <3> HAVE i > Len(h)
      <3>1. i - Len(h) \in 1..c /\ Len(h) + (i - Len(h)) = i
        BY <1>6, <2>1
      <3>2. w[i] = r[i - Len(h)]
        BY <2>1, <3>1
      <3> QED BY <1>5, <3>1, <3>2
    <2>3. \A i \in DOMAIN w : w[i].raw
      <3> TAKE i \in DOMAIN w
      <3>1. i > Len(h) \/ i \in 1..Len(h)
        BY <2>1
      <3> QED BY <1>1, <2>1, <2>2, <3>1
    <2>4. InFlight(w)
      <3>1. Len(w) \in DOMAIN w /\ Len(w) > Len(h) /\ w # <<>>
        BY <1>6, <2>1
      <3> QED BY <2>2, <3>1 DEF InFlight
    <2> QED BY <1>9, <2>3, <2>4, ReduceFacts DEF w
  <1>14. messages' = messages /\ agent' = agent /\ called' = called /\ stage = "tools"
    BY DEF ToolsAnswer
  <1> HIDE DEF g
  <1>15. HistoryInv'
    BY <1>8, <1>11, <1>12, <1>13, <1>14 DEF HistoryInv, AtWork, Newest, g
  <1> QED BY <1>8, <1>9, <1>15, UpdateDropsOldTurns DEF h

\* The inductive invariant.
LEMMA HistoryHolds == HistorySpec => []HistoryInv
  <1>1. HistoryInit => HistoryInv
    <2> SUFFICES ASSUME HistoryInit PROVE HistoryInv
      OBVIOUS
    <2>1. messages = <<>> /\ agentMessages = <<>> /\ stage = "idle" /\ agent \in Agents /\ called = 0
      BY DEF HistoryInit
    <2>2. <<>> \in Seq(Plain) /\ <<>> \in Seq(Message)
      OBVIOUS
    <2>3. Whole(<<>>)
      BY <2>2, PlainIsWhole
    <2> QED BY <2>1, <2>2, <2>3, Constants DEF HistoryInv, AtWork
  <1>2. HistoryInv /\ [HistoryNext]_historyVars => HistoryInv'
    <2> SUFFICES ASSUME HistoryInv, [HistoryNext]_historyVars PROVE HistoryInv'
      OBVIOUS
    <2> USE DEF historyVars
    <2>1. ASSUME NEW n \in Sizes, UserAsks(n) PROVE HistoryInv'
      <3>1. Human("user", n) \in Plain /\ Human("user", n).kind = "human"
        BY NewMessages, Constants DEF Human, Plain, Message, Names
      <3>2. messages \in Seq(Plain) /\ messages' = Reduce(messages, <<Human("user", n)>>)
        BY <2>1 DEF HistoryInv, UserAsks
      <3>3. messages' \in Seq(Plain) /\ HasHuman(messages')
        BY <3>1, <3>2, PlainUpdate
      <3> QED BY <2>1, <3>3 DEF HistoryInv, AtWork, UserAsks, Newest
    <2>2. ASSUME NEW n \in Sizes, SupervisorReplies(n) PROVE HistoryInv'
      <3>1. Ai("supervisor", n, {}, TRUE) \in Plain
        BY Constants DEF Ai, Plain, Message, Names
      <3>2. messages \in Seq(Plain) /\ messages' = Reduce(messages, <<Ai("supervisor", n, {}, TRUE)>>) /\ HasHuman(messages)
        BY <2>2 DEF HistoryInv, SupervisorReplies
      <3>3. messages' \in Seq(Plain) /\ HasHuman(messages')
        BY <3>1, <3>2, PlainUpdate
      <3> QED BY <2>2, <3>3 DEF HistoryInv, AtWork, SupervisorReplies, Newest
    <2>3. ASSUME NEW a \in Agents, NEW brief \in {<<>>} \cup {<<Human("supervisor", n)>> : n \in Sizes}, Prepare(a, brief)
          PROVE  HistoryInv'
      <3> DEFINE p == Scoped(messages, a)
                 g == p \o brief
      <3>1. messages \in Seq(Plain) /\ HasHuman(messages) /\ stage = "supervisor"
        BY <2>3 DEF HistoryInv, Prepare
      <3>2. p \in Seq(Plain) /\ HasHuman(p)
        BY <3>1, ScopedFacts
      <3>3. brief \in Seq(Plain)
        <4>1. \A n \in Sizes : Human("supervisor", n) \in Plain
          BY Constants DEF Human, Plain, Message, Names
        <4>2. CASE brief = <<>>
          BY <4>2
        <4>3. CASE brief # <<>>
          <5>1. PICK n \in Sizes : brief = <<Human("supervisor", n)>>
            BY <4>3
          <5> QED BY <4>1, <5>1
        <4> QED BY <4>2, <4>3
      <3> HIDE DEF p
      <3>4. /\ g \in Seq(Plain) /\ DOMAIN g = 1..(Len(p) + Len(brief)) /\ Len(g) = Len(p) + Len(brief)
            /\ \A i \in 1..Len(p) : g[i] = p[i]
        BY <3>2, <3>3, Concatenated
      <3>5. agentMessages' = g /\ stage' = "llm" /\ agent' = a /\ called' = 0 /\ messages' = messages
        BY <2>3 DEF Prepare, p
      <3> HIDE DEF g
      <3>6. HasHuman(g)
        <4>1. PICK i \in DOMAIN p : p[i].kind = "human"
          BY <3>2 DEF HasHuman, OfKind
        <4>2. i \in 1..Len(p) /\ i \in DOMAIN g
          BY <3>2, <3>3, <3>4
        <4> QED BY <3>4, <4>1, <4>2 DEF HasHuman, OfKind
      <3>7. /\ g \in Seq(Message) /\ Whole(g) /\ AfterHumans(g)
            /\ \A i \in DOMAIN g : g[i].raw /\ g[i].calls = {}
        BY <3>4, PlainFacts, PlainIsWhole
      <3>8. g[Len(g)].calls = {}
        BY <3>6, <3>7, NonEmpty
      <3> QED BY <3>1, <3>5, <3>6, <3>7, <3>8, Constants DEF HistoryInv, AtWork, Newest
    <2>4. ASSUME NEW n \in Sizes, NEW k \in 0..MaxCalls, NEW t \in BOOLEAN, ModelAnswers(k, n, t) PROVE HistoryInv'
      BY <2>4, AnswerStep
    <2>5. ASSUME NEW sizes \in [1..MaxCalls -> Sizes], ToolsAnswer(sizes) PROVE HistoryInv'
      BY <2>5, ToolsStep
    <2>6. ASSUME NEW handoff \in {<<>>} \cup {<<Ai(agent, n, {}, TRUE)>> : n \in Sizes}, Finalize(handoff)
          PROVE  HistoryInv'
      <3>1. messages \in Seq(Plain) /\ HasHuman(messages) /\ agent \in Agents
        BY <2>6 DEF HistoryInv, Finalize
      <3>2. messages' \in Seq(Plain) /\ HasHuman(messages')
        <4>1. CASE handoff = <<>>
          BY <2>6, <3>1, <4>1 DEF Finalize
        <4>2. CASE handoff # <<>>
          <5>1. PICK n \in Sizes : handoff = <<Ai(agent, n, {}, TRUE)>>
            BY <4>2
          <5>2. Ai(agent, n, {}, TRUE) \in Plain
            BY <3>1, Constants DEF Ai, Plain, Message, Names
          <5>3. messages' = Reduce(messages, <<Ai(agent, n, {}, TRUE)>>)
            BY <2>6, <4>2, <5>1 DEF Finalize
          <5> QED BY <3>1, <5>2, <5>3, PlainUpdate
        <4> QED BY <4>1, <4>2
      <3>3. agentMessages' = <<>> /\ stage' = "supervisor" /\ agent' = agent /\ called' = called
        BY <2>6 DEF Finalize
      <3>4. <<>> \in Seq(Plain) /\ <<>> \in Seq(Message)
        OBVIOUS
      <3>5. Whole(<<>>)
        BY <3>4, PlainIsWhole
      <3> QED BY <3>1, <3>2, <3>3, <3>4, <3>5 DEF HistoryInv, AtWork
    <2>7. CASE TurnAborts
      BY <2>7 DEF HistoryInv, TurnAborts, AtWork
    <2>8. CASE UNCHANGED historyVars
      BY <2>8 DEF HistoryInv, AtWork, Newest
    <2> QED BY <2>1, <2>2, <2>3, <2>4, <2>5, <2>6, <2>7, <2>8 DEF HistoryNext
  <1> QED BY <1>1, <1>2, PTL DEF HistorySpec

\* No update of a specialist's history separates a call from its results, whatever they cost and
\* whatever the budget, nor hides a result from the specialist while it is at work.
THEOREM BatchesAreWhole == HistorySpec => []BatchesStayWhole
  <1>1. HistoryInv => BatchesStayWhole
    BY DEF HistoryInv, BatchesStayWhole, Whole, AtWork
  <1> QED BY <1>1, HistoryHolds, PTL

\* What the reducer of either channel drops is its oldest turns, whole, and only those without
\* which the rest would not be within the budget.
THEOREM OldTurnsGoFirst == HistorySpec => OnlyOldTurnsGo
  <1> DEFINE Drops == /\ messages' # messages => DropsOldTurns(messages, messages')
                      /\ stage \in {"llm", "tools"} /\ stage' # "idle" => DropsOldTurns(agentMessages, agentMessages')
  <1>1. HistoryInv /\ [HistoryNext]_historyVars => [Drops]_historyVars
    <2> SUFFICES ASSUME HistoryInv, HistoryNext PROVE Drops
      OBVIOUS
    <2>1. ASSUME NEW n \in Sizes, UserAsks(n) PROVE Drops
      <3>1. Human("user", n) \in Plain /\ Human("user", n).kind = "human"
        BY Constants DEF Human, Plain, Message, Names
      <3>2. messages \in Seq(Plain) /\ messages' = Reduce(messages, <<Human("user", n)>>) /\ stage = "idle"
        BY <2>1 DEF HistoryInv, UserAsks
      <3> QED BY <3>1, <3>2, PlainUpdate
    <2>2. ASSUME NEW n \in Sizes, SupervisorReplies(n) PROVE Drops
      <3>1. Ai("supervisor", n, {}, TRUE) \in Plain
        BY Constants DEF Ai, Plain, Message, Names
      <3>2. /\ messages \in Seq(Plain) /\ messages' = Reduce(messages, <<Ai("supervisor", n, {}, TRUE)>>)
            /\ HasHuman(messages) /\ stage = "supervisor"
        BY <2>2 DEF HistoryInv, SupervisorReplies
      <3> QED BY <3>1, <3>2, PlainUpdate
    <2>3. ASSUME NEW a \in Agents, NEW brief, Prepare(a, brief) PROVE Drops
      BY <2>3 DEF Prepare
    <2>4. ASSUME NEW n \in Sizes, NEW k \in 0..MaxCalls, NEW t \in BOOLEAN, ModelAnswers(k, n, t) PROVE Drops
      <3>1. messages' = messages
        BY <2>4 DEF ModelAnswers
      <3> QED BY <2>4, <3>1, AnswerStep
    <2>5. ASSUME NEW sizes \in [1..MaxCalls -> Sizes], ToolsAnswer(sizes) PROVE Drops
      <3>1. messages' = messages
        BY <2>5 DEF ToolsAnswer
      <3> QED BY <2>5, <3>1, ToolsStep
    <2>6. ASSUME NEW handoff \in {<<>>} \cup {<<Ai(agent, n, {}, TRUE)>> : n \in Sizes}, Finalize(handoff) PROVE Drops
      <3>1. messages \in Seq(Plain) /\ HasHuman(messages) /\ agent \in Agents /\ stage = "finalize"
        BY <2>6 DEF HistoryInv, Finalize
      <3>2. CASE handoff = <<>>
        BY <2>6, <3>1, <3>2 DEF Finalize
      <3>3. CASE handoff # <<>>
        <4>1. PICK n \in Sizes : handoff = <<Ai(agent, n, {}, TRUE)>>
          BY <3>3
        <4>2. Ai(agent, n, {}, TRUE) \in Plain
          BY <3>1, Constants DEF Ai, Plain, Message, Names
        <4>3. messages' = Reduce(messages, <<Ai(agent, n, {}, TRUE)>>)
          BY <2>6, <3>3, <4>1 DEF Finalize
        <4> QED BY <3>1, <4>2, <4>3, PlainUpdate
      <3> QED BY <3>2, <3>3
    <2>7. CASE TurnAborts
      BY <2>7 DEF TurnAborts
    <2> HIDE DEF Drops
    <2> QED BY <2>1, <2>2, <2>3, <2>4, <2>5, <2>6, <2>7 DEF HistoryNext
  <1>2. HistorySpec => [][Drops]_historyVars
    <2> HIDE DEF Drops
    <2> QED BY <1>1, HistoryHolds, PTL DEF HistorySpec
  <1> QED BY <1>2 DEF OnlyOldTurnsGo

(***************************************************************************)
(* The adapter.                                                            *)
(***************************************************************************)
Places == {"download", "held", "dropped", "rejected", "lost"}
Delivery == [update : Updates, at : Places]
Stages == {"waiting", "graph", "sending", "reporting"} \cup Settled
TurnType == [members : Seq(Nat), after : Nat, stage : Stages, reply : Replies \cup {<<>>}, sent : Nat]

Typed ==
    /\ tracked \in Seq(Updates) /\ forgotten \in [Updates -> Nat]
    /\ accepted \in Seq(Delivery)
    /\ buffers \in [Keys -> Seq(Nat)]
    /\ turns \in Seq(TurnType)

USE LimitsAssumption DEF Keys, Settled, Stages, Places

(***************************************************************************)
(* Lemmas on sequences.                                                    *)
(***************************************************************************)
LEMMA Appended ==
    ASSUME NEW S, NEW q \in Seq(S), NEW x \in S
    PROVE  /\ Append(q, x) \in Seq(S) /\ Len(Append(q, x)) = Len(q) + 1 /\ Len(q) \in Nat
           /\ \A i \in 1..Len(q) : Append(q, x)[i] = q[i]
           /\ Append(q, x)[Len(q) + 1] = x
           /\ DOMAIN Append(q, x) = DOMAIN q \cup {Len(q) + 1} /\ DOMAIN q = 1..Len(q)
  OBVIOUS

\* What replacing an item of a sequence leaves.
LEMMA Replaced ==
    ASSUME NEW S, NEW q \in Seq(S), NEW n \in DOMAIN q, NEW x \in S
    PROVE  /\ [q EXCEPT ![n] = x] \in Seq(S) /\ Len([q EXCEPT ![n] = x]) = Len(q)
           /\ DOMAIN [q EXCEPT ![n] = x] = DOMAIN q
           /\ \A i \in DOMAIN q : [q EXCEPT ![n] = x][i] = IF i = n THEN x ELSE q[i]
  OBVIOUS

\* Append adds one element at the end.
LEMMA AppendedSet ==
    ASSUME NEW S, NEW q \in Seq(S), NEW x \in S
    PROVE  /\ ToSet(Append(q, x)) = ToSet(q) \cup {x}
           /\ IsInjective(q) /\ x \notin ToSet(q) => IsInjective(Append(q, x))
  <1>1. /\ DOMAIN Append(q, x) = DOMAIN q \cup {Len(q) + 1}
        /\ \A i \in DOMAIN q : Append(q, x)[i] = q[i]
        /\ Append(q, x)[Len(q) + 1] = x
    BY Appended
  <1>2. ToSet(Append(q, x)) = ToSet(q) \cup {x}
    BY <1>1 DEF ToSet
  <1>3. ASSUME IsInjective(q), x \notin ToSet(q) PROVE IsInjective(Append(q, x))
    BY <1>1, <1>3 DEF IsInjective, ToSet
  <1> QED BY <1>2, <1>3

\* Tail takes the first element away.
LEMMA TailSet ==
    ASSUME NEW S, NEW q \in Seq(S), q # <<>>, IsInjective(q)
    PROVE  /\ Tail(q) \in Seq(S) /\ IsInjective(Tail(q)) /\ Len(Tail(q)) = Len(q) - 1
           /\ q[1] \in ToSet(q) /\ ToSet(Tail(q)) = ToSet(q) \ {q[1]}
  <1>1. /\ Tail(q) \in Seq(S) /\ Len(Tail(q)) = Len(q) - 1 /\ Len(q) \in Nat \ {0}
        /\ DOMAIN q = 1..Len(q) /\ DOMAIN Tail(q) = 1..(Len(q) - 1)
        /\ \A i \in DOMAIN Tail(q) : Tail(q)[i] = q[i + 1]
    OBVIOUS
  <1>2. \A i \in DOMAIN Tail(q) : i + 1 \in DOMAIN q /\ i + 1 # 1
    BY <1>1
  <1>3. \A i \in DOMAIN q : i # 1 => i - 1 \in DOMAIN Tail(q) /\ (i - 1) + 1 = i
    BY <1>1
  <1>4. IsInjective(Tail(q))
    <2> SUFFICES ASSUME NEW a \in DOMAIN Tail(q), NEW b \in DOMAIN Tail(q), Tail(q)[a] = Tail(q)[b]
                 PROVE  a = b
      BY DEF IsInjective
    <2>1. a + 1 = b + 1
      BY <1>1, <1>2 DEF IsInjective
    <2> QED BY <1>1, <2>1
  <1>5. 1 \in DOMAIN q
    BY <1>1
  <1>6. ToSet(Tail(q)) \subseteq ToSet(q) \ {q[1]}
    BY <1>1, <1>2, <1>5 DEF ToSet, IsInjective
  <1>7. ToSet(q) \ {q[1]} \subseteq ToSet(Tail(q))
    BY <1>1, <1>3 DEF ToSet
  <1> QED BY <1>1, <1>4, <1>5, <1>6, <1>7 DEF ToSet

\* The empty sequence.
LEMMA EmptySet == ToSet(<<>>) = {} /\ IsInjective(<<>>)
  BY DEF ToSet, IsInjective

(***************************************************************************)
(* The steps, by what they do to the turns and the deliveries.             *)
(***************************************************************************)
\* A turn that moves keeps its members and its place, and was not over.
TurnMoves(i, t) ==
    /\ t \in TurnType /\ t.members = turns[i].members /\ t.after = turns[i].after
    /\ t.stage # "waiting" /\ turns[i].stage \notin Settled
    /\ turns[i].stage = "waiting" => MayStart(i)
    /\ Goes(i, t)

\* A step of a turn's task moves that turn on.
LEMMA TurnStepFacts ==
    ASSUME Typed, NEW i \in DOMAIN turns, TurnStep(i)
    PROVE  \E t : TurnMoves(i, t)
  <1>1. turns[i] \in TurnType
    BY DEF Typed
  <1>2. PICK r : r = turns[i]
    OBVIOUS
  <1>3. r \in TurnType
    BY <1>1, <1>2
  <1>4. /\ \A s \in Stages : [r EXCEPT !.stage = s] \in TurnType /\ Over(r, s) \in TurnType
        /\ \A p \in Replies : [r EXCEPT !.stage = "sending", !.reply = p] \in TurnType
        /\ [r EXCEPT !.sent = @ + 1] \in TurnType
    <2>1. ASSUME NEW s \in Stages PROVE [r EXCEPT !.stage = s] \in TurnType
      BY <1>3 DEF TurnType
    <2>2. ASSUME NEW s \in Stages PROVE Over(r, s) \in TurnType
      BY <1>3 DEF TurnType, Over
    <2>3. ASSUME NEW p \in Replies PROVE [r EXCEPT !.stage = "sending", !.reply = p] \in TurnType
      BY <1>3 DEF TurnType
    <2>4. [r EXCEPT !.sent = @ + 1] \in TurnType
      <3>1. r.sent + 1 \in Nat
        BY <1>3 DEF TurnType
      <3> QED BY <1>3, <3>1 DEF TurnType
    <2> QED BY <2>1, <2>2, <2>3, <2>4
  <1>5. ASSUME NEW t \in TurnType, Goes(i, t), t.members = r.members, t.after = r.after,
               t.stage # "waiting", r.stage \notin Settled, r.stage = "waiting" => MayStart(i)
        PROVE  TurnMoves(i, t)
    BY <1>2, <1>5 DEF TurnMoves
  <1>6. ASSUME NEW s \in Stages
        PROVE  LET t == [r EXCEPT !.stage = s] IN t.members = r.members /\ t.after = r.after /\ t.stage = s
    BY <1>3 DEF TurnType
  <1>7. ASSUME NEW s \in Stages
        PROVE  Over(r, s).members = r.members /\ Over(r, s).after = r.after /\ Over(r, s).stage = s
    BY <1>3 DEF TurnType, Over
  <1>8. CASE Start(i)
    <2>1. r.stage = "waiting" /\ MayStart(i) /\ Goes(i, [r EXCEPT !.stage = "graph"])
      BY <1>2, <1>8 DEF Start
    <2>2. TurnMoves(i, [r EXCEPT !.stage = "graph"])
      BY <1>4, <1>5, <1>6, <2>1
    <2> QED BY <2>2
  <1>9. CASE Replied(i)
    <2>1. PICK p \in Replies : Goes(i, [r EXCEPT !.stage = "sending", !.reply = p])
      BY <1>2, <1>9 DEF Replied
    <2> DEFINE t == [r EXCEPT !.stage = "sending", !.reply = p]
    <2>2. t.members = r.members /\ t.after = r.after /\ t.stage = "sending"
      BY <1>3 DEF TurnType
    <2>3. r.stage = "graph" /\ t \in TurnType
      BY <1>2, <1>4, <1>9 DEF Replied
    <2>4. TurnMoves(i, t)
      BY <1>5, <2>1, <2>2, <2>3
    <2> QED BY <2>4
  <1>10. CASE Sent(i)
    <2>1. Goes(i, Over(r, "answered")) \/ Goes(i, [r EXCEPT !.sent = @ + 1])
      BY <1>2, <1>10 DEF Sent
    <2>2. Goes(i, Over(r, "answered")) => TurnMoves(i, Over(r, "answered"))
      BY <1>2, <1>3, <1>4, <1>10 DEF Sent, TurnMoves, TurnType, Over
    <2>3. Goes(i, [r EXCEPT !.sent = @ + 1]) => TurnMoves(i, [r EXCEPT !.sent = @ + 1])
      BY <1>2, <1>3, <1>4, <1>10 DEF Sent, TurnMoves, TurnType
    <2> QED BY <2>1, <2>2, <2>3
  <1>11. CASE Fails(i)
    <2>1. r.stage \in {"graph", "sending"} /\ Goes(i, Over(r, "reporting"))
      BY <1>2, <1>11 DEF Fails
    <2>2. TurnMoves(i, Over(r, "reporting"))
      BY <1>4, <1>5, <1>7, <2>1
    <2> QED BY <2>2
  <1>12. CASE Reported(i)
    <2>1. r.stage = "reporting" /\ Goes(i, [r EXCEPT !.stage = "reported"])
      BY <1>2, <1>12 DEF Reported
    <2>2. TurnMoves(i, [r EXCEPT !.stage = "reported"])
      BY <1>4, <1>5, <1>6, <2>1
    <2> QED BY <2>2
  <1> QED BY <1>8, <1>9, <1>10, <1>11, <1>12 DEF TurnStep

\* What Deliver does with an update that it does not take for a duplicate.
Accepts(u, a) ==
    /\ u \notin ToSet(tracked) /\ tracked' = Marked(u)
    /\ forgotten' = [v \in Updates |-> forgotten[v] + IF v \in ToSet(tracked) \ ToSet(tracked') THEN 1 ELSE 0]
    /\ a \in Places /\ accepted' = Append(accepted, [update |-> u, at |-> a])
    /\ IF a = "held" THEN Chained(<<Len(accepted) + 1>>) ELSE UNCHANGED <<turns, tail>>
    /\ UNCHANGED <<buffers, crashes>>

\* An update is either known, and nothing happens, or accepted.
LEMMA DeliverFacts ==
    ASSUME NEW u \in Updates, Deliver(u)
    PROVE  UNCHANGED vars \/ \E a : Accepts(u, a)
  <1>1. CASE u \in ToSet(tracked)
    BY <1>1 DEF Deliver
  <1>2. CASE u \notin ToSet(tracked)
    <2> DEFINE a == IF u \in Photos THEN "download" ELSE IF u \in Texts THEN "held" ELSE "dropped"
    <2>1. a = "held" <=> u \in Texts
      BY KindsAssumption
    <2>2. Accepts(u, a)
      BY <1>2, <2>1 DEF Deliver, Accepts
    <2> QED BY <2>2
  <1> QED BY <1>1, <1>2

(***************************************************************************)
(* Types.                                                                  *)
(***************************************************************************)
\* A new turn waits for the last one, at the end.
LEMMA ChainedFacts ==
    ASSUME turns \in Seq(TurnType), tail \in Nat, NEW m \in Seq(Nat), Chained(m)
    PROVE  /\ turns' \in Seq(TurnType) /\ Len(turns') = Len(turns) + 1
           /\ tail' = Len(turns') /\ tail' \in Nat
           /\ DOMAIN turns' = DOMAIN turns \cup {Len(turns) + 1} /\ DOMAIN turns = 1..Len(turns)
           /\ \A i \in DOMAIN turns : turns'[i] = turns[i]
           /\ turns'[Len(turns) + 1] = Turn(m, tail)
  <1>1. Turn(m, tail) \in TurnType
    BY DEF Turn, TurnType
  <1>2. turns' = Append(turns, Turn(m, tail)) /\ tail' = Len(turns) + 1
    BY DEF Chained
  <1> QED BY <1>1, <1>2, Appended

\* The turns form a chain, each after the one before it, and they run in its order.
ChainInv ==
    /\ tail = Len(turns)
    /\ \A i \in DOMAIN turns : turns[i].after = i - 1
    /\ OneAtATime

TypeInv == Typed /\ tail \in Nat

\* The window of ids stays a sequence of updates.
LEMMA MarkedTyped ==
    ASSUME tracked \in Seq(Updates), NEW u \in Updates
    PROVE  Marked(u) \in Seq(Updates)
  <1>1. Append(tracked, u) \in Seq(Updates) /\ Append(tracked, u) # <<>>
    OBVIOUS
  <1>2. Tail(Append(tracked, u)) \in Seq(Updates)
    BY <1>1
  <1> QED BY <1>1, <1>2 DEF Marked

\* Every step keeps the types.
LEMMA TypeNext == TypeInv /\ [Next]_vars => TypeInv'
  <1> SUFFICES ASSUME TypeInv, [Next]_vars PROVE TypeInv'
    OBVIOUS
  <1>0. Typed /\ tail \in Nat /\ turns \in Seq(TurnType)
    BY DEF TypeInv, Typed
  <1>1. CASE UNCHANGED vars
    BY <1>1 DEF vars, TypeInv, Typed
  <1>2. ASSUME NEW u \in Updates, NEW a, Accepts(u, a) PROVE TypeInv'
    <2>1. tracked' \in Seq(Updates)
      BY <1>0, <1>2, MarkedTyped DEF Accepts, Typed
    <2>2. forgotten' \in [Updates -> Nat]
      BY <1>0, <1>2 DEF Accepts, Typed
    <2>3. accepted' \in Seq(Delivery) /\ Len(accepted) + 1 \in Nat
      <3>1. [update |-> u, at |-> a] \in Delivery
        BY <1>2 DEF Accepts, Delivery
      <3> QED BY <1>0, <1>2, <3>1, Appended DEF Accepts, Typed
    <2>4. turns' \in Seq(TurnType) /\ tail' \in Nat
      <3>1. CASE a = "held"
        <4>1. <<Len(accepted) + 1>> \in Seq(Nat) /\ Chained(<<Len(accepted) + 1>>)
          BY <1>2, <2>3, <3>1 DEF Accepts
        <4> QED BY <1>0, <4>1, ChainedFacts
      <3>2. CASE a # "held"
        BY <1>0, <1>2, <3>2 DEF Accepts, Typed
      <3> QED BY <3>1, <3>2
    <2> QED BY <1>0, <1>2, <2>1, <2>2, <2>3, <2>4 DEF Accepts, TypeInv, Typed
  <1>3. ASSUME NEW d \in Deliveries, Downloaded(d) \/ DownloadFails(d) PROVE TypeInv'
    <2>1. d \in Nat /\ accepted[d] \in Delivery /\ KeyOf(accepted[d].update) \in Keys
      BY <1>0 DEF Typed, Deliveries, KeyOf
    <2>2. PICK p \in {"held", "rejected"} : accepted' = [accepted EXCEPT ![d].at = p]
      BY <1>3 DEF Downloaded, DownloadFails
    <2>3. [accepted[d] EXCEPT !.at = p] \in Delivery
      BY <2>1 DEF Delivery
    <2>4. accepted' = [accepted EXCEPT ![d] = [accepted[d] EXCEPT !.at = p]]
      BY <2>2
    <2>5. accepted' \in Seq(Delivery)
      BY <1>0, <2>3, <2>4, Replaced DEF Deliveries, Typed
    <2>6. buffers' \in [Keys -> Seq(Nat)]
      <3>1. \A k \in Keys : buffers[k] \in Seq(Nat) /\ Append(buffers[k], d) \in Seq(Nat)
        BY <1>0, <2>1 DEF Typed
      <3>2. \/ buffers' = buffers
            \/ buffers' = [buffers EXCEPT ![KeyOf(accepted[d].update)] = Append(@, d)]
        BY <1>3 DEF Downloaded, DownloadFails
      <3>3. buffers \in [Keys -> Seq(Nat)]
        BY <1>0 DEF Typed
      <3> QED BY <2>1, <3>1, <3>2, <3>3
    <2> QED BY <1>0, <1>3, <2>5, <2>6 DEF Downloaded, DownloadFails, TypeInv, Typed
  <1>4. ASSUME NEW k \in Keys, Flush(k) PROVE TypeInv'
    <2>1. buffers[k] \in Seq(Nat) /\ Chained(buffers[k])
      BY <1>0, <1>4 DEF Flush, Typed
    <2>2. turns' \in Seq(TurnType) /\ tail' \in Nat
      BY <1>0, <2>1, ChainedFacts DEF Typed
    <2>3. buffers' \in [Keys -> Seq(Nat)]
      BY <1>0, <1>4 DEF Flush, Emptied, Typed
    <2> QED BY <1>0, <1>4, <2>2, <2>3 DEF Flush, TypeInv, Typed
  <1>5. ASSUME NEW i \in DOMAIN turns, TurnStep(i) PROVE TypeInv'
    <2>1. PICK t : TurnMoves(i, t)
      BY <1>0, <1>5, TurnStepFacts
    <2> QED BY <1>0, <2>1, Replaced DEF TurnMoves, Goes, TypeInv, Typed
  <1>6. CASE Crash
    <2>1. forgotten' \in [Updates -> Nat]
      BY <1>0, <1>6 DEF Crash, Typed
    <2>2. accepted' \in Seq(Delivery)
      <3>1. \A d \in 1..Len(accepted) : [accepted[d] EXCEPT !.at = "lost"] \in Delivery
        <4>1. \A d \in 1..Len(accepted) : accepted[d] \in Delivery
          BY <1>0 DEF Typed
        <4>2. \A r \in Delivery : [r EXCEPT !.at = "lost"] \in Delivery
          BY DEF Delivery
        <4> QED BY <4>1, <4>2
      <3>2. accepted' \in [1..Len(accepted) -> Delivery] /\ Len(accepted) \in Nat
        BY <1>0, <1>6, <3>1 DEF Crash, Deliveries, Typed
      <3> QED BY <3>2
    <2> QED BY <1>6, <2>1, <2>2 DEF Crash, TypeInv, Typed
  <1> QED
    BY <1>1, <1>2, <1>3, <1>4, <1>5, <1>6, DeliverFacts DEF Next, AdapterStep

\* Every reachable state is well typed.
LEMMA TypesHold == Spec => []TypeInv
  <1>1. Init => TypeInv
    BY DEF Init, TypeInv, Typed
  <1> QED BY <1>1, TypeNext, PTL DEF Spec

(***************************************************************************)
(* The chain of turns.                                                     *)
(***************************************************************************)
LEMMA ChainedKeeps ==
    ASSUME TypeInv, ChainInv, NEW m \in Seq(Nat), Chained(m)
    PROVE  ChainInv'
  <1>1. PICK n \in Nat : Len(turns) = n /\ tail = n
    BY DEF TypeInv, Typed, ChainInv
  <1>2. /\ tail' = Len(turns')
        /\ DOMAIN turns' = DOMAIN turns \cup {n + 1} /\ DOMAIN turns = 1..n
        /\ \A i \in DOMAIN turns : turns'[i] = turns[i]
        /\ turns'[n + 1] = Turn(m, n)
    BY <1>1, ChainedFacts DEF TypeInv, Typed
  <1>3. turns'[n + 1].after = n /\ turns'[n + 1].stage = "waiting"
    BY <1>2 DEF Turn
  <1>4. \A i \in DOMAIN turns' : turns'[i].after = i - 1
    BY <1>2, <1>3 DEF ChainInv
  <1>5. OneAtATime'
    <2> SUFFICES ASSUME NEW i \in DOMAIN turns', NEW j \in DOMAIN turns', i < j, turns'[j].stage # "waiting"
                 PROVE  turns'[i].stage \in Settled
      BY DEF OneAtATime
    <2>1. i \in DOMAIN turns /\ j \in DOMAIN turns
      BY <1>2, <1>3
    <2> QED BY <1>2, <2>1 DEF ChainInv, OneAtATime
  <1> QED BY <1>2, <1>4, <1>5 DEF ChainInv

\* A turn that starts finds the one before it settled, and with it all before that.
LEMMA TurnKeepsChain ==
    ASSUME TypeInv, ChainInv, NEW i \in DOMAIN turns, TurnStep(i)
    PROVE  ChainInv'
  <1>1. PICK t : TurnMoves(i, t)
    BY TurnStepFacts DEF TypeInv
  <1>2. PICK n \in Nat : Len(turns) = n /\ tail = n /\ DOMAIN turns = 1..n
    <2>1. turns \in Seq(TurnType) /\ tail = Len(turns)
      BY DEF TypeInv, Typed, ChainInv
    <2>2. Len(turns) \in Nat /\ DOMAIN turns = 1..Len(turns)
      BY <2>1
    <2> QED BY <2>1, <2>2
  <1>3. /\ Len(turns') = n /\ tail' = n /\ DOMAIN turns' = 1..n
        /\ \A j \in 1..n : turns'[j] = IF j = i THEN t ELSE turns[j]
    BY <1>1, <1>2, Replaced DEF TurnMoves, Goes, TypeInv, Typed
  <1>4. \A j \in 1..n : turns'[j].after = j - 1
    BY <1>1, <1>2, <1>3 DEF TurnMoves, ChainInv
  <1>5. ASSUME NEW j \in 1..n, j < i PROVE turns[j].stage \in Settled
    <2>1. CASE turns[i].stage # "waiting"
      BY <1>2, <1>5, <2>1 DEF ChainInv, OneAtATime
    <2>2. CASE turns[i].stage = "waiting"
      <3>1. i - 1 \in 1..n /\ turns[i].after = i - 1
        BY <1>2, <1>5 DEF ChainInv
      <3>2. turns[i - 1].stage \in Settled
        BY <1>1, <1>2, <2>2, <3>1 DEF TurnMoves, MayStart
      <3>3. CASE j = i - 1
        BY <3>2, <3>3
      <3>4. CASE j < i - 1
        BY <1>2, <3>1, <3>2, <3>4 DEF ChainInv, OneAtATime
      <3> QED BY <1>2, <1>5, <3>3, <3>4
    <2> QED BY <2>1, <2>2
  <1>6. ASSUME NEW j \in 1..n, i < j PROVE turns[j].stage = "waiting"
    BY <1>1, <1>2, <1>6 DEF TurnMoves, ChainInv, OneAtATime
  <1>7. OneAtATime'
    <2> SUFFICES ASSUME NEW a \in 1..n, NEW b \in 1..n, a < b, turns'[b].stage # "waiting"
                 PROVE  turns'[a].stage \in Settled
      BY <1>3 DEF OneAtATime
    <2>1. CASE b = i
      BY <1>3, <1>5, <2>1
    <2>2. CASE b # i
      <3>1. turns[b].stage # "waiting"
        BY <1>3, <2>2
      <3>2. a # i
        BY <1>6, <3>1
      <3> QED BY <1>2, <1>3, <3>1, <3>2 DEF ChainInv, OneAtATime
    <2> QED BY <2>1, <2>2
  <1> QED BY <1>3, <1>4, <1>7 DEF ChainInv

\* runExclusiveForThread: for any number of updates, turns and failures, the turns of the chat run
\* one at a time, in the order they were queued.
THEOREM TurnsRunOneAtATime == Spec => []OneAtATime
  <1>1. Init => ChainInv
    BY DEF Init, ChainInv, OneAtATime
  <1>2. TypeInv /\ ChainInv /\ [Next]_vars => ChainInv'
    <2> SUFFICES ASSUME TypeInv, ChainInv, [Next]_vars PROVE ChainInv'
      OBVIOUS
    <2>1. ASSUME UNCHANGED <<turns, tail>> PROVE ChainInv'
      BY <2>1 DEF ChainInv, OneAtATime
    <2>2. ASSUME NEW u \in Updates, NEW a, Accepts(u, a) PROVE ChainInv'
      <3>1. <<Len(accepted) + 1>> \in Seq(Nat)
        BY DEF TypeInv, Typed
      <3> QED BY <2>1, <2>2, <3>1, ChainedKeeps DEF Accepts
    <2>3. ASSUME NEW k \in Keys, Flush(k) PROVE ChainInv'
      BY <2>3, ChainedKeeps DEF Flush, TypeInv, Typed
    <2>4. ASSUME NEW d \in Deliveries, Downloaded(d) \/ DownloadFails(d) PROVE ChainInv'
      BY <2>1, <2>4 DEF Downloaded, DownloadFails
    <2>5. CASE Crash
      BY <2>5 DEF Crash, ChainInv, OneAtATime
    <2>6. CASE UNCHANGED vars
      BY <2>1, <2>6 DEF vars
    <2> QED BY <2>2, <2>3, <2>4, <2>5, <2>6, DeliverFacts, TurnKeepsChain DEF Next, AdapterStep
  <1>3. ChainInv => OneAtATime
    BY DEF ChainInv
  <1> QED BY <1>1, <1>2, <1>3, TypesHold, PTL DEF Spec

(***************************************************************************)
(* The ids.                                                                *)
(***************************************************************************)
\* How often an update has been accepted is how often its id was remembered: once for each time
\* it has been forgotten, and once more if it is remembered now.
Of(u) == {d \in Deliveries : accepted[d].update = u}
Remembered(u) == IF u \in ToSet(tracked) THEN 1 ELSE 0
MarkInv ==
    /\ Len(tracked) <= MaxTracked /\ IsInjective(tracked)
    /\ \A u \in Updates : Cardinality(Of(u)) = forgotten[u] + Remembered(u)

\* An update has a finite number of deliveries.
LEMMA OfIsFinite ==
    ASSUME Typed, NEW u
    PROVE  IsFiniteSet(Of(u)) /\ Cardinality(Of(u)) \in Nat
  <1>1. Len(accepted) \in Nat /\ Of(u) \in SUBSET (1..Len(accepted))
    BY DEF Typed, Of, Deliveries
  <1>2. IsFiniteSet(1..Len(accepted))
    BY <1>1, FS_Interval
  <1> QED BY <1>1, <1>2, FS_Subset, FS_CardinalityType

\* A new id is remembered, and there is room for it: the oldest may go.
LEMMA MarkedFacts ==
    ASSUME tracked \in Seq(Updates), IsInjective(tracked), Len(tracked) <= MaxTracked,
           NEW u \in Updates, u \notin ToSet(tracked)
    PROVE  /\ IsInjective(Marked(u)) /\ Len(Marked(u)) <= MaxTracked
           /\ u \in ToSet(Marked(u)) /\ ToSet(Marked(u)) \subseteq ToSet(tracked) \cup {u}
  <1> DEFINE q == Append(tracked, u)
  <1>1. /\ q \in Seq(Updates) /\ Len(q) = Len(tracked) + 1 /\ q # <<>> /\ Len(tracked) \in Nat
        /\ \A i \in 1..Len(tracked) : q[i] = tracked[i]
    OBVIOUS
  <1>2. IsInjective(q) /\ ToSet(q) = ToSet(tracked) \cup {u}
    BY AppendedSet
  <1> HIDE DEF q
  <1>3. CASE Len(tracked) < MaxTracked
    <2>1. Marked(u) = q
      BY <1>3 DEF Marked, q
    <2> QED BY <1>1, <1>2, <1>3, <2>1
  <1>4. CASE Len(tracked) = MaxTracked
    <2>1. Marked(u) = Tail(q)
      BY <1>4 DEF Marked, q
    <2>2. q[1] = tracked[1] /\ 1 \in DOMAIN tracked
      BY <1>1, <1>4
    <2>3. q[1] # u
      BY <2>2 DEF ToSet
    <2>4. IsInjective(Tail(q)) /\ Len(Tail(q)) = Len(q) - 1 /\ ToSet(Tail(q)) = ToSet(q) \ {q[1]}
      BY <1>1, <1>2, TailSet
    <2> QED BY <1>1, <1>2, <1>4, <2>1, <2>3, <2>4
  <1> QED BY <1>1, <1>3, <1>4

\* The one step that marks: the delivery it adds is paid for by the mark, or by the one that falls out.
LEMMA AcceptsKeepsMarks ==
    ASSUME TypeInv, MarkInv, NEW u \in Updates, NEW a, Accepts(u, a)
    PROVE  MarkInv'
  <1>1. /\ IsInjective(tracked') /\ Len(tracked') <= MaxTracked
        /\ u \in ToSet(tracked') /\ ToSet(tracked') \subseteq ToSet(tracked) \cup {u} /\ u \notin ToSet(tracked)
    BY MarkedFacts DEF Accepts, MarkInv, TypeInv, Typed
  <1>2. PICK n \in Nat : Len(accepted) = n
    BY DEF TypeInv, Typed
  <1>3. accepted \in Seq(Delivery) /\ [update |-> u, at |-> a] \in Delivery
    BY DEF TypeInv, Typed, Accepts, Delivery
  <1>4. /\ DOMAIN accepted' = DOMAIN accepted \cup {n + 1} /\ DOMAIN accepted = 1..n /\ n + 1 \notin 1..n
        /\ \A d \in DOMAIN accepted : accepted'[d] = accepted[d]
        /\ accepted'[n + 1] = [update |-> u, at |-> a]
    BY <1>2, <1>3, Appended DEF Accepts
  <1>5. Of(u)' = Of(u) \cup {n + 1} /\ n + 1 \notin Of(u)
    BY <1>4 DEF Of, Deliveries
  <1>6. \A v \in Updates : v # u => Of(v)' = Of(v)
    BY <1>4 DEF Of, Deliveries
  <1>7. Cardinality(Of(u)') = Cardinality(Of(u)) + 1
    BY <1>5, OfIsFinite, FS_AddElement DEF TypeInv
  <1>8. \A v \in Updates : forgotten'[v] = forgotten[v] + IF v \in ToSet(tracked) \ ToSet(tracked') THEN 1 ELSE 0
    BY DEF Accepts
  <1>9. \A v \in Updates : forgotten[v] \in Nat
    BY DEF TypeInv, Typed
  <1>10. ASSUME NEW v \in Updates PROVE Cardinality(Of(v)') = forgotten'[v] + Remembered(v)'
    <2>0. Cardinality(Of(v)) = forgotten[v] + Remembered(v)
      BY DEF MarkInv
    <2>1. CASE v = u
      <3>1. Remembered(v) = 0 /\ Remembered(v)' = 1 /\ forgotten'[v] = forgotten[v] + 0
        BY <1>1, <1>8, <2>1 DEF Remembered
      <3> QED BY <1>7, <1>9, <2>0, <2>1, <3>1
    <2>2. CASE v # u /\ v \in ToSet(tracked) \ ToSet(tracked')
      <3>1. Remembered(v) = 1 /\ Remembered(v)' = 0 /\ forgotten'[v] = forgotten[v] + 1
        BY <1>8, <2>2 DEF Remembered
      <3> QED BY <1>6, <1>9, <2>0, <2>2, <3>1
    <2>3. CASE v # u /\ v \notin ToSet(tracked) \ ToSet(tracked')
      <3>1. Remembered(v)' = Remembered(v) /\ forgotten'[v] = forgotten[v] + 0
        BY <1>1, <1>8, <2>3 DEF Remembered
      <3> QED BY <1>6, <1>9, <2>0, <2>3, <3>1
    <2> QED BY <2>1, <2>2, <2>3
  <1> QED BY <1>1, <1>10 DEF MarkInv

\* markUpdateProcessed: for any number of updates and ids kept, an update is acted upon again only
\* after its id has been forgotten, as often as that.
THEOREM ActedOncePerMark == Spec => []OncePerMark
  <1>1. Init => MarkInv
    <2> SUFFICES ASSUME Init PROVE MarkInv
      OBVIOUS
    <2>1. Len(tracked) = 0 /\ IsInjective(tracked) /\ ToSet(tracked) = {}
      BY EmptySet DEF Init
    <2>2. \A u \in Updates : Of(u) = {} /\ forgotten[u] = 0 /\ Remembered(u) = 0
      BY <2>1 DEF Init, Of, Deliveries, Remembered
    <2>3. \A u \in Updates : Cardinality(Of(u)) = 0
      BY <2>2, FS_EmptySet
    <2>4. \A u \in Updates : Cardinality(Of(u)) = forgotten[u] + Remembered(u)
      BY <2>2, <2>3
    <2> QED BY <2>1, <2>4 DEF MarkInv
  <1>2. TypeInv /\ MarkInv /\ [Next]_vars => MarkInv'
    <2> SUFFICES ASSUME TypeInv, MarkInv, [Next]_vars PROVE MarkInv'
      OBVIOUS
    <2>1. ASSUME UNCHANGED <<tracked, forgotten>>, DOMAIN accepted' = DOMAIN accepted,
                 \A d \in Deliveries : accepted'[d].update = accepted[d].update
          PROVE  MarkInv'
      <3>1. \A u : Of(u)' = Of(u) /\ Remembered(u)' = Remembered(u)
        BY <2>1 DEF Of, Deliveries, Remembered
      <3> QED BY <2>1, <3>1 DEF MarkInv
    <2>2. CASE UNCHANGED <<tracked, forgotten, accepted>>
      BY <2>1, <2>2
    <2>3. ASSUME NEW d \in Deliveries, Downloaded(d) \/ DownloadFails(d) PROVE MarkInv'
      <3>1. PICK p : accepted' = [accepted EXCEPT ![d].at = p]
        BY <2>3 DEF Downloaded, DownloadFails
      <3>2. \A e \in Deliveries : accepted[e] \in Delivery
        BY DEF TypeInv, Typed, Deliveries
      <3>3. \A e \in Deliveries : accepted'[e].update = accepted[e].update
        BY <3>1, <3>2 DEF Delivery, Deliveries
      <3>4. DOMAIN accepted' = DOMAIN accepted
        BY <3>1
      <3> QED BY <2>1, <2>3, <3>3, <3>4 DEF Downloaded, DownloadFails
    <2>4. CASE Crash
      <3>1. tracked' = <<>> /\ ToSet(tracked') = {} /\ IsInjective(tracked') /\ Len(tracked') = 0
        BY <2>4, EmptySet DEF Crash
      <3>2. \A u \in Updates : forgotten'[u] = forgotten[u] + Remembered(u) /\ Remembered(u)' = 0
        BY <2>4, <3>1 DEF Crash, Remembered
      <3>3. \A e \in Deliveries : accepted[e] \in Delivery
        BY DEF TypeInv, Typed, Deliveries
      <3>4. /\ DOMAIN accepted' = Deliveries
            /\ \A e \in Deliveries : accepted'[e] = [accepted[e] EXCEPT !.at = "lost"]
        BY <2>4 DEF Crash
      <3>5. \A e \in Deliveries : accepted'[e].update = accepted[e].update
        BY <3>3, <3>4 DEF Delivery
      <3>6. \A u \in Updates : Of(u)' = Of(u)
        BY <3>4, <3>5 DEF Of, Deliveries
      <3>7. \A u \in Updates : forgotten[u] \in Nat /\ Remembered(u) \in Nat
        BY DEF TypeInv, Typed, Remembered
      <3> QED BY <3>1, <3>2, <3>6, <3>7 DEF MarkInv
    <2>5. ASSUME NEW i \in DOMAIN turns, TurnStep(i) PROVE UNCHANGED <<tracked, forgotten, accepted>>
      BY <2>5, TurnStepFacts DEF TypeInv, TurnMoves, Goes
    <2>6. ASSUME NEW k \in Keys, Flush(k) PROVE UNCHANGED <<tracked, forgotten, accepted>>
      BY <2>6 DEF Flush
    <2>7. CASE UNCHANGED vars
      BY <2>2, <2>7 DEF vars
    <2> QED BY <2>2, <2>3, <2>4, <2>5, <2>6, <2>7, DeliverFacts, AcceptsKeepsMarks DEF Next, AdapterStep
  <1>3. TypeInv /\ MarkInv => OncePerMark
    <2> SUFFICES ASSUME TypeInv, MarkInv, NEW u \in Updates PROVE Cardinality(Of(u)) <= forgotten[u] + 1
      BY DEF OncePerMark, Of
    <2>1. Cardinality(Of(u)) = forgotten[u] + Remembered(u) /\ forgotten[u] \in Nat
      BY DEF MarkInv, TypeInv, Typed
    <2> QED BY <2>1 DEF Remembered
  <1> QED BY <1>1, <1>2, <1>3, TypesHold, PTL DEF Spec

(***************************************************************************)
(* What has come in.                                                       *)
(***************************************************************************)
Held  == {d \in Deliveries : accepted[d].at = "held"}
In(k) == ToSet(buffers[k])
Taken(i) == ToSet(turns[i].members)

\* The buffers and the turns divide what is held among them.
Together ==
    /\ \A k \in Keys : In(k) \subseteq Held
    /\ \A i \in DOMAIN turns : Taken(i) \subseteq Held
    /\ \A d \in Held : (\E k \in Keys : d \in In(k)) \/ (\E i \in DOMAIN turns : d \in Taken(i))
Apart ==
    /\ \A k, l \in Keys : k # l => In(k) \cap In(l) = {}
    /\ \A i, j \in DOMAIN turns : i # j => Taken(i) \cap Taken(j) = {}
    /\ \A k \in Keys, i \in DOMAIN turns : In(k) \cap Taken(i) = {}
Unrepeated ==
    /\ \A k \in Keys : IsInjective(buffers[k])
    /\ \A i \in DOMAIN turns : IsInjective(turns[i].members)
KeptInv == Together /\ Apart /\ Unrepeated

\* The invariant counts each delivery once.
LEMMA KeptIsOnce == KeptInv => KeptOnce
  <1> SUFFICES ASSUME KeptInv, NEW d \in Deliveries, accepted[d].at = "held"
               PROVE  Cardinality({k \in Keys : d \in In(k)}) + Cardinality({i \in DOMAIN turns : d \in Taken(i)}) = 1
    BY DEF KeptOnce, KeptInv, Unrepeated, In, Taken
  <1>1. d \in Held
    BY DEF Held
  <1>2. ASSUME NEW k \in Keys, d \in In(k)
        PROVE  {l \in Keys : d \in In(l)} = {k} /\ {i \in DOMAIN turns : d \in Taken(i)} = {}
    BY <1>2 DEF KeptInv, Apart
  <1>3. ASSUME NEW i \in DOMAIN turns, d \in Taken(i)
        PROVE  {l \in Keys : d \in In(l)} = {} /\ {j \in DOMAIN turns : d \in Taken(j)} = {i}
    BY <1>3 DEF KeptInv, Apart
  <1>4. (\E k \in Keys : d \in In(k)) \/ (\E i \in DOMAIN turns : d \in Taken(i))
    BY <1>1 DEF KeptInv, Together
  <1>5. Cardinality({}) = 0 /\ \A x : Cardinality({x}) = 1
    BY FS_EmptySet, FS_Singleton
  <1>6. CASE \E k \in Keys : d \in In(k)
    <2>1. PICK k \in Keys : d \in In(k)
      BY <1>6
    <2>2. {l \in Keys : d \in In(l)} = {k} /\ {i \in DOMAIN turns : d \in Taken(i)} = {}
      BY <1>2, <2>1
    <2>3. Cardinality({l \in Keys : d \in In(l)}) = 1 /\ Cardinality({i \in DOMAIN turns : d \in Taken(i)}) = 0
      BY <1>5, <2>2
    <2> QED BY <2>3
  <1>7. CASE \E i \in DOMAIN turns : d \in Taken(i)
    <2>1. PICK i \in DOMAIN turns : d \in Taken(i)
      BY <1>7
    <2>2. {l \in Keys : d \in In(l)} = {} /\ {j \in DOMAIN turns : d \in Taken(j)} = {i}
      BY <1>3, <2>1
    <2>3. Cardinality({l \in Keys : d \in In(l)}) = 0 /\ Cardinality({j \in DOMAIN turns : d \in Taken(j)}) = 1
      BY <1>5, <2>2
    <2> QED BY <2>3
  <1> QED BY <1>4, <1>6, <1>7

\* A new turn takes its members, and the others keep theirs.
LEMMA TakenByNew ==
    ASSUME TypeInv, NEW m \in Seq(Nat), Chained(m)
    PROVE  \E n : /\ DOMAIN turns' = DOMAIN turns \cup {n} /\ n \notin DOMAIN turns
                  /\ turns'[n].members = m
                  /\ \A i \in DOMAIN turns : turns'[i].members = turns[i].members
  <1>1. turns \in Seq(TurnType) /\ tail \in Nat
    BY DEF TypeInv, Typed
  <1>2. /\ DOMAIN turns' = DOMAIN turns \cup {Len(turns) + 1} /\ DOMAIN turns = 1..Len(turns)
        /\ \A i \in DOMAIN turns : turns'[i] = turns[i]
        /\ turns'[Len(turns) + 1] = Turn(m, tail)
    BY <1>1, ChainedFacts
  <1>3. Len(turns) + 1 \notin DOMAIN turns
    BY <1>1, <1>2
  <1> QED BY <1>2, <1>3 DEF Turn

\* A text goes into a turn of its own; a photo that comes in is held by nobody yet.
LEMMA AcceptsKeeps ==
    ASSUME TypeInv, KeptInv, NEW u, NEW a, Accepts(u, a), u \in Updates
    PROVE  KeptInv'
  <1>1. PICK e \in Nat : Len(accepted) = e
    BY DEF TypeInv, Typed
  <1>2. accepted \in Seq(Delivery) /\ [update |-> u, at |-> a] \in Delivery
    BY DEF TypeInv, Typed, Accepts, Delivery
  <1>3. /\ DOMAIN accepted' = DOMAIN accepted \cup {e + 1} /\ DOMAIN accepted = 1..e /\ e + 1 \notin 1..e
        /\ \A d \in DOMAIN accepted : accepted'[d] = accepted[d]
        /\ accepted'[e + 1] = [update |-> u, at |-> a]
    BY <1>1, <1>2, Appended DEF Accepts
  <1>4. Held' = Held \cup (IF a = "held" THEN {e + 1} ELSE {}) /\ e + 1 \notin Held
    BY <1>3 DEF Held, Deliveries
  <1>5. \A k \in Keys : In(k)' = In(k) /\ buffers'[k] = buffers[k] /\ e + 1 \notin In(k)
    BY <1>4 DEF Accepts, In, KeptInv, Together
  <1>6. CASE a = "held"
    <2> DEFINE m == <<e + 1>>
    <2>1. m \in Seq(Nat) /\ ToSet(m) = {e + 1} /\ IsInjective(m) /\ Chained(m)
      BY <1>1, <1>6 DEF Accepts, ToSet, IsInjective
    <2>2. PICK n : /\ DOMAIN turns' = DOMAIN turns \cup {n} /\ n \notin DOMAIN turns
                   /\ turns'[n].members = m
                   /\ \A i \in DOMAIN turns : turns'[i].members = turns[i].members
      BY <2>1, TakenByNew
    <2> HIDE DEF m
    <2>3. Taken(n)' = {e + 1} /\ \A i \in DOMAIN turns : Taken(i)' = Taken(i) /\ e + 1 \notin Taken(i)
      BY <1>4, <2>1, <2>2 DEF Taken, KeptInv, Together
    <2>4. Together'
      BY <1>4, <1>5, <1>6, <2>2, <2>3 DEF KeptInv, Together
    <2>5. Apart'
      BY <1>5, <2>2, <2>3 DEF KeptInv, Apart
    <2>6. Unrepeated'
      BY <1>5, <2>1, <2>2 DEF KeptInv, Unrepeated
    <2> QED BY <2>4, <2>5, <2>6 DEF KeptInv
  <1>7. CASE a # "held"
    <2>1. turns' = turns /\ \A i \in DOMAIN turns : Taken(i)' = Taken(i)
      BY <1>7 DEF Accepts, Taken
    <2>2. Together'
      BY <1>4, <1>5, <1>7, <2>1 DEF KeptInv, Together
    <2> QED BY <1>5, <2>1, <2>2 DEF KeptInv, Apart, Unrepeated
  <1> QED BY <1>6, <1>7

\* A photo that has been downloaded goes into one buffer; nobody held it before.
LEMMA DownloadKeeps ==
    ASSUME TypeInv, KeptInv, NEW d \in Deliveries, Downloaded(d) \/ DownloadFails(d)
    PROVE  KeptInv'
  <1>1. PICK p \in {"held", "rejected"} : accepted' = [accepted EXCEPT ![d].at = p] /\ (p = "held" => Downloaded(d)) /\ (p = "rejected" => DownloadFails(d))
    BY DEF Downloaded, DownloadFails
  <1>2. accepted[d].at = "download" /\ turns' = turns
    BY DEF Downloaded, DownloadFails
  <1>3. \A e \in Deliveries : accepted[e] \in Delivery
    BY DEF TypeInv, Typed, Deliveries
  <1>4. /\ DOMAIN accepted' = DOMAIN accepted /\ accepted'[d].at = p
        /\ \A e \in Deliveries : e # d => accepted'[e] = accepted[e]
    BY <1>1, <1>3 DEF Delivery, Deliveries
  <1>5. Held' = Held \cup (IF p = "held" THEN {d} ELSE {}) /\ d \notin Held
    BY <1>2, <1>4 DEF Held, Deliveries
  <1>6. \A i \in DOMAIN turns : Taken(i)' = Taken(i) /\ d \notin Taken(i)
    BY <1>2, <1>5 DEF Taken, KeptInv, Together
  <1>7. \A k \in Keys : d \notin In(k)
    BY <1>5 DEF KeptInv, Together
  <1>8. CASE p = "held"
    <2>1. PICK k \in Keys : buffers' = [buffers EXCEPT ![k] = Append(@, d)]
      BY <1>1, <1>8 DEF Downloaded, KeyOf
    <2>2. buffers \in [Keys -> Seq(Nat)] /\ d \in Nat
      BY DEF TypeInv, Typed, Deliveries
    <2>3. buffers'[k] = Append(buffers[k], d) /\ \A l \in Keys : l # k => buffers'[l] = buffers[l]
      BY <2>1, <2>2
    <2>4. In(k)' = In(k) \cup {d} /\ IsInjective(buffers'[k])
      BY <1>7, <2>2, <2>3, AppendedSet DEF In, KeptInv, Unrepeated
    <2>5. \A l \in Keys : l # k => In(l)' = In(l)
      BY <2>3 DEF In
    <2>6. Together'
      BY <1>2, <1>5, <1>6, <1>8, <2>4, <2>5 DEF KeptInv, Together
    <2>7. Apart'
      BY <1>2, <1>6, <1>7, <2>4, <2>5 DEF KeptInv, Apart
    <2>8. Unrepeated'
      BY <1>2, <2>3, <2>4 DEF KeptInv, Unrepeated
    <2> QED BY <2>6, <2>7, <2>8 DEF KeptInv
  <1>9. CASE p = "rejected"
    <2>1. buffers' = buffers /\ \A k \in Keys : In(k)' = In(k)
      BY <1>1, <1>9 DEF DownloadFails, In
    <2>2. Together'
      BY <1>2, <1>5, <1>6, <1>9, <2>1 DEF KeptInv, Together
    <2> QED BY <1>2, <1>6, <2>1, <2>2 DEF KeptInv, Apart, Unrepeated
  <1> QED BY <1>8, <1>9

\* What a buffer held goes into one turn, and the buffer is empty.
LEMMA FlushKeeps ==
    ASSUME TypeInv, KeptInv, NEW k \in Keys, Flush(k)
    PROVE  KeptInv'
  <1>1. Chained(buffers[k]) /\ buffers' = [buffers EXCEPT ![k] = <<>>] /\ accepted' = accepted
    BY DEF Flush, Emptied
  <1>2. buffers \in [Keys -> Seq(Nat)] /\ buffers[k] \in Seq(Nat)
    BY DEF TypeInv, Typed
  <1>3. PICK n : /\ DOMAIN turns' = DOMAIN turns \cup {n} /\ n \notin DOMAIN turns
                 /\ turns'[n].members = buffers[k]
                 /\ \A i \in DOMAIN turns : turns'[i].members = turns[i].members
    BY <1>1, <1>2, TakenByNew
  <1>4. buffers'[k] = <<>> /\ \A l \in Keys : l # k => buffers'[l] = buffers[l]
    BY <1>1, <1>2
  <1>5. In(k)' = {} /\ \A l \in Keys : l # k => In(l)' = In(l)
    BY <1>4, EmptySet DEF In
  <1>6. Taken(n)' = In(k) /\ \A i \in DOMAIN turns : Taken(i)' = Taken(i)
    BY <1>3 DEF Taken, In
  <1>7. Held' = Held
    BY <1>1 DEF Held, Deliveries
  <1>8. Together'
    BY <1>3, <1>5, <1>6, <1>7 DEF KeptInv, Together
  <1>9. Apart'
    BY <1>3, <1>5, <1>6 DEF KeptInv, Apart
  <1>10. Unrepeated'
    BY <1>3, <1>4, EmptySet DEF KeptInv, Unrepeated
  <1> QED BY <1>8, <1>9, <1>10 DEF KeptInv

\* media-group-buffer.ts, runExclusiveForThread: for any updates, delivered any number of times,
\* what has come in is in one turn or one buffer, once, whatever fails.
THEOREM KeptInOnePlace == Spec => []KeptOnce
  <1>1. Init => KeptInv
    <2> SUFFICES ASSUME Init PROVE KeptInv
      OBVIOUS
    <2>1. Held = {} /\ DOMAIN turns = {} /\ \A k \in Keys : In(k) = {} /\ IsInjective(buffers[k])
      BY EmptySet DEF Init, Held, Deliveries, In
    <2> QED BY <2>1 DEF KeptInv, Together, Apart, Unrepeated
  <1>2. TypeInv /\ KeptInv /\ [Next]_vars => KeptInv'
    <2> SUFFICES ASSUME TypeInv, KeptInv, [Next]_vars PROVE KeptInv'
      OBVIOUS
    <2>1. CASE UNCHANGED vars
      BY <2>1 DEF vars, KeptInv, Together, Apart, Unrepeated, Held, Deliveries, In, Taken
    <2>2. ASSUME NEW i \in DOMAIN turns, TurnStep(i) PROVE KeptInv'
      <3>1. PICK t : TurnMoves(i, t)
        BY <2>2, TurnStepFacts DEF TypeInv
      <3>2. /\ DOMAIN turns' = DOMAIN turns /\ UNCHANGED <<accepted, buffers>>
            /\ \A j \in DOMAIN turns : turns'[j] = IF j = i THEN t ELSE turns[j]
        BY <3>1, Replaced DEF TurnMoves, Goes, TypeInv, Typed
      <3>3. \A j \in DOMAIN turns : turns'[j].members = turns[j].members
        BY <3>1, <3>2 DEF TurnMoves
      <3>4. /\ Held' = Held /\ \A k \in Keys : In(k)' = In(k)
            /\ \A j \in DOMAIN turns : Taken(j)' = Taken(j)
        BY <3>2, <3>3 DEF Held, Deliveries, In, Taken
      <3>5. Together'
        BY <3>2, <3>4 DEF KeptInv, Together
      <3>6. Apart'
        BY <3>2, <3>4 DEF KeptInv, Apart
      <3> QED BY <3>2, <3>3, <3>5, <3>6 DEF KeptInv, Unrepeated
    <2>3. CASE Crash
      <3>1. turns' = <<>> /\ \A k \in Keys : buffers'[k] = <<>>
        BY <2>3 DEF Crash
      <3>2. Held' = {}
        <4>1. \A d \in DOMAIN accepted' : accepted'[d].at = "lost"
          <5>1. \A d \in Deliveries : accepted[d] \in Delivery
            BY DEF TypeInv, Typed, Deliveries
          <5>2. DOMAIN accepted' = Deliveries /\ \A d \in Deliveries : accepted'[d] = [accepted[d] EXCEPT !.at = "lost"]
            BY <2>3 DEF Crash
          <5> QED BY <5>1, <5>2 DEF Delivery
        <4> QED BY <4>1 DEF Held, Deliveries
      <3>3. DOMAIN turns' = {} /\ \A k \in Keys : In(k)' = {} /\ IsInjective(buffers'[k])
        BY <3>1, EmptySet DEF In
      <3> QED BY <3>2, <3>3 DEF KeptInv, Together, Apart, Unrepeated
    <2> QED
      BY <2>1, <2>2, <2>3, DeliverFacts, AcceptsKeeps, DownloadKeeps, FlushKeeps DEF Next, AdapterStep
  <1> QED BY <1>1, <1>2, KeptIsOnce, TypesHold, PTL DEF Spec

(***************************************************************************)
(* splitMessage.                                                           *)
(***************************************************************************)
Nothing == [chunks |-> <<>>, current |-> <<>>]

\* The loop's results are well defined.
LEMMA SplitIs ==
    ASSUME NEW reply, Len(reply) \in Nat
    PROVE  \A n \in 0..Len(reply) :
              Split(reply)[n] = IF n = 0 THEN Nothing ELSE LineAdded(Split(reply)[n - 1], n, reply[n])
  <1> DEFINE Is(f, m) == f = [n \in 0..m |-> IF n = 0 THEN Nothing ELSE LineAdded(f[n - 1], n, reply[n])]
             T == {m \in Nat : \E f : Is(f, m)}
  <1>1. 0 \in T
    <2> DEFINE f == [n \in 0..0 |-> Nothing]
    <2>1. Is(f, 0)
      OBVIOUS
    <2> QED BY <2>1
  <1>2. ASSUME NEW m \in T PROVE m + 1 \in T
    <2>1. PICK f : Is(f, m)
      BY <1>2
    <2> DEFINE g == [n \in 0..(m + 1) |-> IF n = m + 1 THEN LineAdded(f[m], m + 1, reply[m + 1]) ELSE f[n]]
    <2>2. ASSUME NEW n \in 0..(m + 1)
          PROVE  g[n] = IF n = 0 THEN Nothing ELSE LineAdded(g[n - 1], n, reply[n])
      <3>1. CASE n = m + 1
        <4>1. g[n - 1] = f[m] /\ n # 0
          BY <3>1
        <4> QED BY <3>1, <4>1
      <3>2. CASE n # m + 1
        <4>1. n \in 0..m /\ g[n] = f[n] /\ (n # 0 => g[n - 1] = f[n - 1])
          BY <3>2
        <4>2. f[n] = IF n = 0 THEN Nothing ELSE LineAdded(f[n - 1], n, reply[n])
          BY <2>1, <4>1
        <4> QED BY <4>1, <4>2
      <3> QED BY <3>1, <3>2
    <2>3. Is(g, m + 1)
      BY <2>2
    <2>4. \E h : Is(h, m + 1)
      <3> HIDE DEF g, Is
      <3> QED BY <2>3
    <2> HIDE DEF Is
    <2> QED BY <2>4
  <1>3. T = Nat
    <2> HIDE DEF T
    <2>1. T \in SUBSET Nat
      BY DEF T
    <2> QED BY <1>1, <1>2, <2>1, Induction
  <1>4. \E f : Is(f, Len(reply))
    <2> HIDE DEF Is
    <2> QED BY <1>3
  <1>5. Is(Split(reply), Len(reply))
    BY <1>4 DEF Split, Nothing
  <1> HIDE DEF T
  <1>6. ASSUME NEW n \in 0..Len(reply)
        PROVE  Split(reply)[n] = IF n = 0 THEN Nothing ELSE LineAdded(Split(reply)[n - 1], n, reply[n])
    BY <1>5
  <1> QED BY <1>6

Pieces == [line : Nat, from : Nat, to : Nat]

\* The messages C cut the characters T: each fits, they come in order and say them all.
Cut(C, T) == C \in Seq(Seq(Pieces)) /\ Fit(C) /\ Ordered(C) /\ SaidBy(C) = T

LEMMA EmptyCut == Cut(<<>>, {})
  BY DEF Cut, Fit, Ordered, SaidBy

\* Messages that cut what comes after are put behind.
LEMMA Joined ==
    ASSUME NEW S, NEW T, NEW C, NEW D, Cut(C, S), Cut(D, T), AllBefore(S, T)
    PROVE  Cut(C \o D, S \cup T)
  <1> DEFINE E == C \o D
  <1>1. /\ C \in Seq(Seq(Pieces)) /\ Fit(C) /\ Ordered(C) /\ SaidBy(C) = S
        /\ D \in Seq(Seq(Pieces)) /\ Fit(D) /\ Ordered(D) /\ SaidBy(D) = T
    BY DEF Cut
  <1>2. /\ E \in Seq(Seq(Pieces)) /\ Len(E) = Len(C) + Len(D) /\ Len(C) \in Nat /\ Len(D) \in Nat
        /\ DOMAIN C = 1..Len(C) /\ DOMAIN D = 1..Len(D) /\ DOMAIN E = 1..(Len(C) + Len(D))
        /\ \A k \in 1..Len(C) : E[k] = C[k]
        /\ \A k \in 1..Len(D) : E[Len(C) + k] = D[k]
    BY <1>1
  <1> HIDE DEF E
  <1>3. ASSUME NEW k \in DOMAIN E
        PROVE  \/ k \in DOMAIN C /\ E[k] = C[k]
               \/ k - Len(C) \in DOMAIN D /\ E[k] = D[k - Len(C)]
    <2>1. CASE k <= Len(C)
      BY <1>2, <2>1
    <2>2. CASE k > Len(C)
      <3>1. k - Len(C) \in 1..Len(D) /\ Len(C) + (k - Len(C)) = k
        BY <1>2, <2>2
      <3> QED BY <1>2, <3>1
    <2> QED BY <1>2, <2>1, <2>2
  <1>4. Fit(E)
    BY <1>1, <1>3 DEF Fit
  <1>5. SaidBy(E) = S \cup T
    <2>1. ASSUME NEW x \in SaidBy(E) PROVE x \in S \cup T
      <3>1. PICK k \in DOMAIN E : x \in Said(E[k])
        BY DEF SaidBy
      <3> QED BY <1>1, <1>3, <3>1 DEF SaidBy
    <2>2. ASSUME NEW x \in S PROVE x \in SaidBy(E)
      <3>1. PICK k \in DOMAIN C : x \in Said(C[k])
        BY <1>1 DEF SaidBy
      <3>2. k \in DOMAIN E /\ E[k] = C[k]
        BY <1>2
      <3> QED BY <3>1, <3>2 DEF SaidBy
    <2>3. ASSUME NEW x \in T PROVE x \in SaidBy(E)
      <3>1. PICK k \in DOMAIN D : x \in Said(D[k])
        BY <1>1 DEF SaidBy
      <3>2. Len(C) + k \in DOMAIN E /\ E[Len(C) + k] = D[k]
        BY <1>2
      <3> QED BY <3>1, <3>2 DEF SaidBy
    <2> QED BY <2>1, <2>2, <2>3
  <1>6. \A k \in DOMAIN C : Said(C[k]) \subseteq S
    BY <1>1 DEF SaidBy
  <1>7. \A k \in DOMAIN D : Said(D[k]) \subseteq T
    BY <1>1 DEF SaidBy
  <1>8. ASSUME NEW k \in DOMAIN E, NEW l \in DOMAIN E, k < l
        PROVE  AllBefore(Said(E[k]), Said(E[l]))
    <2>1. CASE l <= Len(C)
      <3>1. k \in DOMAIN C /\ l \in DOMAIN C /\ E[k] = C[k] /\ E[l] = C[l]
        BY <1>2, <1>8, <2>1
      <3> QED BY <1>1, <1>8, <3>1 DEF Ordered
    <2>2. CASE k > Len(C)
      <3>1. k \notin DOMAIN C /\ l \notin DOMAIN C
        BY <1>2, <1>8, <2>2
      <3>2. k - Len(C) \in DOMAIN D /\ E[k] = D[k - Len(C)]
        BY <1>3, <3>1
      <3>3. l - Len(C) \in DOMAIN D /\ E[l] = D[l - Len(C)]
        BY <1>3, <3>1
      <3>4. k - Len(C) < l - Len(C)
        BY <1>2, <1>8
      <3> QED BY <1>1, <3>2, <3>3, <3>4 DEF Ordered
    <2>3. CASE k <= Len(C) /\ l > Len(C)
      <3>1. /\ k \in DOMAIN C /\ l - Len(C) \in DOMAIN D /\ Len(C) + (l - Len(C)) = l
        BY <1>2, <2>3
      <3>2. E[k] = C[k] /\ E[l] = D[l - Len(C)]
        BY <1>2, <3>1
      <3>3. Said(E[k]) \subseteq S /\ Said(E[l]) \subseteq T
        BY <1>6, <1>7, <3>1, <3>2
      <3> QED BY <3>3 DEF AllBefore
    <2> QED BY <1>2, <2>1, <2>2, <2>3
  <1>9. ASSUME NEW k \in DOMAIN E, NEW m \in DOMAIN E[k], NEW n \in DOMAIN E[k], m < n
        PROVE  AllBefore(Characters(E[k][m]), Characters(E[k][n]))
    BY <1>1, <1>3, <1>9 DEF Ordered
  <1>10. Ordered(E)
    BY <1>8, <1>9 DEF Ordered
  <1> QED BY <1>2, <1>4, <1>5, <1>10 DEF Cut, E

\* A message of its own.
LEMMA OneCut ==
    ASSUME NEW chunk \in Seq(Pieces), Size(chunk) <= MaxLength,
           \A m, n \in DOMAIN chunk : m < n => AllBefore(Characters(chunk[m]), Characters(chunk[n]))
    PROVE  Cut(<<chunk>>, Said(chunk))
  <1> DEFINE C == <<chunk>>
  <1>1. C \in Seq(Seq(Pieces)) /\ DOMAIN C = {1} /\ C[1] = chunk
    OBVIOUS
  <1> HIDE DEF C
  <1>2. Fit(C) /\ SaidBy(C) = Said(chunk)
    BY <1>1 DEF Fit, SaidBy
  <1>3. Ordered(C)
    <2>1. \A k, l \in DOMAIN C : ~(k < l)
      BY <1>1
    <2> QED BY <1>1, <2>1 DEF Ordered
  <1> QED BY <1>1, <1>2, <1>3 DEF Cut, C

\* The last message by itself.
LEMMA Parted ==
    ASSUME NEW S, NEW C \in Seq(Seq(Pieces)), NEW chunk \in Seq(Pieces), Cut(C \o <<chunk>>, S)
    PROVE  /\ Cut(C, SaidBy(C)) /\ AllBefore(SaidBy(C), Said(chunk))
           /\ S = SaidBy(C) \cup Said(chunk)
           /\ \A m, n \in DOMAIN chunk : m < n => AllBefore(Characters(chunk[m]), Characters(chunk[n]))
  <1> DEFINE E == C \o <<chunk>>
             z == Len(C) + 1
  <1>1. /\ Len(C) \in Nat /\ DOMAIN C = 1..Len(C) /\ DOMAIN E = 1..z
        /\ \A k \in 1..Len(C) : E[k] = C[k]
        /\ E[z] = chunk
    OBVIOUS
  <1>2. E \in Seq(Seq(Pieces)) /\ Fit(E) /\ Ordered(E) /\ SaidBy(E) = S
    BY DEF Cut
  <1>3. \A k \in DOMAIN C : k \in DOMAIN E /\ E[k] = C[k] /\ k < z
    BY <1>1
  <1>4. z \in DOMAIN E
    BY <1>1
  <1>5. \A k \in DOMAIN E : k # z => k \in DOMAIN C
    BY <1>1
  <1> HIDE DEF E, z
  <1>6. Fit(C)
    BY <1>2, <1>3 DEF Fit
  <1>7. Ordered(C)
    BY <1>2, <1>3 DEF Ordered
  <1>8. AllBefore(SaidBy(C), Said(chunk))
    <2>1. ASSUME NEW k \in DOMAIN C PROVE AllBefore(Said(C[k]), Said(chunk))
      BY <1>1, <1>2, <1>3, <1>4 DEF Ordered
    <2> QED BY <2>1 DEF AllBefore, SaidBy
  <1>9. S = SaidBy(C) \cup Said(chunk)
    <2>1. ASSUME NEW x \in S PROVE x \in SaidBy(C) \cup Said(chunk)
      <3>1. PICK k \in DOMAIN E : x \in Said(E[k])
        BY <1>2 DEF SaidBy
      <3> QED BY <1>1, <1>3, <1>5, <3>1 DEF SaidBy
    <2>2. ASSUME NEW x \in SaidBy(C) PROVE x \in S
      <3>1. PICK k \in DOMAIN C : x \in Said(C[k])
        BY DEF SaidBy
      <3>2. k \in DOMAIN E /\ x \in Said(E[k])
        BY <1>3, <3>1
      <3> QED BY <1>2, <3>2 DEF SaidBy
    <2>3. Said(chunk) \subseteq S
      BY <1>1, <1>2, <1>4 DEF SaidBy
    <2> QED BY <2>1, <2>2, <2>3
  <1>10. \A m, n \in DOMAIN chunk : m < n => AllBefore(Characters(chunk[m]), Characters(chunk[n]))
    BY <1>1, <1>2, <1>4 DEF Ordered
  <1> QED BY <1>6, <1>7, <1>8, <1>9, <1>10 DEF Cut

\* A piece of a line.
LEMMA PieceFacts ==
    ASSUME NEW i \in Nat, NEW a \in Nat, NEW b \in Nat, a <= b + 1
    PROVE  LET chunk == <<Piece(i, a, b)>>
           IN /\ Piece(i, a, b) \in Pieces /\ chunk \in Seq(Pieces)
              /\ Characters(Piece(i, a, b)) = {i} \X (a..b)
              /\ Said(chunk) = {i} \X (a..b) /\ Size(chunk) = b - a + 1
              /\ \A m, n \in DOMAIN chunk : ~(m < n)
  <1> DEFINE p == Piece(i, a, b)
             chunk == <<p>>
  <1>1. p \in Pieces /\ p.line = i /\ p.from = a /\ p.to = b
    BY DEF Piece, Pieces
  <1>2. Characters(p) = {i} \X (a..b)
    BY <1>1 DEF Characters
  <1> HIDE DEF p
  <1>3. chunk \in Seq(Pieces) /\ DOMAIN chunk = {1} /\ chunk[1] = p /\ chunk # <<>> /\ Len(chunk) = 1
    BY <1>1
  <1> HIDE DEF chunk
  <1>4. Said(chunk) = {i} \X (a..b)
    BY <1>2, <1>3 DEF Said
  <1>5. Size(chunk) = Cardinality({1} \X ({i} \X (a..b)))
    <2>1. UNION {{n} \X Characters(chunk[n]) : n \in DOMAIN chunk} = {1} \X ({i} \X (a..b))
      BY <1>2, <1>3
    <2>2. Newlines(chunk) = 0
      BY <1>3 DEF Newlines
    <2>3. Size(chunk) = Cardinality({1} \X ({i} \X (a..b))) + 0
      BY <2>1, <2>2 DEF Size
    <2>4. IsFiniteSet(a..b) /\ IsFiniteSet({i}) /\ IsFiniteSet({1})
      <3>1. IsFiniteSet(a..b)
        BY FS_Interval
      <3> QED BY <3>1, FS_Singleton
    <2>5. IsFiniteSet({1} \X ({i} \X (a..b)))
      BY <2>4, FS_Product
    <2>6. Cardinality({1} \X ({i} \X (a..b))) \in Nat
      BY <2>5, FS_CardinalityType
    <2> QED BY <2>3, <2>6
  <1>6. Cardinality({1} \X ({i} \X (a..b))) = b - a + 1
    <2>1. IsFiniteSet(a..b) /\ Cardinality(a..b) = b - a + 1
      <3>1. a \in Int /\ b \in Int
        OBVIOUS
      <3>2. IsFiniteSet(a..b) /\ Cardinality(a..b) = IF a > b THEN 0 ELSE b - a + 1
        BY <3>1, FS_Interval
      <3> QED BY <3>2
    <2>2. \A x : IsFiniteSet({x}) /\ Cardinality({x}) = 1
      BY FS_Singleton
    <2>3. ASSUME NEW x, NEW S, IsFiniteSet(S)
          PROVE  IsFiniteSet({x} \X S) /\ Cardinality({x} \X S) = Cardinality(S)
      <3>1. IsFiniteSet({x} \X S) /\ Cardinality({x} \X S) = Cardinality({x}) * Cardinality(S)
        BY <2>2, <2>3, FS_Product, Zenon
      <3>2. Cardinality(S) \in Nat
        BY <2>3, FS_CardinalityType
      <3>3. Cardinality({x} \X S) = 1 * Cardinality(S)
        BY <2>2, <3>1, Zenon
      <3> QED BY <3>1, <3>2, <3>3
    <2>4. IsFiniteSet({i} \X (a..b)) /\ Cardinality({i} \X (a..b)) = Cardinality(a..b)
      BY <2>1, <2>3
    <2> QED BY <2>1, <2>3, <2>4
  <1>7. \A m, n \in DOMAIN chunk : ~(m < n)
    BY <1>3
  <1> QED BY <1>1, <1>2, <1>3, <1>4, <1>5, <1>6, <1>7 DEF p, chunk

\* A stretch of a line that fits is a message.
LEMMA PieceCut ==
    ASSUME NEW i \in Nat, NEW a \in Nat, NEW b \in Nat, a <= b + 1, b - a + 1 <= MaxLength
    PROVE  Cut(<<<<Piece(i, a, b)>>>>, {i} \X (a..b))
  <1> DEFINE chunk == <<Piece(i, a, b)>>
  <1>1. /\ chunk \in Seq(Pieces) /\ Said(chunk) = {i} \X (a..b) /\ Size(chunk) <= MaxLength
        /\ \A m, n \in DOMAIN chunk : ~(m < n)
    BY PieceFacts
  <1> HIDE DEF chunk
  <1>2. Cut(<<chunk>>, Said(chunk))
    BY <1>1, OneCut
  <1> QED BY <1>1, <1>2 DEF chunk

LEMMA LineCut ==
    ASSUME NEW i \in Nat, NEW n \in 0..MaxLength
    PROVE  Cut(Flushed(Fresh(i, n)), {i} \X (1..n)) /\ Fresh(i, n) \in Seq(Pieces)
  <1>1. CASE n = 0
    <2>1. Fresh(i, n) = <<>> /\ Flushed(<<>>) = <<>> /\ {i} \X (1..n) = {}
      BY <1>1 DEF Fresh, Flushed
    <2>2. Cut(Flushed(Fresh(i, n)), {i} \X (1..n))
      BY <2>1, EmptyCut
    <2>3. Fresh(i, n) \in Seq(Pieces)
      BY <2>1
    <2> QED BY <2>2, <2>3
  <1>2. CASE n # 0
    <2>1. Fresh(i, n) = <<Piece(i, 1, n)>> /\ Fresh(i, n) # <<>>
      BY <1>2 DEF Fresh
    <2>2. Flushed(Fresh(i, n)) = <<<<Piece(i, 1, n)>>>>
      BY <2>1 DEF Flushed
    <2>3. Piece(i, 1, n) \in Pieces
      BY DEF Piece, Pieces
    <2> QED BY <2>1, <2>2, <2>3, PieceCut
  <1> QED BY <1>1, <1>2

\* What k * MaxLength and its neighbours are to each other.
LEMMA Multiples ==
    ASSUME NEW j \in Nat, NEW k \in Nat, j <= k
    PROVE  j * MaxLength <= k * MaxLength /\ j * MaxLength \in Nat
  OBVIOUS

LEMMA Quotients ==
    ASSUME NEW x \in Nat
    PROVE  LET k == (x + MaxLength - 1) \div MaxLength
           IN k \in Nat /\ (k - 1) * MaxLength < x /\ x <= k * MaxLength
  OBVIOUS

\* A line longer than a message is cut to stretches of it.
LEMMA HardCut ==
    ASSUME NEW i \in Nat, NEW n \in Nat, n > MaxLength
    PROVE  Cut(HardSplit(i, n), {i} \X (1..n))
  <1> DEFINE K == (n + MaxLength - 1) \div MaxLength
             A(k) == (k - 1) * MaxLength + 1
             B(k) == IF k * MaxLength < n THEN k * MaxLength ELSE n
             C == HardSplit(i, n)
  <1>1. K \in Nat /\ (K - 1) * MaxLength < n /\ n <= K * MaxLength
    BY Quotients
  <1>2. ASSUME NEW k \in 1..K
        PROVE  /\ A(k) \in Nat /\ B(k) \in Nat /\ A(k) <= B(k) + 1 /\ B(k) - A(k) + 1 <= MaxLength
               /\ 1 <= A(k) /\ B(k) <= n
    <2>1. (k - 1) * MaxLength <= (K - 1) * MaxLength /\ (k - 1) * MaxLength \in Nat
      BY <1>1, Multiples
    <2>2. k * MaxLength = (k - 1) * MaxLength + MaxLength
      OBVIOUS
    <2> QED BY <1>1, <2>1, <2>2
  <1>3. C = [k \in 1..K |-> <<Piece(i, A(k), B(k))>>]
    BY DEF HardSplit
  <1> HIDE DEF K, A, B
  <1>4. ASSUME NEW k \in 1..K
        PROVE  /\ C[k] \in Seq(Pieces) /\ Said(C[k]) = {i} \X (A(k)..B(k)) /\ Size(C[k]) <= MaxLength
               /\ \A m, l \in DOMAIN C[k] : ~(m < l)
    BY <1>2, <1>3, PieceFacts
  <1>5. C \in Seq(Seq(Pieces)) /\ DOMAIN C = 1..K
    BY <1>1, <1>3, <1>4
  <1> HIDE DEF C
  <1>6. Fit(C)
    BY <1>4, <1>5 DEF Fit
  <1>7. ASSUME NEW k \in 1..K, NEW l \in 1..K, k < l PROVE B(k) < A(l)
    <2>1. k * MaxLength <= (l - 1) * MaxLength
      BY <1>7, Multiples
    <2>2. k * MaxLength \in Int /\ (l - 1) * MaxLength \in Int
      OBVIOUS
    <2> QED BY <2>1, <2>2 DEF A, B
  <1>8. Ordered(C)
    <2>1. ASSUME NEW k \in 1..K, NEW l \in 1..K, k < l PROVE AllBefore(Said(C[k]), Said(C[l]))
      <3>1. ASSUME NEW c \in {i} \X (A(k)..B(k)), NEW d \in {i} \X (A(l)..B(l)) PROVE Before(c, d)
        <4>1. B(k) < A(l) /\ A(k) \in Nat /\ B(k) \in Nat /\ A(l) \in Nat /\ B(l) \in Nat
          BY <1>2, <1>7, <2>1
        <4>2. c[1] = d[1] /\ c[2] \in A(k)..B(k) /\ d[2] \in A(l)..B(l)
          OBVIOUS
        <4>3. c[2] < d[2]
          BY <4>1, <4>2
        <4> QED BY <4>2, <4>3 DEF Before
      <3>2. Said(C[k]) = {i} \X (A(k)..B(k)) /\ Said(C[l]) = {i} \X (A(l)..B(l))
        BY <1>4
      <3> QED BY <3>1, <3>2 DEF AllBefore
    <2> QED BY <1>4, <1>5, <2>1 DEF Ordered
  <1>9. SaidBy(C) = {i} \X (1..n)
    <2>1. ASSUME NEW k \in 1..K PROVE Said(C[k]) \subseteq {i} \X (1..n)
      BY <1>2, <1>4
    <2>2. ASSUME NEW x \in 1..n PROVE \E k \in 1..K : x \in A(k)..B(k)
      <3> DEFINE k == (x + MaxLength - 1) \div MaxLength
      <3>1. k \in Nat /\ (k - 1) * MaxLength < x /\ x <= k * MaxLength
        <4>1. x \in Nat
          OBVIOUS
        <4> QED BY <4>1, Quotients
      <3> HIDE DEF k
      <3>2. k > 0
        <4>1. k = 0 => k * MaxLength = 0
          OBVIOUS
        <4> QED BY <3>1, <4>1
      <3>3. k <= K
        <4>1. CASE k > K
          <5>1. K * MaxLength <= (k - 1) * MaxLength
            BY <1>1, <3>1, <4>1, Multiples
          <5>2. K * MaxLength \in Int /\ (k - 1) * MaxLength \in Int
            BY <1>1, <3>1
          <5> QED BY <1>1, <3>1, <5>1, <5>2
        <4> QED BY <1>1, <3>1, <4>1
      <3>4. x \in A(k)..B(k)
        <4>1. k * MaxLength \in Int /\ (k - 1) * MaxLength \in Int
          BY <3>1
        <4> QED BY <3>1, <4>1 DEF A, B
      <3> QED BY <1>1, <3>1, <3>2, <3>3, <3>4
    <2>3. SaidBy(C) \subseteq {i} \X (1..n)
      BY <1>5, <2>1 DEF SaidBy
    <2>4. ASSUME NEW c \in {i} \X (1..n) PROVE c \in SaidBy(C)
      <3>1. PICK x \in 1..n : c = <<i, x>>
        OBVIOUS
      <3>2. PICK k \in 1..K : x \in A(k)..B(k)
        BY <2>2
      <3>3. c \in Said(C[k])
        BY <1>4, <3>1, <3>2
      <3> QED BY <1>5, <3>3 DEF SaidBy
    <2> QED BY <2>3, <2>4
  <1> QED BY <1>5, <1>6, <1>8, <1>9 DEF Cut, C

\* A line that fits behind the last message.
LEMMA Grown ==
    ASSUME NEW S, NEW C \in Seq(Seq(Pieces)), NEW chunk \in Seq(Pieces), NEW p \in Pieces,
           Cut(C \o <<chunk>>, S), Size(Append(chunk, p)) <= MaxLength, AllBefore(S, Characters(p))
    PROVE  Cut(C \o <<Append(chunk, p)>>, S \cup Characters(p))
  <1> DEFINE grown == Append(chunk, p)
             z == Len(chunk) + 1
  <1>1. /\ Cut(C, SaidBy(C)) /\ AllBefore(SaidBy(C), Said(chunk))
        /\ S = SaidBy(C) \cup Said(chunk)
        /\ \A m, n \in DOMAIN chunk : m < n => AllBefore(Characters(chunk[m]), Characters(chunk[n]))
    BY Parted
  <1>2. /\ grown \in Seq(Pieces) /\ DOMAIN grown = DOMAIN chunk \cup {z} /\ grown[z] = p
        /\ \A m \in DOMAIN chunk : grown[m] = chunk[m] /\ m < z /\ ~(z < m)
        /\ ~(z < z)
    BY Appended
  <1>3. Size(grown) <= MaxLength
    OBVIOUS
  <1> HIDE DEF grown, z
  <1>4. Said(grown) = Said(chunk) \cup Characters(p)
    BY <1>2 DEF Said
  <1>5. \A m \in DOMAIN chunk : Characters(chunk[m]) \subseteq S
    BY <1>1 DEF Said
  <1>6. ASSUME NEW m \in DOMAIN grown, NEW n \in DOMAIN grown, m < n
        PROVE  AllBefore(Characters(grown[m]), Characters(grown[n]))
    <2>1. CASE n = z
      <3>1. m \in DOMAIN chunk /\ grown[m] = chunk[m] /\ grown[n] = p
        BY <1>2, <1>6, <2>1
      <3> QED BY <1>5, <3>1 DEF AllBefore
    <2>2. CASE n # z
      <3>1. n \in DOMAIN chunk /\ m \in DOMAIN chunk
        BY <1>2, <1>6, <2>2
      <3> QED BY <1>1, <1>2, <1>6, <3>1
    <2> QED BY <2>1, <2>2
  <1>7. Cut(<<grown>>, Said(grown))
    BY <1>2, <1>3, <1>6, OneCut
  <1>8. AllBefore(SaidBy(C), Said(grown))
    BY <1>1, <1>4 DEF AllBefore
  <1>9. Cut(C \o <<grown>>, SaidBy(C) \cup Said(grown))
    BY <1>1, <1>7, <1>8, Joined
  <1>10. SaidBy(C) \cup Said(grown) = S \cup Characters(p)
    BY <1>1, <1>4
  <1> QED BY <1>9, <1>10 DEF grown

Loop == [chunks : Seq(Seq(Pieces)), current : Seq(Pieces)]
AllOf(acc) == acc.chunks \o Flushed(acc.current)

\* One line of the loop: what there is so far, and the line.
LEMMA LineAddedCuts ==
    ASSUME NEW S, NEW acc \in Loop, NEW i \in Nat, NEW n \in Nat,
           Cut(AllOf(acc), S), AllBefore(S, {i} \X (1..n))
    PROVE  LineAdded(acc, i, n) \in Loop /\ Cut(AllOf(LineAdded(acc, i, n)), S \cup ({i} \X (1..n)))
  <1> DEFINE line == {i} \X (1..n)
             added == LineAdded(acc, i, n)
             Test == IF acc.current = <<>> THEN Fresh(i, n) ELSE Append(acc.current, Piece(i, 1, n))
  <1>1. acc.chunks \in Seq(Seq(Pieces)) /\ acc.current \in Seq(Pieces) /\ Piece(i, 1, n) \in Pieces
    BY DEF Loop, Piece, Pieces
  <1>2. AllOf(acc) \in Seq(Seq(Pieces))
    BY DEF Cut
  <1>3. ASSUME NEW D, Cut(D, line) PROVE Cut(AllOf(acc) \o D, S \cup line)
    BY <1>3, Joined
  <1>4. \A D : Cut(D, line) => D \in Seq(Seq(Pieces))
    BY DEF Cut
  <1>5. /\ Flushed(<<>>) = <<>> /\ <<>> \in Seq(Pieces)
        /\ \A D \in Seq(Seq(Pieces)) : D \o <<>> = D
    BY DEF Flushed
  <1>6. \A C, D : C \in Seq(Seq(Pieces)) /\ D \in Seq(Pieces) => [chunks |-> C, current |-> D] \in Loop
    BY DEF Loop
  <1> HIDE DEF line
  <1>7. CASE n > MaxLength
    <2>1. Cut(HardSplit(i, n), line)
      BY <1>7, HardCut DEF line
    <2>2. added = [chunks |-> AllOf(acc) \o HardSplit(i, n), current |-> <<>>]
      BY <1>7 DEF LineAdded, AllOf
    <2>3. Cut(AllOf(acc) \o HardSplit(i, n), S \cup line)
      BY <1>3, <2>1
    <2>4. AllOf(acc) \o HardSplit(i, n) \in Seq(Seq(Pieces))
      BY <2>3 DEF Cut
    <2>5. added.chunks = AllOf(acc) \o HardSplit(i, n) /\ added.current = <<>>
      BY <2>2
    <2>6. AllOf(added) = AllOf(acc) \o HardSplit(i, n)
      BY <1>5, <2>4, <2>5 DEF AllOf
    <2>7. added \in Loop
      <3>1. [chunks |-> AllOf(acc) \o HardSplit(i, n), current |-> <<>>] \in Loop
        BY <1>5, <2>4 DEF Loop
      <3> QED BY <2>2, <3>1
    <2> QED BY <2>3, <2>6, <2>7 DEF line
  <1>8. CASE ~(n > MaxLength) /\ Size(Test) <= MaxLength
    <2>1. added = [acc EXCEPT !.current = Test]
      BY <1>8 DEF LineAdded
    <2>2. CASE acc.current = <<>>
      <3>1. Cut(Flushed(Fresh(i, n)), line) /\ Fresh(i, n) \in Seq(Pieces)
        BY <1>8, LineCut DEF line
      <3>2. added.chunks = acc.chunks /\ added.current = Fresh(i, n) /\ added \in Loop
        BY <2>1, <2>2, <3>1 DEF Loop
      <3>3. AllOf(acc) = acc.chunks
        BY <1>1, <1>5, <2>2 DEF AllOf
      <3>4. AllOf(added) = AllOf(acc) \o Flushed(Fresh(i, n))
        BY <3>2, <3>3 DEF AllOf
      <3> QED BY <1>3, <3>1, <3>2, <3>4 DEF line
    <2>3. CASE acc.current # <<>>
      <3>1. Test = Append(acc.current, Piece(i, 1, n)) /\ Test # <<>> /\ Test \in Seq(Pieces)
        BY <1>1, <2>3
      <3>2. added.chunks = acc.chunks /\ added.current = Test /\ added \in Loop
        BY <2>1, <3>1 DEF Loop
      <3>3. AllOf(acc) = acc.chunks \o <<acc.current>>
        BY <2>3 DEF AllOf, Flushed
      <3>4. AllOf(added) = acc.chunks \o <<Append(acc.current, Piece(i, 1, n))>>
        BY <3>1, <3>2 DEF AllOf, Flushed
      <3>5. Characters(Piece(i, 1, n)) = line
        BY DEF Characters, Piece, line
      <3>6. Cut(acc.chunks \o <<acc.current>>, S) /\ AllBefore(S, Characters(Piece(i, 1, n)))
        BY <3>3, <3>5 DEF line
      <3>7. Size(Append(acc.current, Piece(i, 1, n))) <= MaxLength
        BY <1>8, <3>1
      <3>8. Cut(acc.chunks \o <<Append(acc.current, Piece(i, 1, n))>>, S \cup Characters(Piece(i, 1, n)))
        BY <1>1, <3>6, <3>7, Grown
      <3> QED BY <3>2, <3>4, <3>5, <3>8 DEF line
    <2> QED BY <2>2, <2>3
  <1>9. CASE ~(n > MaxLength) /\ ~(Size(Test) <= MaxLength)
    <2>1. added = [chunks |-> AllOf(acc), current |-> Fresh(i, n)]
      BY <1>9 DEF LineAdded, AllOf
    <2>2. Cut(Flushed(Fresh(i, n)), line) /\ Fresh(i, n) \in Seq(Pieces)
      BY <1>9, LineCut DEF line
    <2>3. added.chunks = AllOf(acc) /\ added.current = Fresh(i, n)
      BY <2>1
    <2>4. AllOf(added) = AllOf(acc) \o Flushed(Fresh(i, n))
      BY <2>3 DEF AllOf
    <2>5. added \in Loop
      BY <1>2, <1>6, <2>1, <2>2
    <2> QED BY <1>3, <2>2, <2>4, <2>5 DEF line
  <1> QED BY <1>7, <1>8, <1>9

\* The characters of the first lines.
Lines(reply, n) == UNION {{i} \X (1..reply[i]) : i \in 1..n}

LEMMA LoopCuts ==
    ASSUME NEW reply \in Seq(Nat)
    PROVE  Split(reply)[Len(reply)] \in Loop /\ Cut(AllOf(Split(reply)[Len(reply)]), Text(reply))
  <1> DEFINE P(n) == Split(reply)[n] \in Loop /\ Cut(AllOf(Split(reply)[n]), Lines(reply, n))
             T == {n \in Nat : n <= Len(reply) => P(n)}
  <1>1. Len(reply) \in Nat /\ DOMAIN reply = 1..Len(reply) /\ \A n \in 1..Len(reply) : reply[n] \in Nat
    OBVIOUS
  <1>2. \A n \in 0..Len(reply) :
           Split(reply)[n] = IF n = 0 THEN Nothing ELSE LineAdded(Split(reply)[n - 1], n, reply[n])
    BY <1>1, SplitIs
  <1>3. P(0)
    <2>1. Split(reply)[0] = Nothing
      BY <1>1, <1>2
    <2>2. Nothing \in Loop
      BY DEF Nothing, Loop
    <2>3. AllOf(Nothing) = <<>>
      BY DEF AllOf, Nothing, Flushed
    <2>4. Lines(reply, 0) = {}
      BY DEF Lines
    <2> QED BY <2>1, <2>2, <2>3, <2>4, EmptyCut
  <1>4. ASSUME NEW n \in Nat, n < Len(reply), P(n) PROVE P(n + 1)
    <2> DEFINE m == n + 1
               line == {m} \X (1..reply[m])
    <2>1. m \in 1..Len(reply) /\ m \in 0..Len(reply) /\ m # 0 /\ m - 1 = n /\ m \in Nat
      BY <1>1, <1>4
    <2>2. Split(reply)[m] = LineAdded(Split(reply)[n], m, reply[m]) /\ reply[m] \in Nat
      BY <1>1, <1>2, <2>1
    <2>3. AllBefore(Lines(reply, n), line)
      BY DEF AllBefore, Before, Lines
    <2>4. Lines(reply, m) = Lines(reply, n) \cup line
      <3>1. 1..m = (1..n) \cup {m}
        OBVIOUS
      <3> HIDE DEF m
      <3> QED BY <3>1 DEF Lines
    <2> HIDE DEF m
    <2>5. /\ LineAdded(Split(reply)[n], m, reply[m]) \in Loop
          /\ Cut(AllOf(LineAdded(Split(reply)[n], m, reply[m])), Lines(reply, n) \cup line)
      BY <1>4, <2>1, <2>2, <2>3, LineAddedCuts
    <2>6. P(m)
      BY <2>2, <2>4, <2>5
    <2> QED BY <2>6 DEF m
  <1> HIDE DEF P
  <1>5. 0 \in T
    BY <1>3
  <1>6. \A n \in T : n + 1 \in T
    BY <1>1, <1>4
  <1>7. T = Nat
    <2> HIDE DEF T
    <2>1. T \in SUBSET Nat
      BY DEF T
    <2> QED BY <1>5, <1>6, <2>1, Induction
  <1>8. P(Len(reply))
    BY <1>1, <1>7
  <1>9. Lines(reply, Len(reply)) = Text(reply)
    BY <1>1 DEF Lines, Text
  <1> QED BY <1>8, <1>9 DEF P

\* splitMessage cuts the text of the reply.
LEMMA ChunksCut ==
    ASSUME NEW reply \in Seq(Nat)
    PROVE  Cut(Chunks(reply), Text(reply))
  <1> DEFINE whole == [i \in DOMAIN reply |-> Piece(i, 1, reply[i])]
  <1>1. CASE Size(whole) <= MaxLength
    <2>1. Chunks(reply) = <<whole>>
      BY <1>1 DEF Chunks
    <2>2. /\ whole \in Seq(Pieces) /\ DOMAIN whole = DOMAIN reply
          /\ \A i \in DOMAIN reply : i \in Nat /\ whole[i] = Piece(i, 1, reply[i])
      <3>1. DOMAIN reply = 1..Len(reply) /\ Len(reply) \in Nat /\ \A i \in DOMAIN reply : reply[i] \in Nat
        OBVIOUS
      <3>2. \A i \in DOMAIN reply : i \in Nat /\ Piece(i, 1, reply[i]) \in Pieces
        BY <3>1 DEF Piece, Pieces
      <3> QED BY <3>1, <3>2
    <2>3. \A i \in DOMAIN reply : Characters(whole[i]) = {i} \X (1..reply[i])
      BY <2>2 DEF Characters, Piece
    <2> HIDE DEF whole
    <2>4. Said(whole) = Text(reply)
      BY <2>2, <2>3 DEF Said, Text
    <2>5. \A m, n \in DOMAIN whole : m < n => AllBefore(Characters(whole[m]), Characters(whole[n]))
      BY <2>2, <2>3 DEF AllBefore, Before
    <2> QED BY <1>1, <2>1, <2>2, <2>4, <2>5, OneCut
  <1>2. CASE ~(Size(whole) <= MaxLength)
    <2>1. Chunks(reply) = AllOf(Split(reply)[Len(reply)])
      BY <1>2 DEF Chunks, AllOf
    <2> QED BY <2>1, LoopCuts
  <1> QED BY <1>1, <1>2

\* The first messages say a beginning of what all of them say.
LEMMA BeginningCuts ==
    ASSUME NEW reply, NEW C, Cut(C, Text(reply)), NEW n \in 0..Len(C)
    PROVE  Begins(SubSeq(C, 1, n), reply)
  <1> DEFINE D == SubSeq(C, 1, n)
  <1>1. C \in Seq(Seq(Pieces)) /\ Fit(C) /\ Ordered(C) /\ SaidBy(C) = Text(reply)
    BY DEF Cut
  <1>2. /\ DOMAIN C = 1..Len(C) /\ Len(C) \in Nat /\ DOMAIN D = 1..n
        /\ \A k \in 1..n : D[k] = C[k] /\ k \in DOMAIN C
    BY <1>1
  <1> HIDE DEF D
  <1>3. Fit(D)
    BY <1>1, <1>2 DEF Fit
  <1>4. Ordered(D)
    BY <1>1, <1>2 DEF Ordered
  <1>5. SaidBy(D) \subseteq Text(reply)
    BY <1>1, <1>2 DEF SaidBy
  <1>6. AllBefore(SaidBy(D), Text(reply) \ SaidBy(D))
    <2>1. ASSUME NEW c \in SaidBy(D), NEW d \in Text(reply) \ SaidBy(D) PROVE Before(c, d)
      <3>1. PICK k \in DOMAIN D : c \in Said(D[k])
        BY DEF SaidBy
      <3>2. PICK l \in DOMAIN C : d \in Said(C[l])
        BY <1>1 DEF SaidBy
      <3>3. l \notin 1..n
        BY <1>2, <3>2 DEF SaidBy
      <3>4. k \in DOMAIN C /\ D[k] = C[k] /\ k < l
        BY <1>2, <3>1, <3>2, <3>3
      <3>5. AllBefore(Said(C[k]), Said(C[l]))
        BY <1>1, <3>2, <3>4 DEF Ordered
      <3> QED BY <3>1, <3>2, <3>4, <3>5 DEF AllBefore
    <2> QED BY <2>1 DEF AllBefore
  <1> QED BY <1>3, <1>4, <1>5, <1>6 DEF Begins, D

\* What the messages of a reply are, as SentInFull needs it.
LEMMA MessagesSay ==
    ASSUME NEW r \in Replies
    PROVE  /\ Len(Messages[r]) \in Nat \ {0}
           /\ Beginnings[r] = 0..Len(Messages[r])
           /\ Len(Messages[r]) \in Wholes[r]
  <1> DEFINE C == Messages[r]
  <1>1. r \in Seq(Nat) /\ r # <<>> /\ r[1] > 0
    BY RepliesAssumption
  <1>2. C = Chunks(r)
    BY DEF Messages
  <1>3. Cut(C, Text(r))
    BY <1>1, <1>2, ChunksCut
  <1>4. C \in Seq(Seq(Pieces)) /\ SaidBy(C) = Text(r)
    BY <1>3 DEF Cut
  <1> HIDE DEF C
  <1>5. C # <<>>
    <2>1. <<1, 1>> \in Text(r)
      <3>1. 1 \in DOMAIN r /\ 1 \in 1..r[1]
        BY <1>1
      <3> QED BY <3>1 DEF Text
    <2>2. SaidBy(<<>>) = {}
      BY DEF SaidBy
    <2> QED BY <1>4, <2>1, <2>2
  <1>6. Len(C) \in Nat \ {0} /\ SubSeq(C, 1, Len(C)) = C
    BY <1>4, <1>5
  <1>7. \A n \in 0..Len(C) : Begins(SubSeq(C, 1, n), r)
    BY <1>3, BeginningCuts
  <1>8. Beginnings[r] = 0..Len(C)
    BY <1>7 DEF Beginnings, First, C
  <1>9. Len(C) \in Wholes[r]
    <2>1. First(r, Len(C)) = C
      BY <1>6 DEF First, C
    <2>2. Wholes[r] = {n \in 0..Len(C) : SaidBy(First(r, n)) = Text(r)}
      BY DEF Wholes, C
    <2> QED BY <1>4, <1>6, <2>1, <2>2
  <1> QED BY <1>6, <1>8, <1>9 DEF C

(***************************************************************************)
(* The messages of a reply.                                                *)
(***************************************************************************)
\* A turn that sends has messages left to send; one that does not has sent none.
OnItsWay(t) ==
    IF t.stage = "sending" THEN t.reply \in Replies /\ t.sent < Len(Messages[t.reply]) ELSE t.sent = 0
SendInv == \A i \in DOMAIN turns : OnItsWay(turns[i])

\* What a step of its task does to a turn on its way: only the last message makes it answered.
LEMMA TurnSends ==
    ASSUME Typed, SendInv, NEW i \in DOMAIN turns, TurnStep(i)
    PROVE  \E t \in TurnType :
              /\ Goes(i, t) /\ OnItsWay(t)
              /\ turns[i].stage = "sending" /\ t.stage = "answered" =>
                    turns[i].sent + 1 = Len(Messages[turns[i].reply])
  <1>1. PICK r : r = turns[i]
    OBVIOUS
  <1>2. r \in TurnType /\ OnItsWay(r)
    BY <1>1 DEF Typed, SendInv
  <1>3. ASSUME NEW s \in Stages \ {"sending"}, r.stage # "sending"
        PROVE  [r EXCEPT !.stage = s] \in TurnType /\ OnItsWay([r EXCEPT !.stage = s])
    BY <1>2, <1>3 DEF TurnType, OnItsWay
  <1>4. ASSUME NEW s \in Stages \ {"sending"}
        PROVE  Over(r, s) \in TurnType /\ OnItsWay(Over(r, s)) /\ Over(r, s).stage = s
    BY <1>2 DEF TurnType, OnItsWay, Over
  <1>5. ASSUME NEW p \in Replies, r.stage # "sending"
        PROVE  LET t == [r EXCEPT !.stage = "sending", !.reply = p] IN t \in TurnType /\ OnItsWay(t)
    <2> DEFINE t == [r EXCEPT !.stage = "sending", !.reply = p]
    <2>1. t \in TurnType /\ t.stage = "sending" /\ t.reply = p /\ t.sent = r.sent
      BY <1>2 DEF TurnType
    <2>2. r.sent = 0 /\ Len(Messages[p]) \in Nat \ {0}
      BY <1>2, <1>5, MessagesSay DEF OnItsWay
    <2> HIDE DEF t
    <2>3. OnItsWay(t)
      BY <2>1, <2>2 DEF OnItsWay
    <2> QED BY <2>1, <2>3 DEF t
  <1>6. CASE Start(i)
    <2>1. r.stage = "waiting" /\ Goes(i, [r EXCEPT !.stage = "graph"])
      BY <1>1, <1>6 DEF Start
    <2>2. [r EXCEPT !.stage = "graph"] \in TurnType /\ OnItsWay([r EXCEPT !.stage = "graph"])
      BY <1>3, <2>1
    <2> QED BY <1>1, <2>1, <2>2
  <1>7. CASE Replied(i)
    <2>1. PICK p \in Replies : r.stage = "graph" /\ Goes(i, [r EXCEPT !.stage = "sending", !.reply = p])
      BY <1>1, <1>7 DEF Replied
    <2>2. LET t == [r EXCEPT !.stage = "sending", !.reply = p] IN t \in TurnType /\ OnItsWay(t)
      BY <1>5, <2>1
    <2> QED BY <1>1, <2>1, <2>2
  <1>8. CASE Sent(i)
    <2>1. r.stage = "sending" /\ r.reply \in Replies /\ r.sent \in Nat /\ r.sent < Len(Messages[r.reply])
      BY <1>1, <1>2, <1>8 DEF Sent, OnItsWay, TurnType
    <2>2. Len(Messages[r.reply]) \in Nat
      BY <2>1, MessagesSay
    <2>3. CASE r.sent + 1 = Len(Messages[r.reply])
      <3>1. Goes(i, Over(r, "answered"))
        BY <1>1, <1>8, <2>3 DEF Sent
      <3> QED BY <1>1, <1>4, <2>3, <3>1
    <2>4. CASE r.sent + 1 # Len(Messages[r.reply])
      <3> DEFINE t == [r EXCEPT !.sent = @ + 1]
      <3>1. Goes(i, t)
        BY <1>1, <1>8, <2>4 DEF Sent
      <3>2. t \in TurnType /\ t.stage = "sending" /\ t.reply = r.reply /\ t.sent = r.sent + 1
        BY <1>2, <2>1 DEF TurnType
      <3> HIDE DEF t
      <3>3. OnItsWay(t)
        BY <2>1, <2>2, <2>4, <3>2 DEF OnItsWay
      <3> QED BY <3>1, <3>2, <3>3
    <2> QED BY <2>3, <2>4
  <1>9. CASE Fails(i)
    <2>1. Goes(i, Over(r, "reporting"))
      BY <1>1, <1>9 DEF Fails
    <2>2. Over(r, "reporting").stage # "answered"
      BY <1>4
    <2> QED BY <1>4, <2>1, <2>2
  <1>10. CASE Reported(i)
    <2>1. r.stage = "reporting" /\ Goes(i, [r EXCEPT !.stage = "reported"])
      BY <1>1, <1>10 DEF Reported
    <2>2. [r EXCEPT !.stage = "reported"] \in TurnType /\ OnItsWay([r EXCEPT !.stage = "reported"])
      BY <1>3, <2>1
    <2> QED BY <1>1, <2>1, <2>2
  <1> QED BY <1>6, <1>7, <1>8, <1>9, <1>10 DEF TurnStep

\* The other steps leave the turns there are, and a new turn waits.
LEMMA OthersSendNothing ==
    ASSUME TypeInv, SendInv, NEW m \in Seq(Nat), Chained(m)
    PROVE  SendInv' /\ \A i \in DOMAIN turns : turns'[i] = turns[i]
  <1>1. /\ DOMAIN turns' = DOMAIN turns \cup {Len(turns) + 1}
        /\ \A i \in DOMAIN turns : turns'[i] = turns[i]
        /\ turns'[Len(turns) + 1] = Turn(m, tail)
    BY ChainedFacts DEF TypeInv, Typed
  <1>2. OnItsWay(Turn(m, tail))
    BY DEF OnItsWay, Turn
  <1> QED BY <1>1, <1>2 DEF SendInv

\* A turn is answered by its last message only.
LastAnswers(i) ==
    turns[i].stage = "sending" /\ i \in DOMAIN turns' /\ turns'[i].stage = "answered" =>
        turns[i].sent + 1 = Len(Messages[turns[i].reply])

LEMMA SendNext ==
    ASSUME TypeInv, SendInv, [Next]_vars
    PROVE  SendInv' /\ \A i \in DOMAIN turns : LastAnswers(i)
  <1>1. ASSUME UNCHANGED turns PROVE SendInv' /\ \A i \in DOMAIN turns : LastAnswers(i)
    BY <1>1 DEF SendInv, LastAnswers
  <1>2. ASSUME NEW m \in Seq(Nat), Chained(m) PROVE SendInv' /\ \A i \in DOMAIN turns : LastAnswers(i)
    BY <1>2, OthersSendNothing DEF LastAnswers
  <1>3. ASSUME NEW u \in Updates, NEW a, Accepts(u, a)
        PROVE  SendInv' /\ \A i \in DOMAIN turns : LastAnswers(i)
    <2>1. <<Len(accepted) + 1>> \in Seq(Nat)
      BY DEF TypeInv, Typed
    <2> QED BY <1>1, <1>2, <1>3, <2>1 DEF Accepts
  <1>4. ASSUME NEW k \in Keys, Flush(k) PROVE SendInv' /\ \A i \in DOMAIN turns : LastAnswers(i)
    BY <1>2, <1>4 DEF Flush, TypeInv, Typed
  <1>5. ASSUME NEW d \in Deliveries, Downloaded(d) \/ DownloadFails(d)
        PROVE  SendInv' /\ \A i \in DOMAIN turns : LastAnswers(i)
    BY <1>1, <1>5 DEF Downloaded, DownloadFails
  <1>6. CASE Crash
    BY <1>6 DEF Crash, SendInv, LastAnswers
  <1>7. CASE UNCHANGED vars
    BY <1>1, <1>7 DEF vars
  <1>8. ASSUME NEW i \in DOMAIN turns, TurnStep(i)
        PROVE  SendInv' /\ \A j \in DOMAIN turns : LastAnswers(j)
    <2>1. PICK t \in TurnType :
             /\ Goes(i, t) /\ OnItsWay(t)
             /\ turns[i].stage = "sending" /\ t.stage = "answered" =>
                   turns[i].sent + 1 = Len(Messages[turns[i].reply])
      BY <1>8, TurnSends DEF TypeInv
    <2>2. /\ DOMAIN turns' = DOMAIN turns
          /\ \A j \in DOMAIN turns : turns'[j] = IF j = i THEN t ELSE turns[j]
      BY <2>1, Replaced DEF Goes, TypeInv, Typed
    <2> QED BY <2>1, <2>2 DEF SendInv, LastAnswers
  <1> QED BY <1>3, <1>4, <1>5, <1>6, <1>7, <1>8, DeliverFacts DEF Next, AdapterStep

\* splitMessage, sendOutbound: for every reply and every length of a message, what a turn has
\* sent is a beginning of the reply, in messages that Telegram takes, and a turn is answered only
\* when all of the reply has been sent.
THEOREM RepliesAreSentInFull == Spec => SentInFull
  <1> DEFINE InFull(i) ==
          LET t == turns[i] IN t.stage = "sending" =>
             /\ t.sent \in Beginnings[t.reply]
             /\ i \in DOMAIN turns' /\ turns'[i].stage = "answered" => t.sent + 1 \in Wholes[t.reply]
  <1>1. Init => SendInv
    BY DEF Init, SendInv
  <1>2. TypeInv /\ SendInv /\ [Next]_vars => SendInv'
    BY SendNext
  <1>3. TypeInv /\ SendInv /\ [Next]_vars => \A i \in DOMAIN turns : InFull(i)
    <2> SUFFICES ASSUME TypeInv, SendInv, [Next]_vars, NEW i \in DOMAIN turns, turns[i].stage = "sending"
                 PROVE  /\ turns[i].sent \in Beginnings[turns[i].reply]
                        /\ i \in DOMAIN turns' /\ turns'[i].stage = "answered" =>
                              turns[i].sent + 1 \in Wholes[turns[i].reply]
      OBVIOUS
    <2>1. turns[i].reply \in Replies /\ turns[i].sent < Len(Messages[turns[i].reply])
      BY DEF SendInv, OnItsWay
    <2>2. turns[i].sent \in Nat
      <3>1. turns[i] \in TurnType
        BY DEF TypeInv, Typed
      <3> QED BY <3>1 DEF TurnType
    <2>3. /\ Len(Messages[turns[i].reply]) \in Nat \ {0}
          /\ Beginnings[turns[i].reply] = 0..Len(Messages[turns[i].reply])
          /\ Len(Messages[turns[i].reply]) \in Wholes[turns[i].reply]
      BY <2>1, MessagesSay
    <2>4. LastAnswers(i)
      BY SendNext
    <2> QED BY <2>1, <2>2, <2>3, <2>4 DEF LastAnswers
  <1>4. TypeInv /\ SendInv /\ [Next]_vars =>
           [\A i \in DOMAIN turns : LET t == turns[i] IN t.stage = "sending" =>
              /\ t.sent \in Beginnings[t.reply]
              /\ i \in DOMAIN turns' /\ turns'[i].stage = "answered" => t.sent + 1 \in Wholes[t.reply]]_vars
    BY <1>3
  <1> QED BY <1>1, <1>2, <1>4, TypesHold, PTL DEF Spec, SentInFull
===============================================================================
