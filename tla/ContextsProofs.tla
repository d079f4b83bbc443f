----------------------------- MODULE ContextsProofs ---------------------------
(***************************************************************************)
(* What a term means where the properties of a node are read: for any      *)
(* context objects that import none in a circle, any lists of them on the  *)
(* nodes of a path, any depth of it and any order in which keys are met.   *)
(***************************************************************************)
EXTENDS Contexts, FiniteSetTheorems, WellFoundedInduction, TLAPS

(* Every non-empty set of naturals has a least element. *)
LEMMA LeastNat ==
  ASSUME NEW S \in SUBSET Nat, S # {}
  PROVE  \E i \in S : \A j \in S : i <= j
<1> DEFINE R == OpToRel(<, Nat)
<1>1. IsWellFoundedOn(R, Nat)
  BY NatLessThanWellFounded
<1> HIDE DEF R
<1>2. PICK i \in S : \A j \in S : ~ (<<j, i>> \in R)
  BY <1>1, WFMin
<1>3. \A j \in S : <<j, i>> \in R <=> j < i
  BY DEF R, OpToRel
<1>4. \A j \in S : ~ (j < i)
  BY <1>2, <1>3, Zenon
<1>5. \A j \in S : i <= j
  BY <1>4, SMT
<1> QED
  BY <1>5

Ranking(S) == [S -> Nat]
RankingTo(M, S) == [S -> 0..M]

Inductive(S, rank, Good) ==
  \A n \in S : (\A m \in S : rank[m] < rank[n] => m \in Good) => n \in Good

(* What holds of each node when it holds of those ranked below it holds of *)
(* every node.                                                             *)
LEMMA InductBy ==
  ASSUME NEW S, NEW rank \in Ranking(S), NEW Good, Inductive(S, rank, Good)
  PROVE  S \subseteq Good
<1> USE DEF Ranking, Inductive
<1> SUFFICES ASSUME S \ Good # {}
             PROVE  FALSE
  OBVIOUS
<1> DEFINE Ranks == {rank[n] : n \in S \ Good}
<1>1. Ranks \in SUBSET Nat /\ Ranks # {}
  OBVIOUS
<1>2. PICK r \in Ranks : \A q \in Ranks : r <= q
  BY <1>1, LeastNat
<1>3. PICK n \in S \ Good : r = rank[n]
  BY <1>2
<1>4. ASSUME NEW m \in S, rank[m] < rank[n]
      PROVE  m \in Good
  <2> SUFFICES ASSUME m \notin Good
               PROVE  FALSE
    OBVIOUS
  <2>1. rank[m] \in Ranks /\ rank[n] \in Nat /\ rank[m] \in Nat
    BY <1>3
  <2>2. r <= rank[m]
    BY <1>2, <2>1
  <2> QED
    BY <1>3, <1>4, <2>1, <2>2
<1> QED
  BY <1>3, <1>4

(* A recursive definition that looks only at entries ranked below has a    *)
(* solution.  step gives the entry a node has, given the entries so far.   *)
Steps(S, D) == [S -> [[S -> D] -> D]]

LooksBelow(step, rank, S, D) ==
  \A n \in S : \A f, g \in [S -> D] :
    (\A m \in S : rank[m] < rank[n] => f[m] = g[m]) => step[n][f] = step[n][g]

Solution(f, step, S, D) == f \in [S -> D] /\ \A n \in S : f[n] = step[n][f]

LEMMA RecursionBy ==
  ASSUME NEW S, NEW D, D # {}, NEW M \in Nat, NEW rank \in RankingTo(M, S),
         NEW step \in Steps(S, D), LooksBelow(step, rank, S, D)
  PROVE  \E f : Solution(f, step, S, D)
<1> USE DEF RankingTo, Solution
<1> DEFINE Solves(f, d) == \A n \in S : rank[n] < d => f[n] = step[n][f]
           Good == {d \in 0..(M + 1) : \E f \in [S -> D] : Solves(f, d)}
           R == [d \in 0..(M + 1) |-> d]
<1>1. ASSUME NEW d \in 0..(M + 1), \A e \in 0..(M + 1) : R[e] < R[d] => e \in Good
      PROVE  d \in Good
  <2>1. CASE d = 0
    <3>1. PICK v \in D : TRUE
      OBVIOUS
    <3> DEFINE f == [n \in S |-> v]
    <3>2. f \in [S -> D]
      OBVIOUS
    <3>3. Solves(f, 0)
      OBVIOUS
    <3> QED
      BY <2>1, <3>2, <3>3
  <2>2. CASE d # 0
    <3>1. d - 1 \in 0..(M + 1) /\ d - 1 < d
      BY <2>2
    <3>2. PICK f \in [S -> D] : Solves(f, d - 1)
      BY <1>1, <3>1
    <3> DEFINE g == [n \in S |-> IF rank[n] = d - 1 THEN step[n][f] ELSE f[n]]
    <3>3. g \in [S -> D]
      BY DEF Steps
    <3>4. \A m \in S : rank[m] < d - 1 => g[m] = f[m]
      OBVIOUS
    <3>5. \A m \in S : rank[m] = d - 1 => g[m] = step[m][f]
      OBVIOUS
    <3> HIDE DEF g
    <3>6. ASSUME NEW n \in S, rank[n] < d
          PROVE  g[n] = step[n][g]
      <4>1. rank[n] <= d - 1 /\ rank[n] \in Nat
        BY <3>6
      <4>2. \A m \in S : rank[m] < rank[n] => f[m] = g[m]
        BY <3>4, <4>1
      <4>3. step[n][f] = step[n][g]
        BY <3>3, <4>2 DEF LooksBelow
      <4>4. CASE rank[n] = d - 1
        BY <3>5, <4>3, <4>4
      <4>5. CASE rank[n] < d - 1
        <5>1. g[n] = f[n] /\ f[n] = step[n][f]
          BY <3>2, <3>4, <4>5
        <5> QED
          BY <4>3, <5>1
      <4> QED
        BY <4>1, <4>4, <4>5
    <3>7. Solves(g, d)
      BY <3>6
    <3> QED
      BY <3>3, <3>7
  <2> QED
    BY <2>1, <2>2
<1>2. R \in Ranking(0..(M + 1)) /\ M + 1 \in 0..(M + 1)
  BY DEF Ranking
<1> HIDE DEF Good, R
<1>3. Inductive(0..(M + 1), R, Good)
  BY <1>1 DEF Inductive
<1>4. 0..(M + 1) \subseteq Good
  BY <1>2, <1>3, InductBy
<1>5. PICK f \in [S -> D] : Solves(f, M + 1)
  BY <1>2, <1>4 DEF Good
<1>6. \A n \in S : rank[n] < M + 1
  OBVIOUS
<1> QED
  BY <1>5, <1>6

(* What holds of 0, and of each number if of the one before, holds of all. *)
LEMMA UpTo ==
  ASSUME NEW n \in Nat, NEW G, 0 \in G, \A k \in 1..n : k - 1 \in G => k \in G
  PROVE  0..n \subseteq G
<1> DEFINE rank == [k \in 0..n |-> k]
<1>1. rank \in Ranking(0..n) /\ \A k \in 0..n : rank[k] = k
  BY DEF Ranking
<1> HIDE DEF rank
<1>2. Inductive(0..n, rank, G)
  <2> SUFFICES ASSUME NEW k \in 0..n, \A m \in 0..n : rank[m] < rank[k] => m \in G
               PROVE  k \in G
    BY DEF Inductive
  <2>1. CASE k = 0
    BY <2>1
  <2>2. CASE k # 0
    <3>1. k - 1 \in 0..n /\ k \in 1..n /\ k - 1 < k
      BY <2>2
    <3> QED
      BY <1>1, <3>1
  <2> QED
    BY <2>1, <2>2
<1> QED
  BY <1>1, <1>2, InductBy

(* A function that starts somewhere and steps from each number to the next. *)
Iteration(f, n, base, step) ==
  f[0] = base /\ \A k \in 1..n : f[k] = step[k][f[k - 1]]

LEMMA Iterates ==
  ASSUME NEW D, NEW n \in Nat, NEW base \in D, NEW step \in [1..n -> [D -> D]]
  PROVE  \E f \in [0..n -> D] : Iteration(f, n, base, step)
<1> DEFINE S == 0..n
           rank == [k \in S |-> k]
           s == [k \in S |-> [g \in [S -> D] |-> IF k = 0 THEN base ELSE step[k][g[k - 1]]]]
<1>1. s \in Steps(S, D)
  <2> SUFFICES ASSUME NEW k \in S, NEW g \in [S -> D]
               PROVE  (IF k = 0 THEN base ELSE step[k][g[k - 1]]) \in D
    BY DEF Steps
  <2>1. CASE k = 0
    BY <2>1
  <2>2. CASE k # 0
    <3>1. k \in 1..n /\ k - 1 \in S
      BY <2>2
    <3>2. g[k - 1] \in D /\ step[k] \in [D -> D]
      BY <3>1
    <3> QED
      BY <2>2, <3>2
  <2> QED
    BY <2>1, <2>2
<1>2. rank \in RankingTo(n, S) /\ \A k \in S : rank[k] = k
  BY DEF RankingTo
<1>3. \A k \in S : \A g \in [S -> D] : s[k][g] = IF k = 0 THEN base ELSE step[k][g[k - 1]]
  OBVIOUS
<1> HIDE DEF s, rank
<1>4. LooksBelow(s, rank, S, D)
  <2> SUFFICES ASSUME NEW k \in S, NEW f \in [S -> D], NEW g \in [S -> D],
                      \A m \in S : rank[m] < rank[k] => f[m] = g[m]
               PROVE  s[k][f] = s[k][g]
    BY DEF LooksBelow
  <2>1. CASE k = 0
    BY <1>3, <2>1
  <2>2. CASE k # 0
    <3>1. k - 1 \in S /\ k - 1 < k
      BY <2>2
    <3>2. f[k - 1] = g[k - 1]
      BY <1>2, <3>1
    <3> QED
      BY <1>3, <2>2, <3>2
  <2> QED
    BY <2>1, <2>2
<1>5. PICK f : Solution(f, s, S, D)
  BY <1>1, <1>2, <1>4, RecursionBy
<1>6. f \in [S -> D] /\ \A k \in S : f[k] = s[k][f]
  BY <1>5 DEF Solution
<1>7. f[0] = base
  BY <1>3, <1>6
<1>8. ASSUME NEW k \in 1..n
      PROVE  f[k] = step[k][f[k - 1]]
  <2>1. k \in S /\ k # 0
    OBVIOUS
  <2> QED
    BY <1>3, <1>6, <2>1
<1> QED
  BY <1>6, <1>7, <1>8 DEF Iteration

-------------------------------------------------------------------------------
(* Contexts, and what a name may be. *)
Name == DOMAIN Bodies
TermDef == [iri : Seq(Word), coercion : Word, scoped : Name \cup {None}]
TermDefs == UNION {[T -> TermDef] : T \in SUBSET Term}
Ctx == [terms : TermDefs, vocab : Word]

LEMMA CtxFields ==
  ASSUME NEW c \in Ctx
  PROVE  /\ DOMAIN c.terms \subseteq Term /\ c.terms \in [DOMAIN c.terms -> TermDef]
         /\ c.vocab \in Word
         /\ c = [terms |-> c.terms, vocab |-> c.vocab]
         /\ \A t \in DOMAIN c.terms : c.terms[t].iri \in Seq(Word)
<1>1. c.terms \in TermDefs /\ c.vocab \in Word /\ c = [terms |-> c.terms, vocab |-> c.vocab]
  BY DEF Ctx
<1>2. PICK T \in SUBSET Term : c.terms \in [T -> TermDef]
  BY <1>1 DEF TermDefs
<1>3. DOMAIN c.terms = T
  BY <1>2
<1>4. \A t \in T : c.terms[t] \in TermDef
  BY <1>2
<1> QED
  BY <1>1, <1>2, <1>3, <1>4 DEF TermDef

LEMMA CtxOf ==
  ASSUME NEW T \in SUBSET Term, NEW f \in [T -> TermDef], NEW v \in Word
  PROVE  [terms |-> f, vocab |-> v] \in Ctx
<1>1. f \in TermDefs
  BY DEF TermDefs
<1> QED
  BY <1>1 DEF Ctx

LEMMA EmptyIsCtx == EmptyCtx \in Ctx /\ DOMAIN EmptyCtx.terms = {}
<1>1. <<>> \in [{} -> TermDef]
  OBVIOUS
<1>2. <<>> \in TermDefs
  BY <1>1 DEF TermDefs
<1>3. None \in Word
  BY ContextsAssumption
<1> QED
  BY <1>2, <1>3 DEF EmptyCtx, Ctx

LEMMA TermIri ==
  ASSUME NEW c \in Ctx, NEW t
  PROVE  term_iri(c, t) \in Seq(Word)
<1>1. <<>> \in Seq(Word)
  OBVIOUS
<1>2. t \in DOMAIN c.terms => c.terms[t].iri \in Seq(Word)
  BY CtxFields
<1> QED
  BY <1>1, <1>2, Zenon DEF term_iri, NoIri

(* What is known of the body of a context object. *)
LEMMA BodyIs ==
  ASSUME NEW b \in Name
  PROVE  /\ Bodies[b].vocab \in Word /\ Bodies[b].propagate \in BOOLEAN
         /\ DOMAIN Bodies[b].defs \subseteq Term
         /\ \A t \in DOMAIN Bodies[b].defs :
              /\ Bodies[b].defs[t] \in RawDef
              /\ Bodies[b].defs[t].value.form = "compact" => Bodies[b].defs[t].value.prefix \in Term
              /\ Bodies[b].defs[t].value # Null => Bodies[b].defs[t].value.text # <<>>
BY ContextsAssumption DEF Name

-------------------------------------------------------------------------------
(* Who has the last word on a term, after contexts have been put on top.   *)
Names == Name \cup {Reset}

Says(n, t) == n = Reset \/ t \in DOMAIN Bodies[n].defs

LEMMA NoneIsNoName == None \notin Names /\ None # Reset /\ Reset \notin Name
BY ContextsAssumption DEF Names, Name, None, Reset

LEMMA Greatest ==
  ASSUME NEW n \in Nat, NEW S \in SUBSET (1..n), S # {}
  PROVE  \E k \in S : \A j \in S : j <= k
<1> DEFINE T == {n - k : k \in S}
<1>1. T \in SUBSET Nat /\ T # {}
  <2>1. \A k \in S : n - k \in Nat
    OBVIOUS
  <2> QED
    BY <2>1
<1>2. PICK i \in T : \A j \in T : i <= j
  BY <1>1, LeastNat
<1>3. PICK k \in S : i = n - k
  BY <1>2
<1>4. ASSUME NEW j \in S
      PROVE  j <= k
  <2>1. n - j \in T
    OBVIOUS
  <2>2. n - k <= n - j
    BY <1>2, <1>3, <2>1
  <2> QED
    BY <2>2
<1> QED
  BY <1>4

LEMMA LastWordAt ==
  ASSUME NEW names \in Seq(Names), NEW t, NEW k \in DOMAIN names, Says(names[k], t),
         \A j \in DOMAIN names : k < j => ~Says(names[j], t)
  PROVE  LastWord(names, t) = names[k]
<1> DEFINE say == {i \in DOMAIN names : Says(names[i], t)}
           last == CHOOSE i \in say : \A j \in say : j <= i
<1>1. DOMAIN names = 1..Len(names) /\ Len(names) \in Nat
  OBVIOUS
<1>2. k \in say /\ \A j \in say : j <= k
  BY <1>1
<1>3. last \in say /\ \A j \in say : j <= last
  BY <1>2
<1>4. last = k
  BY <1>1, <1>2, <1>3
<1>5. LastWord(names, t) = IF say = {} THEN None ELSE names[last]
  BY DEF LastWord, Says
<1> QED
  BY <1>2, <1>4, <1>5

LEMMA LastWordIs ==
  ASSUME NEW names \in Seq(Names), NEW t
  PROVE  \/ LastWord(names, t) = None /\ \A k \in DOMAIN names : ~Says(names[k], t)
         \/ \E k \in DOMAIN names :
              /\ LastWord(names, t) = names[k] /\ names[k] \in Names /\ Says(names[k], t)
              /\ \A j \in DOMAIN names : k < j => ~Says(names[j], t)
<1> DEFINE say == {i \in DOMAIN names : Says(names[i], t)}
<1>1. DOMAIN names = 1..Len(names) /\ Len(names) \in Nat
  OBVIOUS
<1>2. CASE say = {}
  <2>1. LastWord(names, t) = None
    BY <1>2 DEF LastWord, Says
  <2> QED
    BY <1>2, <2>1
<1>3. CASE say # {}
  <2>1. PICK k \in say : \A j \in say : j <= k
    BY <1>1, <1>3, Greatest
  <2>2. k \in DOMAIN names /\ Says(names[k], t) /\ names[k] \in Names
    OBVIOUS
  <2>3. \A j \in DOMAIN names : k < j => ~Says(names[j], t)
    BY <1>1, <2>1
  <2>4. LastWord(names, t) = names[k]
    BY <2>2, <2>3, LastWordAt
  <2> QED
    BY <2>2, <2>3, <2>4
<1> QED
  BY <1>2, <1>3

LEMMA LastWordConcat ==
  ASSUME NEW a \in Seq(Names), NEW b \in Seq(Names), NEW t
  PROVE  LastWord(a \o b, t) = IF LastWord(b, t) = None THEN LastWord(a, t) ELSE LastWord(b, t)
<1> DEFINE s == a \o b
<1>1. /\ s \in Seq(Names) /\ Len(a) \in Nat /\ Len(b) \in Nat
      /\ DOMAIN a = 1..Len(a) /\ DOMAIN b = 1..Len(b) /\ DOMAIN s = 1..(Len(a) + Len(b))
      /\ \A k \in DOMAIN a : s[k] = a[k]
      /\ \A k \in DOMAIN b : s[Len(a) + k] = b[k]
      /\ \A k \in DOMAIN s : k \in DOMAIN a \/ (k - Len(a) \in DOMAIN b /\ s[k] = b[k - Len(a)])
  OBVIOUS
<1> HIDE DEF s
<1>2. CASE LastWord(b, t) # None
  <2>1. PICK k \in DOMAIN b :
          /\ LastWord(b, t) = b[k] /\ Says(b[k], t)
          /\ \A j \in DOMAIN b : k < j => ~Says(b[j], t)
    BY <1>2, LastWordIs
  <2>2. Len(a) + k \in DOMAIN s /\ s[Len(a) + k] = b[k]
    BY <1>1
  <2>3. ASSUME NEW j \in DOMAIN s, Len(a) + k < j
        PROVE  ~Says(s[j], t)
    <3>1. j - Len(a) \in DOMAIN b /\ s[j] = b[j - Len(a)] /\ k < j - Len(a)
      BY <1>1, <2>3
    <3> QED
      BY <2>1, <3>1
  <2>4. LastWord(s, t) = b[k]
    BY <1>1, <2>1, <2>2, <2>3, LastWordAt
  <2> QED
    BY <1>2, <2>1, <2>4 DEF s
<1>3. CASE LastWord(b, t) = None
  <2>1. \A k \in DOMAIN b : ~Says(b[k], t)
    BY <1>3, LastWordIs, NoneIsNoName
  <2>2. CASE LastWord(a, t) = None
    <3>1. \A k \in DOMAIN a : ~Says(a[k], t)
      BY <2>2, LastWordIs, NoneIsNoName
    <3>2. \A k \in DOMAIN s : ~Says(s[k], t)
      BY <1>1, <2>1, <3>1
    <3>3. LastWord(s, t) = None
      BY <1>1, <3>2, LastWordIs
    <3> QED
      BY <1>3, <2>2, <3>3 DEF s
  <2>3. CASE LastWord(a, t) # None
    <3>1. PICK k \in DOMAIN a :
            /\ LastWord(a, t) = a[k] /\ Says(a[k], t)
            /\ \A j \in DOMAIN a : k < j => ~Says(a[j], t)
      BY <2>3, LastWordIs
    <3>2. k \in DOMAIN s /\ s[k] = a[k]
      BY <1>1
    <3>3. \A j \in DOMAIN s : k < j => ~Says(s[j], t)
      BY <1>1, <2>1, <3>1
    <3>4. LastWord(s, t) = a[k]
      BY <1>1, <3>1, <3>2, <3>3, LastWordAt
    <3> QED
      BY <1>3, <3>1, <3>4 DEF s
  <2> QED
    BY <2>2, <2>3
<1> QED
  BY <1>2, <1>3

LEMMA LastWordOne ==
  ASSUME NEW n \in Names, NEW t
  PROVE  LastWord(<<n>>, t) = IF Says(n, t) THEN n ELSE None
<1> DEFINE s == <<n>>
<1>1. s \in Seq(Names) /\ DOMAIN s = {1} /\ s[1] = n
  OBVIOUS
<1> HIDE DEF s
<1>2. LastWord(s, t) = IF Says(n, t) THEN n ELSE None
  BY <1>1, LastWordIs, NoneIsNoName
<1> QED
  BY <1>2 DEF s

LEMMA LastWordNone ==
  ASSUME NEW t
  PROVE  LastWord(<<>>, t) = None
<1>1. <<>> \in Seq(Names) /\ DOMAIN <<>> = {}
  OBVIOUS
<1> QED
  BY <1>1, LastWordIs

(* The last words on all terms, and how what is put on top changes them.   *)
Words(names) == [t \in Term |-> LastWord(names, t)]
Over(w, names) ==
  [t \in Term |-> IF LastWord(names, t) = None THEN w[t] ELSE LastWord(names, t)]
Spoken(w, n) == [t \in Term |-> IF Says(n, t) THEN n ELSE w[t]]
Wording ==
  {w \in [Term -> Names \cup {None}] : \A t \in Term : w[t] # None => Says(w[t], t)}

LEMMA OverNothing ==
  ASSUME NEW w \in Wording
  PROVE  Over(w, <<>>) = w
BY LastWordNone DEF Over, Wording

LEMMA OverOne ==
  ASSUME NEW w, NEW n \in Names
  PROVE  Over(w, <<n>>) = Spoken(w, n)
BY LastWordOne, NoneIsNoName DEF Over, Spoken

LEMMA OverConcat ==
  ASSUME NEW w, NEW a \in Seq(Names), NEW b \in Seq(Names)
  PROVE  Over(w, a \o b) = Over(Over(w, a), b)
<1>1. \A t \in Term : LastWord(a \o b, t) = IF LastWord(b, t) = None THEN LastWord(a, t) ELSE LastWord(b, t)
  BY LastWordConcat
<1> QED
  BY <1>1 DEF Over

LEMMA OverAppend ==
  ASSUME NEW w, NEW a \in Seq(Names), NEW n \in Names
  PROVE  Over(w, Append(a, n)) = Spoken(Over(w, a), n)
<1> DEFINE s == <<n>>
<1>1. Append(a, n) = a \o s /\ s \in Seq(Names)
  OBVIOUS
<1>2. Over(Over(w, a), s) = Spoken(Over(w, a), n)
  BY OverOne
<1> HIDE DEF s
<1>3. Over(w, a \o s) = Over(Over(w, a), s)
  BY <1>1, OverConcat
<1> QED
  BY <1>1, <1>2, <1>3

LEMMA WordsConcat ==
  ASSUME NEW a \in Seq(Names), NEW b \in Seq(Names)
  PROVE  Words(a \o b) = Over(Words(a), b)
BY LastWordConcat DEF Over, Words

LEMMA WordsAreWording ==
  ASSUME NEW a \in Seq(Names)
  PROVE  Words(a) \in Wording
<1>1. \A t \in Term : LastWord(a, t) \in Names \cup {None} /\ (LastWord(a, t) # None => Says(LastWord(a, t), t))
  BY LastWordIs
<1> QED
  BY <1>1 DEF Words, Wording

LEMMA OverIsWording ==
  ASSUME NEW w \in Wording, NEW a \in Seq(Names)
  PROVE  Over(w, a) \in Wording
<1>1. \A t \in Term : LastWord(a, t) \in Names \cup {None} /\ (LastWord(a, t) # None => Says(LastWord(a, t), t))
  BY LastWordIs
<1> QED
  BY <1>1 DEF Over, Wording

LEMMA SpokenIsWording ==
  ASSUME NEW w \in Wording, NEW n \in Names
  PROVE  Spoken(w, n) \in Wording
BY DEF Spoken, Wording

-------------------------------------------------------------------------------
(* The definitions of one object, without what it removes. *)
Gone(b) == {t \in DOMAIN Bodies[b].defs : Bodies[b].defs[t].value = Null}
Raw(b) == [t \in DOMAIN Bodies[b].defs \ Gone(b) |-> Bodies[b].defs[t]]

LEMMA RawIs ==
  ASSUME NEW b \in Name
  PROVE  /\ DOMAIN Raw(b) = DOMAIN Bodies[b].defs \ Gone(b)
         /\ DOMAIN Raw(b) \subseteq Term /\ Gone(b) \subseteq Term
         /\ \A t \in DOMAIN Raw(b) :
              /\ Raw(b)[t] = Bodies[b].defs[t] /\ Raw(b)[t] \in RawDef /\ Raw(b)[t].value \in Value
              /\ Raw(b)[t].value.form = "compact" => Raw(b)[t].value.prefix \in Term
              /\ Raw(b)[t].value.text # <<>>
<1>1. DOMAIN Bodies[b].defs \subseteq Term
  BY BodyIs
<1>2. ASSUME NEW t \in DOMAIN Raw(b)
      PROVE  /\ Raw(b)[t] = Bodies[b].defs[t] /\ Raw(b)[t] \in RawDef
             /\ Raw(b)[t].value.form = "compact" => Raw(b)[t].value.prefix \in Term
             /\ Raw(b)[t].value.text # <<>>
  BY BodyIs DEF Raw, Gone
<1>3. \A t \in DOMAIN Raw(b) : Raw(b)[t].value \in Value
  BY <1>2 DEF RawDef
<1> QED
  BY <1>1, <1>2, <1>3 DEF Raw, Gone

LEMMA ValueResolves ==
  ASSUME NEW c \in Ctx, NEW v \in Value, NEW resolved,
         v.form = "compact" => v.prefix \in Term /\ resolved \in Seq(Word)
  PROVE  /\ resolve_value(c, v, resolved) \in Seq(Word)
         /\ v.text # <<>> => resolve_value(c, v, resolved) # <<>>
<1>1. v.text \in Seq(Word) /\ v.form \in {"keyword", "compact", "absolute", "bare", "null"}
  BY DEF Value
<1>2. CASE v.form = "compact"
  <2> DEFINE base == Based(c, v.prefix, resolved)
             start == IF base # NoIri THEN base ELSE <<AsWritten, v.prefix>>
  <2>1. base \in Seq(Word)
    BY <1>2, TermIri DEF Based
  <2>2. <<AsWritten, v.prefix>> \in Seq(Word)
    <3>1. AsWritten \in Word /\ v.prefix \in Word
      BY <1>2, ContextsAssumption
    <3> QED
      BY <3>1
  <2>3. start \in Seq(Word)
    BY <2>1, <2>2
  <2>4. resolve_value(c, v, resolved) = start \o v.text
    BY <1>2 DEF resolve_value
  <2> HIDE DEF start
  <2> QED
    BY <1>1, <2>3, <2>4
<1>3. CASE v.form = "keyword"
  BY <1>1, <1>3 DEF resolve_value
<1>4. CASE v.form # "compact" /\ v.form # "keyword"
  <2>1. c.vocab \in Word
    BY CtxFields
  <2>2. <<c.vocab>> \o v.text \in Seq(Word)
    BY <1>1, <2>1
  <2>3. resolve_value(c, v, resolved) = IF c.vocab = None THEN v.text ELSE <<c.vocab>> \o v.text
    BY <1>4 DEF resolve_value
  <2> QED
    BY <1>1, <2>2, <2>3
<1> QED
  BY <1>2, <1>3, <1>4

(* The IRIs resolved with some prefixes left to follow, and with one more. *)
Iris == [Term -> Seq(Word)]
NoIris == [t \in Term |-> NoIri]
Further(c, raw, iri) ==
  [t \in Term |->
     IF t \notin DOMAIN raw THEN NoIri
     ELSE resolve_value(c, raw[t].value, iri[raw[t].value.prefix])]

Reach == MAX_PREFIX_CHAIN + 1

ResolvedIn(iri, c, raw) ==
  /\ iri \in [0..Reach -> Iris]
  /\ iri[0] = NoIris
  /\ \A k \in 1..Reach : iri[k] = Further(c, raw, iri[k - 1])

LEMMA FurtherTyped ==
  ASSUME NEW c \in Ctx, NEW b \in Name, NEW iri \in Iris
  PROVE  Further(c, Raw(b), iri) \in Iris
<1>1. <<>> \in Seq(Word)
  OBVIOUS
<1>2. ASSUME NEW t \in DOMAIN Raw(b)
      PROVE  resolve_value(c, Raw(b)[t].value, iri[Raw(b)[t].value.prefix]) \in Seq(Word)
  <2>1. Raw(b)[t].value \in Value /\ (Raw(b)[t].value.form = "compact" => Raw(b)[t].value.prefix \in Term)
    BY RawIs
  <2>2. Raw(b)[t].value.form = "compact" => iri[Raw(b)[t].value.prefix] \in Seq(Word)
    BY <2>1 DEF Iris
  <2> QED
    BY <2>1, <2>2, ValueResolves
<1> QED
  BY <1>1, <1>2 DEF Further, Iris, NoIri

LEMMA ReachIsNat == Reach \in Nat /\ Reach # 0 /\ Reach \in 0..Reach
BY ContextsAssumption DEF Reach

LEMMA ResolveIs ==
  ASSUME NEW c \in Ctx, NEW b \in Name
  PROVE  \E iri : /\ ResolvedIn(iri, c, Raw(b))
                  /\ \A t \in Term : resolve_raw_term(c, Raw(b), t) = iri[Reach][t]
<1> DEFINE raw == Raw(b)
           step == [k \in 1..Reach |-> [g \in Iris |-> Further(c, raw, g)]]
           Runs(f) ==
             f = [left \in 0..Reach |->
                    [term \in Term |->
                       IF left = 0 \/ term \notin DOMAIN raw THEN NoIri
                       ELSE resolve_value(c, raw[term].value, f[left - 1][raw[term].value.prefix])]]
           iri == CHOOSE f : Runs(f)
<1>1. \A g \in Iris : Further(c, raw, g) \in Iris
  BY FurtherTyped
<1>2. NoIris \in Iris
  BY DEF NoIris, Iris, NoIri
<1>3. step \in [1..Reach -> [Iris -> Iris]] /\ \A k \in 1..Reach : \A g \in Iris : step[k][g] = Further(c, raw, g)
  BY <1>1
<1> HIDE DEF step, raw
<1>4. PICK f \in [0..Reach -> Iris] : Iteration(f, Reach, NoIris, step)
  BY <1>2, <1>3, ReachIsNat, Iterates
<1>5. \A k \in 1..Reach : f[k] = Further(c, raw, f[k - 1])
  <2> TAKE k \in 1..Reach
  <2>1. k - 1 \in 0..Reach
    BY ReachIsNat
  <2> QED
    BY <1>3, <1>4, <2>1 DEF Iteration
<1>6. Runs(f)
  <2>1. ASSUME NEW left \in 0..Reach
        PROVE  f[left] = [term \in Term |->
                           IF left = 0 \/ term \notin DOMAIN raw THEN NoIri
                           ELSE resolve_value(c, raw[term].value, f[left - 1][raw[term].value.prefix])]
    <3>1. CASE left = 0
      BY <1>4, <3>1 DEF Iteration, NoIris
    <3>2. CASE left # 0
      <4>1. left \in 1..Reach
        BY <3>2, ReachIsNat
      <4> QED
        BY <1>5, <3>2, <4>1 DEF Further
    <3> QED
      BY <3>1, <3>2
  <2> QED
    BY <1>4, <2>1
<1>7. Runs(iri)
  BY <1>6
<1>8. \A t \in Term : resolve_raw_term(c, raw, t) = iri[Reach][t]
  BY DEF resolve_raw_term, Reach
<1> HIDE DEF iri
<1>9. iri[0] = NoIris
  <2>1. 0 \in 0..Reach
    BY ReachIsNat
  <2> QED
    BY <1>7, <2>1 DEF NoIris
<1>10. ASSUME NEW k \in 1..Reach
      PROVE  iri[k] = Further(c, raw, iri[k - 1])
  <2>1. k \in 0..Reach /\ k # 0
    BY ReachIsNat
  <2> QED
    BY <1>7, <2>1 DEF Further
<1>11. DOMAIN iri = 0..Reach /\ iri = [k \in 0..Reach |-> iri[k]]
  BY <1>7
<1>12. 0..Reach \subseteq {k \in 0..Reach : iri[k] \in Iris}
  <2> DEFINE G == {k \in 0..Reach : iri[k] \in Iris}
  <2>1. 0 \in G
    BY <1>2, <1>9, ReachIsNat
  <2>2. ASSUME NEW k \in 1..Reach, k - 1 \in G
        PROVE  k \in G
    <3>1. k \in 0..Reach
      BY ReachIsNat
    <3> QED
      BY <1>1, <1>10, <2>2, <3>1 DEF raw
  <2> HIDE DEF G
  <2>3. 0..Reach \subseteq G
    BY <2>1, <2>2, ReachIsNat, UpTo
  <2> QED
    BY <2>3 DEF G
<1>13. iri \in [0..Reach -> Iris]
  BY <1>11, <1>12
<1> QED
  BY <1>8, <1>9, <1>10, <1>13 DEF ResolvedIn, raw

LEMMA RawResolves ==
  ASSUME NEW c \in Ctx, NEW b \in Name, NEW iri, ResolvedIn(iri, c, Raw(b)),
         NEW t \in DOMAIN Raw(b), NEW k \in 1..Reach
  PROVE  /\ iri[k][t] \in Seq(Word) /\ iri[k][t] # NoIri
         /\ iri[k][t] = resolve_value(c, Raw(b)[t].value, iri[k - 1][Raw(b)[t].value.prefix])
<1> DEFINE v == Raw(b)[t].value
<1>1. /\ v \in Value /\ v.text # <<>> /\ (v.form = "compact" => v.prefix \in Term)
      /\ t \in Term
  BY RawIs
<1>2. k - 1 \in 0..Reach /\ iri[k] = Further(c, Raw(b), iri[k - 1]) /\ iri[k - 1] \in Iris
  BY ReachIsNat DEF ResolvedIn
<1>3. iri[k][t] = resolve_value(c, v, iri[k - 1][v.prefix])
  BY <1>1, <1>2 DEF Further
<1>4. v.form = "compact" => iri[k - 1][v.prefix] \in Seq(Word)
  BY <1>1, <1>2 DEF Iris
<1> HIDE DEF v
<1>5. resolve_value(c, v, iri[k - 1][v.prefix]) \in Seq(Word)
      /\ resolve_value(c, v, iri[k - 1][v.prefix]) # <<>>
  BY <1>1, <1>4, ValueResolves
<1> QED
  BY <1>3, <1>5 DEF v, NoIri

LEMMA OthersDoNot ==
  ASSUME NEW c \in Ctx, NEW b \in Name, NEW iri, ResolvedIn(iri, c, Raw(b)),
         NEW t \in Term \ DOMAIN Raw(b), NEW k \in 0..Reach
  PROVE  iri[k][t] = NoIri
<1>1. CASE k = 0
  BY <1>1 DEF ResolvedIn, NoIris
<1>2. CASE k # 0
  <2>1. k \in 1..Reach
    BY <1>2, ReachIsNat
  <2> QED
    BY <2>1 DEF ResolvedIn, Further
<1> QED
  BY <1>1, <1>2

(* The hops of every term within some number of prefixes. *)
Fuel == Cardinality(Term)
OnAPrefix(b, t) == t \in DOMAIN Bodies[b].defs /\ Bodies[b].defs[t].value.form = "compact"

HopsIn(h, b) ==
  /\ h \in [0..Fuel -> [Term -> Nat]]
  /\ h[0] = [t \in Term |-> IF OnAPrefix(b, t) THEN Reach ELSE 0]
  /\ \A n \in 1..Fuel :
       h[n] = [t \in Term |-> IF OnAPrefix(b, t) THEN 1 + h[n - 1][Bodies[b].defs[t].value.prefix] ELSE 0]

LEMMA HopsIs ==
  ASSUME NEW b \in Name
  PROVE  \E h : HopsIn(h, b) /\ \A t \in DOMAIN Bodies[b].defs : Hops(Bodies[b].defs)[t] = h[Fuel][t]
<1> DEFINE defs == Bodies[b].defs
           D == [Term -> Nat]
           From(g) == [t \in Term |-> IF OnAPrefix(b, t) THEN 1 + g[defs[t].value.prefix] ELSE 0]
           base == [t \in Term |-> IF OnAPrefix(b, t) THEN Reach ELSE 0]
           step == [n \in 1..Fuel |-> [g \in D |-> From(g)]]
           Runs(f) ==
             f = [n \in 0..Fuel |->
                    [t \in Term |->
                       IF t \notin DOMAIN defs \/ defs[t].value.form # "compact" THEN 0
                       ELSE IF n = 0 THEN MAX_PREFIX_CHAIN + 1
                       ELSE 1 + f[n - 1][defs[t].value.prefix]]]
           h == CHOOSE f : Runs(f)
<1>1. \A g \in D : From(g) \in D
  <2> TAKE g \in D
  <2>1. \A t \in Term : OnAPrefix(b, t) => g[defs[t].value.prefix] \in Nat
    BY BodyIs DEF OnAPrefix
  <2> QED
    BY <2>1
<1>2. base \in D /\ Fuel \in Nat
  BY ReachIsNat, ContextsAssumption, FS_CardinalityType DEF Fuel
<1>3. step \in [1..Fuel -> [D -> D]] /\ \A n \in 1..Fuel : \A g \in D : step[n][g] = From(g)
  BY <1>1
<1> HIDE DEF step, D
<1>4. PICK f \in [0..Fuel -> D] : Iteration(f, Fuel, base, step)
  BY <1>2, <1>3, Iterates
<1>5. \A n \in 1..Fuel : f[n] = From(f[n - 1])
  <2> TAKE n \in 1..Fuel
  <2>1. n - 1 \in 0..Fuel
    BY <1>2
  <2> QED
    BY <1>3, <1>4, <2>1 DEF Iteration
<1>6. Runs(f)
  <2>1. ASSUME NEW n \in 0..Fuel
        PROVE  f[n] = [t \in Term |->
                       IF t \notin DOMAIN defs \/ defs[t].value.form # "compact" THEN 0
                       ELSE IF n = 0 THEN MAX_PREFIX_CHAIN + 1
                       ELSE 1 + f[n - 1][defs[t].value.prefix]]
    <3>1. CASE n = 0
      BY <1>4, <3>1 DEF Iteration, Reach, OnAPrefix
    <3>2. CASE n # 0
      <4>1. n \in 1..Fuel
        BY <1>2, <3>2
      <4> QED
        BY <1>5, <3>2, <4>1 DEF OnAPrefix
    <3> QED
      BY <3>1, <3>2
  <2> QED
    BY <1>4, <2>1
<1>7. Runs(h)
  BY <1>6
<1>8. \A t \in DOMAIN defs : Hops(defs)[t] = h[Fuel][t]
  BY DEF Hops, Fuel
<1> HIDE DEF h
<1>9. h[0] = base
  <2>1. 0 \in 0..Fuel
    BY <1>2
  <2> QED
    BY <1>7, <2>1 DEF OnAPrefix, Reach
<1>10. ASSUME NEW n \in 1..Fuel
       PROVE  h[n] = From(h[n - 1])
  <2>1. n \in 0..Fuel /\ n # 0
    BY <1>2
  <2> QED
    BY <1>7, <2>1 DEF OnAPrefix
<1>11. DOMAIN h = 0..Fuel /\ h = [n \in 0..Fuel |-> h[n]]
  BY <1>7
<1>12. 0..Fuel \subseteq {n \in 0..Fuel : h[n] \in D}
  <2> DEFINE G == {n \in 0..Fuel : h[n] \in D}
  <2>1. 0 \in G
    BY <1>2, <1>9
  <2>2. ASSUME NEW n \in 1..Fuel, n - 1 \in G
        PROVE  n \in G
    <3>1. n \in 0..Fuel
      BY <1>2
    <3> QED
      BY <1>1, <1>10, <2>2, <3>1
  <2> HIDE DEF G
  <2>3. 0..Fuel \subseteq G
    BY <1>2, <2>1, <2>2, UpTo
  <2> QED
    BY <2>3 DEF G
<1>13. h \in [0..Fuel -> D]
  BY <1>11, <1>12
<1> QED
  BY <1>8, <1>9, <1>10, <1>13 DEF HopsIn, D

(* Two contexts that agree on what an object leaves alone resolve what it  *)
(* defines alike, with whatever is left to follow, if that is enough.      *)
AgreeBeside(c, d, b) ==
  /\ c.vocab = d.vocab
  /\ \A t \in Term \ DOMAIN Raw(b) : term_iri(c, t) = term_iri(d, t)

LEMMA SameIris ==
  ASSUME NEW b \in Name, NEW c \in Ctx, NEW d \in Ctx, AgreeBeside(c, d, b),
         NEW iri, ResolvedIn(iri, c, Raw(b)), NEW jri, ResolvedIn(jri, d, Raw(b)),
         NEW h, HopsIn(h, b)
  PROVE  \A n \in 0..Fuel : \A t \in DOMAIN Raw(b) : \A k, l \in 1..Reach :
           h[n][t] < k /\ h[n][t] < l => iri[k][t] = jri[l][t]
<1> DEFINE Same(n) == \A t \in DOMAIN Raw(b) : \A k, l \in 1..Reach :
                        h[n][t] < k /\ h[n][t] < l => iri[k][t] = jri[l][t]
           G == {n \in 0..Fuel : Same(n)}
<1>1. Fuel \in Nat
  BY ContextsAssumption, FS_CardinalityType DEF Fuel
<1>2. ASSUME NEW n \in 0..Fuel, n # 0 => Same(n - 1)
      PROVE  Same(n)
  <2> SUFFICES ASSUME NEW t \in DOMAIN Raw(b), NEW k \in 1..Reach, NEW l \in 1..Reach,
                      h[n][t] < k, h[n][t] < l
               PROVE  iri[k][t] = jri[l][t]
    OBVIOUS
  <2> DEFINE v == Raw(b)[t].value
             p == v.prefix
  <2>1. /\ v \in Value /\ t \in Term /\ (v.form = "compact" => p \in Term)
        /\ v = Bodies[b].defs[t].value /\ t \in DOMAIN Bodies[b].defs
    BY RawIs
  <2>2. /\ iri[k][t] = resolve_value(c, v, iri[k - 1][p])
        /\ jri[l][t] = resolve_value(d, v, jri[l - 1][p])
    BY RawResolves
  <2>3. c.vocab = d.vocab
    BY DEF AgreeBeside
  <2> HIDE DEF v
  <2>4. CASE v.form # "compact"
    BY <2>2, <2>3, <2>4 DEF resolve_value
  <2>5. CASE v.form = "compact"
    <3>1. OnAPrefix(b, t)
      BY <2>1, <2>5 DEF OnAPrefix
    <3>2. n # 0
      <4> SUFFICES ASSUME n = 0
                   PROVE  FALSE
        OBVIOUS
      <4>1. h[n][t] = Reach
        BY <2>1, <3>1 DEF HopsIn
      <4> QED
        BY <4>1, ReachIsNat
    <3>3. n \in 1..Fuel /\ n - 1 \in 0..Fuel
      BY <1>1, <3>2
    <3>4. h[n][t] = 1 + h[n - 1][p] /\ h[n - 1][p] \in Nat
      BY <2>1, <2>5, <3>1, <3>3 DEF HopsIn
    <3>5. k - 1 \in 1..Reach /\ l - 1 \in 1..Reach /\ h[n - 1][p] < k - 1 /\ h[n - 1][p] < l - 1
      BY <3>4, ReachIsNat
    <3>6. Based(c, p, iri[k - 1][p]) = Based(d, p, jri[l - 1][p])
      <4>1. CASE p \in DOMAIN Raw(b)
        <5>1. iri[k - 1][p] = jri[l - 1][p]
          BY <1>2, <3>2, <3>5, <4>1
        <5>2. iri[k - 1][p] # NoIri
          BY <3>5, <4>1, RawResolves
        <5> QED
          BY <5>1, <5>2 DEF Based
      <4>2. CASE p \notin DOMAIN Raw(b)
        <5>1. p \in Term \ DOMAIN Raw(b) /\ k - 1 \in 0..Reach /\ l - 1 \in 0..Reach
          BY <2>1, <2>5, <3>5, <4>2, ReachIsNat
        <5>2. iri[k - 1][p] = NoIri /\ jri[l - 1][p] = NoIri
          BY <5>1, OthersDoNot
        <5>3. term_iri(c, p) = term_iri(d, p)
          BY <5>1 DEF AgreeBeside
        <5> QED
          BY <5>2, <5>3 DEF Based
      <4> QED
        BY <4>1, <4>2
    <3> QED
      BY <2>2, <2>5, <3>6 DEF resolve_value
  <2> QED
    BY <2>4, <2>5
<1> HIDE DEF Same
<1>3. 0 \in G
  BY <1>1, <1>2
<1>4. ASSUME NEW n \in 1..Fuel, n - 1 \in G
      PROVE  n \in G
  BY <1>1, <1>2, <1>4
<1> HIDE DEF G
<1>5. 0..Fuel \subseteq G
  BY <1>1, <1>3, <1>4, UpTo
<1> QED
  BY <1>5 DEF G, Same

-------------------------------------------------------------------------------
(* One object on top of a context. *)
Kept(c, b) ==
  [terms |-> [t \in DOMAIN c.terms \ Gone(b) |-> c.terms[t]],
   vocab |-> IF Bodies[b].vocab = None THEN c.vocab ELSE Bodies[b].vocab]

LEMMA KeptIs ==
  ASSUME NEW c \in Ctx, NEW b \in Name
  PROVE  /\ Kept(c, b) \in Ctx
         /\ DOMAIN Kept(c, b).terms = DOMAIN c.terms \ Gone(b)
         /\ \A t \in DOMAIN c.terms \ Gone(b) : Kept(c, b).terms[t] = c.terms[t]
         /\ [[c EXCEPT !.vocab = IF Bodies[b].vocab = None THEN @ ELSE Bodies[b].vocab]
               EXCEPT !.terms = [t \in DOMAIN @ \ Gone(b) |-> @[t]]] = Kept(c, b)
<1> DEFINE T == DOMAIN c.terms \ Gone(b)
           f == [t \in T |-> c.terms[t]]
           v == IF Bodies[b].vocab = None THEN c.vocab ELSE Bodies[b].vocab
<1>1. T \in SUBSET Term /\ f \in [T -> TermDef] /\ v \in Word
  BY CtxFields, BodyIs
<1>2. Kept(c, b) = [terms |-> f, vocab |-> v]
  BY DEF Kept
<1>3. c = [terms |-> c.terms, vocab |-> c.vocab]
  BY CtxFields
<1>4. [c EXCEPT !.vocab = v] = [terms |-> c.terms, vocab |-> v]
  BY <1>3
<1>5. [[c EXCEPT !.vocab = v] EXCEPT !.terms = [t \in DOMAIN @ \ Gone(b) |-> @[t]]]
        = [terms |-> f, vocab |-> v]
  <2> DEFINE d == [c EXCEPT !.vocab = v]
  <2>1. d.terms = c.terms
    BY <1>4
  <2>2. d = [terms |-> c.terms, vocab |-> v]
    BY <1>4
  <2> HIDE DEF d
  <2>3. [d EXCEPT !.terms = [t \in DOMAIN d.terms \ Gone(b) |-> d.terms[t]]] = [terms |-> f, vocab |-> v]
    BY <2>1, <2>2
  <2> QED
    BY <2>3 DEF d
<1>6. DOMAIN f = T /\ \A t \in T : f[t] = c.terms[t]
  OBVIOUS
<1> HIDE DEF f
<1>7. Kept(c, b).terms = f
  BY <1>2
<1>8. Kept(c, b) \in Ctx
  BY <1>1, <1>2, CtxOf
<1> QED
  BY <1>2, <1>5, <1>6, <1>7, <1>8

LEMMA DefineKeyIs ==
  ASSUME NEW a \in Ctx, NEW b \in Name, NEW t \in Term
  PROVE  /\ DefineKey(a, Raw(b), t) \in Ctx
         /\ DefineKey(a, Raw(b), t).vocab = a.vocab
         /\ DOMAIN DefineKey(a, Raw(b), t).terms = DOMAIN a.terms \cup ({t} \cap DOMAIN Raw(b))
         /\ \A u \in DOMAIN a.terms : u \notin {t} \cap DOMAIN Raw(b) =>
              DefineKey(a, Raw(b), t).terms[u] = a.terms[u]
         /\ t \in DOMAIN Raw(b) =>
              DefineKey(a, Raw(b), t).terms[t] =
                [iri |-> resolve_raw_term(a, Raw(b), t), coercion |-> Raw(b)[t].coercion,
                 scoped |-> Raw(b)[t].scoped]
<1>1. CASE t \notin DOMAIN Raw(b)
  <2>1. DefineKey(a, Raw(b), t) = a
    BY <1>1 DEF DefineKey
  <2> QED
    BY <1>1, <2>1
<1>2. CASE t \in DOMAIN Raw(b)
  <2> DEFINE new == [iri |-> resolve_raw_term(a, Raw(b), t), coercion |-> Raw(b)[t].coercion,
                     scoped |-> Raw(b)[t].scoped]
             T == DOMAIN a.terms \cup {t}
             f == [u \in T |-> IF u = t THEN new ELSE a.terms[u]]
  <2>1. new \in TermDef
    <3>1. PICK iri : ResolvedIn(iri, a, Raw(b)) /\ resolve_raw_term(a, Raw(b), t) = iri[Reach][t]
      BY ResolveIs
    <3>2. resolve_raw_term(a, Raw(b), t) \in Seq(Word)
      <4>1. Reach \in 1..Reach
        BY ReachIsNat
      <4> QED
        BY <1>2, <3>1, <4>1, RawResolves
    <3>3. Raw(b)[t].coercion \in Word /\ Raw(b)[t].scoped \in Name \cup {None}
      BY <1>2, RawIs DEF RawDef, Name
    <3> QED
      BY <3>2, <3>3 DEF TermDef
  <2> HIDE DEF new
  <2>2. T \in SUBSET Term /\ f \in [T -> TermDef] /\ a.vocab \in Word
        /\ a = [terms |-> a.terms, vocab |-> a.vocab]
    BY <2>1, CtxFields
  <2>3. DefineKey(a, Raw(b), t) = [a EXCEPT !.terms = f]
    BY <1>2 DEF DefineKey, Define, new
  <2>4. DefineKey(a, Raw(b), t) = [terms |-> f, vocab |-> a.vocab]
    BY <2>2, <2>3
  <2>5. DOMAIN f = T /\ f[t] = new /\ \A u \in DOMAIN a.terms : u # t => f[u] = a.terms[u]
    OBVIOUS
  <2> HIDE DEF f
  <2>6. DefineKey(a, Raw(b), t) \in Ctx
    BY <2>2, <2>4, CtxOf
  <2>7. DefineKey(a, Raw(b), t).terms = f /\ DefineKey(a, Raw(b), t).vocab = a.vocab
    BY <2>4
  <2> QED
    BY <1>2, <2>5, <2>6, <2>7 DEF new
<1> QED
  BY <1>1, <1>2

Keys == Len(KeyOrder)

LEMMA KeysAre ==
  /\ Keys \in Nat /\ DOMAIN KeyOrder = 1..Keys
  /\ \A k \in 1..Keys : KeyOrder[k] \in Term
  /\ \A t \in Term : \E k \in 1..Keys : KeyOrder[k] = t
BY ContextsAssumption DEF Keys

(* After some of the keys: what the object leaves alone, and, of the keys  *)
(* it defines, what it says.                                               *)
Defined(a, k, c, b, iri, h) ==
  LET R == {t \in DOMAIN Raw(b) : \E j \in 1..k : KeyOrder[j] = t}
  IN  /\ a \in Ctx /\ a.vocab = Kept(c, b).vocab
      /\ DOMAIN a.terms = DOMAIN Kept(c, b).terms \cup R
      /\ \A u \in DOMAIN Kept(c, b).terms \ DOMAIN Raw(b) : a.terms[u] = Kept(c, b).terms[u]
      /\ \A t \in R :
           /\ a.terms[t].coercion = Raw(b)[t].coercion /\ a.terms[t].scoped = Raw(b)[t].scoped
           /\ \A n \in 0..Fuel : h[n][t] < Reach => a.terms[t].iri = iri[Reach][t]

LEMMA DefineStep ==
  ASSUME NEW c \in Ctx, NEW b \in Name, NEW iri, ResolvedIn(iri, Kept(c, b), Raw(b)),
         NEW h, HopsIn(h, b), NEW k \in 1..Keys, NEW a, Defined(a, k - 1, c, b, iri, h)
  PROVE  Defined(DefineKey(a, Raw(b), KeyOrder[k]), k, c, b, iri, h)
<1> DEFINE t == KeyOrder[k]
           d == DefineKey(a, Raw(b), t)
           Before == {u \in DOMAIN Raw(b) : \E j \in 1..(k - 1) : KeyOrder[j] = u}
           R == {u \in DOMAIN Raw(b) : \E j \in 1..k : KeyOrder[j] = u}
           kept == Kept(c, b)
<1>1. /\ a \in Ctx /\ a.vocab = kept.vocab
      /\ DOMAIN a.terms = DOMAIN kept.terms \cup Before
      /\ \A u \in DOMAIN kept.terms \ DOMAIN Raw(b) : a.terms[u] = kept.terms[u]
      /\ \A u \in Before :
           /\ a.terms[u].coercion = Raw(b)[u].coercion /\ a.terms[u].scoped = Raw(b)[u].scoped
           /\ \A n \in 0..Fuel : h[n][u] < Reach => a.terms[u].iri = iri[Reach][u]
  BY DEF Defined
<1>2. t \in Term /\ k \in Nat /\ kept \in Ctx
  <2>1. t \in Term
    BY KeysAre
  <2>2. k \in Nat
    BY KeysAre
  <2>3. kept \in Ctx
    BY KeptIs
  <2> QED
    BY <2>1, <2>2, <2>3
<1>3. R = Before \cup ({t} \cap DOMAIN Raw(b))
  <2>1. \A j \in 1..k : j \in 1..(k - 1) \/ j = k
    BY <1>2
  <2>2. \A j \in 1..(k - 1) : j \in 1..k
    BY <1>2
  <2>3. k \in 1..k
    BY <1>2, KeysAre
  <2> QED
    BY <2>1, <2>2, <2>3
<1> HIDE DEF R, Before, kept, t
<1>4. /\ d \in Ctx /\ d.vocab = a.vocab
      /\ DOMAIN d.terms = DOMAIN a.terms \cup ({t} \cap DOMAIN Raw(b))
      /\ \A u \in DOMAIN a.terms : u \notin {t} \cap DOMAIN Raw(b) => d.terms[u] = a.terms[u]
      /\ t \in DOMAIN Raw(b) =>
           d.terms[t] = [iri |-> resolve_raw_term(a, Raw(b), t), coercion |-> Raw(b)[t].coercion,
                         scoped |-> Raw(b)[t].scoped]
  BY <1>1, <1>2, DefineKeyIs
<1>5. DOMAIN d.terms = DOMAIN kept.terms \cup R
  BY <1>1, <1>3, <1>4
<1>6. \A u \in DOMAIN kept.terms \ DOMAIN Raw(b) : d.terms[u] = kept.terms[u]
  BY <1>1, <1>4
<1>7. ASSUME t \in DOMAIN Raw(b), NEW n \in 0..Fuel, h[n][t] < Reach
      PROVE  d.terms[t].iri = iri[Reach][t]
  <2>1. AgreeBeside(a, kept, b)
    <3>1. ASSUME NEW u \in Term \ DOMAIN Raw(b)
          PROVE  term_iri(a, u) = term_iri(kept, u)
      <4>1. u \in DOMAIN a.terms <=> u \in DOMAIN kept.terms
        BY <1>1, <3>1 DEF Before
      <4>2. u \in DOMAIN kept.terms => a.terms[u] = kept.terms[u]
        BY <1>1, <3>1
      <4> QED
        BY <4>1, <4>2 DEF term_iri
    <3> QED
      BY <1>1, <3>1 DEF AgreeBeside
  <2>2. PICK jri : ResolvedIn(jri, a, Raw(b)) /\ resolve_raw_term(a, Raw(b), t) = jri[Reach][t]
    BY <1>1, <1>2, ResolveIs
  <2>3. Reach \in 1..Reach
    BY ReachIsNat
  <2>4. ResolvedIn(iri, kept, Raw(b))
    BY DEF kept
  <2>5. jri[Reach][t] = iri[Reach][t]
    BY <1>1, <1>2, <1>7, <2>1, <2>2, <2>3, <2>4, SameIris
  <2> QED
    BY <1>4, <1>7, <2>2, <2>5
<1>8. ASSUME NEW u \in R
      PROVE  /\ d.terms[u].coercion = Raw(b)[u].coercion /\ d.terms[u].scoped = Raw(b)[u].scoped
             /\ \A n \in 0..Fuel : h[n][u] < Reach => d.terms[u].iri = iri[Reach][u]
  <2>1. CASE u \in {t} \cap DOMAIN Raw(b)
    BY <1>4, <1>7, <2>1
  <2>2. CASE u \notin {t} \cap DOMAIN Raw(b)
    <3>1. u \in Before /\ u \in DOMAIN a.terms /\ d.terms[u] = a.terms[u]
      BY <1>1, <1>3, <1>4, <2>2
    <3> QED
      BY <1>1, <3>1
  <2> QED
    BY <2>1, <2>2
<1> QED
  BY <1>1, <1>4, <1>5, <1>6, <1>8 DEF Defined, R, kept, t

LEMMA PutOnIs ==
  ASSUME NEW c \in Ctx, NEW b \in Name
  PROVE  \E iri, h :
           /\ ResolvedIn(iri, Kept(c, b), Raw(b)) /\ HopsIn(h, b)
           /\ \A t \in DOMAIN Bodies[b].defs : Hops(Bodies[b].defs)[t] = h[Fuel][t]
           /\ Defined(put_on(c, Bodies[b]), Keys, c, b, iri, h)
<1> DEFINE raw == Raw(b)
           kept == Kept(c, b)
           step == [k \in 1..Keys |-> [g \in Ctx |-> DefineKey(g, raw, KeyOrder[k])]]
           start == [[c EXCEPT !.vocab = IF Bodies[b].vocab = None THEN @ ELSE Bodies[b].vocab]
                       EXCEPT !.terms = [t \in DOMAIN @ \ Gone(b) |-> @[t]]]
           Runs(f) ==
             f = [k \in 0..Keys |-> IF k = 0 THEN start ELSE DefineKey(f[k - 1], raw, KeyOrder[k])]
           after == CHOOSE f : Runs(f)
<1>1. PICK h : HopsIn(h, b) /\ \A t \in DOMAIN Bodies[b].defs : Hops(Bodies[b].defs)[t] = h[Fuel][t]
  BY HopsIs
<1>2. kept \in Ctx
  BY KeptIs
<1>3. PICK iri : ResolvedIn(iri, kept, raw)
  BY <1>2, ResolveIs
<1>4. \A k \in 1..Keys : \A g \in Ctx : DefineKey(g, raw, KeyOrder[k]) \in Ctx
  BY KeysAre, DefineKeyIs
<1>5. step \in [1..Keys -> [Ctx -> Ctx]]
      /\ \A k \in 1..Keys : \A g \in Ctx : step[k][g] = DefineKey(g, raw, KeyOrder[k])
  BY <1>4
<1>6. put_on(c, Bodies[b]) = after[Keys]
  BY DEF put_on, Keys, Gone, Raw
<1>6a. start = kept
  BY KeptIs
<1> HIDE DEF step, raw, kept, start
<1>7. PICK f \in [0..Keys -> Ctx] : Iteration(f, Keys, kept, step)
  BY <1>2, <1>5, KeysAre, Iterates
<1>8. Runs(f)
  <2>1. ASSUME NEW k \in 0..Keys
        PROVE  f[k] = IF k = 0 THEN start ELSE DefineKey(f[k - 1], raw, KeyOrder[k])
    <3>1. CASE k = 0
      BY <1>7, <1>6a, <3>1 DEF Iteration
    <3>2. CASE k # 0
      <4>1. k \in 1..Keys /\ k - 1 \in 0..Keys
        BY <3>2, KeysAre
      <4> QED
        BY <1>5, <1>7, <3>2, <4>1 DEF Iteration
    <3> QED
      BY <3>1, <3>2
  <2> QED
    BY <1>7, <2>1
<1>9. Runs(after)
  BY <1>8
<1> HIDE DEF after
<1>10. after[0] = kept /\ \A k \in 1..Keys : after[k] = DefineKey(after[k - 1], raw, KeyOrder[k])
  <2>1. 0 \in 0..Keys /\ \A k \in 1..Keys : k \in 0..Keys /\ k # 0
    BY KeysAre
  <2> QED
    BY <1>9, <1>6a, <2>1
<1> DEFINE G == {k \in 0..Keys : Defined(after[k], k, c, b, iri, h)}
<1>11. 0 \in G
  <2> DEFINE R == {t \in DOMAIN Raw(b) : \E j \in 1..0 : KeyOrder[j] = t}
  <2>1. R = {}
    OBVIOUS
  <2> HIDE DEF R
  <2>2. after[0] \in Ctx /\ after[0] = Kept(c, b)
    BY <1>2, <1>10 DEF kept
  <2>3. Defined(after[0], 0, c, b, iri, h)
    BY <2>1, <2>2 DEF Defined, R
  <2> QED
    BY <2>3, KeysAre
<1>12. ASSUME NEW k \in 1..Keys, k - 1 \in G
       PROVE  k \in G
  <2>1. Defined(after[k - 1], k - 1, c, b, iri, h)
    BY <1>12
  <2>2. ResolvedIn(iri, Kept(c, b), Raw(b))
    BY <1>3 DEF kept, raw
  <2>3. Defined(DefineKey(after[k - 1], Raw(b), KeyOrder[k]), k, c, b, iri, h)
    BY <1>1, <2>1, <2>2, DefineStep
  <2>4. k \in 0..Keys
    BY KeysAre
  <2> QED
    BY <1>10, <2>3, <2>4 DEF raw
<1> HIDE DEF G
<1>13. 0..Keys \subseteq G
  BY <1>11, <1>12, KeysAre, UpTo
<1>14. Defined(after[Keys], Keys, c, b, iri, h)
  <2>1. Keys \in 0..Keys
    BY KeysAre
  <2> QED
    BY <1>13, <2>1 DEF G
<1> QED
  BY <1>1, <1>3, <1>6, <1>14 DEF kept, raw

(* What an object leaves, removes and defines; and, where its prefixes are *)
(* not too many hops away, that each definition holds.                     *)
LEMMA PutOnSays ==
  ASSUME NEW c \in Ctx, NEW b \in Name, NEW f, f = put_on(c, Bodies[b])
  PROVE  /\ f \in Ctx
         /\ DOMAIN f.terms = (DOMAIN c.terms \ Gone(b)) \cup DOMAIN Raw(b)
         /\ \A u \in DOMAIN c.terms \ DOMAIN Bodies[b].defs : f.terms[u] = c.terms[u]
         /\ \A t \in DOMAIN Raw(b) :
              /\ f.terms[t].coercion = Bodies[b].defs[t].coercion
              /\ f.terms[t].scoped = Bodies[b].defs[t].scoped
              /\ Hops(Bodies[b].defs)[t] <= MAX_PREFIX_CHAIN =>
                   DefinitionHolds(f, t, Bodies[b].defs[t].value)
<1> DEFINE kept == Kept(c, b)
           defs == Bodies[b].defs
<1>1. PICK iri, h :
        /\ ResolvedIn(iri, kept, Raw(b)) /\ HopsIn(h, b)
        /\ \A t \in DOMAIN defs : Hops(defs)[t] = h[Fuel][t]
        /\ Defined(f, Keys, c, b, iri, h)
  BY PutOnIs
<1>2. /\ DOMAIN Raw(b) = DOMAIN defs \ Gone(b) /\ DOMAIN Raw(b) \subseteq Term
      /\ Gone(b) \subseteq DOMAIN defs
      /\ \A t \in DOMAIN Raw(b) : Raw(b)[t] = defs[t]
  BY RawIs DEF Gone
<1>3. {t \in DOMAIN Raw(b) : \E j \in 1..Keys : KeyOrder[j] = t} = DOMAIN Raw(b)
  BY <1>2, KeysAre
<1>4. /\ f \in Ctx /\ f.vocab = kept.vocab
      /\ DOMAIN f.terms = DOMAIN kept.terms \cup DOMAIN Raw(b)
      /\ \A u \in DOMAIN kept.terms \ DOMAIN Raw(b) : f.terms[u] = kept.terms[u]
      /\ \A t \in DOMAIN Raw(b) :
           /\ f.terms[t].coercion = Raw(b)[t].coercion /\ f.terms[t].scoped = Raw(b)[t].scoped
           /\ \A n \in 0..Fuel : h[n][t] < Reach => f.terms[t].iri = iri[Reach][t]
  BY <1>1, <1>3 DEF Defined
<1>5. /\ kept \in Ctx /\ DOMAIN kept.terms = DOMAIN c.terms \ Gone(b)
      /\ \A t \in DOMAIN c.terms \ Gone(b) : kept.terms[t] = c.terms[t]
  BY KeptIs
<1> HIDE DEF kept
<1>6. ASSUME NEW t \in DOMAIN Raw(b), Hops(defs)[t] <= MAX_PREFIX_CHAIN
      PROVE  DefinitionHolds(f, t, defs[t].value)
  <2> DEFINE v == Raw(b)[t].value
             p == v.prefix
  <2> SUFFICES ASSUME v.form = "compact", term_iri(f, p) # NoIri
               PROVE  f.terms[t].iri = term_iri(f, p) \o v.text
    BY <1>2 DEF DefinitionHolds
  <2>1. p \in Term /\ t \in Term /\ t \in DOMAIN defs /\ OnAPrefix(b, t) /\ v = defs[t].value
    BY <1>2, RawIs DEF OnAPrefix
  <2>2. Fuel \in Nat /\ Reach \in Nat /\ MAX_PREFIX_CHAIN \in Nat
    BY ContextsAssumption, FS_CardinalityType, ReachIsNat DEF Fuel
  <2>3. h[Fuel][t] <= MAX_PREFIX_CHAIN /\ h \in [0..Fuel -> [Term -> Nat]]
    BY <1>1, <1>6, <2>1 DEF HopsIn
  <2>4. Fuel # 0
    <3> SUFFICES ASSUME Fuel = 0
                 PROVE  FALSE
      OBVIOUS
    <3>1. h[Fuel][t] = Reach
      BY <1>1, <2>1 DEF HopsIn
    <3> QED
      BY <2>2, <2>3, <3>1 DEF Reach
  <2>5. Fuel \in 1..Fuel /\ Fuel - 1 \in 0..Fuel /\ Fuel \in 0..Fuel
    BY <2>2, <2>4
  <2> HIDE DEF v
  <2>6. h[Fuel][t] = 1 + h[Fuel - 1][p] /\ h[Fuel - 1][p] \in Nat
    <3>1. h[Fuel] = [u \in Term |-> IF OnAPrefix(b, u)
                                      THEN 1 + h[Fuel - 1][Bodies[b].defs[u].value.prefix] ELSE 0]
      BY <1>1, <2>5 DEF HopsIn
    <3>2. Bodies[b].defs[t].value.prefix = p
      BY <2>1
    <3>3. h[Fuel][t] = 1 + h[Fuel - 1][p]
      BY <2>1, <3>1, <3>2
    <3>4. h[Fuel - 1] \in [Term -> Nat]
      BY <2>3, <2>5
    <3> QED
      BY <2>1, <3>3, <3>4
  <2>7. /\ Reach - 1 \in 1..Reach /\ Reach \in 1..Reach
        /\ h[Fuel - 1][p] < Reach - 1 /\ h[Fuel - 1][p] < Reach /\ h[Fuel][t] < Reach
    BY <2>2, <2>3, <2>6 DEF Reach
  <2>8. f.terms[t].iri = iri[Reach][t]
    BY <1>4, <2>5, <2>7
  <2>9. iri[Reach][t] = resolve_value(kept, v, iri[Reach - 1][p])
    BY <1>1, <1>5, <2>7, RawResolves DEF v
  <2>10. Based(kept, p, iri[Reach - 1][p]) = term_iri(f, p)
    <3>1. CASE p \in DOMAIN Raw(b)
      <4>1. f.terms[p].iri = iri[Reach][p] /\ p \in DOMAIN f.terms
        BY <1>4, <2>5, <2>7, <3>1
      <4>2. AgreeBeside(kept, kept, b)
        BY DEF AgreeBeside
      <4>3. iri[Reach][p] = iri[Reach - 1][p]
        BY <1>1, <1>5, <2>5, <2>7, <3>1, <4>2, SameIris
      <4>4. iri[Reach - 1][p] # NoIri
        BY <1>1, <1>5, <2>7, <3>1, RawResolves
      <4>5. term_iri(f, p) = f.terms[p].iri
        BY <2>1 DEF term_iri
      <4> QED
        BY <4>1, <4>3, <4>4, <4>5 DEF Based
    <3>2. CASE p \notin DOMAIN Raw(b)
      <4>1. p \in Term \ DOMAIN Raw(b) /\ Reach - 1 \in 0..Reach
        BY <2>1, <2>7, <3>2
      <4>2. iri[Reach - 1][p] = NoIri
        BY <1>1, <1>5, <4>1, OthersDoNot
      <4>3. p \in DOMAIN f.terms <=> p \in DOMAIN kept.terms
        BY <1>4, <3>2
      <4>4. p \in DOMAIN kept.terms => f.terms[p] = kept.terms[p]
        BY <1>4, <3>2
      <4>5. term_iri(f, p) = term_iri(kept, p)
        BY <4>3, <4>4 DEF term_iri
      <4> QED
        BY <4>2, <4>5 DEF Based
    <3> QED
      BY <3>1, <3>2
  <2> QED
    BY <2>8, <2>9, <2>10 DEF resolve_value
<1>7. \A u \in DOMAIN c.terms \ DOMAIN defs : f.terms[u] = c.terms[u]
  BY <1>2, <1>4, <1>5
<1>8. DOMAIN f.terms = (DOMAIN c.terms \ Gone(b)) \cup DOMAIN Raw(b)
  BY <1>4, <1>5
<1> QED
  BY <1>2, <1>4, <1>6, <1>7, <1>8

-------------------------------------------------------------------------------
(* A context knows the last words on the terms: it defines what they       *)
(* define, as they do, and where one object defined a term and its prefix, *)
(* in not too many hops, the term is what it stands for.                   *)
Defining(n, t) == n \in Name /\ t \in DOMAIN Bodies[n].defs /\ Bodies[n].defs[t].value # Null

Knows(c, w) ==
  \A t \in Term :
    LET def == Bodies[w[t]].defs[t]
    IN  /\ t \in DOMAIN c.terms <=> Defining(w[t], t)
        /\ t \in DOMAIN c.terms =>
             /\ c.terms[t].coercion = def.coercion /\ c.terms[t].scoped = def.scoped
             /\ (/\ def.value.form = "compact" => w[def.value.prefix] = w[t]
                 /\ Hops(Bodies[w[t]].defs)[t] <= MAX_PREFIX_CHAIN) => DefinitionHolds(c, t, def.value)

LEMMA EmptyKnows ==
  ASSUME NEW w \in Wording, \A t \in Term : w[t] \in {None, Reset}
  PROVE  Knows(EmptyCtx, w)
<1>1. \A t \in Term : w[t] \notin Name
  BY ContextsAssumption DEF Name
<1>2. DOMAIN EmptyCtx.terms = {}
  BY EmptyIsCtx
<1> QED
  BY <1>1, <1>2 DEF Knows, Defining

LEMMA PutOnKnows ==
  ASSUME NEW c \in Ctx, NEW w \in Wording, Knows(c, w), NEW b \in Name
  PROVE  put_on(c, Bodies[b]) \in Ctx /\ Knows(put_on(c, Bodies[b]), Spoken(w, b))
<1> DEFINE f == put_on(c, Bodies[b])
           u == Spoken(w, b)
           defs == Bodies[b].defs
<1>1. /\ f \in Ctx
      /\ DOMAIN f.terms = (DOMAIN c.terms \ Gone(b)) \cup DOMAIN Raw(b)
      /\ \A t \in DOMAIN c.terms \ DOMAIN defs : f.terms[t] = c.terms[t]
      /\ \A t \in DOMAIN Raw(b) :
           /\ f.terms[t].coercion = defs[t].coercion
           /\ f.terms[t].scoped = defs[t].scoped
           /\ Hops(defs)[t] <= MAX_PREFIX_CHAIN => DefinitionHolds(f, t, defs[t].value)
  BY PutOnSays
<1>2. /\ DOMAIN Raw(b) = DOMAIN defs \ Gone(b) /\ Gone(b) \subseteq DOMAIN defs
      /\ \A t \in DOMAIN Raw(b) : defs[t].value # Null
      /\ \A t \in Gone(b) : defs[t].value = Null
  BY RawIs DEF Gone
<1>3. \A t \in Term : u[t] = IF t \in DOMAIN defs THEN b ELSE w[t]
  <2>1. b # Reset
    BY NoneIsNoName
  <2> QED
    BY <2>1 DEF Spoken, Says
<1> HIDE DEF f, u
<1>4. ASSUME NEW t \in Term, t \in DOMAIN defs
      PROVE  LET def == Bodies[u[t]].defs[t]
             IN  /\ t \in DOMAIN f.terms <=> Defining(u[t], t)
                 /\ t \in DOMAIN f.terms =>
                      /\ f.terms[t].coercion = def.coercion /\ f.terms[t].scoped = def.scoped
                      /\ Hops(Bodies[u[t]].defs)[t] <= MAX_PREFIX_CHAIN => DefinitionHolds(f, t, def.value)
  <2>1. u[t] = b
    BY <1>3, <1>4
  <2>2. t \in DOMAIN f.terms <=> t \in DOMAIN Raw(b)
    BY <1>1, <1>2, <1>4
  <2>3. t \in DOMAIN Raw(b) <=> Defining(b, t)
    BY <1>2, <1>4 DEF Defining
  <2> QED
    BY <1>1, <2>1, <2>2, <2>3
<1>5. ASSUME NEW t \in Term, t \notin DOMAIN defs
      PROVE  LET def == Bodies[u[t]].defs[t]
             IN  /\ t \in DOMAIN f.terms <=> Defining(u[t], t)
                 /\ t \in DOMAIN f.terms =>
                      /\ f.terms[t].coercion = def.coercion /\ f.terms[t].scoped = def.scoped
                      /\ (/\ def.value.form = "compact" => u[def.value.prefix] = u[t]
                          /\ Hops(Bodies[u[t]].defs)[t] <= MAX_PREFIX_CHAIN) => DefinitionHolds(f, t, def.value)
  <2> DEFINE def == Bodies[w[t]].defs[t]
             p == def.value.prefix
  <2>1. u[t] = w[t]
    BY <1>3, <1>5
  <2>2. t \in DOMAIN f.terms <=> t \in DOMAIN c.terms
    BY <1>1, <1>2, <1>5
  <2>3. t \in DOMAIN c.terms => f.terms[t] = c.terms[t]
    BY <1>1, <1>5
  <2>4. /\ t \in DOMAIN c.terms <=> Defining(w[t], t)
        /\ t \in DOMAIN c.terms =>
             /\ c.terms[t].coercion = def.coercion /\ c.terms[t].scoped = def.scoped
             /\ (/\ def.value.form = "compact" => w[p] = w[t]
                 /\ Hops(Bodies[w[t]].defs)[t] <= MAX_PREFIX_CHAIN) => DefinitionHolds(c, t, def.value)
    BY DEF Knows
  <2>5. ASSUME t \in DOMAIN f.terms, Hops(Bodies[w[t]].defs)[t] <= MAX_PREFIX_CHAIN,
               def.value.form = "compact" => u[p] = w[t]
        PROVE  DefinitionHolds(f, t, def.value)
    <3>1. CASE def.value.form # "compact"
      BY <3>1 DEF DefinitionHolds
    <3>2. CASE def.value.form = "compact"
      <4>1. w[t] \in Name /\ t \in DOMAIN Bodies[w[t]].defs
        BY <2>2, <2>4, <2>5 DEF Defining
      <4>2. p \in Term
        BY <3>2, <4>1, BodyIs
      <4>3. w[t] # b
        BY <1>5, <4>1
      <4>4. p \notin DOMAIN defs
        BY <1>3, <2>5, <3>2, <4>2, <4>3
      <4>5. w[p] = w[t]
        BY <1>3, <2>5, <3>2, <4>2, <4>4
      <4>6. DefinitionHolds(c, t, def.value)
        BY <2>2, <2>4, <2>5, <4>5
      <4>7. p \in DOMAIN f.terms <=> p \in DOMAIN c.terms
        BY <1>1, <1>2, <4>4
      <4>8. p \in DOMAIN c.terms => f.terms[p] = c.terms[p]
        BY <1>1, <4>4
      <4>9. term_iri(f, p) = term_iri(c, p)
        BY <4>7, <4>8 DEF term_iri
      <4>10. f.terms[t].iri = c.terms[t].iri
        BY <2>2, <2>3, <2>5
      <4> QED
        BY <3>2, <4>6, <4>9, <4>10 DEF DefinitionHolds
    <3> QED
      BY <3>1, <3>2
  <2> QED
    BY <2>1, <2>2, <2>3, <2>4, <2>5
<1>6. Knows(f, u)
  <2> SUFFICES ASSUME NEW t \in Term
               PROVE  LET def == Bodies[u[t]].defs[t]
                      IN  /\ t \in DOMAIN f.terms <=> Defining(u[t], t)
                          /\ t \in DOMAIN f.terms =>
                               /\ f.terms[t].coercion = def.coercion /\ f.terms[t].scoped = def.scoped
                               /\ (/\ def.value.form = "compact" => u[def.value.prefix] = u[t]
                                   /\ Hops(Bodies[u[t]].defs)[t] <= MAX_PREFIX_CHAIN)
                                  => DefinitionHolds(f, t, def.value)
    BY DEF Knows
  <2>1. CASE t \in DOMAIN defs
    BY <1>4, <2>1
  <2>2. CASE t \notin DOMAIN defs
    BY <1>5, <2>2
  <2> QED
    BY <2>1, <2>2
<1> QED
  BY <1>1, <1>6 DEF f, u

-------------------------------------------------------------------------------
(* An object and what it imports. *)
LEMMA ImportsAreRanked ==
  \E depth \in RankingTo(Cardinality(Name), Name) : \A b \in Name :
    Bodies[b].import # None => Bodies[b].import \in Name /\ depth[Bodies[b].import] < depth[b]
BY ContextsAssumption DEF Name, RankingTo

LEMMA NamesCounted == Cardinality(Name) \in Nat
BY ContextsAssumption, FS_CardinalityType DEF Name

LEMMA RankedToIsRanked ==
  ASSUME NEW M \in Nat, NEW S, NEW rank \in RankingTo(M, S)
  PROVE  rank \in Ranking(S)
BY DEF RankingTo, Ranking

LEMMA ChainIs ==
  /\ WithImports(Reset) = <<Reset>>
  /\ \A b \in Name : /\ WithImports(b) \in Seq(Name)
                     /\ WithImports(b) = IF Bodies[b].import = None THEN <<b>>
                                         ELSE Append(WithImports(Bodies[b].import), b)
<1> DEFINE D == Seq(Name)
           step == [b \in Name |-> [g \in [Name -> D] |->
                      IF Bodies[b].import = None THEN <<b>> ELSE Append(g[Bodies[b].import], b)]]
           Runs(f) == f = [b \in Name |-> IF Bodies[b].import = None THEN <<b>>
                                          ELSE Append(f[Bodies[b].import], b)]
           chain == CHOOSE f : Runs(f)
<1>1. PICK depth \in RankingTo(Cardinality(Name), Name) : \A b \in Name :
        Bodies[b].import # None => Bodies[b].import \in Name /\ depth[Bodies[b].import] < depth[b]
  BY ImportsAreRanked
<1>2. \A b \in Name : \A g \in [Name -> D] :
        (IF Bodies[b].import = None THEN <<b>> ELSE Append(g[Bodies[b].import], b)) \in D
  BY <1>1
<1>3. step \in Steps(Name, D)
      /\ \A b \in Name : \A g \in [Name -> D] :
           step[b][g] = IF Bodies[b].import = None THEN <<b>> ELSE Append(g[Bodies[b].import], b)
  BY <1>2 DEF Steps
<1>4. D # {}
  <2>1. <<>> \in D
    OBVIOUS
  <2> QED
    BY <2>1
<1>5. \A b \in Name : WithImports(b) = chain[b]
  BY NoneIsNoName DEF WithImports, Name
<1> HIDE DEF step, D
<1>6. LooksBelow(step, depth, Name, D)
  <2> SUFFICES ASSUME NEW b \in Name, NEW f \in [Name -> D], NEW g \in [Name -> D],
                      \A m \in Name : depth[m] < depth[b] => f[m] = g[m]
               PROVE  step[b][f] = step[b][g]
    BY DEF LooksBelow
  <2>1. CASE Bodies[b].import = None
    <3>1. step[b][f] = <<b>> /\ step[b][g] = <<b>>
      BY <1>3, <2>1
    <3> QED
      BY <3>1
  <2>2. CASE Bodies[b].import # None
    <3>1. f[Bodies[b].import] = g[Bodies[b].import]
      BY <1>1, <2>2
    <3>2. step[b][f] = Append(f[Bodies[b].import], b) /\ step[b][g] = Append(g[Bodies[b].import], b)
      BY <1>3, <2>2
    <3> QED
      BY <3>1, <3>2
  <2> QED
    BY <2>1, <2>2
<1>7. PICK f : Solution(f, step, Name, D)
  BY <1>1, <1>3, <1>4, <1>6, NamesCounted, RecursionBy
<1>8. Runs(f)
  BY <1>3, <1>7 DEF Solution
<1>9. Runs(chain)
  BY <1>8
<1> HIDE DEF chain
<1>10. \A b \in Name : chain[b] = IF Bodies[b].import = None THEN <<b>> ELSE Append(chain[Bodies[b].import], b)
  BY <1>9
<1> DEFINE Good == {b \in Name : chain[b] \in D}
<1>11. Inductive(Name, depth, Good)
  <2> SUFFICES ASSUME NEW b \in Name, \A m \in Name : depth[m] < depth[b] => m \in Good
               PROVE  b \in Good
    BY DEF Inductive
  <2>1. CASE Bodies[b].import = None
    <3>1. <<b>> \in Seq(Name)
      OBVIOUS
    <3>2. chain[b] = <<b>>
      BY <1>10, <2>1
    <3> QED
      BY <3>1, <3>2 DEF D
  <2>2. CASE Bodies[b].import # None
    <3>1. chain[Bodies[b].import] \in D
      BY <1>1, <2>2
    <3>2. Append(chain[Bodies[b].import], b) \in Seq(Name)
      BY <3>1 DEF D
    <3>3. chain[b] = Append(chain[Bodies[b].import], b)
      BY <1>10, <2>2
    <3> QED
      BY <3>2, <3>3 DEF D
  <2> QED
    BY <2>1, <2>2
<1> HIDE DEF Good
<1>12. Name \subseteq Good
  <2>1. depth \in Ranking(Name)
    BY <1>1, NamesCounted, RankedToIsRanked
  <2> QED
    BY <1>11, <2>1, InductBy
<1>13. WithImports(Reset) = <<Reset>>
  BY DEF WithImports
<1>14. ASSUME NEW b \in Name
       PROVE  /\ WithImports(b) \in Seq(Name)
              /\ WithImports(b) = IF Bodies[b].import = None THEN <<b>>
                                  ELSE Append(WithImports(Bodies[b].import), b)
  <2>1. WithImports(b) \in Seq(Name)
    BY <1>5, <1>12 DEF Good, D
  <2>2. CASE Bodies[b].import = None
    BY <1>5, <1>10, <2>1, <2>2
  <2>3. CASE Bodies[b].import # None
    <3>1. WithImports(Bodies[b].import) = chain[Bodies[b].import]
      BY <1>1, <1>5, <2>3
    <3> QED
      BY <1>5, <1>10, <2>1, <2>3, <3>1
  <2> QED
    BY <2>2, <2>3
<1> QED
  BY <1>13, <1>14

LEMMA ProcessIs ==
  ASSUME NEW c \in Ctx
  PROVE  \A b \in Name :
           /\ process_context_object(c, b) \in Ctx
           /\ process_context_object(c, b) =
                put_on(IF Bodies[b].import = None THEN c
                       ELSE process_context_object(c, Bodies[b].import), Bodies[b])
<1> DEFINE From(g, b) == put_on(IF Bodies[b].import = None THEN c ELSE g[Bodies[b].import], Bodies[b])
           step == [b \in Name |-> [g \in [Name -> Ctx] |-> From(g, b)]]
           Runs(f) == f = [b \in Name |-> From(f, b)]
           processed == CHOOSE f : Runs(f)
<1>1. PICK depth \in RankingTo(Cardinality(Name), Name) : \A b \in Name :
        Bodies[b].import # None => Bodies[b].import \in Name /\ depth[Bodies[b].import] < depth[b]
  BY ImportsAreRanked
<1>2. ASSUME NEW b \in Name, NEW g \in [Name -> Ctx]
      PROVE  From(g, b) \in Ctx
  <2>1. (IF Bodies[b].import = None THEN c ELSE g[Bodies[b].import]) \in Ctx
    BY <1>1
  <2> QED
    BY <2>1, PutOnSays
<1>3. step \in Steps(Name, Ctx)
      /\ \A b \in Name : \A g \in [Name -> Ctx] : step[b][g] = From(g, b)
  BY <1>2 DEF Steps
<1>4. Ctx # {}
  OBVIOUS
<1>5. \A b \in Name : process_context_object(c, b) = processed[b]
  BY DEF process_context_object, Name
<1> HIDE DEF step
<1>6. LooksBelow(step, depth, Name, Ctx)
  <2> SUFFICES ASSUME NEW b \in Name, NEW f \in [Name -> Ctx], NEW g \in [Name -> Ctx],
                      \A m \in Name : depth[m] < depth[b] => f[m] = g[m]
               PROVE  step[b][f] = step[b][g]
    BY DEF LooksBelow
  <2>1. Bodies[b].import # None => f[Bodies[b].import] = g[Bodies[b].import]
    BY <1>1
  <2> QED
    BY <1>3, <2>1
<1>7. PICK f : Solution(f, step, Name, Ctx)
  BY <1>1, <1>3, <1>4, <1>6, NamesCounted, RecursionBy
<1>8. Runs(f)
  <2>1. f \in [Name -> Ctx] /\ \A b \in Name : f[b] = step[b][f]
    BY <1>7 DEF Solution
  <2>2. \A b \in Name : f[b] = From(f, b)
    BY <1>3, <2>1
  <2> QED
    BY <2>1, <2>2
<1>9. Runs(processed)
  BY <1>8
<1> HIDE DEF processed
<1>10. \A b \in Name : processed[b] = From(processed, b)
  BY <1>9
<1> DEFINE Good == {b \in Name : processed[b] \in Ctx}
<1>11. Inductive(Name, depth, Good)
  <2> SUFFICES ASSUME NEW b \in Name, \A m \in Name : depth[m] < depth[b] => m \in Good
               PROVE  b \in Good
    BY DEF Inductive
  <2>1. (IF Bodies[b].import = None THEN c ELSE processed[Bodies[b].import]) \in Ctx
    BY <1>1
  <2>2. From(processed, b) \in Ctx
    BY <2>1, PutOnSays
  <2> QED
    BY <1>10, <2>2
<1> HIDE DEF Good
<1>12. Name \subseteq Good
  <2>1. depth \in Ranking(Name)
    BY <1>1, NamesCounted, RankedToIsRanked
  <2> QED
    BY <1>11, <2>1, InductBy
<1>13. ASSUME NEW b \in Name
       PROVE  /\ process_context_object(c, b) \in Ctx
              /\ process_context_object(c, b) =
                   put_on(IF Bodies[b].import = None THEN c
                          ELSE process_context_object(c, Bodies[b].import), Bodies[b])
  <2>1. process_context_object(c, b) \in Ctx
    BY <1>5, <1>12 DEF Good
  <2>2. Bodies[b].import # None => process_context_object(c, Bodies[b].import) = processed[Bodies[b].import]
    BY <1>1, <1>5
  <2> QED
    BY <1>5, <1>10, <2>1, <2>2
<1> QED
  BY <1>13

LEMMA ProcessKnows ==
  ASSUME NEW c \in Ctx, NEW w \in Wording, Knows(c, w), NEW n \in Names
  PROVE  /\ process_context(c, n) \in Ctx /\ WithImports(n) \in Seq(Names)
         /\ Knows(process_context(c, n), Over(w, WithImports(n)))
<1> DEFINE Good == {b \in Name : Knows(process_context_object(c, b), Over(w, WithImports(b)))}
<1>1. PICK depth \in RankingTo(Cardinality(Name), Name) : \A b \in Name :
        Bodies[b].import # None => Bodies[b].import \in Name /\ depth[Bodies[b].import] < depth[b]
  BY ImportsAreRanked
<1>2. \A b \in Name : WithImports(b) \in Seq(Names) /\ b \in Names
  <2>1. Name \subseteq Names
    BY DEF Names
  <2> QED
    BY <2>1, ChainIs
<1>3. Inductive(Name, depth, Good)
  <2> SUFFICES ASSUME NEW b \in Name, \A m \in Name : depth[m] < depth[b] => m \in Good
               PROVE  b \in Good
    BY DEF Inductive
  <2> DEFINE m == Bodies[b].import
  <2>1. CASE m = None
    <3>1. process_context_object(c, b) = put_on(c, Bodies[b])
      BY <2>1, ProcessIs
    <3>2. Knows(put_on(c, Bodies[b]), Spoken(w, b))
      BY PutOnKnows
    <3>3. WithImports(b) = <<b>>
      BY <2>1, ChainIs
    <3>4. Over(w, <<b>>) = Spoken(w, b)
      BY <1>2, OverOne
    <3> QED
      BY <3>1, <3>2, <3>3, <3>4
  <2>2. CASE m # None
    <3>1. m \in Name /\ Knows(process_context_object(c, m), Over(w, WithImports(m)))
      BY <1>1, <2>2
    <3>2. process_context_object(c, m) \in Ctx
      BY <3>1, ProcessIs
    <3>3. process_context_object(c, b) = put_on(process_context_object(c, m), Bodies[b])
      BY <2>2, ProcessIs
    <3>4. WithImports(b) = Append(WithImports(m), b)
      BY <2>2, ChainIs
    <3>5. Over(w, WithImports(m)) \in Wording
      BY <1>2, <3>1, OverIsWording
    <3>6. Over(w, Append(WithImports(m), b)) = Spoken(Over(w, WithImports(m)), b)
      BY <1>2, <3>1, OverAppend
    <3>7. Knows(put_on(process_context_object(c, m), Bodies[b]), Spoken(Over(w, WithImports(m)), b))
      BY <3>1, <3>2, <3>5, PutOnKnows
    <3> QED
      BY <3>3, <3>4, <3>6, <3>7
  <2> QED
    BY <2>1, <2>2
<1>4. Name \subseteq Good
  <2>1. depth \in Ranking(Name)
    BY <1>1, NamesCounted, RankedToIsRanked
  <2> HIDE DEF Good
  <2> QED
    BY <1>3, <2>1, InductBy
<1>5. CASE n = Reset
  <2>1. process_context(c, n) = EmptyCtx /\ WithImports(n) = <<Reset>> /\ Reset \in Names
    BY <1>5, ChainIs DEF process_context, Names
  <2>2. <<Reset>> \in Seq(Names)
    BY <2>1
  <2>3. Over(w, <<Reset>>) = Spoken(w, Reset)
    BY <2>1, OverOne
  <2>4. \A t \in Term : Spoken(w, Reset)[t] = Reset
    BY DEF Spoken, Says
  <2>5. Spoken(w, Reset) \in Wording
    BY <2>1, SpokenIsWording
  <2>6. Knows(EmptyCtx, Spoken(w, Reset))
    BY <2>4, <2>5, EmptyKnows
  <2> QED
    BY <2>1, <2>2, <2>3, <2>6, EmptyIsCtx
<1>6. CASE n # Reset
  <2>1. n \in Name /\ process_context(c, n) = process_context_object(c, n)
    BY <1>6 DEF process_context, Names
  <2> QED
    BY <1>2, <1>4, <2>1, ProcessIs
<1> QED
  BY <1>5, <1>6

-------------------------------------------------------------------------------
(* Sequences of contexts put together. *)
LEMMA Concatenation ==
  ASSUME NEW S, NEW a \in Seq(S), NEW b \in Seq(S)
  PROVE  a \o b \in Seq(S) /\ <<>> \o a = a /\ a \o <<>> = a
<1>1. <<>> \o a = a
  OBVIOUS
<1>2. a \o <<>> = a
  OBVIOUS
<1> QED
  BY <1>1, <1>2

LEMMA Regrouping ==
  ASSUME NEW S, NEW a \in Seq(S), NEW b \in Seq(S), NEW c \in Seq(S)
  PROVE  a \o (b \o c) = (a \o b) \o c
OBVIOUS

Piled(f, s, S) ==
  /\ f \in [0..Len(s) -> Seq(S)]
  /\ f[0] = <<>>
  /\ \A k \in 1..Len(s) : f[k] = f[k - 1] \o s[k]

LEMMA PileIs ==
  ASSUME NEW S, NEW s \in Seq(Seq(S))
  PROVE  \E f : Piled(f, s, S)
<1> DEFINE D == Seq(S)
           n == Len(s)
           step == [k \in 1..n |-> [g \in D |-> g \o s[k]]]
<1>1. n \in Nat /\ <<>> \in D /\ \A k \in 1..n : s[k] \in D
  OBVIOUS
<1>2. step \in [1..n -> [D -> D]]
  BY <1>1, Concatenation
<1>3. \A k \in 1..n : \A g \in D : step[k][g] = g \o s[k]
  OBVIOUS
<1> HIDE DEF step, D
<1>4. PICK f \in [0..n -> D] : Iteration(f, n, <<>>, step)
  BY <1>1, <1>2, Iterates
<1>5. \A k \in 1..n : k - 1 \in 0..n /\ f[k - 1] \in D
  BY <1>1, <1>4
<1>6. \A k \in 1..n : f[k] = f[k - 1] \o s[k]
  BY <1>3, <1>4, <1>5 DEF Iteration
<1> QED
  BY <1>4, <1>6 DEF Piled, Iteration, D

LEMMA FlattenIs ==
  ASSUME NEW S, NEW s \in Seq(Seq(S)), NEW f, Piled(f, s, S)
  PROVE  FlattenSeq(s) = f[Len(s)] /\ FlattenSeq(s) \in Seq(S)
<1> DEFINE n == Len(s)
           Runs(g) == g = [i \in 1..n |-> IF i = 1 THEN s[i] ELSE g[i - 1] \o s[i]]
           flatten == CHOOSE g : Runs(g)
           h == [i \in 1..n |-> f[i]]
<1>1. n \in Nat /\ \A k \in 1..n : s[k] \in Seq(S)
  OBVIOUS
<1>2. CASE n = 0
  <2>1. s = <<>>
    BY <1>2
  <2>2. FlattenSeq(s) = s
    BY <1>2 DEF FlattenSeq
  <2> QED
    BY <1>2, <2>1, <2>2 DEF Piled
<1>3. CASE n # 0
  <2>1. FlattenSeq(s) = flatten[n]
    BY <1>3 DEF FlattenSeq
  <2>2. Runs(h)
    <3>1. ASSUME NEW i \in 1..n
          PROVE  h[i] = IF i = 1 THEN s[i] ELSE h[i - 1] \o s[i]
      <4>1. f[i] = f[i - 1] \o s[i]
        BY DEF Piled
      <4>2. CASE i = 1
        <5>1. f[i - 1] = <<>>
          BY <4>2 DEF Piled
        <5>2. f[i] = <<>> \o s[i]
          BY <4>1, <5>1
        <5> QED
          BY <1>1, <4>2, <5>2, Concatenation
      <4>3. CASE i # 1
        <5>1. i - 1 \in 1..n
          BY <1>1, <4>3
        <5> QED
          BY <4>1, <4>3, <5>1
      <4> QED
        BY <4>2, <4>3
    <3> QED
      BY <3>1
  <2>3. Runs(flatten)
    BY <2>2
  <2> HIDE DEF flatten, h
  <2>4. \A i \in 1..n : flatten[i] = IF i = 1 THEN s[i] ELSE flatten[i - 1] \o s[i]
    BY <2>3
  <2> DEFINE G == {k \in 0..n : k = 0 \/ flatten[k] = f[k]}
  <2>5. 0 \in G
    BY <1>1
  <2>6. ASSUME NEW k \in 1..n, k - 1 \in G
        PROVE  k \in G
    <3>1. f[k] = f[k - 1] \o s[k]
      BY DEF Piled
    <3>2. CASE k = 1
      <4>1. f[k - 1] = <<>>
        BY <3>2 DEF Piled
      <4>2. f[k] = <<>> \o s[k]
        BY <3>1, <4>1
      <4>3. f[k] = s[k]
        BY <1>1, <4>2, Concatenation
      <4> QED
        BY <1>1, <2>4, <3>2, <4>3
    <3>3. CASE k # 1
      <4>1. flatten[k - 1] = f[k - 1]
        BY <2>6, <3>3
      <4>2. flatten[k] = flatten[k - 1] \o s[k]
        BY <2>4, <3>3
      <4>3. flatten[k] = f[k]
        BY <3>1, <4>1, <4>2
      <4>4. k \in 0..n
        BY <1>1
      <4> QED
        BY <4>3, <4>4
    <3> QED
      BY <3>2, <3>3
  <2> HIDE DEF G
  <2>7. 0..n \subseteq G
    BY <1>1, <2>5, <2>6, UpTo
  <2>8. flatten[n] = f[n] /\ f[n] \in Seq(S)
    BY <1>1, <1>3, <2>7 DEF G, Piled
  <2> QED
    BY <2>1, <2>8
<1> QED
  BY <1>2, <1>3

LEMMA FlattenAppend ==
  ASSUME NEW S, NEW s \in Seq(Seq(S)), NEW e \in Seq(S)
  PROVE  FlattenSeq(Append(s, e)) = FlattenSeq(s) \o e
<1> DEFINE r == Append(s, e)
           n == Len(s)
<1>1. /\ r \in Seq(Seq(S)) /\ n \in Nat /\ Len(r) = n + 1 /\ r[n + 1] = e
      /\ \A k \in 1..n : r[k] = s[k]
  OBVIOUS
<1> HIDE DEF r
<1>2. PICK f : Piled(f, r, S)
  BY <1>1, PileIs
<1> DEFINE g == [k \in 0..n |-> f[k]]
<1>3. Piled(g, s, S)
  <2>1. \A k \in 0..n : k \in 0..(n + 1)
    BY <1>1
  <2>2. g \in [0..n -> Seq(S)] /\ g[0] = <<>>
    BY <1>1, <1>2, <2>1 DEF Piled
  <2>3. ASSUME NEW k \in 1..n
        PROVE  g[k] = g[k - 1] \o s[k]
    <3>1. k \in 1..(n + 1) /\ k \in 0..n /\ k - 1 \in 0..n
      BY <1>1
    <3> QED
      BY <1>1, <1>2, <3>1 DEF Piled
  <2> QED
    BY <2>2, <2>3 DEF Piled
<1>4. FlattenSeq(s) = f[n]
  <2>1. g[n] = f[n]
    BY <1>1
  <2> QED
    BY <1>3, <2>1, FlattenIs
<1>5. FlattenSeq(r) = f[n + 1]
  BY <1>1, <1>2, FlattenIs
<1>6. f[n + 1] = f[n] \o e
  <2>1. n + 1 \in 1..(n + 1) /\ (n + 1) - 1 = n
    BY <1>1
  <2> QED
    BY <1>1, <1>2, <2>1 DEF Piled
<1> QED
  BY <1>4, <1>5, <1>6 DEF r

LEMMA FlattenNothing == FlattenSeq(<<>>) = <<>>
<1>1. Len(<<>>) = 0
  OBVIOUS
<1> QED
  BY <1>1 DEF FlattenSeq

LEMMA FlattenTyped ==
  ASSUME NEW S, NEW s \in Seq(Seq(S))
  PROVE  FlattenSeq(s) \in Seq(S)
BY PileIs, FlattenIs

LEMMA ImportsTyped == \A n \in Names : WithImports(n) \in Seq(Names)
<1>1. Name \subseteq Names /\ Reset \in Names
  BY DEF Names
<1>2. <<Reset>> \in Seq(Names)
  BY <1>1
<1>3. \A n \in Name : WithImports(n) \in Seq(Names)
  BY <1>1, ChainIs
<1>4. WithImports(Reset) \in Seq(Names)
  BY <1>2, ChainIs
<1> QED
  BY <1>3, <1>4 DEF Names

Brought(contexts) == [i \in DOMAIN contexts |-> WithImports(contexts[i])]

LEMMA BroughtTyped ==
  ASSUME NEW s \in Seq(Names)
  PROVE  Brought(s) \in Seq(Seq(Names))
<1>1. DOMAIN s = 1..Len(s) /\ Len(s) \in Nat /\ \A i \in DOMAIN s : s[i] \in Names
  OBVIOUS
<1>2. \A i \in DOMAIN s : WithImports(s[i]) \in Seq(Names)
  BY <1>1, ImportsTyped
<1> QED
  BY <1>1, <1>2 DEF Brought

LEMMA OnTopOf ==
  ASSUME NEW names \in Seq(Names), NEW s \in Seq(Names), NEW n \in Names
  PROVE  /\ OnTop(names, s) \in Seq(Names)
         /\ OnTop(names, <<>>) = names
         /\ OnTop(names, Append(s, n)) = OnTop(names, s) \o WithImports(n)
<1> DEFINE r == Append(s, n)
<1>1. Brought(s) \in Seq(Seq(Names)) /\ WithImports(n) \in Seq(Names)
  BY BroughtTyped, ImportsTyped
<1>2. OnTop(names, s) = names \o FlattenSeq(Brought(s)) /\ OnTop(names, r) = names \o FlattenSeq(Brought(r))
  BY DEF OnTop, Brought
<1>3. FlattenSeq(Brought(s)) \in Seq(Names)
  BY <1>1, FlattenTyped
<1>4. OnTop(names, s) \in Seq(Names)
  BY <1>2, <1>3, Concatenation
<1>5. OnTop(names, <<>>) = names
  <2>1. Brought(<<>>) = <<>>
    BY DEF Brought
  <2>2. OnTop(names, <<>>) = names \o FlattenSeq(Brought(<<>>))
    BY DEF OnTop, Brought
  <2> QED
    BY <2>1, <2>2, FlattenNothing, Concatenation
<1>6. Brought(r) = Append(Brought(s), WithImports(n))
  <2> DEFINE f == Brought(r)
             g == Append(Brought(s), WithImports(n))
  <2>1. /\ r \in Seq(Names) /\ Len(r) = Len(s) + 1 /\ Len(s) \in Nat /\ r[Len(s) + 1] = n
        /\ \A i \in 1..Len(s) : r[i] = s[i]
    OBVIOUS
  <2> HIDE DEF r
  <2>2. f \in Seq(Seq(Names)) /\ Len(f) = Len(s) + 1
    <3>1. f \in Seq(Seq(Names))
      BY <2>1, BroughtTyped
    <3>2. DOMAIN f = 1..(Len(s) + 1)
      BY <2>1 DEF Brought
    <3> QED
      BY <2>1, <3>1, <3>2
  <2>3. Len(Brought(s)) = Len(s)
    <3>1. DOMAIN Brought(s) = 1..Len(s)
      BY DEF Brought
    <3> QED
      BY <1>1, <2>1, <3>1
  <2>4. /\ g \in Seq(Seq(Names)) /\ Len(g) = Len(s) + 1
        /\ g[Len(s) + 1] = WithImports(n) /\ \A i \in 1..Len(s) : g[i] = Brought(s)[i]
    BY <1>1, <2>1, <2>3
  <2>5. \A i \in 1..(Len(s) + 1) : f[i] = WithImports(r[i])
    BY <2>1 DEF Brought
  <2>6. \A i \in 1..Len(s) : Brought(s)[i] = WithImports(s[i])
    BY DEF Brought
  <2>7. ASSUME NEW i \in 1..(Len(s) + 1)
        PROVE  f[i] = g[i]
    <3>1. CASE i = Len(s) + 1
      BY <2>1, <2>4, <2>5, <3>1
    <3>2. CASE i # Len(s) + 1
      <4>1. i \in 1..Len(s)
        BY <2>1, <3>2
      <4> QED
        BY <2>1, <2>4, <2>5, <2>6, <4>1
    <3> QED
      BY <3>1, <3>2
  <2> HIDE DEF f, g
  <2>8. f = g
    BY <2>2, <2>4, <2>7
  <2> QED
    BY <2>8 DEF f, g
<1> HIDE DEF r
<1>7. FlattenSeq(Brought(r)) = FlattenSeq(Brought(s)) \o WithImports(n)
  BY <1>1, <1>6, FlattenAppend
<1>8. OnTop(names, r) = OnTop(names, s) \o WithImports(n)
  BY <1>1, <1>2, <1>3, <1>7, Regrouping
<1> QED
  BY <1>4, <1>5, <1>8 DEF r

-------------------------------------------------------------------------------
(* The contexts scoped to types. *)
LEMMA LastWordOn ==
  ASSUME NEW own \in Seq(Names), NEW t \in Term
  PROVE  /\ Words(own)[t] = LastWord(own, t)
         /\ Defining(LastWord(own, t), t) <=>
              /\ LastWord(own, t) \notin {None, Reset}
              /\ Bodies[LastWord(own, t)].defs[t].value # Null
<1> DEFINE last == LastWord(own, t)
<1>1. Words(own)[t] = last
  BY DEF Words
<1>2. last = None \/ (last \in Names /\ Says(last, t))
  BY LastWordIs
<1> HIDE DEF last
<1>3. last \in {None, Reset} => ~Defining(last, t)
  BY NoneIsNoName DEF Defining, Names
<1>4. last \notin {None, Reset} => (Defining(last, t) <=> Bodies[last].defs[t].value # Null)
  BY <1>2 DEF Defining, Names, Says
<1>5. Defining(last, t) <=> last \notin {None, Reset} /\ Bodies[last].defs[t].value # Null
  BY <1>3, <1>4
<1> QED
  BY <1>1, <1>5 DEF last

LEMMA ScopeTyped ==
  ASSUME NEW own \in Seq(Names), NEW t \in Term
  PROVE  Scope(own, t) \in Name \cup {None}
<1> DEFINE last == LastWord(own, t)
<1>1. CASE Defining(last, t)
  <2>1. last \in Name /\ t \in DOMAIN Bodies[last].defs
    BY <1>1 DEF Defining
  <2>2. Bodies[last].defs[t].scoped \in Name \cup {None}
    BY <2>1, BodyIs DEF RawDef, Name
  <2>3. Scope(own, t) = Bodies[last].defs[t].scoped
    BY <1>1, LastWordOn DEF Scope
  <2> QED
    BY <2>2, <2>3
<1>2. CASE ~Defining(last, t)
  BY <1>2, LastWordOn DEF Scope
<1> QED
  BY <1>1, <1>2

LEMMA ScopeIs ==
  ASSUME NEW c \in Ctx, NEW own \in Seq(Names), Knows(c, Words(own)), NEW t \in Term
  PROVE  Scope(own, t) = IF t \in DOMAIN c.terms THEN c.terms[t].scoped ELSE None
<1> DEFINE last == LastWord(own, t)
<1>1. /\ Words(own)[t] = last
      /\ Defining(last, t) <=> last \notin {None, Reset} /\ Bodies[last].defs[t].value # Null
  BY LastWordOn
<1>2. /\ t \in DOMAIN c.terms <=> Defining(last, t)
      /\ t \in DOMAIN c.terms => c.terms[t].scoped = Bodies[last].defs[t].scoped
  BY <1>1 DEF Knows
<1>3. CASE Defining(last, t)
  BY <1>1, <1>2, <1>3 DEF Scope
<1>4. CASE ~Defining(last, t)
  BY <1>1, <1>2, <1>4 DEF Scope
<1> QED
  BY <1>3, <1>4

Scoped(own, types) ==
  LET scope(t) == IF t \in types THEN Scope(own, t) ELSE None
  IN  [i \in DOMAIN KeyOrder |->
         IF scope(KeyOrder[i]) = None THEN <<>> ELSE WithImports(scope(KeyOrder[i]))]

LEMMA ScopedTyped ==
  ASSUME NEW own \in Seq(Names), NEW types \in SUBSET Term
  PROVE  /\ Scoped(own, types) \in Seq(Seq(Names)) /\ Len(Scoped(own, types)) = Keys
         /\ \A i \in 1..Keys : Scoped(own, types)[i] =
              IF KeyOrder[i] \in types /\ Scope(own, KeyOrder[i]) # None
                THEN WithImports(Scope(own, KeyOrder[i])) ELSE <<>>
         /\ Under(own, types) = own \o FlattenSeq(Scoped(own, types))
<1> DEFINE s == Scoped(own, types)
           piece(i) == IF KeyOrder[i] \in types /\ Scope(own, KeyOrder[i]) # None
                         THEN WithImports(Scope(own, KeyOrder[i])) ELSE <<>>
<1>1. \A i \in 1..Keys : piece(i) \in Seq(Names)
  <2> TAKE i \in 1..Keys
  <2>1. CASE KeyOrder[i] \in types /\ Scope(own, KeyOrder[i]) # None
    <3>1. Scope(own, KeyOrder[i]) \in Names
      BY <2>1, KeysAre, ScopeTyped DEF Names
    <3> QED
      BY <2>1, <3>1, ImportsTyped
  <2>2. CASE ~(KeyOrder[i] \in types /\ Scope(own, KeyOrder[i]) # None)
    <3>1. <<>> \in Seq(Names)
      OBVIOUS
    <3> QED
      BY <2>2, <3>1
  <2> QED
    BY <2>1, <2>2
<1>2. s = [i \in 1..Keys |-> piece(i)]
  BY KeysAre DEF Scoped
<1>3. Under(own, types) = own \o FlattenSeq(s)
  BY DEF Under, Scoped
<1> HIDE DEF s, piece
<1>4. Keys \in Nat
  BY KeysAre
<1>5. s \in Seq(Seq(Names)) /\ Len(s) = Keys
  BY <1>1, <1>2, <1>4
<1>6. \A i \in 1..Keys : s[i] = piece(i)
  BY <1>2
<1> QED
  BY <1>3, <1>5, <1>6 DEF s, piece

LEMMA UnderTyped ==
  ASSUME NEW own \in Seq(Names), NEW types \in SUBSET Term
  PROVE  Under(own, types) \in Seq(Names)
BY ScopedTyped, FlattenTyped, Concatenation

LEMMA ProcessTyped ==
  ASSUME NEW c \in Ctx, NEW n \in Names
  PROVE  process_context(c, n) \in Ctx
BY ProcessIs, EmptyIsCtx DEF process_context, Names

(* On a context that knows what the contexts before say, the scoped ones   *)
(* of some types.                                                          *)
LEMMA PutOnScopedKnows ==
  ASSUME NEW c \in Ctx, NEW own \in Seq(Names), Knows(c, Words(own)),
         NEW types \in SUBSET Term, NEW scoping, scoping = {t \in types : Scope(own, t) # None}
  PROVE  put_on_scoped(c, scoping) \in Ctx /\ Knows(put_on_scoped(c, scoping), Words(Under(own, types)))
<1> DEFINE s == Scoped(own, types)
           From(g, k) == IF KeyOrder[k] \in scoping
                           THEN process_context(g, c.terms[KeyOrder[k]].scoped) ELSE g
           step == [k \in 1..Keys |-> [g \in Ctx |-> From(g, k)]]
           Runs(f) ==
             f = [k \in 0..Keys |->
                    IF k = 0 THEN c
                    ELSE IF KeyOrder[k] \in scoping
                      THEN process_context(f[k - 1], c.terms[KeyOrder[k]].scoped)
                      ELSE f[k - 1]]
           after == CHOOSE f : Runs(f)
<1>1. /\ s \in Seq(Seq(Names)) /\ Len(s) = Keys
      /\ \A i \in 1..Keys : s[i] =
           IF KeyOrder[i] \in types /\ Scope(own, KeyOrder[i]) # None
             THEN WithImports(Scope(own, KeyOrder[i])) ELSE <<>>
      /\ Under(own, types) = own \o FlattenSeq(s)
  BY ScopedTyped
<1>2. \A k \in 1..Keys : KeyOrder[k] \in scoping =>
        /\ c.terms[KeyOrder[k]].scoped \in Names
        /\ s[k] = WithImports(c.terms[KeyOrder[k]].scoped)
  <2> TAKE k \in 1..Keys
  <2> HAVE KeyOrder[k] \in scoping
  <2>1. KeyOrder[k] \in Term /\ KeyOrder[k] \in types /\ Scope(own, KeyOrder[k]) # None
    OBVIOUS
  <2>2. Scope(own, KeyOrder[k]) = c.terms[KeyOrder[k]].scoped
    BY <2>1, ScopeIs
  <2>3. Scope(own, KeyOrder[k]) \in Names
    BY <2>1, ScopeTyped DEF Names
  <2> QED
    BY <1>1, <2>1, <2>2, <2>3
<1>3. \A k \in 1..Keys : KeyOrder[k] \notin scoping => s[k] = <<>>
  BY <1>1
<1>4. put_on_scoped(c, scoping) = after[Keys]
  BY DEF put_on_scoped, Keys
<1> HIDE DEF s
<1>5. \A k \in 1..Keys : \A g \in Ctx : From(g, k) \in Ctx
  BY <1>2, ProcessTyped
<1>6. step \in [1..Keys -> [Ctx -> Ctx]] /\ \A k \in 1..Keys : \A g \in Ctx : step[k][g] = From(g, k)
  BY <1>5
<1> HIDE DEF step
<1>7. PICK f \in [0..Keys -> Ctx] : Iteration(f, Keys, c, step)
  BY <1>6, KeysAre, Iterates
<1>8. Runs(f)
  <2>1. ASSUME NEW k \in 0..Keys
        PROVE  f[k] = IF k = 0 THEN c
                      ELSE IF KeyOrder[k] \in scoping
                        THEN process_context(f[k - 1], c.terms[KeyOrder[k]].scoped)
                        ELSE f[k - 1]
    <3>1. CASE k = 0
      BY <1>7, <3>1 DEF Iteration
    <3>2. CASE k # 0
      <4>1. k \in 1..Keys /\ k - 1 \in 0..Keys
        BY <3>2, KeysAre
      <4>2. f[k] = From(f[k - 1], k)
        BY <1>6, <1>7, <4>1 DEF Iteration
      <4> QED
        BY <3>2, <4>2
    <3> QED
      BY <3>1, <3>2
  <2> QED
    BY <1>7, <2>1
<1>9. Runs(after)
  BY <1>8
<1> HIDE DEF after
<1>10. after[0] = c /\ \A k \in 1..Keys : after[k] = From(after[k - 1], k)
  <2>1. 0 \in 0..Keys /\ \A k \in 1..Keys : k \in 0..Keys /\ k # 0
    BY KeysAre
  <2> QED
    BY <1>9, <2>1
<1>11. PICK pile : Piled(pile, s, Names)
  BY <1>1, PileIs
<1> DEFINE G == {k \in 0..Keys : after[k] \in Ctx /\ Knows(after[k], Words(own \o pile[k]))}
<1>12. 0 \in G
  <2>1. own \o pile[0] = own
    BY <1>11, Concatenation DEF Piled
  <2>2. Knows(after[0], Words(own \o pile[0])) /\ after[0] \in Ctx
    BY <1>10, <2>1
  <2>3. 0 \in 0..Keys
    BY KeysAre
  <2> QED
    BY <2>2, <2>3
<1>13. ASSUME NEW k \in 1..Keys, k - 1 \in G
       PROVE  k \in G
  <2> DEFINE before == own \o pile[k - 1]
  <2>1. after[k - 1] \in Ctx /\ Knows(after[k - 1], Words(before)) /\ k \in 0..Keys /\ k - 1 \in 0..Keys
    BY <1>13, KeysAre
  <2>2. pile[k] = pile[k - 1] \o s[k] /\ pile[k - 1] \in Seq(Names) /\ s[k] \in Seq(Names)
    <3>1. s[k] \in Seq(Names)
      BY <1>1, KeysAre
    <3>2. pile[k - 1] \in Seq(Names)
      BY <1>1, <1>11, <2>1 DEF Piled
    <3>3. pile[k] = pile[k - 1] \o s[k]
      BY <1>1, <1>11 DEF Piled
    <3> QED
      BY <3>1, <3>2, <3>3
  <2>3. own \o pile[k] = before \o s[k] /\ before \in Seq(Names)
    <3>1. before \in Seq(Names)
      BY <2>2, Concatenation
    <3>2. own \o (pile[k - 1] \o s[k]) = before \o s[k]
      <4> DEFINE p == pile[k - 1]
                 q == s[k]
      <4>1. p \in Seq(Names) /\ q \in Seq(Names)
        BY <2>2
      <4> HIDE DEF p, q
      <4>2. own \o (p \o q) = (own \o p) \o q
        BY <4>1, Regrouping
      <4> QED
        BY <4>2 DEF p, q
    <3> QED
      BY <2>2, <3>1, <3>2
  <2> HIDE DEF before
  <2>4. Words(own \o pile[k]) = Over(Words(before), s[k]) /\ Words(before) \in Wording
    BY <2>2, <2>3, WordsConcat, WordsAreWording
  <2>5. CASE KeyOrder[k] \in scoping
    <3> DEFINE n == c.terms[KeyOrder[k]].scoped
    <3>1. n \in Names /\ s[k] = WithImports(n)
      BY <1>2, <2>5
    <3>2. after[k] = process_context(after[k - 1], n)
      BY <1>10, <2>5
    <3> HIDE DEF n
    <3>3. process_context(after[k - 1], n) \in Ctx
          /\ Knows(process_context(after[k - 1], n), Over(Words(before), WithImports(n)))
      BY <2>1, <2>4, <3>1, ProcessKnows
    <3> QED
      BY <2>1, <2>4, <3>1, <3>2, <3>3
  <2>6. CASE KeyOrder[k] \notin scoping
    <3>1. after[k] = after[k - 1] /\ s[k] = <<>>
      BY <1>3, <1>10, <2>6
    <3>2. Over(Words(before), <<>>) = Words(before)
      BY <2>4, OverNothing
    <3> QED
      BY <2>1, <2>4, <3>1, <3>2
  <2> QED
    BY <2>5, <2>6
<1> HIDE DEF G
<1>14. 0..Keys \subseteq G
  BY <1>12, <1>13, KeysAre, UpTo
<1>15. Keys \in 0..Keys
  BY KeysAre
<1>16. Under(own, types) = own \o pile[Keys]
  BY <1>1, <1>11, FlattenIs
<1> QED
  BY <1>4, <1>14, <1>15, <1>16 DEF G

LEMMA TypesApply ==
  ASSUME NEW c \in Ctx, NEW own \in Seq(Names), Knows(c, Words(own)), NEW types \in SUBSET Term
  PROVE  /\ apply_type_scoped(c, types).effective \in Ctx
         /\ Knows(apply_type_scoped(c, types).effective, Words(Under(own, types)))
         /\ apply_type_scoped(c, types).child_base \in Ctx
         /\ Knows(apply_type_scoped(c, types).child_base, Words(Under(own, Reaching(own, types))))
<1> DEFINE scoping == ScopingTypes(c, types)
           reaching == {t \in scoping : Propagating(c.terms[t].scoped)}
<1>1. \A t \in Term : Scope(own, t) = IF t \in DOMAIN c.terms THEN c.terms[t].scoped ELSE None
  BY ScopeIs
<1>2. scoping = {t \in types : Scope(own, t) # None}
  BY <1>1 DEF ScopingTypes
<1>3. reaching = Reaching(own, types)
  BY <1>1, <1>2 DEF Reaching, Propagating
<1>4. Reaching(own, types) \in SUBSET Term
      /\ Reaching(own, types) = {t \in Reaching(own, types) : Scope(own, t) # None}
  BY DEF Reaching
<1>5. /\ apply_type_scoped(c, types).effective = put_on_scoped(c, scoping)
      /\ apply_type_scoped(c, types).child_base = put_on_scoped(c, reaching)
  BY DEF apply_type_scoped
<1> HIDE DEF scoping, reaching
<1>6. put_on_scoped(c, scoping) \in Ctx /\ Knows(put_on_scoped(c, scoping), Words(Under(own, types)))
  BY <1>2, PutOnScopedKnows
<1>7. put_on_scoped(c, reaching) \in Ctx
      /\ Knows(put_on_scoped(c, reaching), Words(Under(own, Reaching(own, types))))
  BY <1>3, <1>4, PutOnScopedKnows
<1> QED
  BY <1>5, <1>6, <1>7

-------------------------------------------------------------------------------
(* Nodes, and what comes down from them. *)
Node == [contexts : Seq(Names), types : SUBSET Term]

LEMMA PastTyped ==
  ASSUME NEW above \in Seq(Names), NEW node \in Node
  PROVE  Past(above, node) \in Seq(Names)
<1>1. OnTop(above, node.contexts) \in Seq(Names)
  <2>1. node.contexts \in Seq(Names)
    BY DEF Node
  <2>2. FlattenSeq(Brought(node.contexts)) \in Seq(Names)
    BY <2>1, BroughtTyped, FlattenTyped
  <2> QED
    BY <2>2, Concatenation DEF OnTop, Brought
<1>2. Reaching(OnTop(above, node.contexts), node.types) \in SUBSET Term
  BY DEF Reaching, Node
<1> QED
  BY <1>1, <1>2, UnderTyped DEF Past

Fallen(f, nodes) ==
  /\ f \in [0..Len(nodes) -> Seq(Names)]
  /\ f[0] = <<>>
  /\ \A k \in 1..Len(nodes) : f[k] = Past(f[k - 1], nodes[k])

LEMMA FallenIs ==
  ASSUME NEW nodes \in Seq(Node)
  PROVE  \E f : Fallen(f, nodes)
<1> DEFINE D == Seq(Names)
           n == Len(nodes)
           step == [k \in 1..n |-> [g \in D |-> Past(g, nodes[k])]]
<1>1. n \in Nat /\ <<>> \in D /\ \A k \in 1..n : nodes[k] \in Node
  OBVIOUS
<1>2. \A k \in 1..n : \A g \in D : Past(g, nodes[k]) \in D
  BY <1>1, PastTyped
<1>3. step \in [1..n -> [D -> D]] /\ \A k \in 1..n : \A g \in D : step[k][g] = Past(g, nodes[k])
  BY <1>2
<1> HIDE DEF step, D
<1>4. PICK f \in [0..n -> D] : Iteration(f, n, <<>>, step)
  BY <1>1, <1>3, Iterates
<1>5. \A k \in 1..n : k - 1 \in 0..n /\ f[k - 1] \in D
  BY <1>1, <1>4
<1>6. \A k \in 1..n : f[k] = Past(f[k - 1], nodes[k])
  BY <1>3, <1>4, <1>5 DEF Iteration
<1> QED
  BY <1>4, <1>6 DEF Fallen, Iteration, D

LEMMA ComingDownIs ==
  ASSUME NEW nodes \in Seq(Node), NEW f, Fallen(f, nodes)
  PROVE  ComingDown(nodes) = f[Len(nodes)] /\ ComingDown(nodes) \in Seq(Names)
<1> DEFINE n == Len(nodes)
           Runs(g) == g = [k \in 0..n |-> IF k = 0 THEN <<>> ELSE Past(g[k - 1], nodes[k])]
           past == CHOOSE g : Runs(g)
<1>1. n \in Nat
  OBVIOUS
<1>2. ComingDown(nodes) = past[n]
  BY DEF ComingDown
<1>3. Runs(f)
  <2>1. ASSUME NEW k \in 0..n
        PROVE  f[k] = IF k = 0 THEN <<>> ELSE Past(f[k - 1], nodes[k])
    <3>1. CASE k = 0
      BY <3>1 DEF Fallen
    <3>2. CASE k # 0
      <4>1. k \in 1..n
        BY <1>1, <3>2
      <4> QED
        BY <3>2, <4>1 DEF Fallen
    <3> QED
      BY <3>1, <3>2
  <2> QED
    BY <2>1 DEF Fallen
<1>4. Runs(past)
  BY <1>3
<1> HIDE DEF past
<1>5. past[0] = <<>> /\ \A k \in 1..n : past[k] = Past(past[k - 1], nodes[k])
  <2>1. 0 \in 0..n /\ \A k \in 1..n : k \in 0..n /\ k # 0
    BY <1>1
  <2> QED
    BY <1>4, <2>1
<1> DEFINE G == {k \in 0..n : past[k] = f[k]}
<1>6. 0 \in G
  BY <1>1, <1>5 DEF Fallen
<1>7. ASSUME NEW k \in 1..n, k - 1 \in G
      PROVE  k \in G
  <2>1. past[k - 1] = f[k - 1] /\ k \in 0..n
    BY <1>1, <1>7
  <2>2. past[k] = Past(past[k - 1], nodes[k])
    BY <1>5
  <2>3. f[k] = Past(f[k - 1], nodes[k])
    BY DEF Fallen
  <2> QED
    BY <2>1, <2>2, <2>3
<1> HIDE DEF G
<1>8. 0..n \subseteq G
  BY <1>1, <1>6, <1>7, UpTo
<1>9. n \in 0..n
  BY <1>1
<1> QED
  BY <1>2, <1>8, <1>9 DEF G, Fallen

LEMMA ComingDownFrom ==
  ASSUME NEW nodes \in Seq(Node), NEW node \in Node
  PROVE  /\ ComingDown(nodes) \in Seq(Names)
         /\ ComingDown(Append(nodes, node)) = Past(ComingDown(nodes), node)
<1> DEFINE r == Append(nodes, node)
           n == Len(nodes)
<1>1. /\ r \in Seq(Node) /\ n \in Nat /\ Len(r) = n + 1 /\ r[n + 1] = node
      /\ \A k \in 1..n : r[k] = nodes[k]
  OBVIOUS
<1> HIDE DEF r
<1>2. PICK f : Fallen(f, r)
  BY <1>1, FallenIs
<1> DEFINE g == [k \in 0..n |-> f[k]]
<1>3. Fallen(g, nodes)
  <2>1. \A k \in 0..n : k \in 0..(n + 1)
    BY <1>1
  <2>2. g \in [0..n -> Seq(Names)] /\ g[0] = <<>>
    BY <1>1, <1>2, <2>1 DEF Fallen
  <2>3. ASSUME NEW k \in 1..n
        PROVE  g[k] = Past(g[k - 1], nodes[k])
    <3>1. k \in 1..(n + 1) /\ k \in 0..n /\ k - 1 \in 0..n
      BY <1>1
    <3> QED
      BY <1>1, <1>2, <3>1 DEF Fallen
  <2> QED
    BY <2>2, <2>3 DEF Fallen
<1>4. ComingDown(nodes) = f[n] /\ ComingDown(nodes) \in Seq(Names)
  <2>1. g[n] = f[n]
    BY <1>1
  <2> QED
    BY <1>3, <2>1, ComingDownIs
<1>5. ComingDown(r) = f[n + 1]
  BY <1>1, <1>2, ComingDownIs
<1>6. f[n + 1] = Past(f[n], node)
  <2>1. n + 1 \in 1..(n + 1) /\ (n + 1) - 1 = n
    BY <1>1
  <2> QED
    BY <1>1, <1>2, <2>1 DEF Fallen
<1> QED
  BY <1>4, <1>5, <1>6 DEF r

LEMMA ComingDownFromNone == ComingDown(<<>>) = <<>>
<1> DEFINE nodes == <<>>
<1>1. nodes \in Seq(Node) /\ Len(nodes) = 0
  OBVIOUS
<1> HIDE DEF nodes
<1>2. PICK f : Fallen(f, nodes)
  BY <1>1, FallenIs
<1>3. ComingDown(nodes) = <<>>
  BY <1>1, <1>2, ComingDownIs DEF Fallen
<1> QED
  BY <1>3 DEF nodes

-------------------------------------------------------------------------------
(* Some of the contexts of the last node have been applied: the active     *)
(* context knows what they say on top of what comes down to it.            *)
Applying(nodes, node) ==
  \E applied \in Seq(Names) :
    /\ node.contexts = applied \o pending
    /\ Knows(ctx, Words(OnTop(ComingDown(nodes), applied)))

(* All have, and so have those of its types: nested nodes start from what  *)
(* comes down to them.                                                     *)
ReadingAt(nodes, node) ==
  /\ node \in Node
  /\ Knows(ctx, Words(Under(OnTop(ComingDown(nodes), node.contexts), node.types)))
  /\ Knows(childBase, Words(ComingDown(Append(nodes, node))))

LastNode == [contexts : Seq(Names), types : SUBSET Term]

ContextsInv ==
  /\ ctx \in Ctx /\ childBase \in Ctx
  /\ pending \in Seq(Names)
  /\ status \in {"contexts", "reading", "failed"}
  /\ \E nodes \in Seq(Node), node \in LastNode :
       /\ path = Append(nodes, node)
       /\ status = "contexts" => Applying(nodes, node)
       /\ status = "reading" => pending = <<>> /\ ReadingAt(nodes, node)

LEMMA PathIs ==
  ASSUME NEW nodes \in Seq(Node), NEW node \in LastNode, NEW p, p = Append(nodes, node)
  PROVE  /\ Len(p) = Len(nodes) + 1 /\ Len(nodes) \in Nat
         /\ p[Len(p)] = node /\ Front(p) = nodes
<1> DEFINE S == Node \cup LastNode
           n == Len(nodes)
<1>1. nodes \in Seq(S) /\ node \in S /\ n \in Nat
  <2>1. nodes \in Seq(S)
    OBVIOUS
  <2> QED
    BY <2>1
<1>2. p \in Seq(S) /\ Len(p) = n + 1 /\ p[n + 1] = node /\ \A k \in 1..n : p[k] = nodes[k]
  BY <1>1
<1>3. Front(p) = nodes
  <2>1. Front(p) = SubSeq(p, 1, n)
    BY <1>1, <1>2 DEF Front
  <2>2. SubSeq(p, 1, n) = nodes
    BY <1>1, <1>2
  <2> QED
    BY <2>1, <2>2
<1> QED
  BY <1>1, <1>2, <1>3

LEMMA Retyped ==
  ASSUME NEW nodes \in Seq(Node), NEW node \in LastNode, NEW types,
         NEW p, p = Append(nodes, node), NEW q, q = [p EXCEPT ![Len(p)].types = types]
  PROVE  q = Append(nodes, [contexts |-> node.contexts, types |-> types])
<1> DEFINE n == Len(nodes)
           new == [contexts |-> node.contexts, types |-> types]
           r == Append(nodes, new)
           S == Node \cup LastNode \cup {new}
<1>1. nodes \in Seq(S) /\ node \in S /\ new \in S /\ n \in Nat
  <2>1. nodes \in Seq(S)
    OBVIOUS
  <2> QED
    BY <2>1
<1>2. /\ p \in Seq(S) /\ Len(p) = n + 1 /\ DOMAIN p = 1..(n + 1)
      /\ p[n + 1] = node /\ \A k \in 1..n : p[k] = nodes[k]
  BY <1>1
<1>3. [node EXCEPT !.types = types] = new
  <2>1. node = [contexts |-> node.contexts, types |-> node.types]
    BY DEF LastNode
  <2> QED
    BY <2>1
<1> HIDE DEF new, S
<1>4. q = [k \in 1..(n + 1) |-> IF k = n + 1 THEN new ELSE p[k]]
  <2>1. q = [p EXCEPT ![n + 1] = [p[n + 1] EXCEPT !.types = types]]
    BY <1>2
  <2>2. q = [p EXCEPT ![n + 1] = new]
    BY <1>2, <1>3, <2>1
  <2> QED
    BY <1>2, <2>2
<1>5. r \in Seq(S) /\ Len(r) = n + 1 /\ r[n + 1] = new /\ \A k \in 1..n : r[k] = nodes[k]
  BY <1>1
<1>6. \A k \in 1..(n + 1) : r[k] = IF k = n + 1 THEN new ELSE p[k]
  BY <1>1, <1>2, <1>5
<1> HIDE DEF r
<1>7. r = [k \in 1..(n + 1) |-> r[k]]
  BY <1>5
<1>8. q = r
  BY <1>4, <1>6, <1>7
<1> QED
  BY <1>8 DEF r, new

LEMMA ListsAreNamed == ContextLists \subseteq Seq(Names)
BY ContextsAssumption DEF Names, Name

(* A node whose contexts are all still pending. *)
LEMMA Untouched ==
  ASSUME NEW nodes \in Seq(Node), NEW contexts \in Seq(Names),
         NEW c, Knows(c, Words(ComingDown(nodes))), ComingDown(nodes) \in Seq(Names)
  PROVE  \E applied \in Seq(Names) :
           /\ contexts = applied \o contexts
           /\ Knows(c, Words(OnTop(ComingDown(nodes), applied)))
<1> DEFINE applied == <<>>
<1>1. applied \in Seq(Names) /\ contexts = applied \o contexts
  OBVIOUS
<1>2. Reset \in Names
  BY DEF Names
<1>3. OnTop(ComingDown(nodes), applied) = ComingDown(nodes)
  BY <1>2, <1>1, OnTopOf
<1> HIDE DEF applied
<1>4. Knows(c, Words(OnTop(ComingDown(nodes), applied)))
  BY <1>3
<1> QED
  BY <1>1, <1>4

LEMMA ContextsInvInit == Init => ContextsInv
<1> SUFFICES ASSUME Init
             PROVE  ContextsInv
  OBVIOUS
<1>1. /\ ctx = EmptyCtx /\ childBase = EmptyCtx /\ pending \in Seq(Names)
      /\ status = "contexts" /\ path = <<[contexts |-> pending, types |-> {}]>>
  BY ListsAreNamed DEF Init
<1> DEFINE node == [contexts |-> pending, types |-> {}]
           nodes == <<>>
<1>2. nodes \in Seq(Node) /\ node \in LastNode /\ node.contexts = pending
  BY <1>1 DEF LastNode
<1>3. path = Append(nodes, node)
  BY <1>1
<1>4. ComingDown(nodes) = <<>>
  BY ComingDownFromNone
<1>5. Knows(EmptyCtx, Words(<<>>))
  <2>1. \A t \in Term : Words(<<>>)[t] = None
    BY LastWordNone DEF Words
  <2>2. <<>> \in Seq(Names)
    OBVIOUS
  <2>3. Words(<<>>) \in Wording
    BY <2>2, WordsAreWording
  <2> QED
    BY <2>1, <2>3, EmptyKnows
<1>6. <<>> \in Seq(Names)
  OBVIOUS
<1> HIDE DEF nodes, node
<1>7. Applying(nodes, node)
  BY <1>1, <1>2, <1>4, <1>5, <1>6, Untouched DEF Applying
<1> QED
  BY <1>1, <1>2, <1>3, <1>7, EmptyIsCtx DEF ContextsInv

LEMMA ContextsInvApply == ContextsInv /\ Apply => ContextsInv'
<1> SUFFICES ASSUME ContextsInv, Apply
             PROVE  ContextsInv'
  OBVIOUS
<1> DEFINE n == Head(pending)
<1>1. /\ ctx \in Ctx /\ childBase \in Ctx /\ pending \in Seq(Names) /\ pending # <<>>
      /\ ctx' = process_context(ctx, n) /\ pending' = Tail(pending)
      /\ childBase' = childBase /\ path' = path /\ status' = "contexts" /\ status = "contexts"
  BY DEF ContextsInv, Apply
<1>2. PICK nodes \in Seq(Node), node \in LastNode : path = Append(nodes, node) /\ Applying(nodes, node)
  BY <1>1 DEF ContextsInv
<1>3. PICK applied \in Seq(Names) : /\ node.contexts = applied \o pending
                                    /\ Knows(ctx, Words(OnTop(ComingDown(nodes), applied)))
  BY <1>2 DEF Applying
<1>4. n \in Names
  BY <1>1
<1>5. ComingDown(nodes) \in Seq(Names)
  BY FallenIs, ComingDownIs
<1> DEFINE own == OnTop(ComingDown(nodes), applied)
           more == Append(applied, n)
<1>6. own \in Seq(Names) /\ OnTop(ComingDown(nodes), more) = own \o WithImports(n)
  BY <1>4, <1>5, OnTopOf
<1>7. /\ process_context(ctx, n) \in Ctx /\ WithImports(n) \in Seq(Names)
      /\ Knows(process_context(ctx, n), Over(Words(own), WithImports(n)))
  <2>1. Words(own) \in Wording
    BY <1>6, WordsAreWording
  <2> QED
    BY <1>1, <1>3, <1>4, <2>1, ProcessKnows
<1>8. Words(own \o WithImports(n)) = Over(Words(own), WithImports(n))
  BY <1>6, <1>7, WordsConcat
<1>9. Knows(ctx', Words(OnTop(ComingDown(nodes), more)))
  BY <1>1, <1>6, <1>7, <1>8
<1>10. more \in Seq(Names) /\ node.contexts = more \o Tail(pending) /\ Tail(pending) \in Seq(Names)
  <2>1. more \in Seq(Names)
    BY <1>4
  <2>2. Tail(pending) \in Seq(Names)
    BY <1>1
  <2>3. applied \o pending = more \o Tail(pending)
    <3>1. applied \in Seq(Names) /\ n \in Names
      BY <1>4
    <3> HIDE DEF Names
    <3> QED
      BY <1>1, <3>1
  <2> QED
    BY <1>3, <2>1, <2>2, <2>3
<1> HIDE DEF more, own, n
<1>11. Applying(nodes, node)'
  BY <1>1, <1>9, <1>10 DEF Applying
<1>12. path' = Append(nodes, node) /\ ctx' \in Ctx /\ childBase' \in Ctx /\ pending' \in Seq(Names)
  BY <1>1, <1>2, <1>7, <1>10
<1> QED
  BY <1>1, <1>11, <1>12 DEF ContextsInv

LEMMA ContextsInvEnter ==
  ASSUME NEW types \in SUBSET Term, ContextsInv, Enter(types)
  PROVE  ContextsInv'
<1>1. /\ ctx \in Ctx /\ pending \in Seq(Names) /\ pending = <<>>
      /\ ctx' = apply_type_scoped(ctx, types).effective
      /\ childBase' = apply_type_scoped(ctx, types).child_base
      /\ path' = [path EXCEPT ![Len(path)].types = types]
      /\ status' = "reading" /\ status = "contexts" /\ pending' = pending
  BY DEF ContextsInv, Enter
<1>2. PICK nodes \in Seq(Node), node \in LastNode : path = Append(nodes, node) /\ Applying(nodes, node)
  BY <1>1 DEF ContextsInv
<1>3. PICK applied \in Seq(Names) : /\ node.contexts = applied \o pending
                                    /\ Knows(ctx, Words(OnTop(ComingDown(nodes), applied)))
  BY <1>2 DEF Applying
<1> DEFINE down == ComingDown(nodes)
           own == OnTop(down, node.contexts)
           new == [contexts |-> node.contexts, types |-> types]
<1>4. node.contexts = applied
  BY <1>1, <1>3, Concatenation
<1>5. new \in Node /\ new \in LastNode /\ new.contexts = node.contexts /\ new.types = types
  <2>1. node.contexts \in Seq(Names)
    BY <1>4 DEF LastNode
  <2> QED
    BY <2>1 DEF Node, LastNode
<1>6. path' = Append(nodes, new)
  BY <1>1, <1>2, Retyped
<1>7. down \in Seq(Names) /\ own \in Seq(Names) /\ Knows(ctx, Words(own))
  <2>1. down \in Seq(Names)
    BY FallenIs, ComingDownIs
  <2>2. Reset \in Names
    BY DEF Names
  <2>3. own \in Seq(Names)
    BY <1>4, <2>1, <2>2, OnTopOf
  <2> QED
    BY <1>3, <1>4, <2>1, <2>3
<1>8. ComingDown(Append(nodes, new)) = Under(own, Reaching(own, types))
  <2>1. ComingDown(Append(nodes, new)) = Past(down, new)
    BY <1>5, ComingDownFrom
  <2> QED
    BY <1>5, <2>1 DEF Past
<1> HIDE DEF new, own
<1>9. /\ ctx' \in Ctx /\ Knows(ctx', Words(Under(own, types)))
      /\ childBase' \in Ctx /\ Knows(childBase', Words(Under(own, Reaching(own, types))))
  BY <1>1, <1>7, TypesApply
<1>10. ReadingAt(nodes, new)'
  BY <1>5, <1>8, <1>9 DEF ReadingAt, own
<1> QED
  BY <1>1, <1>5, <1>6, <1>9, <1>10 DEF ContextsInv

LEMMA ContextsInvNest ==
  ASSUME NEW contexts \in ContextLists, ContextsInv, Nest(contexts)
  PROVE  ContextsInv'
<1>1. /\ childBase \in Ctx /\ ctx' = childBase /\ pending' = contexts /\ childBase' = childBase
      /\ path' = Append(path, [contexts |-> contexts, types |-> {}])
      /\ status' = "contexts" /\ status = "reading"
  BY DEF ContextsInv, Nest
<1>2. PICK nodes \in Seq(Node), node \in LastNode : path = Append(nodes, node) /\ ReadingAt(nodes, node)
  BY <1>1 DEF ContextsInv
<1> DEFINE new == [contexts |-> contexts, types |-> {}]
<1>3. contexts \in Seq(Names) /\ new \in LastNode /\ new.contexts = contexts
  <2>1. contexts \in Seq(Names)
    BY ListsAreNamed
  <2> QED
    BY <2>1 DEF LastNode
<1>4. PICK above \in Seq(Node) : above = path /\ Knows(childBase, Words(ComingDown(above)))
  <2>1. node \in Node /\ Knows(childBase, Words(ComingDown(path)))
    BY <1>2 DEF ReadingAt
  <2>2. path \in Seq(Node)
    BY <1>2, <2>1
  <2> QED
    BY <2>1, <2>2
<1>5. ComingDown(above) \in Seq(Names)
  BY FallenIs, ComingDownIs
<1> HIDE DEF new
<1>6. Applying(above, new)'
  <2>1. \E applied \in Seq(Names) :
          /\ contexts = applied \o contexts
          /\ Knows(childBase, Words(OnTop(ComingDown(above), applied)))
    BY <1>3, <1>4, <1>5, Untouched
  <2> QED
    BY <1>1, <1>3, <2>1 DEF Applying
<1>7. path' = Append(above, new)
  BY <1>1, <1>4 DEF new
<1> QED
  BY <1>1, <1>3, <1>4, <1>6, <1>7 DEF ContextsInv

LEMMA ContextsInvStep == ContextsInv /\ [Next]_contextVars => ContextsInv'
<1> SUFFICES ASSUME ContextsInv, [Next]_contextVars
             PROVE  ContextsInv'
  OBVIOUS
<1>1. CASE Apply
  BY <1>1, ContextsInvApply
<1>2. CASE Refuse
  <2>1. /\ status' = "failed" /\ ctx' = ctx /\ childBase' = childBase /\ pending' = pending
        /\ path' = path
    BY <1>2 DEF Refuse
  <2>2. PICK nodes \in Seq(Node), node \in LastNode : path = Append(nodes, node)
    BY DEF ContextsInv
  <2> QED
    BY <2>1, <2>2 DEF ContextsInv
<1>3. CASE \E types \in SUBSET {t \in Term : \E n \in DOMAIN Bodies :
                 t \in DOMAIN Bodies[n].defs /\ Bodies[n].defs[t].scoped # None} :
              Enter(types) \/ RefuseScoped(types)
  <2>1. PICK types \in SUBSET Term : Enter(types) \/ RefuseScoped(types)
    BY <1>3
  <2>2. CASE RefuseScoped(types)
    <3>1. /\ status' = "failed" /\ ctx' = ctx /\ childBase' = childBase /\ pending' = pending
          /\ path' = [path EXCEPT ![Len(path)].types = types]
      BY <2>2 DEF RefuseScoped
    <3>2. PICK nodes \in Seq(Node), node \in LastNode : path = Append(nodes, node)
      BY DEF ContextsInv
    <3> DEFINE new == [contexts |-> node.contexts, types |-> types]
    <3>3. new \in LastNode
      BY <2>1 DEF LastNode
    <3>4. path' = Append(nodes, new)
      BY <3>1, <3>2, Retyped
    <3> HIDE DEF new
    <3> QED
      BY <3>1, <3>3, <3>4 DEF ContextsInv
  <2> QED
    BY <2>1, <2>2, ContextsInvEnter
<1>4. CASE \E contexts \in ContextLists : Nest(contexts)
  BY <1>4, ContextsInvNest
<1>5. CASE UNCHANGED contextVars
  <2>1. /\ status' = status /\ ctx' = ctx /\ childBase' = childBase /\ pending' = pending
        /\ path' = path
    BY <1>5 DEF contextVars
  <2>2. PICK nodes \in Seq(Node), node \in LastNode :
          /\ path = Append(nodes, node)
          /\ status = "contexts" => Applying(nodes, node)
          /\ status = "reading" => pending = <<>> /\ ReadingAt(nodes, node)
    BY DEF ContextsInv
  <2>3. (status = "contexts" => Applying(nodes, node))'
    BY <2>1, <2>2 DEF Applying
  <2>4. (status = "reading" => pending = <<>> /\ ReadingAt(nodes, node))'
    BY <2>1, <2>2 DEF ReadingAt
  <2> QED
    BY <2>1, <2>2, <2>3, <2>4 DEF ContextsInv
<1> QED
  BY <1>1, <1>2, <1>3, <1>4, <1>5 DEF Next

(* While a node's contexts are applied and while its properties are read,  *)
(* the active context knows what the contexts so far say of every term,    *)
(* and the one nested nodes start from knows what comes down to them.      *)
THEOREM ContextsInvCorrect == Spec => []ContextsInv
<1> QED
  BY ContextsInvInit, ContextsInvStep, PTL DEF Spec

-------------------------------------------------------------------------------
(* Where properties are read, the active context knows what is in force.   *)
LEMMA InForceIsKnown ==
  ASSUME ContextsInv, status = "reading"
  PROVE  ctx \in Ctx /\ InForce \in Seq(Names) /\ Knows(ctx, Words(InForce))
<1>1. PICK nodes \in Seq(Node), node \in LastNode : path = Append(nodes, node) /\ ReadingAt(nodes, node)
  BY DEF ContextsInv
<1>2. path[Len(path)] = node /\ Front(path) = nodes
  BY <1>1, PathIs
<1> DEFINE own == OnTop(ComingDown(nodes), node.contexts)
<1>3. InForce = Under(own, node.types)
  BY <1>2 DEF InForce
<1>4. node \in Node /\ Knows(ctx, Words(Under(own, node.types)))
  BY <1>1 DEF ReadingAt
<1>5. Reset \in Names /\ node.contexts \in Seq(Names) /\ node.types \in SUBSET Term
  BY <1>4 DEF Names, Node
<1>6. own \in Seq(Names)
  <2>1. ComingDown(nodes) \in Seq(Names)
    BY FallenIs, ComingDownIs
  <2> QED
    BY <1>5, <2>1, OnTopOf
<1> HIDE DEF own
<1>7. Under(own, node.types) \in Seq(Names)
  BY <1>5, <1>6, UnderTyped
<1> QED
  BY <1>3, <1>4, <1>7 DEF ContextsInv

LEMMA InvLastDefinitionWins == ContextsInv => LastDefinitionWins
<1> SUFFICES ASSUME ContextsInv, status = "reading", NEW t \in Term
             PROVE  LET last == LastWord(InForce, t)
                        defined == last \notin {None, Reset} /\ Bodies[last].defs[t].value # Null
                    IN  /\ t \in DOMAIN ctx.terms <=> defined
                        /\ defined => /\ ctx.terms[t].coercion = Bodies[last].defs[t].coercion
                                      /\ ctx.terms[t].scoped = Bodies[last].defs[t].scoped
  BY DEF LastDefinitionWins, AllDefinedBy, DefinedAs
<1> DEFINE names == InForce
           last == LastWord(names, t)
<1>1. names \in Seq(Names) /\ Knows(ctx, Words(names))
  BY InForceIsKnown
<1> HIDE DEF names
<1>2. /\ Words(names)[t] = last
      /\ Defining(last, t) <=> last \notin {None, Reset} /\ Bodies[last].defs[t].value # Null
  BY <1>1, LastWordOn
<1>3. /\ t \in DOMAIN ctx.terms <=> Defining(last, t)
      /\ t \in DOMAIN ctx.terms => /\ ctx.terms[t].coercion = Bodies[last].defs[t].coercion
                                   /\ ctx.terms[t].scoped = Bodies[last].defs[t].scoped
  BY <1>1, <1>2 DEF Knows
<1> QED
  BY <1>2, <1>3 DEF names

(* A term is defined, where the properties of a node are read, as the last *)
(* context in force to name it says, and not at all if that one removed it:*)
(* for any contexts, lists of them and depth of nodes.                     *)
THEOREM LastDefinitionWinsCorrect == Spec => []LastDefinitionWins
<1> QED
  BY ContextsInvCorrect, InvLastDefinitionWins, PTL

LEMMA HeadOfConcat ==
  ASSUME NEW S, NEW a \in Seq(S), NEW b \in Seq(S), a # <<>>
  PROVE  (a \o b)[1] = a[1] /\ a \o b # <<>>
<1> DEFINE r == a \o b
<1>1. r \in Seq(S) /\ Len(r) = Len(a) + Len(b) /\ Len(a) \in Nat /\ Len(b) \in Nat /\ Len(a) # 0
  OBVIOUS
<1>2. r[1] = a[1]
  BY <1>1
<1> HIDE DEF r
<1>3. r # <<>>
  BY <1>1
<1> QED
  BY <1>2, <1>3 DEF r

(* The term a string is. *)
LEMMA TermSpelled ==
  /\ \A t \in Term : AsTerm(Spelled[t]) = t /\ Spelled[t].form # "keyword"
  /\ \A x : AsTerm(x) \in Term => Spelled[AsTerm(x)] = x
<1>1. ASSUME NEW t \in Term
      PROVE  AsTerm(Spelled[t]) = t /\ Spelled[t].form # "keyword"
  <2>1. \A u \in Term : Spelled[u] = Spelled[t] => u = t
    BY ContextsAssumption DEF IsInjective
  <2> QED
    BY <2>1, ContextsAssumption DEF AsTerm
<1>2. ASSUME NEW x, AsTerm(x) \in Term
      PROVE  Spelled[AsTerm(x)] = x
  BY <1>2, ContextsAssumption DEF AsTerm
<1> QED
  BY <1>1, <1>2

(* Two terms one object gives the same value are as many hops from the end *)
(* of their chain.                                                         *)
LEMMA SameHops ==
  ASSUME NEW b \in Name, NEW t \in DOMAIN Bodies[b].defs, NEW u \in DOMAIN Bodies[b].defs,
         Bodies[b].defs[u].value = Bodies[b].defs[t].value, Bodies[b].defs[t].value # Null
  PROVE  Hops(Bodies[b].defs)[u] = Hops(Bodies[b].defs)[t]
<1>1. PICK h : HopsIn(h, b) /\ \A x \in DOMAIN Bodies[b].defs : Hops(Bodies[b].defs)[x] = h[Fuel][x]
  BY HopsIs
<1>2. t \in Term /\ u \in Term /\ (OnAPrefix(b, t) <=> OnAPrefix(b, u))
  BY BodyIs DEF OnAPrefix
<1>3. Fuel \in Nat
  BY ContextsAssumption, FS_CardinalityType DEF Fuel
<1>4. h[Fuel][t] = h[Fuel][u]
  <2>1. CASE Fuel = 0
    BY <1>1, <1>2, <2>1 DEF HopsIn
  <2>2. CASE Fuel # 0
    <3>1. Fuel \in 1..Fuel
      BY <1>3, <2>2
    <3>2. h[Fuel] = [x \in Term |-> IF OnAPrefix(b, x) THEN 1 + h[Fuel - 1][Bodies[b].defs[x].value.prefix] ELSE 0]
      BY <1>1, <3>1 DEF HopsIn
    <3> QED
      BY <1>2, <3>2
  <2> QED
    BY <2>1, <2>2
<1> QED
  BY <1>1, <1>4

(* A term defined by a compact IRI through a prefix of its own object is   *)
(* what that prefix and the rest make.                                     *)
LEMMA CompactTerm ==
  ASSUME NEW names \in Seq(Names), ctx \in Ctx, Knows(ctx, Words(names)),
         NEW t \in DOMAIN ctx.terms, NEW last, last = LastWord(names, t),
         NEW v, v = Bodies[last].defs[t].value, v.form = "compact",
         LastWord(names, v.prefix) = last, Hops(Bodies[last].defs)[t] <= MAX_PREFIX_CHAIN,
         term_iri(ctx, v.prefix) # NoIri
  PROVE  /\ last \in Name /\ t \in DOMAIN Bodies[last].defs /\ v # Null
         /\ ctx.terms[t].iri = term_iri(ctx, v.prefix) \o v.text
         /\ term_iri(ctx, v.prefix) \o v.text # NoIri
         /\ ~StartsWithAt(ctx.terms[t].iri)
         /\ term_iri(ctx, t) = term_iri(ctx, v.prefix) \o v.text
<1> DEFINE stem == term_iri(ctx, v.prefix)
           iri == stem \o v.text
<1>1. t \in Term
  BY CtxFields
<1>2. Words(names)[t] = last
  BY <1>1 DEF Words
<1>3. Defining(last, t)
  BY <1>1, <1>2 DEF Knows
<1>4. last \in Name /\ t \in DOMAIN Bodies[last].defs /\ v # Null
  BY <1>3 DEF Defining
<1>5. v.prefix \in Term /\ v.text # <<>> /\ v.text \in Seq(Word)
  <2>1. Bodies[last].defs[t] \in RawDef /\ v.prefix \in Term /\ v.text # <<>>
    BY <1>4, BodyIs
  <2> QED
    BY <2>1 DEF RawDef, Value
<1>6. Words(names)[v.prefix] = last
  BY <1>5 DEF Words
<1>7. DefinitionHolds(ctx, t, v)
  BY <1>1, <1>2, <1>6 DEF Knows
<1>8. ctx.terms[t].iri = iri
  BY <1>7 DEF DefinitionHolds
<1>9. stem \in Seq(Word) /\ stem # NoIri /\ ~StartsWithAt(stem)
  BY TermIri DEF term_iri
<1> HIDE DEF stem
<1>10. ~StartsWithAt(iri) /\ iri # NoIri
  <2>1. iri[1] = stem[1] /\ iri # <<>>
    BY <1>5, <1>9, HeadOfConcat DEF NoIri
  <2> HIDE DEF iri
  <2> QED
    BY <1>9, <2>1 DEF StartsWithAt, NoIri
<1> HIDE DEF iri
<1>11. term_iri(ctx, t) = iri
  BY <1>8, <1>10 DEF term_iri
<1> QED
  BY <1>4, <1>8, <1>10, <1>11 DEF iri, stem

(* A string whose term, if it is one, has that meaning, or else a compact  *)
(* IRI of that meaning, is expanded to it.                                 *)
LEMMA ExpandsTo ==
  ASSUME NEW s, s.form # "keyword", NEW iri, iri # NoIri,
         LET u == AsTerm(s)
         IN  IF u \in DOMAIN ctx.terms
               THEN ctx.terms[u].iri = iri /\ ~StartsWithAt(iri)
               ELSE /\ s.form = "compact"
                    /\ term_iri(ctx, s.prefix) # NoIri
                    /\ iri = term_iri(ctx, s.prefix) \o s.text
  PROVE  expand_iri(ctx, s, TRUE) = iri /\ expand_key(ctx, s) = iri
<1> DEFINE u == AsTerm(s)
<1>1. ~StartsWithAt(NoIri)
  BY DEF StartsWithAt
<1>2. CASE u \in DOMAIN ctx.terms
  <2>1. term_iri(ctx, u) = iri
    BY <1>2 DEF term_iri
  <2>2. expand_iri(ctx, s, TRUE) = iri
    BY <2>1 DEF expand_iri
  <2>3. is_resolved(ctx, s, TRUE)
    BY <2>1 DEF is_resolved
  <2> QED
    BY <1>2, <2>2, <2>3 DEF expand_key
<1>3. CASE u \notin DOMAIN ctx.terms
  <2>1. term_iri(ctx, u) = NoIri
    BY <1>3 DEF term_iri
  <2>2. expand_iri(ctx, s, TRUE) = iri
    BY <1>3, <2>1 DEF expand_iri
  <2>3. is_resolved(ctx, s, TRUE)
    BY <1>3 DEF is_resolved
  <2> QED
    BY <1>1, <1>3, <2>2, <2>3 DEF expand_key
<1> QED
  BY <1>2, <1>3

LEMMA InvSpellingsAgree == ContextsInv => SpellingsAgree
<1> SUFFICES ASSUME ContextsInv, status = "reading", NEW t \in DOMAIN ctx.terms,
                    LET last == LastWord(InForce, t)
                        v == Bodies[last].defs[t].value
                        same == AsTerm(v)
                    IN  /\ v.form = "compact"
                        /\ LastWord(InForce, v.prefix) = last
                        /\ Hops(Bodies[last].defs)[t] <= MAX_PREFIX_CHAIN
                        /\ term_iri(ctx, v.prefix) # NoIri
                        /\ same \in DOMAIN ctx.terms =>
                             LastWord(InForce, same) = last /\ Bodies[last].defs[same].value = v
             PROVE  LET v == Bodies[LastWord(InForce, t)].defs[t].value
                    IN  /\ expand_key(ctx, Spelled[t]) = expand_key(ctx, v)
                        /\ expand_value(ctx, "@vocab", Spelled[t]) = expand_value(ctx, "@vocab", v)
  BY DEF SpellingsAgree, AlikeUnder, AlikeAs
<1> DEFINE names == InForce
           last == LastWord(names, t)
           v == Bodies[last].defs[t].value
           same == AsTerm(v)
           iri == term_iri(ctx, v.prefix) \o v.text
<1>1. ctx \in Ctx /\ names \in Seq(Names) /\ Knows(ctx, Words(names))
  BY InForceIsKnown
<1>2. /\ v.form = "compact" /\ LastWord(names, v.prefix) = last
      /\ Hops(Bodies[last].defs)[t] <= MAX_PREFIX_CHAIN /\ term_iri(ctx, v.prefix) # NoIri
      /\ same \in DOMAIN ctx.terms =>
           LastWord(names, same) = last /\ Bodies[last].defs[same].value = v
      /\ last = LastWord(names, t) /\ v = Bodies[last].defs[t].value
  OBVIOUS
<1> HIDE DEF names, last, v, same
<1>0. ASSUME NEW x \in DOMAIN ctx.terms, last = LastWord(names, x),
             v = Bodies[last].defs[x].value, Hops(Bodies[last].defs)[x] <= MAX_PREFIX_CHAIN
      PROVE  /\ last \in Name /\ x \in DOMAIN Bodies[last].defs /\ v # Null
             /\ ctx.terms[x].iri = iri /\ iri # NoIri /\ ~StartsWithAt(iri)
  <2>1. /\ v.form = "compact" /\ LastWord(names, v.prefix) = last
        /\ term_iri(ctx, v.prefix) # NoIri
    BY <1>2
  <2> QED
    BY <1>0, <1>1, <2>1, CompactTerm, ZenonT(60)
<1>3. /\ last \in Name /\ t \in DOMAIN Bodies[last].defs /\ v # Null
      /\ ctx.terms[t].iri = iri /\ iri # NoIri /\ ~StartsWithAt(iri)
  BY <1>0, <1>2
<1>4. same \in DOMAIN ctx.terms => ctx.terms[same].iri = iri
  <2> SUFFICES ASSUME same \in DOMAIN ctx.terms
               PROVE  ctx.terms[same].iri = iri
    OBVIOUS
  <2>1. LastWord(names, same) = last /\ Bodies[last].defs[same].value = v
    BY <1>2
  <2>2. same \in DOMAIN Bodies[last].defs
    <3>1. same \in Term
      BY <1>1, CtxFields
    <3>2. Words(names)[same] = last
      BY <2>1, <3>1 DEF Words
    <3>3. Defining(last, same)
      BY <1>1, <3>1, <3>2 DEF Knows
    <3> QED
      BY <3>3 DEF Defining
  <2>3. Hops(Bodies[last].defs)[same] = Hops(Bodies[last].defs)[t]
    BY <1>2, <1>3, <2>1, <2>2, SameHops
  <2>4. /\ v = Bodies[last].defs[same].value /\ last = LastWord(names, same)
        /\ Hops(Bodies[last].defs)[same] <= MAX_PREFIX_CHAIN
    BY <1>2, <2>1, <2>3
  <2> HIDE DEF iri
  <2> QED
    BY <1>0, <2>4
<1>5. t \in Term
  BY <1>1, CtxFields
<1>6. AsTerm(Spelled[t]) = t /\ Spelled[t].form # "keyword"
  BY <1>5, TermSpelled
<1> HIDE DEF iri
<1>7. expand_iri(ctx, Spelled[t], TRUE) = iri /\ expand_key(ctx, Spelled[t]) = iri
  BY <1>3, <1>6, ExpandsTo
<1>8. expand_iri(ctx, v, TRUE) = iri /\ expand_key(ctx, v) = iri
  <2>1. v.form # "keyword" /\ iri = term_iri(ctx, v.prefix) \o v.text
    BY <1>2 DEF iri
  <2> QED
    BY <1>2, <1>3, <1>4, <2>1, ExpandsTo DEF same
<1>9. expand_value(ctx, "@vocab", Spelled[t]) = expand_value(ctx, "@vocab", v)
  BY <1>7, <1>8 DEF expand_value, None
<1> QED
  BY <1>2, <1>7, <1>8, <1>9 DEF names

(* A term and the compact IRI one object defined it by mean the same       *)
(* wherever properties are read, as a key and as a vocabulary value, also  *)
(* where that compact IRI is a term of the same object itself.             *)
THEOREM SpellingsAgreeCorrect == Spec => []SpellingsAgree
<1> QED
  BY ContextsInvCorrect, InvSpellingsAgree, PTL

(* Whatever the order of the keys, a context object defines each term as   *)
(* it says in the context it gives, removes what it removes and leaves the *)
(* rest as its import left it.                                             *)
THEOREM ContextMeansWhatItSaysCorrect == Spec => ContextMeansWhatItSays
<1> DEFINE Means ==
      status = "contexts" /\ status' = "contexts" /\ pending' # pending /\ Head(pending) # Reset =>
       LET body == Bodies[Head(pending)]
           before == IF body.import = None THEN ctx ELSE process_context(ctx, body.import)
       IN  /\ \A t \in DOMAIN body.defs :
                IF body.defs[t].value = Null THEN t \notin DOMAIN ctx'.terms
                ELSE /\ t \in DOMAIN ctx'.terms
                     /\ ctx'.terms[t].coercion = body.defs[t].coercion
                     /\ Hops(body.defs)[t] <= MAX_PREFIX_CHAIN =>
                          DefinitionHolds(ctx', t, body.defs[t].value)
           /\ \A t \in Term \ DOMAIN body.defs :
                /\ t \in DOMAIN ctx'.terms <=> t \in DOMAIN before.terms
                /\ t \in DOMAIN ctx'.terms => ctx'.terms[t] = before.terms[t]
<1>1. ContextsInv /\ [Next]_contextVars => [Means]_contextVars
  <2> SUFFICES ASSUME ContextsInv, Next, status = "contexts", status' = "contexts",
                      pending' # pending, Head(pending) # Reset
               PROVE  Means
    OBVIOUS
  <2> DEFINE b == Head(pending)
             before == IF Bodies[b].import = None THEN ctx ELSE process_context(ctx, Bodies[b].import)
             f == put_on(before, Bodies[b])
  <2>1. Apply
    BY DEF Next, Refuse, Enter, RefuseScoped, Nest
  <2>2. /\ ctx \in Ctx /\ pending \in Seq(Names) /\ pending # <<>>
        /\ ctx' = process_context(ctx, b)
    BY <2>1 DEF Apply, ContextsInv
  <2>3. b \in Name
    BY <2>2 DEF Names
  <2> HIDE DEF b
  <2>4. before \in Ctx /\ ctx' = f
    <3>1. process_context(ctx, b) = process_context_object(ctx, b)
      BY <2>3, NoneIsNoName DEF process_context
    <3>2. Bodies[b].import # None =>
            /\ Bodies[b].import \in Name
            /\ process_context(ctx, Bodies[b].import) = process_context_object(ctx, Bodies[b].import)
      BY <2>3, ImportsAreRanked, NoneIsNoName DEF process_context
    <3> QED
      BY <2>2, <2>3, <3>1, <3>2, ProcessIs
  <2> HIDE DEF before
  <2>5. /\ DOMAIN f.terms = (DOMAIN before.terms \ Gone(b)) \cup DOMAIN Raw(b)
        /\ \A t \in DOMAIN before.terms \ DOMAIN Bodies[b].defs : f.terms[t] = before.terms[t]
        /\ \A t \in DOMAIN Raw(b) :
             /\ f.terms[t].coercion = Bodies[b].defs[t].coercion
             /\ Hops(Bodies[b].defs)[t] <= MAX_PREFIX_CHAIN =>
                  DefinitionHolds(f, t, Bodies[b].defs[t].value)
    BY <2>3, <2>4, PutOnSays
  <2>6. DOMAIN Raw(b) = DOMAIN Bodies[b].defs \ Gone(b)
    BY <2>3, RawIs
  <2> HIDE DEF f
  <2>7. ASSUME NEW t \in DOMAIN Bodies[b].defs
        PROVE  IF Bodies[b].defs[t].value = Null THEN t \notin DOMAIN f.terms
               ELSE /\ t \in DOMAIN f.terms
                    /\ f.terms[t].coercion = Bodies[b].defs[t].coercion
                    /\ Hops(Bodies[b].defs)[t] <= MAX_PREFIX_CHAIN =>
                         DefinitionHolds(f, t, Bodies[b].defs[t].value)
    <3>1. CASE t \in Gone(b)
      BY <2>5, <2>6, <3>1 DEF Gone
    <3>2. CASE t \notin Gone(b)
      BY <2>5, <2>6, <3>2 DEF Gone
    <3> QED
      BY <3>1, <3>2
  <2>8. ASSUME NEW t \in Term \ DOMAIN Bodies[b].defs
        PROVE  /\ t \in DOMAIN f.terms <=> t \in DOMAIN before.terms
               /\ t \in DOMAIN f.terms => f.terms[t] = before.terms[t]
    <3>1. t \notin Gone(b) /\ t \notin DOMAIN Raw(b)
      BY <2>6 DEF Gone
    <3> QED
      BY <2>5, <3>1
  <2> QED
    BY <2>4, <2>7, <2>8 DEF b, before
<1>2. Spec => [][Means]_contextVars
  BY <1>1, ContextsInvCorrect, PTL DEF Spec
<1> QED
  BY <1>2 DEF ContextMeansWhatItSays
===============================================================================
