------------------------- MODULE CatalogSeedProofs -------------------------
(***************************************************************************)
(* Proofs about CatalogSeed: a seed takes nothing away, follows upstream,  *)
(* makes answers of answers only, and gives each the hints of its form.    *)
(*                                                                         *)
(* What a page says is right for its address, whether it came from the     *)
(* network or the cache; so the plan of a seed holds forms that are kept.  *)
(* FollowsUpstream needs the history: without a page from the cache, every *)
(* page of the batch was answered since the seed started, and a form that  *)
(* never vanished was there whenever the page of its species was answered. *)
(***************************************************************************)
EXTENDS CatalogSeed, FiniteSetTheorems, SequenceTheorems, WellFoundedInduction, TLAPS

Names == {Payload[s].name : s \in DOMAIN Payload}

\* Form f is of the species that is called n.
Owned(f, n) == \E s \in DOMAIN Payload : f \in FormsOf[s] /\ Payload[s].name = n

Entries == UNION {{[ref |-> ref, species |-> s] : ref \in ToSet(Refs[s])} : s \in DOMAIN Payload}

\* What the page of an address may say.
Page(url, data) ==
    /\ url = ListUrl => data \in Seq(Names)
    /\ \A n \in Names : url = SpeciesUrl(n) =>
         \E s \in DOMAIN Payload : data = <<s>> /\ Payload[s].name = n

\* A row of the table, whatever its names and hints are.
Stored(row) ==
    row \in [form_key : Answers, display_name : {row.display_name}, slug : {row.slug},
             generation : {row.generation}, dex_entries : {row.dex_entries}, enabled : BOOLEAN]

Fetched(get) ==
    get \in [step : {"queued", "requesting", "done", "failed"}, attempt : Nat, data : {get.data}]

FutureInv ==
    /\ future \in Seq(Seq(DOMAIN Payload)) \ {<<>>}
    /\ \A i \in DOMAIN future : \A s, t \in ToSet(future[i]) :
         Payload[s].name = Payload[t].name => s = t

TableInv ==
    /\ table \in Seq(ToSet(table))
    /\ \A i \in DOMAIN table : Stored(table[i])

PagesInv ==
    /\ DOMAIN cache = Urls
    /\ \A url \in DOMAIN cache : cache[url] \in {None, Torn} \/ Page(url, cache[url])
    /\ \A url \in DOMAIN fetch :
         Fetched(fetch[url]) /\ (fetch[url].step = "done" => Page(url, fetch[url].data))

PlanInv ==
    /\ seed \in [phase : {"idle", "list", "species", "varieties"}, limit : Nat, use_cache : BOOLEAN]
    /\ seed.phase = "idle" => seed = Idle /\ DOMAIN fetch = {}
    /\ seed.phase = "list" => DOMAIN fetch = {ListUrl}
    /\ seed.phase = "species" =>
         plan \in Seq(Names) /\ DOMAIN fetch = {SpeciesUrl(n) : n \in ToSet(plan)}
    /\ seed.phase = "varieties" => plan \in Seq(Entries)

\* Forms that upstream offered all the time since the seed started.
Stayed == AllForms \ gone

HistoryInv ==
    seed # Idle => AllForms \ Forms(upstream) \subseteq gone /\ Forms(upstream) \subseteq offered

\* The pages of the batch, when none of them came from the cache.
FreshList ==
    fetch[ListUrl].step = "done" =>
        \A f \in Stayed : \E n \in ToSet(fetch[ListUrl].data) : Owned(f, n)

FreshSpecies ==
    /\ seed.limit = 0 => \A f \in Stayed : \E n \in ToSet(plan) : Owned(f, n)
    /\ \A n \in ToSet(plan) : fetch[SpeciesUrl(n)].step = "done" =>
         LET forms == FormsOf[fetch[SpeciesUrl(n)].data[1]]
         IN  forms \subseteq offered /\ \A f \in Stayed : Owned(f, n) => f \in forms

FreshPlan ==
    /\ \A i \in DOMAIN plan : plan[i].ref.form_key \in offered
    /\ seed.limit = 0 => \A f \in Stayed : \E i \in DOMAIN plan : plan[i].ref.form_key = f

FreshInv ==
    ~fromCache =>
        /\ seed.phase = "list" => FreshList
        /\ seed.phase = "species" => FreshSpecies
        /\ seed.phase = "varieties" => FreshPlan

IInv == FutureInv /\ TableInv /\ PagesInv /\ PlanInv /\ HistoryInv /\ FreshInv
-----------------------------------------------------------------------------
(* Sequences that are put together.                                        *)

\* A set of numbers has a least one.
LEMMA Least ==
  ASSUME NEW I, I \subseteq Nat, I # {}
  PROVE  \E m \in I : \A i \in I : m <= i
  <1>1. IsWellFoundedOn(OpToRel(<, Nat), Nat)
    BY NatLessThanWellFounded
  <1>2. PICK m \in I : \A i \in I : <<i, m>> \notin OpToRel(<, Nat)
    BY <1>1, WFMin
  <1>3. \A i \in I : ~(i < m)
    BY <1>2 DEF OpToRel
  <1>4. m \in Nat /\ \A i \in I : i \in Nat
    BY <1>2
  <1>5. \A i \in I : m <= i
    BY <1>3, <1>4
  <1>6. QED
    BY <1>2, <1>5

\* g[i] is what the first i sequences of ss are together.
Running(ss, g, n) ==
    /\ g[1] = ss[1]
    /\ \A i \in 2..n : g[i] = g[i - 1] \o ss[i]

\* The concatenations of the first sequences exist.
LEMMA RunningExists ==
  ASSUME NEW S, NEW ss \in Seq(Seq(S)), NEW n \in 1..Len(ss)
  PROVE  \E g \in [1..n -> Seq(S)] : Running(ss, g, n)
  <1> DEFINE Fine(k) == \E g \in [1..k -> Seq(S)] : Running(ss, g, k)
             Bad == {k \in 1..Len(ss) : ~Fine(k)}
  <1>1. SUFFICES ASSUME Bad # {} PROVE FALSE
    OBVIOUS
  <1>2. PICK m \in Bad : \A k \in Bad : m <= k
    <2>1. Bad \subseteq Nat
      OBVIOUS
    <2> HIDE DEF Bad
    <2>2. QED
      BY <1>1, <2>1, Least
  <1>3. Len(ss) \in Nat /\ m \in 1..Len(ss) /\ ss[m] \in Seq(S)
    BY <1>2
  <1>4. CASE m = 1
    <2>1. [i \in 1..1 |-> ss[1]] \in [1..1 -> Seq(S)]
      BY <1>3, <1>4
    <2>2. Running(ss, [i \in 1..1 |-> ss[1]], 1)
      BY DEF Running
    <2>3. Fine(m)
      BY <1>4, <2>1, <2>2
    <2>4. QED
      BY <1>2, <2>3
  <1>5. CASE m # 1
    <2>1. m - 1 \in 1..Len(ss) /\ m - 1 < m
      BY <1>3, <1>5
    <2>2. Fine(m - 1)
      <3>1. m - 1 \notin Bad
        <4> HIDE DEF Bad
        <4>1. m \in Nat /\ ~(m <= m - 1)
          BY <1>3
        <4>2. QED
          BY <1>2, <4>1
      <3>2. QED
        BY <2>1, <3>1
    <2>3. PICK g \in [1..(m - 1) -> Seq(S)] : Running(ss, g, m - 1)
      BY <2>2
    <2> DEFINE h == [i \in 1..m |-> IF i = m THEN g[m - 1] \o ss[m] ELSE g[i]]
    <2>4. g[m - 1] \o ss[m] \in Seq(S)
      <3>1. g[m - 1] \in Seq(S)
        BY <2>1, <2>3
      <3>2. QED
        BY <1>3, <3>1, ConcatProperties
    <2>5. h \in [1..m -> Seq(S)]
      BY <1>3, <2>3, <2>4
    <2>6. Running(ss, h, m)
      <3>1. h[1] = ss[1]
        BY <1>3, <1>5, <2>3 DEF Running
      <3>2. ASSUME NEW i \in 2..m PROVE h[i] = h[i - 1] \o ss[i]
        <4>1. CASE i = m
          <5>1. m \in 1..m /\ m - 1 \in 1..m /\ m - 1 # m
            BY <1>3, <1>5
          <5>2. h[m] = g[m - 1] \o ss[m] /\ h[m - 1] = g[m - 1]
            BY <5>1
          <5>3. QED
            BY <4>1, <5>2
        <4>2. CASE i # m
          <5>1. i \in 2..(m - 1) /\ i \in 1..m /\ i - 1 \in 1..m /\ i - 1 # m
            BY <1>3, <4>2
          <5>2. QED
            BY <2>3, <4>2, <5>1 DEF Running
        <4>3. QED
          BY <4>1, <4>2
      <3> HIDE DEF h
      <3>3. QED
        BY <3>1, <3>2 DEF Running
    <2> HIDE DEF h
    <2>7. Fine(m)
      BY <2>5, <2>6
    <2>8. QED
      BY <1>2, <2>7
  <1>6. QED
    BY <1>4, <1>5

\* FlattenSeq is the last of them.
LEMMA FlattenRuns ==
  ASSUME NEW S, NEW ss \in Seq(Seq(S)), ss # <<>>
  PROVE  \E g \in [1..Len(ss) -> Seq(S)] :
            Running(ss, g, Len(ss)) /\ FlattenSeq(ss) = g[Len(ss)]
  <1> DEFINE n == Len(ss)
             Eq(f) == f = [i \in 1..Len(ss) |-> IF i = 1 THEN ss[i] ELSE f[i - 1] \o ss[i]]
             flat == CHOOSE f : Eq(f)
  <1>1. n \in Nat /\ n \in 1..Len(ss)
    BY EmptySeq
  <1>2. PICK g \in [1..n -> Seq(S)] : Running(ss, g, n)
    BY <1>1, RunningExists
  <1>3. Eq(g)
    <2>1. g = [i \in 1..n |-> g[i]]
      BY <1>2
    <2>2. \A i \in 1..n : g[i] = IF i = 1 THEN ss[i] ELSE g[i - 1] \o ss[i]
      <3>1. SUFFICES ASSUME NEW i \in 1..n
                     PROVE  g[i] = IF i = 1 THEN ss[i] ELSE g[i - 1] \o ss[i]
        OBVIOUS
      <3>2. i = 1 \/ i \in 2..n
        BY <1>1
      <3>3. QED
        BY <1>1, <1>2, <3>2 DEF Running
    <2>3. QED
      BY <2>1, <2>2
  <1>4. Eq(flat)
    <2> HIDE DEF Eq
    <2>1. QED
      BY <1>3
  <1>5. FlattenSeq(ss) = flat[n]
    <2>1. Len(ss) # 0
      BY <1>1
    <2>2. QED
      BY <2>1 DEF FlattenSeq
  <1> HIDE DEF flat
  <1>6. \A i \in 1..n : flat[i] = IF i = 1 THEN ss[i] ELSE flat[i - 1] \o ss[i]
    <2> DEFINE F == [i \in 1..Len(ss) |-> IF i = 1 THEN ss[i] ELSE flat[i - 1] \o ss[i]]
    <2>1. \A i \in 1..n : F[i] = IF i = 1 THEN ss[i] ELSE flat[i - 1] \o ss[i]
      OBVIOUS
    <2>2. flat = F
      BY <1>4
    <2> HIDE DEF F
    <2>3. QED
      BY <2>1, <2>2
  <1>7. \A i \in 1..n : flat[i] = g[i]
    <2> DEFINE Bad == {i \in 1..n : flat[i] # g[i]}
    <2>1. SUFFICES ASSUME Bad # {} PROVE FALSE
      OBVIOUS
    <2>2. PICK m \in Bad : \A k \in Bad : m <= k
      <3>1. Bad \subseteq Nat
        OBVIOUS
      <3> HIDE DEF Bad
      <3>2. QED
        BY <2>1, <3>1, Least
    <2>3. CASE m = 1
      <3>1. flat[1] = g[1]
        BY <1>1, <1>2, <1>6 DEF Running
      <3>2. QED
        BY <2>2, <2>3, <3>1
    <2>4. CASE m # 1
      <3>1. m \in 2..n /\ m - 1 \in 1..n /\ m - 1 < m
        BY <1>1, <2>2, <2>4
      <3>2. flat[m - 1] = g[m - 1]
        BY <2>2, <3>1
      <3>3. flat[m] = flat[m - 1] \o ss[m] /\ g[m] = g[m - 1] \o ss[m]
        BY <1>2, <1>6, <2>2, <2>4, <3>1 DEF Running
      <3>4. QED
        BY <2>2, <3>2, <3>3
    <2>5. QED
      BY <2>3, <2>4
  <1>8. QED
    BY <1>1, <1>2, <1>5, <1>7

\* The elements of a concatenation.
LEMMA ConcatSet ==
  ASSUME NEW S, NEW s \in Seq(S), NEW t \in Seq(S)
  PROVE  ToSet(s \o t) = ToSet(s) \cup ToSet(t)
  <1>1. /\ Len(s) \in Nat /\ Len(t) \in Nat /\ Len(s \o t) = Len(s) + Len(t)
        /\ DOMAIN s = 1..Len(s) /\ DOMAIN t = 1..Len(t) /\ DOMAIN (s \o t) = 1..(Len(s) + Len(t))
        /\ \A i \in 1..(Len(s) + Len(t)) :
             (s \o t)[i] = IF i <= Len(s) THEN s[i] ELSE t[i - Len(s)]
    BY ConcatProperties, LenProperties
  <1>2. ASSUME NEW i \in 1..(Len(s) + Len(t)) PROVE (s \o t)[i] \in ToSet(s) \cup ToSet(t)
    <2>1. CASE i <= Len(s)
      BY <1>1, <2>1 DEF ToSet
    <2>2. CASE ~(i <= Len(s))
      <3>1. i - Len(s) \in 1..Len(t)
        BY <1>1, <2>2
      <3>2. QED
        BY <1>1, <2>2, <3>1 DEF ToSet
    <2>3. QED
      BY <2>1, <2>2
  <1>3. ASSUME NEW i \in 1..Len(s) PROVE s[i] \in ToSet(s \o t)
    <2>1. i \in 1..(Len(s) + Len(t)) /\ (s \o t)[i] = s[i]
      BY <1>1
    <2>2. QED
      BY <1>1, <2>1 DEF ToSet
  <1>4. ASSUME NEW i \in 1..Len(t) PROVE t[i] \in ToSet(s \o t)
    <2>1. Len(s) + i \in 1..(Len(s) + Len(t)) /\ ~(Len(s) + i <= Len(s)) /\ (Len(s) + i) - Len(s) = i
      BY <1>1
    <2>2. (s \o t)[Len(s) + i] = t[i]
      BY <1>1, <2>1
    <2>3. QED
      BY <1>1, <2>1, <2>2 DEF ToSet
  <1>5. ToSet(s \o t) \subseteq ToSet(s) \cup ToSet(t)
    BY <1>1, <1>2 DEF ToSet
  <1>6. ToSet(s) \subseteq ToSet(s \o t)
    BY <1>1, <1>3 DEF ToSet
  <1>7. ToSet(t) \subseteq ToSet(s \o t)
    BY <1>1, <1>4 DEF ToSet
  <1>8. QED
    BY <1>5, <1>6, <1>7

\* Sequences of different elements, with none in common, make one.
LEMMA ConcatDistinct ==
  ASSUME NEW S, NEW s \in Seq(S), NEW t \in Seq(S),
         Distinct(s), Distinct(t), ToSet(s) \cap ToSet(t) = {}
  PROVE  Distinct(s \o t)
  <1>1. /\ Len(s) \in Nat /\ Len(t) \in Nat
        /\ DOMAIN s = 1..Len(s) /\ DOMAIN t = 1..Len(t) /\ DOMAIN (s \o t) = 1..(Len(s) + Len(t))
        /\ \A i \in 1..(Len(s) + Len(t)) :
             (s \o t)[i] = IF i <= Len(s) THEN s[i] ELSE t[i - Len(s)]
    BY ConcatProperties, LenProperties
  <1>2. ASSUME NEW i \in 1..Len(s), NEW j \in 1..Len(t) PROVE s[i] # t[j]
    BY <1>1 DEF ToSet
  <1>3. SUFFICES ASSUME NEW i \in 1..(Len(s) + Len(t)), NEW j \in 1..(Len(s) + Len(t)), i # j
                 PROVE  (s \o t)[i] # (s \o t)[j]
    BY <1>1 DEF Distinct
  <1>4. CASE i <= Len(s) /\ j <= Len(s)
    <2>1. i \in DOMAIN s /\ j \in DOMAIN s /\ (s \o t)[i] = s[i] /\ (s \o t)[j] = s[j]
      BY <1>1, <1>4
    <2>2. QED
      BY <1>3, <2>1 DEF Distinct
  <1>5. CASE i <= Len(s) /\ ~(j <= Len(s))
    <2>1. i \in 1..Len(s) /\ j - Len(s) \in 1..Len(t)
      BY <1>1, <1>5
    <2>2. (s \o t)[i] = s[i] /\ (s \o t)[j] = t[j - Len(s)]
      BY <1>1, <1>5
    <2>3. QED
      BY <1>2, <2>1, <2>2
  <1>6. CASE ~(i <= Len(s)) /\ j <= Len(s)
    <2>1. j \in 1..Len(s) /\ i - Len(s) \in 1..Len(t)
      BY <1>1, <1>6
    <2>2. (s \o t)[j] = s[j] /\ (s \o t)[i] = t[i - Len(s)]
      BY <1>1, <1>6
    <2>3. QED
      BY <1>2, <2>1, <2>2
  <1>7. CASE ~(i <= Len(s)) /\ ~(j <= Len(s))
    <2>1. /\ i - Len(s) \in DOMAIN t /\ j - Len(s) \in DOMAIN t /\ i - Len(s) # j - Len(s)
      BY <1>1, <1>3, <1>7
    <2>2. (s \o t)[i] = t[i - Len(s)] /\ (s \o t)[j] = t[j - Len(s)]
      BY <1>1, <1>7
    <2>3. QED
      BY <2>1, <2>2 DEF Distinct
  <1>8. QED
    BY <1>4, <1>5, <1>6, <1>7

\* The elements of the first n sequences.
Union(ss, n) == UNION {ToSet(ss[i]) : i \in 1..n}

\* Every sequence has different elements, and no two have one in common.
Apart(ss) ==
    /\ \A i \in DOMAIN ss : Distinct(ss[i])
    /\ \A i, j \in DOMAIN ss : i # j => ToSet(ss[i]) \cap ToSet(ss[j]) = {}

\* What is together so far are the elements of the first sequences, each once
\* if they are apart.
LEMMA RunningSets ==
  ASSUME NEW S, NEW ss \in Seq(Seq(S)), NEW g \in [1..Len(ss) -> Seq(S)],
         Running(ss, g, Len(ss)), NEW n \in 1..Len(ss)
  PROVE  ToSet(g[n]) = Union(ss, n) /\ (Apart(ss) => Distinct(g[n]))
  <1> DEFINE Fine(k) == ToSet(g[k]) = Union(ss, k) /\ (Apart(ss) => Distinct(g[k]))
             Bad == {k \in 1..Len(ss) : ~Fine(k)}
  <1>1. SUFFICES ASSUME Bad # {} PROVE FALSE
    OBVIOUS
  <1>2. PICK m \in Bad : \A k \in Bad : m <= k
    <2>1. Bad \subseteq Nat
      OBVIOUS
    <2> HIDE DEF Bad
    <2>2. QED
      BY <1>1, <2>1, Least
  <1>3. Len(ss) \in Nat /\ m \in 1..Len(ss) /\ ss[m] \in Seq(S) /\ DOMAIN ss = 1..Len(ss)
    BY <1>2
  <1>4. CASE m = 1
    <2>1. g[1] = ss[1]
      BY DEF Running
    <2>2. Union(ss, 1) = ToSet(ss[1])
      <3>1. 1..1 = {1}
        OBVIOUS
      <3>2. QED
        BY <3>1 DEF Union
    <2>3. Apart(ss) => Distinct(ss[1])
      BY <1>3, <1>4 DEF Apart
    <2>4. Fine(m)
      BY <1>4, <2>1, <2>2, <2>3
    <2>5. QED
      BY <1>2, <2>4
  <1>5. CASE m # 1
    <2>1. m - 1 \in 1..Len(ss) /\ m \in 2..Len(ss) /\ ~(m <= m - 1)
      BY <1>3, <1>5
    <2>2. Fine(m - 1)
      <3>1. m - 1 \notin Bad
        <4> HIDE DEF Bad
        <4>1. QED
          BY <1>2, <2>1
      <3>2. QED
        BY <2>1, <3>1
    <2>3. g[m] = g[m - 1] \o ss[m] /\ g[m - 1] \in Seq(S)
      BY <2>1 DEF Running
    <2>4. ToSet(g[m]) = ToSet(g[m - 1]) \cup ToSet(ss[m])
      BY <1>3, <2>3, ConcatSet
    <2>5. Union(ss, m) = Union(ss, m - 1) \cup ToSet(ss[m])
      <3>1. 1..m = (1..(m - 1)) \cup {m}
        BY <1>3
      <3>2. QED
        BY <3>1 DEF Union
    <2>6. ASSUME Apart(ss) PROVE Distinct(g[m])
      <3>1. Distinct(g[m - 1]) /\ Distinct(ss[m])
        BY <1>3, <2>2, <2>6 DEF Apart
      <3>2. ASSUME NEW i \in 1..(m - 1) PROVE ToSet(ss[i]) \cap ToSet(ss[m]) = {}
        <4>1. i \in 1..Len(ss) /\ i # m
          BY <1>3
        <4>2. QED
          BY <1>3, <2>6, <4>1 DEF Apart
      <3>3. Union(ss, m - 1) \cap ToSet(ss[m]) = {}
        BY <3>2 DEF Union
      <3>4. QED
        BY <1>3, <2>2, <2>3, <3>1, <3>3, ConcatDistinct
    <2>7. Fine(m)
      BY <2>2, <2>4, <2>5, <2>6
    <2>8. QED
      BY <1>2, <2>7
  <1>6. QED
    BY <1>4, <1>5

\* So with FlattenSeq.
LEMMA FlattenFacts ==
  ASSUME NEW S, NEW ss \in Seq(Seq(S))
  PROVE  /\ FlattenSeq(ss) \in Seq(S)
         /\ ToSet(FlattenSeq(ss)) = Union(ss, Len(ss))
         /\ Apart(ss) => Distinct(FlattenSeq(ss))
  <1>1. CASE ss = <<>>
    <2>1. FlattenSeq(ss) = <<>> /\ Len(ss) = 0
      BY <1>1 DEF FlattenSeq
    <2>2. ToSet(<<>>) = {} /\ Distinct(<<>>) /\ 1..0 = {}
      BY DEF ToSet, Distinct
    <2>3. Union(ss, 0) = {}
      BY <2>2 DEF Union
    <2>4. QED
      BY <2>1, <2>2, <2>3
  <1>2. CASE ss # <<>>
    <2>1. PICK g \in [1..Len(ss) -> Seq(S)] :
            Running(ss, g, Len(ss)) /\ FlattenSeq(ss) = g[Len(ss)]
      BY <1>2, FlattenRuns
    <2>2. Len(ss) \in 1..Len(ss)
      BY <1>2, EmptySeq
    <2>3. QED
      BY <2>1, <2>2, RunningSets
  <1>3. QED
    BY <1>1, <1>2

\* The elements at some positions; different ones make different elements.
LEMMA AtFacts ==
  ASSUME NEW S, NEW s \in Seq(S), NEW I
  PROVE  /\ At(s, I) \in Seq(S)
         /\ ToSet(At(s, I)) = {s[i] : i \in I \cap (1..Len(s))}
         /\ (\A i, j \in I \cap (1..Len(s)) : i # j => s[i] # s[j]) => Distinct(At(s, I))
  <1> DEFINE ss == [i \in DOMAIN s |-> IF i \in I THEN <<s[i]>> ELSE <<>>]
  <1>1. Len(s) \in Nat /\ DOMAIN s = 1..Len(s) /\ \A i \in 1..Len(s) : s[i] \in S
    BY LenProperties
  <1>2. \A i \in 1..Len(s) : (IF i \in I THEN <<s[i]>> ELSE <<>>) \in Seq(S)
    BY <1>1
  <1>3. ss \in Seq(Seq(S)) /\ Len(ss) = Len(s) /\ DOMAIN ss = 1..Len(s)
    BY <1>1, <1>2
  <1>4. \A i \in 1..Len(s) : ss[i] = IF i \in I THEN <<s[i]>> ELSE <<>>
    BY <1>1
  <1>5. At(s, I) = FlattenSeq(ss)
    BY DEF At
  <1> HIDE DEF ss
  <1>6. \A i \in 1..Len(s) : ToSet(ss[i]) = IF i \in I THEN {s[i]} ELSE {}
    <2>1. \A x : ToSet(<<x>>) = {x}
      BY DEF ToSet
    <2>2. ToSet(<<>>) = {}
      BY DEF ToSet
    <2>3. QED
      BY <1>4, <2>1, <2>2
  <1>7. Union(ss, Len(s)) = {s[i] : i \in I \cap (1..Len(s))}
    BY <1>6 DEF Union
  <1>8. ASSUME \A i, j \in I \cap (1..Len(s)) : i # j => s[i] # s[j]
        PROVE  Apart(ss)
    <2>1. \A x : Distinct(<<x>>)
      BY DEF Distinct
    <2>2. Distinct(<<>>)
      BY DEF Distinct
    <2>3. \A i \in DOMAIN ss : Distinct(ss[i])
      BY <1>3, <1>4, <2>1, <2>2
    <2>4. ASSUME NEW i \in DOMAIN ss, NEW j \in DOMAIN ss, i # j
          PROVE  ToSet(ss[i]) \cap ToSet(ss[j]) = {}
      <3>1. /\ ToSet(ss[i]) = IF i \in I THEN {s[i]} ELSE {}
            /\ ToSet(ss[j]) = IF j \in I THEN {s[j]} ELSE {}
        BY <1>3, <1>6
      <3>2. i \in I /\ j \in I => s[i] # s[j]
        BY <1>3, <1>8, <2>4
      <3> HIDE DEF ss
      <3>3. QED
        BY <3>1, <3>2
    <2>5. QED
      BY <2>3, <2>4 DEF Apart
  <1>9. QED
    BY <1>3, <1>5, <1>7, <1>8, FlattenFacts

-----------------------------------------------------------------------------
(* Hints.                                                                  *)

\* Every text but the blank one remains, once.
LEMMA DedupeFacts ==
  ASSUME NEW S, NEW texts \in Seq(S)
  PROVE  /\ dedupe(texts) \in Seq(S)
         /\ ToSet(dedupe(texts)) = ToSet(texts) \ {Blank}
         /\ Distinct(dedupe(texts))
  <1> DEFINE I == {i \in DOMAIN texts : texts[i] # Blank /\ \A j \in 1..(i - 1) : texts[j] # texts[i]}
  <1>1. Len(texts) \in Nat /\ DOMAIN texts = 1..Len(texts) /\ I \subseteq 1..Len(texts)
    BY LenProperties
  <1>2. ASSUME NEW i \in I, NEW j \in I, i # j PROVE texts[i] # texts[j]
    <2>1. i \in 1..(j - 1) \/ j \in 1..(i - 1)
      BY <1>1, <1>2
    <2>2. QED
      BY <2>1
  <1>3. ASSUME NEW x \in ToSet(texts) \ {Blank} PROVE \E i \in I : texts[i] = x
    <2> DEFINE J == {i \in DOMAIN texts : texts[i] = x}
    <2>1. J # {} /\ J \subseteq Nat
      BY <1>1 DEF ToSet
    <2>2. PICK m \in J : \A j \in J : m <= j
      <3> HIDE DEF J
      <3>1. QED
        BY <2>1, Least
    <2>3. \A j \in 1..(m - 1) : texts[j] # texts[m]
      <3>1. SUFFICES ASSUME NEW j \in 1..(m - 1) PROVE texts[j] # x
        BY <2>2
      <3>2. j \in DOMAIN texts /\ ~(m <= j)
        BY <1>1, <2>2
      <3>3. j \notin J
        BY <2>2, <3>2
      <3>4. QED
        BY <3>2, <3>3
    <2>4. m \in I
      BY <2>2, <2>3
    <2>5. QED
      BY <2>2, <2>4
  <1>4. dedupe(texts) = At(texts, I)
    BY DEF dedupe
  <1>5. {texts[i] : i \in I} = ToSet(texts) \ {Blank}
    <2>1. {texts[i] : i \in I} \subseteq ToSet(texts) \ {Blank}
      BY DEF ToSet
    <2> HIDE DEF I
    <2>2. QED
      BY <1>3, <2>1
  <1> HIDE DEF I
  <1>6. I \cap (1..Len(texts)) = I
    BY <1>1
  <1>7. QED
    BY <1>2, <1>4, <1>5, <1>6, AtFacts

Flavor == [version : STRING, language : STRING, text : STRING]

\* The English entries.
LEMMA EnglishFacts ==
  ASSUME NEW flavor \in Seq(Flavor)
  PROVE  /\ English(flavor) \in Seq(Flavor)
         /\ ToSet(English(flavor)) = {e \in ToSet(flavor) : e.language = "en"}
  <1> DEFINE I == {i \in DOMAIN flavor : flavor[i].language = "en"}
  <1>1. DOMAIN flavor = 1..Len(flavor)
    BY LenProperties
  <1>2. {flavor[i] : i \in I \cap (1..Len(flavor))} = {e \in ToSet(flavor) : e.language = "en"}
    BY <1>1 DEF ToSet
  <1>3. English(flavor) = At(flavor, I)
    BY DEF English
  <1> HIDE DEF I
  <1>4. QED
    BY <1>2, <1>3, AtFacts

\* The texts of entries.
LEMMA TextsFacts ==
  ASSUME NEW entries \in Seq(Flavor)
  PROVE  /\ Texts(entries) \in Seq(STRING)
         /\ ToSet(Texts(entries)) = {e.text : e \in ToSet(entries)}
  <1>1. /\ Len(entries) \in Nat /\ DOMAIN entries = 1..Len(entries)
        /\ \A i \in 1..Len(entries) : entries[i] \in Flavor
    BY LenProperties
  <1>2. \A i \in 1..Len(entries) : entries[i].text \in STRING
    BY <1>1 DEF Flavor
  <1>3. Texts(entries) = [i \in 1..Len(entries) |-> entries[i].text]
    BY <1>1 DEF Texts
  <1>4. Texts(entries) \in Seq(STRING)
    BY <1>1, <1>2, <1>3
  <1>5. DOMAIN Texts(entries) = 1..Len(entries)
    BY <1>3
  <1>6. \A i \in 1..Len(entries) : Texts(entries)[i] = entries[i].text
    BY <1>3
  <1>7. QED
    BY <1>1, <1>4, <1>5, <1>6 DEF ToSet

\* The texts of some games.
LEMMA TextsOfFacts ==
  ASSUME NEW entries \in Seq(Flavor), NEW V, NEW versions \in Seq(V)
  PROVE  /\ TextsOf(entries, versions) \in Seq(STRING)
         /\ ToSet(TextsOf(entries, versions))
              = {e.text : e \in {f \in ToSet(entries) : f.version \in ToSet(versions)}}
  <1> DEFINE I(v) == {i \in DOMAIN entries : entries[i].version = versions[v]}
             ss == [v \in DOMAIN versions |-> Texts(At(entries, I(v)))]
  <1>1. /\ Len(versions) \in Nat /\ DOMAIN versions = 1..Len(versions)
        /\ DOMAIN entries = 1..Len(entries)
    BY LenProperties
  <1>2. ASSUME NEW v \in 1..Len(versions)
        PROVE  /\ Texts(At(entries, I(v))) \in Seq(STRING)
               /\ ToSet(Texts(At(entries, I(v))))
                    = {e.text : e \in {f \in ToSet(entries) : f.version = versions[v]}}
    <2>1. {entries[i] : i \in I(v) \cap (1..Len(entries))}
            = {f \in ToSet(entries) : f.version = versions[v]}
      BY <1>1 DEF ToSet
    <2> HIDE DEF I
    <2>2. /\ At(entries, I(v)) \in Seq(Flavor)
          /\ ToSet(At(entries, I(v))) = {f \in ToSet(entries) : f.version = versions[v]}
      BY <2>1, AtFacts
    <2>3. QED
      BY <2>2, TextsFacts
  <1>3. TextsOf(entries, versions) = FlattenSeq(ss)
    BY DEF TextsOf
  <1> HIDE DEF I
  <1>4. ss \in Seq(Seq(STRING)) /\ Len(ss) = Len(versions)
    BY <1>1, <1>2
  <1>5. \A v \in 1..Len(versions) : ss[v] = Texts(At(entries, I(v)))
    BY <1>1
  <1> HIDE DEF ss
  <1>6. \A v \in 1..Len(versions) :
          ToSet(ss[v]) = {e.text : e \in {f \in ToSet(entries) : f.version = versions[v]}}
    BY <1>2, <1>5
  <1>7. Union(ss, Len(versions))
          = {e.text : e \in {f \in ToSet(entries) : f.version \in ToSet(versions)}}
    <2> DEFINE Some(v) == {e.text : e \in {f \in ToSet(entries) : f.version = versions[v]}}
               All == {e.text : e \in {f \in ToSet(entries) : f.version \in ToSet(versions)}}
    <2>1. ToSet(versions) = {versions[v] : v \in 1..Len(versions)}
      BY <1>1 DEF ToSet
    <2>2. ASSUME NEW x PROVE (\E v \in 1..Len(versions) : x \in Some(v)) <=> x \in All
      BY <2>1
    <2>3. \A v \in 1..Len(versions) : ToSet(ss[v]) = Some(v)
      BY <1>6
    <2> HIDE DEF Some, All
    <2>4. ASSUME NEW x PROVE x \in Union(ss, Len(versions)) <=> x \in All
      BY <2>2, <2>3 DEF Union
    <2>5. Union(ss, Len(versions)) = All
      BY <2>4
    <2>6. QED
      BY <2>5 DEF All
  <1>8. QED
    BY <1>3, <1>4, <1>7, FlattenFacts

\* The elements of a sequence turned round.
LEMMA ReverseFacts ==
  ASSUME NEW S, NEW s \in Seq(S)
  PROVE  Reverse(s) \in Seq(S) /\ ToSet(Reverse(s)) = ToSet(s)
  <1>1. Len(s) \in Nat /\ DOMAIN s = 1..Len(s) /\ \A i \in 1..Len(s) : s[i] \in S
    BY LenProperties
  <1>2. \A i \in 1..Len(s) : (Len(s) - i) + 1 \in 1..Len(s) /\ (Len(s) - ((Len(s) - i) + 1)) + 1 = i
    BY <1>1
  <1>3. Reverse(s) = [i \in 1..Len(s) |-> s[(Len(s) - i) + 1]]
    BY DEF Reverse
  <1>4. Reverse(s) \in Seq(S)
    BY <1>1, <1>2, <1>3
  <1>5. DOMAIN Reverse(s) = 1..Len(s) /\ \A i \in 1..Len(s) : Reverse(s)[i] = s[(Len(s) - i) + 1]
    BY <1>3
  <1>6. ToSet(Reverse(s)) \subseteq ToSet(s)
    BY <1>1, <1>2, <1>5 DEF ToSet
  <1>7. ASSUME NEW i \in 1..Len(s) PROVE s[i] \in ToSet(Reverse(s))
    <2>1. (Len(s) - i) + 1 \in 1..Len(s) /\ Reverse(s)[(Len(s) - i) + 1] = s[i]
      BY <1>2, <1>5
    <2>2. QED
      BY <1>5, <2>1 DEF ToSet
  <1>8. ToSet(s) \subseteq ToSet(Reverse(s))
    BY <1>1, <1>7 DEF ToSet
  <1>9. QED
    BY <1>4, <1>6, <1>8

\* The first three of some texts are some of them.
LEMMA FirstThreeFacts ==
  ASSUME NEW S, NEW s \in Seq(S)
  PROVE  /\ Len(FirstThree(s)) <= 3
         /\ ToSet(FirstThree(s)) \subseteq ToSet(s)
         /\ s # <<>> => FirstThree(s) # <<>>
         /\ Distinct(s) => Distinct(FirstThree(s))
  <1> DEFINE n == IF Len(s) < 3 THEN Len(s) ELSE 3
  <1>1. Len(s) \in Nat /\ DOMAIN s = 1..Len(s) /\ \A i \in 1..Len(s) : s[i] \in S
    BY LenProperties
  <1>2. n \in 0..3 /\ n <= Len(s) /\ (Len(s) # 0 => n # 0)
    BY <1>1
  <1>3. FirstThree(s) = SubSeq(s, 1, n)
    BY DEF FirstThree
  <1> HIDE DEF n
  <1>4. /\ FirstThree(s) \in Seq(S) /\ Len(FirstThree(s)) = n
        /\ \A i \in 1..n : FirstThree(s)[i] = s[i]
    <2>1. \A i \in 1..n : s[i] \in S
      BY <1>1, <1>2
    <2>2. /\ SubSeq(s, 1, n) \in Seq(S) /\ Len(SubSeq(s, 1, n)) = IF 1 <= n THEN (n - 1) + 1 ELSE 0
          /\ \A i \in 1..((n - 1) + 1) : SubSeq(s, 1, n)[i] = s[(1 + i) - 1]
      BY <1>2, <2>1, SubSeqProperties
    <2>3. (n - 1) + 1 = n /\ \A i \in 1..n : (1 + i) - 1 = i
      BY <1>2
    <2>4. QED
      BY <1>2, <1>3, <2>2, <2>3
  <1>5. DOMAIN FirstThree(s) = 1..n
    BY <1>4, LenProperties
  <1>6. \A i \in 1..n : i \in 1..Len(s)
    BY <1>1, <1>2
  <1>7. ToSet(FirstThree(s)) \subseteq ToSet(s)
    BY <1>1, <1>4, <1>5, <1>6 DEF ToSet
  <1>8. Distinct(s) => Distinct(FirstThree(s))
    BY <1>1, <1>4, <1>5, <1>6 DEF Distinct
  <1>9. s # <<>> => FirstThree(s) # <<>>
    BY <1>1, <1>2, <1>4, EmptySeq
  <1>10. QED
    BY <1>2, <1>4, <1>7, <1>8, <1>9

\* The hints of a form: some for every species with an English text, at most
\* three, no two the same, of the region's own games when there are any.
HintsRight(species, region) ==
    LET shown == select_dex_entries(species, region)
        english == {e \in ToSet(species.flavor) : e.language = "en" /\ e.text # Blank}
        own == {e.text : e \in {f \in english :
                  region # None /\ f.version \in ToSet(PreferredVersions[region])}}
    IN  /\ english # {} => shown # <<>>
        /\ Len(shown) <= 3 /\ Distinct(shown)
        /\ own # {} => ToSet(shown) \subseteq own

\* The hints are right because of what English, TextsOf, dedupe and FirstThree do.
LEMMA HintFacts ==
  ASSUME NEW species, species.flavor \in Seq(Flavor), NEW region, NEW V,
         region # None => PreferredVersions[region] \in Seq(V)
  PROVE  HintsRight(species, region)
  <1> DEFINE entries == English(species.flavor)
             texts == Texts(entries)
             all == dedupe(Reverse(texts))
             some == TextsOf(entries, PreferredVersions[region])
             picked == dedupe(some)
             english == {e \in ToSet(species.flavor) : e.language = "en" /\ e.text # Blank}
             own == {e.text : e \in {f \in english :
                       region # None /\ f.version \in ToSet(PreferredVersions[region])}}
             shown == select_dex_entries(species, region)
  <1>1. entries \in Seq(Flavor) /\ ToSet(entries) = {e \in ToSet(species.flavor) : e.language = "en"}
    BY EnglishFacts
  <1>2. texts \in Seq(STRING) /\ ToSet(texts) = {e.text : e \in ToSet(entries)}
    <2> HIDE DEF entries
    <2>1. QED
      BY <1>1, TextsFacts
  <1>3. Reverse(texts) \in Seq(STRING) /\ ToSet(Reverse(texts)) = ToSet(texts)
    <2> HIDE DEF texts
    <2>1. QED
      BY <1>2, ReverseFacts
  <1>4. /\ all \in Seq(STRING) /\ Distinct(all)
        /\ ToSet(all) = ToSet(texts) \ {Blank}
    <2> HIDE DEF texts
    <2>1. QED
      BY <1>3, DedupeFacts
  <1>5. region # None =>
          /\ picked \in Seq(STRING) /\ Distinct(picked)
          /\ ToSet(picked) = {e.text : e \in {f \in ToSet(entries) :
                                f.version \in ToSet(PreferredVersions[region])}} \ {Blank}
    <2>1. SUFFICES ASSUME region # None
                   PROVE /\ picked \in Seq(STRING) /\ Distinct(picked)
                         /\ ToSet(picked) = {e.text : e \in {f \in ToSet(entries) :
                                f.version \in ToSet(PreferredVersions[region])}} \ {Blank}
      BY Zenon
    <2> HIDE DEF entries
    <2>2. /\ some \in Seq(STRING)
          /\ ToSet(some) = {e.text : e \in {f \in ToSet(entries) :
                              f.version \in ToSet(PreferredVersions[region])}}
      BY <1>1, <2>1, TextsOfFacts
    <2> HIDE DEF some
    <2>3. QED
      BY <2>2, DedupeFacts
  <1>6. ToSet(all) = {e.text : e \in english}
    <2> HIDE DEF all, texts, entries
    <2>1. QED
      BY <1>1, <1>2, <1>4
  <1>7. region # None => ToSet(picked) = own
    <2> HIDE DEF picked, entries
    <2>1. QED
      BY <1>1, <1>5
  <1>8. shown = IF region # None /\ picked # <<>> THEN FirstThree(picked) ELSE FirstThree(all)
    BY DEF select_dex_entries
  <1>9. \A s \in Seq(STRING) : s = <<>> <=> ToSet(s) = {}
    <2>1. SUFFICES ASSUME NEW s \in Seq(STRING) PROVE s = <<>> <=> ToSet(s) = {}
      OBVIOUS
    <2>2. DOMAIN s = 1..Len(s) /\ Len(s) \in Nat
      BY LenProperties
    <2>3. CASE s = <<>>
      BY <2>3 DEF ToSet
    <2>4. CASE s # <<>>
      <3>1. 1 \in DOMAIN s
        BY <2>2, <2>4, EmptySeq
      <3>2. QED
        BY <2>4, <3>1 DEF ToSet
    <2>5. QED
      BY <2>3, <2>4
  <1> HIDE DEF picked, all, shown, entries, texts, some, english, own
  <1>10. /\ english # {} => shown # <<>>
         /\ Len(shown) <= 3 /\ Distinct(shown)
         /\ own # {} => ToSet(shown) \subseteq own
    <2>1. CASE region # None /\ picked # <<>>
      <3>1. shown = FirstThree(picked) /\ picked \in Seq(STRING)
        BY <1>5, <1>8, <2>1
      <3>2. QED
        BY <1>5, <1>7, <2>1, <3>1, FirstThreeFacts
    <2>2. CASE ~(region # None /\ picked # <<>>)
      <3>1. shown = FirstThree(all)
        BY <1>8, <2>2
      <3>2. own = {}
        <4>1. CASE region = None
          BY <4>1 DEF own
        <4>2. CASE region # None
          BY <1>5, <1>7, <1>9, <2>2, <4>2
        <4>3. QED
          BY <4>1, <4>2
      <3>3. english # {} => all # <<>>
        <4>1. english # {} => {e.text : e \in english} # {}
          OBVIOUS
        <4>2. QED
          BY <1>4, <1>6, <1>9, <4>1
      <3>4. QED
        BY <1>4, <3>1, <3>2, <3>3, FirstThreeFacts
    <2>3. QED
      BY <2>1, <2>2
  <1>11. QED
    BY <1>10 DEF HintsRight, shown, english, own

-----------------------------------------------------------------------------
(* Forms.                                                                  *)

\* A sequence is one of its elements.
LEMMA SelfSeq ==
  ASSUME NEW S, NEW s \in Seq(S)
  PROVE  s \in Seq(ToSet(s))
  <1>1. /\ Len(s) \in Nat /\ DOMAIN s = 1..Len(s)
        /\ s = [i \in 1..Len(s) |-> s[i]]
    BY LenProperties
  <1>2. \A i \in 1..Len(s) : s[i] \in ToSet(s)
    BY <1>1 DEF ToSet
  <1>3. QED
    BY <1>1, <1>2

\* What follows the name of the species in the name of a form.
Rest(name, form) == SubSeq(form, Len(name) + 1, Len(form))

\* A regional form of a known breed.
Shaped(name, form) ==
    /\ IsStrictPrefix(name, form)
    /\ Rest(name, form)[1] \in DOMAIN ByApiStem
    /\ ToSet(Tail(Rest(name, form))) \subseteq KnownBreeds \cup CanonicalModes \cup {"breed"}

Regions == {"alolan", "galarian", "hisuian", "paldean"}
Versions == {"sun", "moon", "ultra-sun", "ultra-moon", "sword", "shield", "legends-arceus",
             "scarlet", "violet"}

\* The tables agree.
LEMMA RegionFacts ==
  /\ \A stem \in DOMAIN ByApiStem : ByApiStem[stem] \in Regions
  /\ \A region \in Regions : PreferredVersions[region] \in Seq(Versions)
  <1>1. DOMAIN ByApiStem = {"alola", "galar", "hisui", "paldea"}
    BY DEF ByApiStem
  <1>2. \A stem \in {"alola", "galar", "hisui", "paldea"} : ByApiStem[stem] \in Regions
    BY DEF ByApiStem, Regions
  <1>3. /\ <<"sun", "moon", "ultra-sun", "ultra-moon">> \in Seq(Versions)
        /\ <<"sword", "shield">> \in Seq(Versions)
        /\ <<"legends-arceus">> \in Seq(Versions)
        /\ <<"scarlet", "violet">> \in Seq(Versions)
    BY DEF Versions
  <1>4. /\ PreferredVersions["alolan"] = <<"sun", "moon", "ultra-sun", "ultra-moon">>
        /\ PreferredVersions["galarian"] = <<"sword", "shield">>
        /\ PreferredVersions["hisuian"] = <<"legends-arceus">>
        /\ PreferredVersions["paldean"] = <<"scarlet", "violet">>
    BY DEF PreferredVersions
  <1>5. QED
    BY <1>1, <1>2, <1>3, <1>4 DEF Regions

\* A strict prefix leaves a rest.
LEMMA RestFacts ==
  ASSUME NEW name \in Seq(STRING), NEW form \in Seq(STRING), IsStrictPrefix(name, form)
  PROVE  Rest(name, form) \in Seq(STRING) /\ Rest(name, form) # <<>>
  <1>1. Len(name) \in Nat /\ Len(form) \in Nat /\ \A i \in 1..Len(form) : form[i] \in STRING
    BY LenProperties
  <1>2. /\ Len(name) <= Len(form) /\ name # form
        /\ SubSeq(name, 1, Len(name)) = SubSeq(form, 1, Len(name))
    BY DEF IsStrictPrefix, IsPrefix
  <1>3. Len(name) # Len(form)
    BY <1>2, SubSeqFull
  <1>4. \A i \in (Len(name) + 1)..Len(form) : form[i] \in STRING
    BY <1>1
  <1>5. /\ Rest(name, form) \in Seq(STRING)
        /\ Len(Rest(name, form)) = IF Len(name) + 1 <= Len(form)
                                   THEN (Len(form) - (Len(name) + 1)) + 1 ELSE 0
    BY <1>1, <1>4, SubSeqProperties DEF Rest
  <1>6. Len(Rest(name, form)) # 0
    BY <1>1, <1>2, <1>3, <1>5
  <1>7. QED
    BY <1>5, <1>6

\* The tokens after the region: a breed or a mode that is known, and the
\* suffix of a breed.
LEMMA BareFacts ==
  ASSUME NEW tokens \in Seq(STRING), tokens # <<>>, NEW bare,
         bare = IF tokens # <<>> /\ Last(tokens) = "breed" /\ Len(tokens) > 1
                THEN Front(tokens) ELSE tokens,
         ~(Len(bare) > 2),
         Len(bare) = 1 \/ bare[2] \in CanonicalModes \/ bare[2] \in KnownBreeds
  PROVE  ToSet(Tail(tokens)) \subseteq KnownBreeds \cup CanonicalModes \cup {"breed"}
  <1>0. ~(Len(bare) > 2)
    OBVIOUS
  <1> DEFINE n == Len(tokens)
  <1>1. n \in Nat \ {0} /\ \A i \in 1..n : tokens[i] \in STRING
    BY EmptySeq, LenProperties
  <1>2. /\ Tail(tokens) \in Seq(STRING) /\ Len(Tail(tokens)) = n - 1
        /\ \A i \in 1..(n - 1) : Tail(tokens)[i] = tokens[i + 1]
    BY HeadTailProperties
  <1>3. ToSet(Tail(tokens)) = {tokens[i + 1] : i \in 1..(n - 1)}
    <2>1. DOMAIN Tail(tokens) = 1..(n - 1)
      BY <1>2, LenProperties
    <2>2. QED
      BY <1>2, <2>1 DEF ToSet
  <1>4. SUFFICES ASSUME NEW i \in 1..(n - 1)
                 PROVE  tokens[i + 1] \in KnownBreeds \cup CanonicalModes \cup {"breed"}
    BY <1>3
  <1>5. CASE Last(tokens) = "breed" /\ n > 1
    <2>1. bare = SubSeq(tokens, 1, n - 1)
      BY <1>5 DEF Front
    <2>2. \A k \in 1..(n - 1) : tokens[k] \in STRING
      BY <1>1
    <2>3. /\ Len(bare) = IF 1 <= n - 1 THEN ((n - 1) - 1) + 1 ELSE 0
          /\ \A k \in 1..(((n - 1) - 1) + 1) : bare[k] = tokens[(1 + k) - 1]
      BY <1>1, <2>1, <2>2, SubSeqProperties
    <2>4. Len(bare) = n - 1 /\ \A k \in 1..(n - 1) : bare[k] = tokens[k]
      <3>1. ((n - 1) - 1) + 1 = n - 1 /\ 1 <= n - 1
        BY <1>1, <1>5
      <3>2. Len(bare) = n - 1
        BY <2>3, <3>1
      <3>3. ASSUME NEW k \in 1..(n - 1) PROVE bare[k] = tokens[k]
        <4>1. bare[k] = tokens[(1 + k) - 1]
          BY <2>3, <3>1, <3>3
        <4>2. (1 + k) - 1 = k
          BY <1>1
        <4>3. QED
          BY <4>1, <4>2
      <3>4. QED
        BY <3>2, <3>3
    <2>5. CASE i = n - 1
      <3>1. i + 1 = n
        BY <1>1, <2>5
      <3>2. QED
        BY <1>5, <3>1 DEF Last
    <2>6. CASE i # n - 1
      <3>1. i = 1 /\ Len(bare) = 2 /\ n = 3
        <4>1. Len(bare) = n - 1 /\ n - 1 \in Nat
          BY <1>1, <2>4
        <4>2. ~(n - 1 > 2)
          <5>1. ASSUME NEW a, a = Len(bare) PROVE ~(a > 2)
            BY <5>1, <1>0
          <5> HIDE DEF n
          <5>2. QED
            BY <4>1, <5>1
        <4>3. i \in Nat /\ 1 <= i /\ i <= n - 1
          BY <1>1
        <4>4. n \in Nat
          BY <1>1
        <4> HIDE DEF n
        <4>5. i = 1 /\ n = 3
          BY <2>6, <4>2, <4>3, <4>4
        <4>6. QED
          BY <4>1, <4>5
      <3>2. bare[2] = tokens[2] /\ Len(bare) # 1
        BY <2>4, <3>1
      <3>3. QED
        BY <3>1, <3>2
    <2>7. QED
      BY <2>5, <2>6
  <1>6. CASE ~(Last(tokens) = "breed" /\ n > 1)
    <2>1. bare = tokens
      BY <1>6
    <2>2. i = 1 /\ n = 2
      <3>1. ~(n > 2) /\ i \in Nat /\ 1 <= i /\ i <= n - 1
        BY <1>1, <2>1
      <3> HIDE DEF n
      <3>2. QED
        BY <1>1, <3>1
    <2>3. QED
      BY <2>1, <2>2
  <1>7. QED
    BY <1>5, <1>6

\* What is kept of a variety is its name, a known region, and the shape of an
\* answer.
LEMMA ParseFacts ==
  ASSUME NEW name \in Seq(STRING), NEW form \in Seq(STRING), NEW is_default \in BOOLEAN,
         parse_variety(name, form, is_default) # None
  PROVE  LET ref == parse_variety(name, form, is_default)
         IN  /\ ref.form_key = form
             /\ ref.region_key # None => ref.region_key \in Regions
             /\ is_default \/ Shaped(name, form)
  <1> DEFINE tokens == SubSeq(form, Len(name) + 1, Len(form))
             bare == IF tokens # <<>> /\ Last(tokens) = "breed" /\ Len(tokens) > 1
                     THEN Front(tokens) ELSE tokens
             ref == parse_variety(name, form, is_default)
             region == ByApiStem[tokens[1]]
             Dropped == \/ ToSet(form) \cap Excluded # {}
                        \/ ~IsStrictPrefix(name, form)
                        \/ tokens[1] \notin DOMAIN ByApiStem
                        \/ Len(bare) > 2
  <1>1. ref = IF is_default THEN Keep(form, None, None)
              ELSE IF Dropped THEN None
              ELSE IF Len(bare) = 1 \/ bare[2] \in CanonicalModes THEN Keep(form, region, None)
              ELSE IF bare[2] \in KnownBreeds THEN Keep(form, region, bare[2])
              ELSE None
    BY DEF parse_variety
  <1>2. \A r, b : Keep(form, r, b).form_key = form /\ Keep(form, r, b).region_key = r
    BY DEF Keep
  <1>3. CASE is_default
    BY <1>1, <1>2, <1>3
  <1>4. CASE ~is_default
    <2>1. ~Dropped /\ (Len(bare) = 1 \/ bare[2] \in CanonicalModes \/ bare[2] \in KnownBreeds)
      <3> HIDE DEF Dropped, bare, region, tokens
      <3>1. QED
        BY <1>1, <1>4
    <2>2. \E b : ref = Keep(form, region, b)
      <3> HIDE DEF Dropped, bare, region, tokens, ref
      <3>1. QED
        BY <1>1, <1>4, <2>1
    <2>3. region \in Regions
      BY <2>1, RegionFacts
    <2>4. tokens \in Seq(STRING) /\ tokens # <<>>
      BY <2>1, RestFacts DEF Rest
    <2>5. ToSet(Tail(tokens)) \subseteq KnownBreeds \cup CanonicalModes \cup {"breed"}
      <3>1. ~(Len(bare) > 2)
        BY <2>1
      <3> HIDE DEF Dropped, tokens
      <3>2. QED
        BY <2>1, <2>4, <3>1, BareFacts
    <2>6. Shaped(name, form)
      BY <2>1, <2>5 DEF Shaped, Rest
    <2> HIDE DEF ref, region
    <2>7. QED
      BY <1>2, <2>2, <2>3, <2>6 DEF ref
  <1>5. QED
    BY <1>3, <1>4

\* Each form that is kept comes from a variety.
LEMMA SelectFacts ==
  ASSUME NEW species \in Species, NEW ref \in ToSet(select_forms(species))
  PROVE  /\ ref.region_key # None => ref.region_key \in Regions
         /\ \E v \in ToSet(species.varieties) :
              v.name = ref.form_key /\ (v.is_default \/ Shaped(species.name, v.name))
  <1> DEFINE vs == species.varieties
             parsed == [i \in DOMAIN vs |-> parse_variety(species.name, vs[i].name, vs[i].is_default)]
             I == {i \in DOMAIN parsed : parsed[i] # None}
  <1>1. /\ species.name \in Seq(STRING)
        /\ vs \in Seq([name : Seq(STRING), is_default : BOOLEAN])
    BY DEF Species
  <1>2. /\ Len(vs) \in Nat /\ DOMAIN vs = 1..Len(vs)
        /\ \A i \in 1..Len(vs) : vs[i] \in [name : Seq(STRING), is_default : BOOLEAN]
    <2> HIDE DEF vs
    <2>1. QED
      BY <1>1, LenProperties
  <1>3. parsed \in Seq(ToSet(parsed)) /\ DOMAIN parsed = 1..Len(vs) /\ Len(parsed) = Len(vs)
    BY <1>2 DEF ToSet
  <1>4. select_forms(species) = At(parsed, I)
    BY DEF select_forms
  <1>5. \A i \in 1..Len(vs) : parsed[i] = parse_variety(species.name, vs[i].name, vs[i].is_default)
    BY <1>2
  <1>6. I \subseteq 1..Len(vs) /\ \A i \in I : parsed[i] # None
    BY <1>3
  <1> HIDE DEF parsed, I
  <1>7. PICK i \in I : ref = parsed[i]
    BY <1>3, <1>4, AtFacts
  <1>8. /\ parse_variety(species.name, vs[i].name, vs[i].is_default) # None
        /\ ref = parse_variety(species.name, vs[i].name, vs[i].is_default)
        /\ vs[i].name \in Seq(STRING) /\ vs[i].is_default \in BOOLEAN
    BY <1>2, <1>5, <1>6, <1>7
  <1>9. /\ ref.form_key = vs[i].name
        /\ ref.region_key # None => ref.region_key \in Regions
        /\ vs[i].is_default \/ Shaped(species.name, vs[i].name)
    BY <1>1, <1>8, ParseFacts
  <1>10. vs[i] \in ToSet(vs)
    BY <1>2, <1>6 DEF ToSet
  <1>11. QED
    BY <1>9, <1>10

\* The forms that are kept of a species are answers.
LEMMA RefsFacts ==
  ASSUME NEW s \in DOMAIN Payload
  PROVE  /\ Refs[s] \in Seq(ToSet(Refs[s]))
         /\ FormsOf[s] = {ref.form_key : ref \in ToSet(Refs[s])}
         /\ \A ref \in ToSet(Refs[s]) :
              /\ ref.form_key \in Answers
              /\ ref.region_key # None => ref.region_key \in Regions
  <1> DEFINE species == Payload[s]
             vs == species.varieties
             parsed == [i \in DOMAIN vs |-> parse_variety(species.name, vs[i].name, vs[i].is_default)]
             I == {i \in DOMAIN parsed : parsed[i] # None}
  <1>1. species \in Species
    BY UpstreamAssumption
  <1>2. Refs[s] = select_forms(species) /\ FormsOf[s] = {ref.form_key : ref \in ToSet(Refs[s])}
    BY DEF Refs, FormsOf
  <1>3. Refs[s] \in Seq(ToSet(Refs[s]))
    <2>1. vs \in Seq([name : Seq(STRING), is_default : BOOLEAN])
      BY <1>1 DEF Species
    <2>2. parsed \in Seq(ToSet(parsed))
      <3>1. Len(vs) \in Nat /\ DOMAIN vs = 1..Len(vs)
        <4> HIDE DEF vs
        <4>1. QED
          BY <2>1, LenProperties
      <3>2. QED
        BY <3>1 DEF ToSet
    <2>3. Refs[s] = At(parsed, I)
      BY <1>2 DEF select_forms
    <2> HIDE DEF parsed, I
    <2>4. Refs[s] \in Seq(ToSet(parsed))
      BY <2>2, <2>3, AtFacts
    <2>5. Len(Refs[s]) \in Nat /\ DOMAIN Refs[s] = 1..Len(Refs[s]) /\ Refs[s] = [i \in 1..Len(Refs[s]) |-> Refs[s][i]]
      BY <2>4, LenProperties
    <2>6. QED
      BY <2>5 DEF ToSet
  <1>4. ASSUME NEW ref \in ToSet(Refs[s])
        PROVE  ref.form_key \in Answers /\ (ref.region_key # None => ref.region_key \in Regions)
    <2>1. ref \in ToSet(select_forms(species))
      BY <1>2
    <2>2. PICK v \in ToSet(vs) : v.name = ref.form_key /\ (v.is_default \/ Shaped(species.name, v.name))
      BY <1>1, <2>1, SelectFacts
    <2>3. ref.form_key \in AllForms
      BY <1>2 DEF AllForms
    <2>4. ref.form_key \in Answers
      BY <2>2, <2>3 DEF Answers, Shaped, Rest
    <2>5. QED
      BY <1>1, <2>1, <2>4, SelectFacts
  <1>5. QED
    BY <1>2, <1>3, <1>4

\* The forms that are kept of several species.
LEMMA KeptFacts ==
  ASSUME NEW u \in Seq(DOMAIN Payload)
  PROVE  /\ Kept(u) \in Seq(Entries)
         /\ ToSet(Kept(u))
              = UNION {{[ref |-> ref, species |-> s] : ref \in ToSet(Refs[s])} : s \in ToSet(u)}
  <1> DEFINE ss == [i \in DOMAIN u |-> [j \in DOMAIN Refs[u[i]] |-> [ref |-> Refs[u[i]][j], species |-> u[i]]]]
             Of(s) == {[ref |-> ref, species |-> s] : ref \in ToSet(Refs[s])}
  <1>1. Len(u) \in Nat /\ DOMAIN u = 1..Len(u) /\ \A i \in 1..Len(u) : u[i] \in DOMAIN Payload
    BY LenProperties
  <1>2. ASSUME NEW i \in 1..Len(u)
        PROVE  ss[i] \in Seq(Entries) /\ ToSet(ss[i]) = Of(u[i])
    <2> DEFINE refs == Refs[u[i]]
    <2>1. u[i] \in DOMAIN Payload
      BY <1>1
    <2>2. refs \in Seq(ToSet(refs))
      BY <2>1, RefsFacts
    <2> HIDE DEF refs
    <2>3. /\ Len(refs) \in Nat /\ DOMAIN refs = 1..Len(refs)
          /\ ToSet(refs) = {refs[j] : j \in 1..Len(refs)}
      BY <2>2, LenProperties DEF ToSet
    <2>4. ss[i] = [j \in 1..Len(refs) |-> [ref |-> refs[j], species |-> u[i]]]
      BY <1>1, <2>3 DEF refs
    <2>5. ASSUME NEW j \in 1..Len(refs) PROVE [ref |-> refs[j], species |-> u[i]] \in Entries
      <3>1. refs[j] \in ToSet(Refs[u[i]])
        BY <2>3 DEF refs
      <3>2. [ref |-> refs[j], species |-> u[i]]
              \in {[ref |-> ref, species |-> u[i]] : ref \in ToSet(Refs[u[i]])}
        BY <3>1
      <3>3. QED
        BY <2>1, <3>2 DEF Entries
    <2> HIDE DEF ss
    <2>6. ss[i] \in Seq(Entries)
      BY <2>3, <2>4, <2>5
    <2>7. ToSet(ss[i]) = {[ref |-> refs[j], species |-> u[i]] : j \in 1..Len(refs)}
      <3>1. DOMAIN ss[i] = 1..Len(refs)
        BY <2>4
      <3>2. \A j \in 1..Len(refs) : ss[i][j] = [ref |-> refs[j], species |-> u[i]]
        BY <2>4
      <3>3. QED
        BY <3>1, <3>2 DEF ToSet
    <2>8. ToSet(ss[i]) = {[ref |-> ref, species |-> u[i]] : ref \in ToSet(refs)}
      BY <2>3, <2>7
    <2>9. QED
      BY <2>6, <2>8 DEF refs
  <1>3. DOMAIN ss = 1..Len(u) /\ ss \in Seq(Seq(Entries)) /\ Len(ss) = Len(u)
    <2>1. ss = [i \in 1..Len(u) |-> ss[i]]
      BY <1>1
    <2> HIDE DEF ss
    <2>2. QED
      BY <1>1, <1>2, <2>1
  <1>4. Kept(u) = FlattenSeq(ss)
    BY DEF Kept
  <1> HIDE DEF ss
  <1>5. Kept(u) \in Seq(Entries) /\ ToSet(Kept(u)) = Union(ss, Len(ss))
    BY <1>3, <1>4, FlattenFacts
  <1>6. Union(ss, Len(ss)) = UNION {Of(u[i]) : i \in 1..Len(u)}
    <2> HIDE DEF Of
    <2>1. {ToSet(ss[i]) : i \in 1..Len(u)} = {Of(u[i]) : i \in 1..Len(u)}
      BY <1>2
    <2>2. QED
      BY <1>3, <2>1 DEF Union
  <1>7. ToSet(u) = {u[i] : i \in 1..Len(u)}
    BY <1>1 DEF ToSet
  <1> DEFINE all == UNION {Of(s) : s \in ToSet(u)}
  <1>8. \A e : e \in UNION {Of(u[i]) : i \in 1..Len(u)} <=> e \in all
    <2> HIDE DEF Of
    <2>1. QED
      BY <1>7
  <1>9. ToSet(Kept(u)) = all
    <2> HIDE DEF Of, all
    <2>1. QED
      BY <1>5, <1>6, <1>8
  <1>10. QED
    BY <1>5, <1>9

\* What is kept is a form of a species of the catalog.
LEMMA EntryFacts ==
  ASSUME NEW e \in Entries
  PROVE  /\ e.species \in DOMAIN Payload
         /\ e.ref \in ToSet(Refs[e.species])
         /\ e.ref.form_key \in FormsOf[e.species]
         /\ e.ref.form_key \in Answers
         /\ e.ref.form_key \in AllForms
         /\ e.ref.region_key # None => e.ref.region_key \in Regions
  <1>1. PICK s \in DOMAIN Payload : \E ref \in ToSet(Refs[s]) : e = [ref |-> ref, species |-> s]
    BY DEF Entries
  <1>2. e.species = s /\ e.ref \in ToSet(Refs[s])
    BY <1>1
  <1>3. e.ref.form_key \in FormsOf[s]
    BY <1>2, RefsFacts
  <1>4. QED
    BY <1>2, <1>3, RefsFacts DEF AllForms

\* The rows of what is kept, form by form.
LEMMA RowsFacts ==
  ASSUME NEW kept \in Seq(Entries)
  PROVE  /\ DOMAIN Rows(kept) = DOMAIN kept /\ DOMAIN kept = 1..Len(kept) /\ Len(kept) \in Nat
         /\ Rows(kept) \in Seq(ToSet(Rows(kept)))
         /\ \A i \in DOMAIN kept :
              Rows(kept)[i].form_key = kept[i].ref.form_key /\ Rows(kept)[i].form_key \in Answers
  <1>1. Len(kept) \in Nat /\ DOMAIN kept = 1..Len(kept) /\ \A i \in 1..Len(kept) : kept[i] \in Entries
    BY LenProperties
  <1>2. Rows(kept) = [i \in 1..Len(kept) |-> Row[kept[i].species][kept[i].ref]]
    BY <1>1 DEF Rows
  <1>3. Rows(kept) \in Seq(ToSet(Rows(kept))) /\ DOMAIN Rows(kept) = DOMAIN kept
    BY <1>1, <1>2 DEF ToSet
  <1>4. ASSUME NEW i \in 1..Len(kept)
        PROVE  Rows(kept)[i].form_key = kept[i].ref.form_key /\ kept[i].ref.form_key \in Answers
    <2>1. /\ kept[i].species \in DOMAIN Payload
          /\ kept[i].ref \in ToSet(Refs[kept[i].species])
          /\ kept[i].ref.form_key \in Answers
      BY <1>1, EntryFacts
    <2>2. Rows(kept)[i] = Row[kept[i].species][kept[i].ref]
      BY <1>2
    <2>3. Row[kept[i].species][kept[i].ref] = build_row(kept[i].ref, Payload[kept[i].species])
      BY <2>1 DEF Row
    <2>4. QED
      BY <2>1, <2>2, <2>3 DEF build_row
  <1>5. QED
    BY <1>1, <1>3, <1>4
-----------------------------------------------------------------------------
(* The table.                                                              *)

\* A row of a form is stored, enabled or not.
LEMMA PokemonFacts ==
  ASSUME NEW row, row.form_key \in Answers, NEW enabled \in BOOLEAN
  PROVE  /\ Stored(Pokemon(row, enabled))
         /\ Pokemon(row, enabled).form_key = row.form_key
  BY DEF Pokemon, Stored

\* A seed refreshes what a row shows, and disables it when it has no form for
\* it.
LEMMA UpdatedFacts ==
  ASSUME NEW row, Stored(row), NEW rows
  PROVE  /\ Stored(Updated(row, rows))
         /\ Updated(row, rows).form_key = row.form_key
         /\ Updated(row, rows).slug = row.slug
         /\ Updated(row, rows).enabled => row.enabled /\ Has(rows, row.form_key)
         /\ row.enabled /\ ~Updated(row, rows).enabled => ~Has(rows, row.form_key)
  <1> DEFINE new == RowOf(rows, row.form_key)
             refreshed == [row EXCEPT !.display_name = new.display_name,
                                      !.generation = new.generation,
                                      !.dex_entries = new.dex_entries]
  <1>1. CASE Has(rows, row.form_key)
    <2>1. Updated(row, rows) = refreshed
      BY <1>1 DEF Updated
    <2> HIDE DEF new
    <2>2. Stored(refreshed) /\ refreshed.form_key = row.form_key /\ refreshed.slug = row.slug
          /\ refreshed.enabled = row.enabled
      BY DEF Stored
    <2> HIDE DEF refreshed
    <2>3. QED
      BY <1>1, <2>1, <2>2
  <1>2. CASE ~Has(rows, row.form_key)
    <2>1. Updated(row, rows) = [row EXCEPT !.enabled = FALSE]
      BY <1>2 DEF Updated
    <2>2. QED
      BY <1>2, <2>1 DEF Stored
  <1>3. QED
    BY <1>1, <1>2

\* The rows that are new are of forms that are kept.
LEMMA InsertedFacts ==
  ASSUME NEW kept \in Seq(Entries)
  PROVE  LET new == Inserted(Rows(kept))
         IN  /\ new \in Seq(ToSet(new))
             /\ \A i \in DOMAIN new :
                  /\ Stored(new[i])
                  /\ \E j \in DOMAIN kept : new[i].form_key = kept[j].ref.form_key
  <1> DEFINE rows == Rows(kept)
             I == {i \in DOMAIN rows : ~Has(table, rows[i].form_key)}
             picked == At(rows, I)
             new == Inserted(rows)
  <1>1. /\ rows \in Seq(ToSet(rows)) /\ DOMAIN rows = DOMAIN kept
        /\ \A i \in DOMAIN kept :
             rows[i].form_key = kept[i].ref.form_key /\ rows[i].form_key \in Answers
    BY RowsFacts
  <1>2. new = [i \in DOMAIN picked |-> Pokemon(picked[i], TRUE)]
    BY DEF Inserted
  <1> HIDE DEF rows
  <1>3. DOMAIN rows = 1..Len(rows)
    BY <1>1, LenProperties
  <1>4. picked \in Seq(ToSet(rows)) /\ ToSet(picked) = {rows[i] : i \in I \cap (1..Len(rows))}
    BY <1>1, AtFacts
  <1> HIDE DEF picked, new
  <1>5. DOMAIN picked = 1..Len(picked) /\ Len(picked) \in Nat
    BY <1>4, LenProperties
  <1>6. new \in Seq(ToSet(new)) /\ DOMAIN new = DOMAIN picked
    <2>1. new = [i \in 1..Len(picked) |-> Pokemon(picked[i], TRUE)]
      BY <1>2, <1>5
    <2>2. DOMAIN new = 1..Len(picked) /\ new = [i \in 1..Len(picked) |-> new[i]]
      BY <2>1
    <2>3. \A i \in 1..Len(picked) : new[i] \in ToSet(new)
      BY <2>2 DEF ToSet
    <2>4. QED
      BY <1>5, <2>2, <2>3
  <1>7. ASSUME NEW i \in DOMAIN picked
        PROVE  Stored(new[i]) /\ \E j \in DOMAIN kept : new[i].form_key = kept[j].ref.form_key
    <2>1. picked[i] \in ToSet(picked)
      BY DEF ToSet
    <2>2. PICK j \in DOMAIN kept : picked[i] = rows[j]
      BY <1>1, <1>3, <1>4, <2>1
    <2>3. picked[i].form_key = kept[j].ref.form_key /\ picked[i].form_key \in Answers
      BY <1>1, <2>2
    <2>4. new[i] = Pokemon(picked[i], TRUE)
      BY <1>2
    <2>5. QED
      BY <2>3, <2>4, PokemonFacts
  <1>8. QED
    BY <1>6, <1>7 DEF new, rows

\* The table that a seed leaves.
Seeded(rows) == [i \in DOMAIN table |-> Updated(table[i], rows)] \o Inserted(rows)

\* Every old row is updated where it is, and the new rows are of forms that are kept.
LEMMA SeededFacts ==
  ASSUME TableInv, NEW kept \in Seq(Entries)
  PROVE  LET rows == Rows(kept)
             final == Seeded(rows)
         IN  /\ final \in Seq(ToSet(final))
             /\ DOMAIN table \subseteq DOMAIN final
             /\ \A i \in DOMAIN table : final[i] = Updated(table[i], rows)
             /\ \A i \in DOMAIN final : Stored(final[i])
             /\ \A i \in DOMAIN final : i \in DOMAIN table
                  \/ \E j \in DOMAIN kept : final[i].form_key = kept[j].ref.form_key
  <1> DEFINE rows == Rows(kept)
             old == [i \in DOMAIN table |-> Updated(table[i], rows)]
             new == Inserted(rows)
             final == Seeded(rows)
             S == ToSet(old) \cup ToSet(new)
  <1>1. Len(table) \in Nat /\ DOMAIN table = 1..Len(table) /\ \A i \in DOMAIN table : Stored(table[i])
    BY LenProperties DEF TableInv
  <1>2. /\ new \in Seq(ToSet(new))
        /\ \A i \in DOMAIN new :
             Stored(new[i]) /\ \E j \in DOMAIN kept : new[i].form_key = kept[j].ref.form_key
    BY InsertedFacts
  <1>3. \A i \in DOMAIN table : Stored(Updated(table[i], rows))
    BY <1>1, UpdatedFacts
  <1>4. final = old \o new
    BY DEF Seeded
  <1> HIDE DEF rows, new, final
  <1>5. /\ DOMAIN old = 1..Len(table) /\ Len(old) = Len(table)
        /\ old \in Seq(ToSet(old))
        /\ \A i \in 1..Len(table) : old[i] = Updated(table[i], rows)
    BY <1>1 DEF ToSet
  <1> HIDE DEF old
  <1>6. /\ old \in Seq(S) /\ new \in Seq(S)
        /\ Len(new) \in Nat /\ DOMAIN new = 1..Len(new)
    <2>1. \A i \in DOMAIN old : old[i] \in S
      BY DEF ToSet
    <2>2. \A i \in DOMAIN new : new[i] \in S
      BY DEF ToSet
    <2>3. Len(new) \in Nat /\ DOMAIN new = 1..Len(new)
      BY <1>2, LenProperties
    <2> HIDE DEF S
    <2>4. old \in Seq(S)
      BY <1>1, <1>5, <2>1
    <2>5. new \in Seq(S)
      BY <1>2, <2>2, <2>3
    <2>6. QED
      BY <2>3, <2>4, <2>5
  <1> HIDE DEF S
  <1>7. /\ final \in Seq(S) /\ Len(final) = Len(table) + Len(new)
        /\ DOMAIN final = 1..(Len(table) + Len(new))
        /\ \A i \in 1..(Len(table) + Len(new)) :
             final[i] = IF i <= Len(table) THEN old[i] ELSE new[i - Len(table)]
    <2>1. /\ final \in Seq(S) /\ Len(final) = Len(old) + Len(new)
          /\ \A i \in 1..(Len(old) + Len(new)) :
               final[i] = IF i <= Len(old) THEN old[i] ELSE new[i - Len(old)]
      BY <1>4, <1>6, ConcatProperties
    <2>2. DOMAIN final = 1..Len(final)
      BY <2>1, LenProperties
    <2>3. QED
      BY <1>5, <2>1, <2>2
  <1>8. final \in Seq(ToSet(final))
    BY <1>7, SelfSeq
  <1>9. DOMAIN table \subseteq DOMAIN final /\ \A i \in DOMAIN table : final[i] = Updated(table[i], rows)
    BY <1>1, <1>5, <1>6, <1>7
  <1>10. ASSUME NEW i \in DOMAIN final
         PROVE  /\ Stored(final[i])
                /\ i \in DOMAIN table \/ \E j \in DOMAIN kept : final[i].form_key = kept[j].ref.form_key
    <2>1. CASE i <= Len(table)
      <3>1. i \in DOMAIN table
        BY <1>1, <1>6, <1>7, <2>1
      <3>2. QED
        BY <1>3, <1>9, <3>1
    <2>2. CASE ~(i <= Len(table))
      <3>1. i - Len(table) \in DOMAIN new /\ final[i] = new[i - Len(table)]
        BY <1>1, <1>6, <1>7, <2>2
      <3>2. QED
        BY <1>2, <3>1
    <2>3. QED
      BY <2>1, <2>2
  <1>11. QED
    BY <1>8, <1>9, <1>10 DEF rows, final
-----------------------------------------------------------------------------
(* Pages.                                                                  *)

\* Addresses are told apart.
LEMMA UrlFacts ==
  /\ ListUrl \in Urls
  /\ \A n \in Names : /\ SpeciesUrl(n) \in Urls
                      /\ SpeciesUrl(n) # ListUrl
                      /\ SpeciesUrl(n)[1] # "pokemon"
                      /\ \A m : SpeciesUrl(m) = SpeciesUrl(n) => m = n
  /\ \A f \in AllForms : /\ VarietyUrl(f) \in Urls
                         /\ VarietyUrl(f) # ListUrl
                         /\ \A n : VarietyUrl(f) # SpeciesUrl(n)
  <1>1. ListUrl \in Urls
    BY DEF Urls
  <1>2. ASSUME NEW n \in Names
        PROVE  /\ SpeciesUrl(n) \in Urls /\ SpeciesUrl(n) # ListUrl /\ SpeciesUrl(n)[1] # "pokemon"
               /\ \A m : SpeciesUrl(m) = SpeciesUrl(n) => m = n
    <2>1. PICK s \in DOMAIN Payload : n = Payload[s].name
      BY DEF Names
    <2>2. n # <<>>
      BY <2>1, UpstreamAssumption DEF Species
    <2>3. SpeciesUrl(n) \in Urls
      BY <2>1 DEF Urls
    <2>4. QED
      BY <2>2, <2>3 DEF SpeciesUrl, ListUrl
  <1>3. ASSUME NEW f \in AllForms
        PROVE  VarietyUrl(f) \in Urls /\ VarietyUrl(f) # ListUrl /\ \A n : VarietyUrl(f) # SpeciesUrl(n)
    <2>1. VarietyUrl(f) \in Urls
      BY DEF Urls
    <2>2. VarietyUrl(f) # ListUrl /\ \A n : VarietyUrl(f) # SpeciesUrl(n)
      BY DEF VarietyUrl, SpeciesUrl, ListUrl
    <2>3. QED
      BY <2>1, <2>2
  <1>4. QED
    BY <1>1, <1>2, <1>3

\* What upstream is today.
LEMMA UpstreamFacts ==
  ASSUME FutureInv
  PROVE  /\ upstream \in Seq(DOMAIN Payload)
         /\ \A s \in ToSet(upstream) : s \in DOMAIN Payload
         /\ \A s, t \in ToSet(upstream) : Payload[s].name = Payload[t].name => s = t
  <1>1. upstream = future[1] /\ 1 \in DOMAIN future /\ upstream \in Seq(DOMAIN Payload)
    BY EmptySeq, HeadTailProperties, LenProperties DEF FutureInv, upstream
  <1>2. \A s \in ToSet(upstream) : s \in DOMAIN Payload
    BY <1>1, LenProperties DEF ToSet
  <1>3. QED
    BY <1>1, <1>2 DEF FutureInv

\* What the network answers is right for the address, and what upstream says
\* at that moment.
LEMMA AnswerFacts ==
  ASSUME FutureInv
  PROVE  /\ Answer(ListUrl) \in Seq(Names)
         /\ \A s \in ToSet(upstream) : Payload[s].name \in ToSet(Answer(ListUrl))
         /\ \A n \in Names : Answer(SpeciesUrl(n)) # NotFound =>
              \E s \in ToSet(upstream) : Answer(SpeciesUrl(n)) = <<s>> /\ Payload[s].name = n
  <1>1. /\ Len(upstream) \in Nat /\ DOMAIN upstream = 1..Len(upstream)
        /\ \A i \in DOMAIN upstream : upstream[i] \in DOMAIN Payload
    BY UpstreamFacts, LenProperties
  <1>2. Answer(ListUrl) = [i \in DOMAIN upstream |-> Payload[upstream[i]].name]
    BY DEF Answer
  <1>3. Answer(ListUrl) \in Seq(Names)
    <2>1. \A i \in 1..Len(upstream) : Payload[upstream[i]].name \in Names
      BY <1>1 DEF Names
    <2>2. QED
      BY <1>1, <1>2, <2>1
  <1>4. ASSUME NEW s \in ToSet(upstream) PROVE Payload[s].name \in ToSet(Answer(ListUrl))
    <2>1. PICK i \in DOMAIN upstream : s = upstream[i]
      BY DEF ToSet
    <2>2. Answer(ListUrl)[i] = Payload[s].name /\ i \in DOMAIN Answer(ListUrl)
      BY <1>2, <2>1
    <2>3. QED
      BY <2>2 DEF ToSet
  <1>5. ASSUME NEW n \in Names, Answer(SpeciesUrl(n)) # NotFound
        PROVE  \E s \in ToSet(upstream) : Answer(SpeciesUrl(n)) = <<s>> /\ Payload[s].name = n
    <2> DEFINE described == {s \in ToSet(upstream) : SpeciesUrl(n) = SpeciesUrl(Payload[s].name)}
    <2>1. SpeciesUrl(n) # ListUrl /\ SpeciesUrl(n)[1] # "pokemon"
      BY UrlFacts
    <2>2. Answer(SpeciesUrl(n)) = IF described # {} THEN <<CHOOSE s \in described : TRUE>> ELSE NotFound
      BY <2>1 DEF Answer
    <2>3. described # {} /\ Answer(SpeciesUrl(n)) = <<CHOOSE s \in described : TRUE>>
      <3> HIDE DEF described
      <3>1. QED
        BY <1>5, <2>2
    <2>4. (CHOOSE s \in described : TRUE) \in described
      BY <2>3
    <2>5. \A s \in described : s \in ToSet(upstream) /\ Payload[s].name = n
      BY UrlFacts
    <2> HIDE DEF described
    <2>6. QED
      BY <2>3, <2>4, <2>5
  <1>6. QED
    BY <1>3, <1>4, <1>5

\* So what is answered may stand in the cache.
LEMMA AnswerPage ==
  ASSUME FutureInv, NEW url, Answer(url) # NotFound
  PROVE  Page(url, Answer(url))
  <1>1. ASSUME url = ListUrl PROVE Answer(url) \in Seq(Names)
    BY <1>1, AnswerFacts
  <1>2. ASSUME NEW n \in Names, url = SpeciesUrl(n)
        PROVE  \E s \in DOMAIN Payload : Answer(url) = <<s>> /\ Payload[s].name = n
    <2>1. PICK s \in ToSet(upstream) : Answer(url) = <<s>> /\ Payload[s].name = n
      BY <1>2, AnswerFacts
    <2>2. s \in DOMAIN Payload
      BY UpstreamFacts
    <2>3. QED
      BY <2>1, <2>2
  <1>3. QED
    BY <1>1, <1>2 DEF Page

\* A batch begins with the pages of the cache.
LEMMA GetManyFacts ==
  ASSUME PagesInv, NEW urls, urls \subseteq Urls, NEW use_cache \in BOOLEAN,
         get_many(urls, use_cache), UNCHANGED cache
  PROVE  /\ PagesInv' /\ DOMAIN fetch' = urls
         /\ ~Cached(urls, use_cache) => \A url \in urls : fetch'[url].step # "done"
  <1>1. /\ DOMAIN fetch' = urls
        /\ \A url \in urls :
             fetch'[url] = IF use_cache /\ Readable(url) THEN Done(cache[url]) ELSE Queued
    BY DEF get_many
  <1>2. ASSUME NEW url \in urls
        PROVE  /\ Fetched(fetch'[url])
               /\ fetch'[url].step = "done" =>
                    use_cache /\ Readable(url) /\ Page(url, fetch'[url].data)
    <2>1. CASE use_cache /\ Readable(url)
      <3>1. fetch'[url] = Done(cache[url])
        BY <1>1, <2>1
      <3>2. Page(url, cache[url])
        BY <2>1 DEF PagesInv, Readable
      <3>3. QED
        BY <2>1, <3>1, <3>2 DEF Done, Fetched
    <2>2. CASE ~(use_cache /\ Readable(url))
      <3>1. fetch'[url] = Queued
        BY <1>1, <2>2
      <3>2. QED
        BY <3>1 DEF Queued, Fetched
    <2>3. QED
      BY <2>1, <2>2
  <1>3. PagesInv'
    BY <1>1, <1>2 DEF PagesInv
  <1>4. QED
    BY <1>1, <1>2, <1>3 DEF Cached
\* An answer, or a failure, changes the state of one fetch.
LEMMA RespondFacts ==
  ASSUME PagesInv, NEW url \in DOMAIN fetch, respond(url)
  PROVE  /\ DOMAIN fetch' = DOMAIN fetch
         /\ \A u \in DOMAIN fetch : u # url => fetch'[u] = fetch[u]
         /\ Fetched(fetch'[url])
         /\ fetch'[url].step = "done" => Answer(url) # NotFound /\ fetch'[url].data = Answer(url)
         /\ \/ cache' = cache
            \/ Answer(url) # NotFound /\ cache' = [cache EXCEPT ![url] = Answer(url)]
  <1> DEFINE get == fetch[url]
  <1>1. Fetched(get) /\ get.step = "requesting"
    BY DEF PagesInv, respond
  <1>2. \A e : fetch' = [fetch EXCEPT ![url] = e] =>
          /\ DOMAIN fetch' = DOMAIN fetch /\ fetch'[url] = e
          /\ \A u \in DOMAIN fetch : u # url => fetch'[u] = fetch[u]
    OBVIOUS
  <1>3. CASE Received(url)
    <2> DEFINE answer == Answer(url)
               failed == [get EXCEPT !.step = "failed"]
    <2>1. /\ fetch' = [fetch EXCEPT ![url] = IF answer = NotFound THEN failed ELSE Done(answer)]
          /\ cache' = IF seed.use_cache /\ answer # NotFound
                      THEN [cache EXCEPT ![url] = answer] ELSE cache
      BY <1>3 DEF Received
    <2>2. Fetched(failed) /\ failed.step = "failed"
      BY <1>1 DEF Fetched
    <2>3. Fetched(Done(answer)) /\ Done(answer).data = answer
      BY DEF Done, Fetched
    <2> HIDE DEF answer, failed, get
    <2>4. CASE answer = NotFound
      <3>1. fetch' = [fetch EXCEPT ![url] = failed] /\ cache' = cache
        BY <2>1, <2>4
      <3>2. /\ DOMAIN fetch' = DOMAIN fetch /\ fetch'[url] = failed
            /\ \A u \in DOMAIN fetch : u # url => fetch'[u] = fetch[u]
        BY <1>2, <3>1
      <3>3. QED
        BY <2>2, <3>1, <3>2
    <2>5. CASE answer # NotFound
      <3>1. /\ fetch' = [fetch EXCEPT ![url] = Done(answer)]
            /\ cache' = cache \/ cache' = [cache EXCEPT ![url] = answer]
        BY <2>1, <2>5
      <3>2. /\ DOMAIN fetch' = DOMAIN fetch /\ fetch'[url] = Done(answer)
            /\ \A u \in DOMAIN fetch : u # url => fetch'[u] = fetch[u]
        BY <1>2, <3>1
      <3>3. QED
        BY <2>3, <2>5, <3>1, <3>2 DEF answer
    <2>6. QED
      BY <2>4, <2>5
  <1>4. CASE Flaked(url)
    <2> DEFINE failed == [get EXCEPT !.step = "failed"]
               again == [get EXCEPT !.step = "queued", !.attempt = get.attempt + 1]
    <2>1. /\ \/ fetch' = [fetch EXCEPT ![url] = failed]
             \/ fetch' = [fetch EXCEPT ![url] = again]
          /\ cache' = cache
      <3>1. CASE get.attempt = Retries
        BY <1>4, <3>1 DEF Flaked
      <3>2. CASE get.attempt # Retries
        BY <1>4, <3>2 DEF Flaked
      <3>3. QED
        BY <3>1, <3>2
    <2>2. Fetched(failed) /\ failed.step # "done"
      BY <1>1 DEF Fetched
    <2>3. Fetched(again) /\ again.step # "done"
      <3>1. get.attempt \in Nat
        BY <1>1 DEF Fetched
      <3>2. get.attempt + 1 \in Nat
        BY <3>1
      <3>3. QED
        BY <1>1, <3>2 DEF Fetched
    <2> HIDE DEF failed, again, get
    <2>4. \E e : /\ fetch' = [fetch EXCEPT ![url] = e]
                 /\ Fetched(e) /\ e.step # "done"
      BY <2>1, <2>2, <2>3
    <2>5. QED
      BY <1>2, <2>1, <2>4
  <1>5. QED
    BY <1>3, <1>4 DEF respond

-----------------------------------------------------------------------------
(* The invariant.                                                          *)

\* The table that the seeds of the past have left is of answers.
LEMMA InitInv ==
  ASSUME Init
  PROVE  IInv
  <1>1. PICK h \in Histories :
          /\ future = h.future
          /\ table = [i \in DOMAIN Rows(Kept(h.past)) |->
                        Pokemon(Rows(Kept(h.past))[i],
                                Rows(Kept(h.past))[i].form_key \notin Retired)]
    BY DEF Init
  <1>2. FutureInv
    <2>1. future \in Seq(Seq(DOMAIN Payload)) \ {<<>>}
      BY <1>1, UpstreamAssumption
    <2>2. ASSUME NEW i \in DOMAIN future
          PROVE  \A s, t \in ToSet(future[i]) : Payload[s].name = Payload[t].name => s = t
      <3>1. future[i] \in ToSet(h.future)
        BY <1>1 DEF ToSet
      <3>2. QED
        BY <3>1, UpstreamAssumption
    <2>3. QED
      BY <2>1, <2>2 DEF FutureInv
  <1>3. TableInv
    <2> DEFINE kept == Kept(h.past)
               rows == Rows(kept)
    <2>1. kept \in Seq(Entries)
      BY UpstreamAssumption, KeptFacts
    <2> HIDE DEF kept
    <2>2. /\ DOMAIN rows = 1..Len(kept) /\ Len(kept) \in Nat
          /\ \A i \in 1..Len(kept) : rows[i].form_key \in Answers
      BY <2>1, RowsFacts
    <2>3. table = [i \in DOMAIN rows |-> Pokemon(rows[i], rows[i].form_key \notin Retired)]
      BY <1>1 DEF kept
    <2> HIDE DEF rows
    <2>4. /\ DOMAIN table = 1..Len(kept) /\ table = [i \in 1..Len(kept) |-> table[i]]
          /\ \A i \in 1..Len(kept) :
               table[i] = Pokemon(rows[i], rows[i].form_key \notin Retired)
      BY <2>2, <2>3
    <2>5. \A i \in 1..Len(kept) : table[i] \in ToSet(table)
      BY <2>4 DEF ToSet
    <2>6. table \in Seq(ToSet(table))
      BY <2>2, <2>4, <2>5
    <2>7. \A i \in 1..Len(kept) : Stored(table[i])
      BY <2>2, <2>4, PokemonFacts
    <2>8. QED
      BY <2>4, <2>6, <2>7 DEF TableInv
  <1>4. PagesInv
    BY DEF Init, PagesInv, Nothing
  <1>5. PlanInv
    BY DEF Init, PlanInv, Idle, Nothing
  <1>6. HistoryInv
    BY DEF Init, HistoryInv
  <1>7. FreshInv
    BY DEF Init, FreshInv, Idle
  <1>8. QED
    BY <1>2, <1>3, <1>4, <1>5, <1>6, <1>7 DEF IInv

\* A step that leaves a variable alone leaves alone what is said of it.
LEMMA SameFuture ==
  ASSUME FutureInv, UNCHANGED future
  PROVE  FutureInv'
  BY DEF FutureInv

\* The same of the table.
LEMMA SameTable ==
  ASSUME TableInv, UNCHANGED table
  PROVE  TableInv'
  BY DEF TableInv

\* The same of what was offered.
LEMMA SameHistory ==
  ASSUME HistoryInv, UNCHANGED <<future, gone, offered>>, seed' # Idle => seed # Idle
  PROVE  HistoryInv'
  BY DEF HistoryInv, Forms, upstream

\* Nothing is said of a seed that has ended, however it ended.
LEMMA FinishFacts ==
  ASSUME Finish
  PROVE  /\ PlanInv' /\ HistoryInv' /\ FreshInv'
         /\ DOMAIN fetch' = {}
  <1>1. seed' = Idle /\ fetch' = Nothing
    BY DEF Finish
  <1>2. DOMAIN fetch' = {}
    BY <1>1 DEF Nothing
  <1>3. PlanInv'
    BY <1>1, <1>2 DEF PlanInv, Idle
  <1>4. HistoryInv'
    BY <1>1 DEF HistoryInv
  <1>5. FreshInv'
    BY <1>1 DEF FreshInv, Idle
  <1>6. QED
    BY <1>2, <1>3, <1>4, <1>5

\* A seed starts with the list, from the cache or not.
LEMMA StartStep ==
  ASSUME IInv, NEW limit \in Limits, NEW use_cache \in BOOLEAN, start(limit, use_cache)
  PROVE  IInv'
  <1> USE DEF IInv
  <1>1. /\ seed' = [phase |-> "list", limit |-> limit, use_cache |-> use_cache]
        /\ get_many({ListUrl}, use_cache)
        /\ fromCache' = Cached({ListUrl}, use_cache)
        /\ gone' = AllForms \ Forms(upstream)
        /\ offered' = Forms(upstream)
        /\ UNCHANGED <<future, cache, table, label, plan>>
    BY DEF start
  <1>2. {ListUrl} \subseteq Urls
    BY UrlFacts
  <1>3. /\ PagesInv' /\ DOMAIN fetch' = {ListUrl}
        /\ ~Cached({ListUrl}, use_cache) => fetch'[ListUrl].step # "done"
    BY <1>1, <1>2, GetManyFacts
  <1>4. PlanInv'
    <2>1. limit \in Nat
      BY SeedAssumption
    <2>2. QED
      BY <1>1, <1>3, <2>1 DEF PlanInv
  <1>5. HistoryInv'
    BY <1>1 DEF HistoryInv, Forms, upstream
  <1>6. FreshInv'
    BY <1>1, <1>3 DEF FreshInv, FreshList
  <1>7. QED
    BY <1>1, <1>3, <1>4, <1>5, <1>6, SameFuture, SameTable
\* A request that gets a slot has no page yet.
LEMMA AcquireStep ==
  ASSUME IInv, NEW url \in DOMAIN fetch, acquire(url)
  PROVE  IInv'
  <1> USE DEF IInv
  <1>1. /\ fetch' = [fetch EXCEPT ![url].step = "requesting"]
        /\ UNCHANGED <<future, seeds, cache, table, label, seed, plan, history>>
    BY DEF acquire
  <1>2. UNCHANGED <<future, cache, table, seed, plan, fromCache, gone, offered>>
    BY <1>1 DEF history
  <1>3. /\ DOMAIN fetch' = DOMAIN fetch
        /\ fetch'[url] = [fetch[url] EXCEPT !.step = "requesting"]
        /\ \A u \in DOMAIN fetch : u # url => fetch'[u] = fetch[u]
    BY <1>1
  <1>4. Fetched(fetch[url])
    BY DEF PagesInv
  <1>5. Fetched(fetch'[url]) /\ fetch'[url].step = "requesting"
    BY <1>3, <1>4 DEF Fetched
  <1>6. PagesInv'
    BY <1>2, <1>3, <1>5 DEF PagesInv
  <1>7. PlanInv'
    BY <1>2, <1>3 DEF PlanInv
  <1>8. \A u \in DOMAIN fetch : fetch'[u].step = "done" => fetch'[u] = fetch[u]
    BY <1>3, <1>5
  <1>9. FreshInv'
    <2>1. SUFFICES ASSUME ~fromCache
                   PROVE  /\ seed.phase = "list" => FreshList'
                          /\ seed.phase = "species" => FreshSpecies'
                          /\ seed.phase = "varieties" => FreshPlan'
      BY <1>2 DEF FreshInv
    <2>2. ASSUME seed.phase = "list" PROVE FreshList'
      BY <1>2, <1>8, <2>1, <2>2 DEF FreshInv, FreshList, PlanInv, Stayed
    <2>3. ASSUME seed.phase = "species" PROVE FreshSpecies'
      <3>1. \A n \in ToSet(plan) : SpeciesUrl(n) \in DOMAIN fetch
        BY <2>3 DEF PlanInv
      <3>2. FreshSpecies
        BY <2>1, <2>3 DEF FreshInv
      <3>3. QED
        BY <1>2, <1>8, <3>1, <3>2 DEF FreshSpecies, Stayed
    <2>4. ASSUME seed.phase = "varieties" PROVE FreshPlan'
      BY <1>2, <2>1, <2>4 DEF FreshInv, FreshPlan, Stayed
    <2>5. QED
      BY <2>2, <2>3, <2>4
  <1>10. QED
    BY <1>2, <1>6, <1>7, <1>9, SameFuture, SameTable, SameHistory

\* A page that is answered while the seed runs is of that time.
LEMMA RespondStep ==
  ASSUME IInv, NEW url \in DOMAIN fetch, respond(url)
  PROVE  IInv'
  <1> USE DEF IInv
  <1>1. UNCHANGED <<future, seeds, table, label, seed, plan, history>>
    BY DEF respond
  <1>2. UNCHANGED <<future, table, seed, plan, fromCache, gone, offered>>
    BY <1>1 DEF history
  <1>3. /\ DOMAIN fetch' = DOMAIN fetch
        /\ \A u \in DOMAIN fetch : u # url => fetch'[u] = fetch[u]
        /\ Fetched(fetch'[url])
        /\ fetch'[url].step = "done" => Answer(url) # NotFound /\ fetch'[url].data = Answer(url)
        /\ \/ cache' = cache
           \/ Answer(url) # NotFound /\ cache' = [cache EXCEPT ![url] = Answer(url)]
    BY RespondFacts
  <1>4. Answer(url) # NotFound => Page(url, Answer(url))
    BY AnswerPage
  <1>5. PagesInv'
    <2>1. /\ DOMAIN cache' = Urls
          /\ \A u \in DOMAIN cache' : cache'[u] \in {None, Torn} \/ Page(u, cache'[u])
      <3>1. CASE cache' = cache
        BY <3>1 DEF PagesInv
      <3>2. CASE Answer(url) # NotFound /\ cache' = [cache EXCEPT ![url] = Answer(url)]
        BY <1>4, <3>2 DEF PagesInv
      <3>3. QED
        BY <1>3, <3>1, <3>2
    <2>2. \A u \in DOMAIN fetch' :
            Fetched(fetch'[u]) /\ (fetch'[u].step = "done" => Page(u, fetch'[u].data))
      BY <1>3, <1>4 DEF PagesInv
    <2>3. QED
      BY <2>1, <2>2 DEF PagesInv
  <1>6. PlanInv'
    BY <1>2, <1>3 DEF PlanInv
  <1>7. ASSUME seed # Idle PROVE Forms(upstream) \subseteq offered /\ Stayed \subseteq Forms(upstream)
    BY <1>7 DEF HistoryInv, Stayed
  <1>8. FreshInv'
    <2>1. SUFFICES ASSUME ~fromCache
                   PROVE  /\ seed.phase = "list" => FreshList'
                          /\ seed.phase = "species" => FreshSpecies'
                          /\ seed.phase = "varieties" => FreshPlan'
      BY <1>2 DEF FreshInv
    <2>2. ASSUME seed.phase = "list" PROVE FreshList'
      <3>1. url = ListUrl /\ seed # Idle
        BY <2>2 DEF PlanInv, Idle
      <3>2. SUFFICES ASSUME fetch'[ListUrl].step = "done", NEW f \in Stayed
                     PROVE  \E n \in ToSet(fetch'[ListUrl].data) : Owned(f, n)
        BY <1>2 DEF FreshList, Stayed
      <3>3. fetch'[ListUrl].data = Answer(ListUrl)
        BY <1>3, <3>1, <3>2
      <3>4. PICK s \in ToSet(upstream) : f \in FormsOf[s]
        BY <1>7, <3>1 DEF Forms
      <3>5. s \in DOMAIN Payload /\ Payload[s].name \in ToSet(Answer(ListUrl))
        BY UpstreamFacts, AnswerFacts
      <3>6. Owned(f, Payload[s].name)
        BY <3>4, <3>5 DEF Owned
      <3>7. QED
        BY <3>3, <3>5, <3>6
    <2>3. ASSUME seed.phase = "species" PROVE FreshSpecies'
      <3>1. seed # Idle /\ FreshSpecies
        BY <2>1, <2>3 DEF Idle, FreshInv
      <3>2. plan \in Seq(Names) /\ \A n \in ToSet(plan) : SpeciesUrl(n) \in DOMAIN fetch
        BY <2>3 DEF PlanInv
      <3>3. ASSUME NEW n \in ToSet(plan), fetch'[SpeciesUrl(n)].step = "done"
            PROVE  /\ FormsOf[fetch'[SpeciesUrl(n)].data[1]] \subseteq offered
                   /\ \A f \in Stayed : Owned(f, n) => f \in FormsOf[fetch'[SpeciesUrl(n)].data[1]]
        <4>1. CASE url # SpeciesUrl(n)
          <5>1. fetch'[SpeciesUrl(n)] = fetch[SpeciesUrl(n)]
            BY <1>3, <3>2, <4>1
          <5>2. QED
            BY <3>1, <3>3, <5>1 DEF FreshSpecies
        <4>2. CASE url = SpeciesUrl(n)
          <5>1. n \in Names
            BY <3>2, LenProperties DEF ToSet
          <5>2. Answer(SpeciesUrl(n)) # NotFound /\ fetch'[SpeciesUrl(n)].data = Answer(SpeciesUrl(n))
            BY <1>3, <3>3, <4>2
          <5>3. PICK s \in ToSet(upstream) : Answer(SpeciesUrl(n)) = <<s>> /\ Payload[s].name = n
            BY <5>1, <5>2, AnswerFacts
          <5>4. fetch'[SpeciesUrl(n)].data[1] = s
            BY <5>2, <5>3
          <5>5. FormsOf[s] \subseteq offered
            <6>1. FormsOf[s] \subseteq Forms(upstream)
              BY <5>3 DEF Forms
            <6>2. QED
              BY <1>7, <3>1, <6>1
          <5>6. ASSUME NEW f \in Stayed, Owned(f, n) PROVE f \in FormsOf[s]
            <6>1. PICK t \in ToSet(upstream) : f \in FormsOf[t]
              BY <1>7, <3>1 DEF Forms
            <6>2. PICK r \in DOMAIN Payload : f \in FormsOf[r] /\ Payload[r].name = n
              BY <5>6 DEF Owned
            <6>3. t \in DOMAIN Payload /\ FormsOf[t] \cap FormsOf[r] # {}
              BY <6>1, <6>2, UpstreamFacts
            <6>4. Payload[t].name = n
              BY <6>2, <6>3, UpstreamAssumption
            <6>5. t = s
              BY <5>3, <6>4, UpstreamFacts
            <6>6. QED
              BY <6>1, <6>5
          <5>7. QED
            BY <5>4, <5>5, <5>6
        <4>3. QED
          BY <4>1, <4>2
      <3>4. seed.limit = 0 => \A f \in Stayed : \E n \in ToSet(plan) : Owned(f, n)
        BY <3>1 DEF FreshSpecies
      <3>5. QED
        BY <1>2, <3>3, <3>4 DEF FreshSpecies, Stayed
    <2>4. ASSUME seed.phase = "varieties" PROVE FreshPlan'
      BY <1>2, <2>1, <2>4 DEF FreshInv, FreshPlan, Stayed
    <2>5. QED
      BY <2>2, <2>3, <2>4
  <1>9. QED
    BY <1>2, <1>5, <1>6, <1>8, SameFuture, SameTable, SameHistory
\* The species of the list are fetched.
LEMMA ListStep ==
  ASSUME IInv, list_species
  PROVE  IInv'
  <1> USE DEF IInv
  <1> DEFINE names == fetch[ListUrl].data
             refs == IF seed.limit = 0 THEN names
                     ELSE SubSeq(names, 1, IF Len(names) < seed.limit THEN Len(names) ELSE seed.limit)
             urls == {SpeciesUrl(name) : name \in ToSet(refs)}
  <1>1. /\ seed.phase = "list" /\ AllDone
        /\ get_many(urls, seed.use_cache)
        /\ fromCache' = (fromCache \/ Cached(urls, seed.use_cache))
        /\ plan' = refs
        /\ seed' = [seed EXCEPT !.phase = "species"]
        /\ UNCHANGED <<future, seeds, cache, table, label, gone, offered>>
    BY DEF list_species, Goto
  <1>2. DOMAIN fetch = {ListUrl} /\ fetch[ListUrl].step = "done"
    BY <1>1 DEF PlanInv, AllDone
  <1>3. names \in Seq(Names)
    BY <1>2 DEF PagesInv, Page
  <1>4. /\ seed \in [phase : {"idle", "list", "species", "varieties"}, limit : Nat, use_cache : BOOLEAN]
        /\ seed.limit \in Nat /\ seed.use_cache \in BOOLEAN
    BY DEF PlanInv
  <1>5. refs \in Seq(Names)
    <2> HIDE DEF names
    <2>1. CASE seed.limit = 0
      BY <1>3, <2>1
    <2>2. CASE seed.limit # 0
      <3> DEFINE m == IF Len(names) < seed.limit THEN Len(names) ELSE seed.limit
      <3>1. Len(names) \in Nat /\ \A i \in 1..Len(names) : names[i] \in Names
        BY <1>3, LenProperties
      <3>2. m \in Nat /\ m <= Len(names)
        BY <1>4, <3>1
      <3>3. refs = SubSeq(names, 1, m)
        BY <2>2
      <3> HIDE DEF m
      <3>4. \A i \in 1..m : names[i] \in Names
        BY <3>1, <3>2
      <3>5. SubSeq(names, 1, m) \in Seq(Names)
        BY <1>3, <3>1, <3>2, <3>4, SubSeqProperties
      <3>6. QED
        BY <3>3, <3>5
    <2>3. QED
      BY <2>1, <2>2
  <1> HIDE DEF refs
  <1>6. \A n \in ToSet(refs) : n \in Names
    BY <1>5, LenProperties DEF ToSet
  <1>7. urls \subseteq Urls
    BY <1>6, UrlFacts
  <1> HIDE DEF urls
  <1>8. /\ PagesInv' /\ DOMAIN fetch' = urls
        /\ ~Cached(urls, seed.use_cache) => \A url \in urls : fetch'[url].step # "done"
    BY <1>1, <1>4, <1>7, GetManyFacts
  <1>9. /\ seed' \in [phase : {"idle", "list", "species", "varieties"}, limit : Nat, use_cache : BOOLEAN]
        /\ seed'.phase = "species" /\ seed'.limit = seed.limit
    BY <1>1, <1>4
  <1>10. PlanInv'
    <2>1. plan' \in Seq(Names) /\ DOMAIN fetch' = {SpeciesUrl(n) : n \in ToSet(plan')}
      BY <1>1, <1>5, <1>8 DEF urls
    <2>2. QED
      BY <1>9, <2>1 DEF PlanInv
  <1>11. HistoryInv'
    <2>1. seed # Idle
      BY <1>1 DEF Idle
    <2>2. QED
      BY <1>1, <2>1, SameHistory
  <1>12. FreshInv'
    <2>1. SUFFICES ASSUME ~fromCache' PROVE FreshSpecies'
      BY <1>9 DEF FreshInv
    <2>2. ~fromCache /\ ~Cached(urls, seed.use_cache)
      BY <1>1, <2>1
    <2>3. ASSUME seed.limit = 0, NEW f \in Stayed
          PROVE  \E n \in ToSet(plan') : Owned(f, n)
      <3>1. plan' = names
        BY <1>1, <2>3 DEF refs
      <3>2. FreshList
        BY <1>1, <2>2 DEF FreshInv
      <3>3. QED
        BY <1>2, <2>3, <3>1, <3>2 DEF FreshList
    <2>4. \A n \in ToSet(plan') : fetch'[SpeciesUrl(n)].step # "done"
      <3>1. \A n \in ToSet(plan') : SpeciesUrl(n) \in urls
        BY <1>1 DEF urls
      <3>2. QED
        BY <1>8, <2>2, <3>1
    <2>5. QED
      BY <1>1, <1>9, <2>3, <2>4 DEF FreshSpecies, Stayed
  <1>13. QED
    BY <1>1, <1>8, <1>10, <1>11, <1>12, SameFuture, SameTable

\* The forms of the species are kept, each with its species.
LEMMA SelectStep ==
  ASSUME IInv, select
  PROVE  IInv'
  <1> USE DEF IInv
  <1> DEFINE species == [i \in DOMAIN plan |-> fetch[SpeciesUrl(plan[i])].data[1]]
             kept == Kept(species)
             urls == {VarietyUrl(entry.ref.form_key) : entry \in ToSet(kept)}
  <1>1. /\ seed.phase = "species" /\ AllDone
        /\ plan' = kept
        /\ get_many(urls, seed.use_cache)
        /\ fromCache' = (fromCache \/ Cached(urls, seed.use_cache))
        /\ seed' = [seed EXCEPT !.phase = "varieties"]
        /\ UNCHANGED <<future, seeds, cache, table, label, gone, offered>>
    BY DEF select, Goto
  <1>2. /\ plan \in Seq(Names) /\ DOMAIN fetch = {SpeciesUrl(n) : n \in ToSet(plan)}
        /\ seed \in [phase : {"idle", "list", "species", "varieties"}, limit : Nat, use_cache : BOOLEAN]
        /\ seed.use_cache \in BOOLEAN
    BY <1>1 DEF PlanInv
  <1>3. /\ Len(plan) \in Nat /\ DOMAIN plan = 1..Len(plan)
        /\ \A i \in DOMAIN plan : plan[i] \in Names /\ plan[i] \in ToSet(plan)
    BY <1>2, LenProperties DEF ToSet
  <1>4. ASSUME NEW i \in DOMAIN plan
        PROVE  /\ fetch[SpeciesUrl(plan[i])].step = "done"
               /\ species[i] \in DOMAIN Payload
    <2>1. SpeciesUrl(plan[i]) \in DOMAIN fetch
      BY <1>2, <1>3
    <2>2. fetch[SpeciesUrl(plan[i])].step = "done"
      BY <1>1, <2>1 DEF AllDone
    <2>3. Page(SpeciesUrl(plan[i]), fetch[SpeciesUrl(plan[i])].data)
      BY <2>1, <2>2 DEF PagesInv
    <2>4. PICK s \in DOMAIN Payload : fetch[SpeciesUrl(plan[i])].data = <<s>>
      BY <1>3, <2>3 DEF Page
    <2>5. QED
      BY <2>2, <2>4
  <1>5. species \in Seq(DOMAIN Payload) /\ DOMAIN species = DOMAIN plan
    BY <1>3, <1>4
  <1>6. /\ kept \in Seq(Entries)
        /\ ToSet(kept) = UNION {{[ref |-> ref, species |-> s] : ref \in ToSet(Refs[s])} : s \in ToSet(species)}
    <2> HIDE DEF species
    <2>1. QED
      BY <1>5, KeptFacts
  <1>7. \A i \in DOMAIN plan : species[i] = fetch[SpeciesUrl(plan[i])].data[1]
    OBVIOUS
  <1> HIDE DEF species, kept
  <1>8. urls \subseteq Urls
    <2>1. \A e \in ToSet(kept) : e \in Entries
      BY <1>6, LenProperties DEF ToSet
    <2>2. \A e \in ToSet(kept) : e.ref.form_key \in AllForms
      BY <2>1, EntryFacts
    <2>3. QED
      BY <2>2, UrlFacts
  <1> HIDE DEF urls
  <1>9. PagesInv'
    BY <1>1, <1>2, <1>8, GetManyFacts
  <1>10. /\ seed' \in [phase : {"idle", "list", "species", "varieties"}, limit : Nat, use_cache : BOOLEAN]
         /\ seed'.phase = "varieties" /\ seed'.limit = seed.limit
    BY <1>1, <1>2
  <1>11. PlanInv'
    BY <1>1, <1>6, <1>10 DEF PlanInv
  <1>12. HistoryInv'
    <2>1. seed # Idle
      BY <1>1 DEF Idle
    <2>2. QED
      BY <1>1, <2>1, SameHistory
  <1>13. FreshInv'
    <2>1. SUFFICES ASSUME ~fromCache' PROVE FreshPlan'
      BY <1>10 DEF FreshInv
    <2>2. FreshSpecies
      BY <1>1, <2>1 DEF FreshInv
    <2>3. ASSUME NEW i \in DOMAIN kept PROVE kept[i].ref.form_key \in offered
      <3>1. kept[i] \in ToSet(kept)
        BY DEF ToSet
      <3>2. PICK s \in ToSet(species) : \E ref \in ToSet(Refs[s]) : kept[i] = [ref |-> ref, species |-> s]
        BY <1>6, <3>1
      <3>3. PICK k \in DOMAIN plan : s = species[k]
        BY <1>5 DEF ToSet
      <3>4. s \in DOMAIN Payload /\ kept[i].ref \in ToSet(Refs[s])
        BY <1>4, <3>2, <3>3
      <3>5. kept[i].ref.form_key \in FormsOf[s]
        BY <3>4, RefsFacts
      <3>6. FormsOf[s] \subseteq offered
        BY <1>3, <1>4, <1>7, <2>2, <3>3 DEF FreshSpecies
      <3>7. QED
        BY <3>5, <3>6
    <2>4. ASSUME seed.limit = 0, NEW f \in Stayed
          PROVE  \E i \in DOMAIN kept : kept[i].ref.form_key = f
      <3>1. PICK n \in ToSet(plan) : Owned(f, n)
        BY <2>2, <2>4 DEF FreshSpecies
      <3>2. PICK k \in DOMAIN plan : n = plan[k]
        BY DEF ToSet
      <3>3. f \in FormsOf[species[k]]
        BY <1>4, <1>7, <2>2, <2>4, <3>1, <3>2 DEF FreshSpecies
      <3>4. species[k] \in DOMAIN Payload /\ species[k] \in ToSet(species)
        BY <1>4, <1>5, <3>2 DEF ToSet
      <3>5. PICK ref \in ToSet(Refs[species[k]]) : ref.form_key = f
        BY <3>3, <3>4, RefsFacts
      <3>6. [ref |-> ref, species |-> species[k]] \in ToSet(kept)
        <4> DEFINE Of(s) == {[ref |-> r, species |-> s] : r \in ToSet(Refs[s])}
        <4>1. [ref |-> ref, species |-> species[k]] \in Of(species[k])
          OBVIOUS
        <4>2. ToSet(kept) = UNION {Of(s) : s \in ToSet(species)}
          BY <1>6
        <4> HIDE DEF Of
        <4>3. QED
          BY <3>4, <4>1, <4>2
      <3>7. PICK i \in DOMAIN kept : kept[i] = [ref |-> ref, species |-> species[k]]
        BY <3>6 DEF ToSet
      <3>8. QED
        BY <3>5, <3>7
    <2>5. QED
      BY <1>1, <1>10, <2>3, <2>4 DEF FreshPlan, Stayed
  <1>14. QED
    BY <1>1, <1>9, <1>11, <1>12, <1>13, SameFuture, SameTable
\* The table is seeded, or left as it was.
LEMMA ApplyStep ==
  ASSUME IInv, apply_catalog
  PROVE  IInv'
  <1> USE DEF IInv
  <1>1. /\ seed.phase = "varieties" /\ Finish
        /\ UNCHANGED <<future, seeds, cache>>
        /\ table' = Seeded(Rows(plan)) \/ UNCHANGED table
    BY DEF apply_catalog, Seeded
  <1>2. plan \in Seq(Entries)
    BY <1>1 DEF PlanInv
  <1>3. TableInv'
    <2>1. CASE table' = Seeded(Rows(plan))
      <3>1. /\ Seeded(Rows(plan)) \in Seq(ToSet(Seeded(Rows(plan))))
            /\ \A i \in DOMAIN Seeded(Rows(plan)) : Stored(Seeded(Rows(plan))[i])
        BY <1>2, SeededFacts
      <3>2. QED
        BY <2>1, <3>1 DEF TableInv
    <2>2. CASE UNCHANGED table
      BY <2>2, SameTable
    <2>3. QED
      BY <1>1, <2>1, <2>2
  <1>4. /\ PlanInv' /\ HistoryInv' /\ FreshInv'
        /\ DOMAIN fetch' = {}
    BY <1>1, FinishFacts
  <1>5. PagesInv'
    BY <1>1, <1>4 DEF PagesInv
  <1>6. QED
    BY <1>1, <1>3, <1>4, <1>5, SameFuture

\* A seed that failed leaves the table and the cache alone.
LEMMA AbortStep ==
  ASSUME IInv, abort
  PROVE  IInv'
  <1> USE DEF IInv
  <1>1. Finish /\ UNCHANGED <<future, seeds, cache, table, label>>
    BY DEF abort
  <1>2. /\ PlanInv' /\ HistoryInv' /\ FreshInv'
        /\ DOMAIN fetch' = {}
    BY <1>1, FinishFacts
  <1>3. PagesInv'
    BY <1>1, <1>2 DEF PagesInv
  <1>4. QED
    BY <1>1, <1>2, <1>3, SameFuture, SameTable

\* A kill may tear one page of the cache.
LEMMA KilledStep ==
  ASSUME IInv, killed
  PROVE  IInv'
  <1> USE DEF IInv
  <1>1. /\ Finish /\ UNCHANGED <<future, seeds, table, label>>
        /\ UNCHANGED cache \/ \E url \in DOMAIN fetch : cache' = [cache EXCEPT ![url] = Torn]
    BY DEF killed
  <1>2. /\ PlanInv' /\ HistoryInv' /\ FreshInv'
        /\ DOMAIN fetch' = {}
    BY <1>1, FinishFacts
  <1>3. PagesInv'
    <2>1. CASE UNCHANGED cache
      BY <1>2, <2>1 DEF PagesInv
    <2>2. CASE \E url \in DOMAIN fetch : cache' = [cache EXCEPT ![url] = Torn]
      <3>1. PICK url \in DOMAIN fetch : cache' = [cache EXCEPT ![url] = Torn]
        BY <2>2
      <3>2. DOMAIN cache' = DOMAIN cache /\ \A u \in DOMAIN cache : cache'[u] = cache[u] \/ cache'[u] = Torn
        BY <3>1
      <3>3. QED
        BY <1>2, <3>2 DEF PagesInv
    <2>3. QED
      BY <1>1, <2>1, <2>2
  <1>4. QED
    BY <1>1, <1>2, <1>3, SameFuture, SameTable

\* What upstream does not offer any more is gone, what it offers now is
\* offered; what was right about the plan stays right.
LEMMA UpstreamStep ==
  ASSUME IInv, upstream_changes
  PROVE  IInv'
  <1> USE DEF IInv
  <1>1. /\ Len(future) > 1 /\ future' = Tail(future)
        /\ gone' = IF seed = Idle THEN {} ELSE gone \cup (AllForms \ Forms(future[2]))
        /\ offered' = IF seed = Idle THEN {} ELSE offered \cup Forms(future[2])
        /\ UNCHANGED <<cache, table, seed, fetch, slots, plan, fromCache>>
    BY DEF upstream_changes, seedVars
  <1>2. /\ future' \in Seq(Seq(DOMAIN Payload)) \ {<<>>}
        /\ Len(future) \in Nat /\ Len(future') = Len(future) - 1
        /\ DOMAIN future = 1..Len(future) /\ DOMAIN future' = 1..Len(future')
        /\ \A i \in 1..Len(future') : future'[i] = future[i + 1]
    <2> DEFINE S == Seq(DOMAIN Payload)
    <2>1. future \in Seq(S) /\ future # <<>>
      BY DEF FutureInv
    <2> HIDE DEF S
    <2>2. /\ future' \in Seq(S) /\ Len(future') = Len(future) - 1
          /\ \A i \in 1..Len(future') : future'[i] = future[i + 1]
      BY <1>1, <2>1, HeadTailProperties
    <2>3. /\ Len(future) \in Nat
          /\ DOMAIN future = 1..Len(future) /\ DOMAIN future' = 1..Len(future')
      BY <2>1, <2>2, LenProperties
    <2>4. future' # <<>>
      <3>1. Len(future') # 0
        <4>1. \A k \in Nat : k > 1 => k - 1 # 0
          OBVIOUS
        <4>2. QED
          BY <1>1, <2>2, <2>3, <4>1
      <3>2. QED
        BY <2>2, <3>1, EmptySeq
    <2>5. QED
      BY <2>2, <2>3, <2>4 DEF S
  <1>3. FutureInv'
    <2>1. ASSUME NEW i \in DOMAIN future'
          PROVE  \A s, t \in ToSet(future'[i]) : Payload[s].name = Payload[t].name => s = t
      <3>1. i + 1 \in DOMAIN future /\ future'[i] = future[i + 1]
        BY <1>1, <1>2
      <3>2. QED
        BY <3>1 DEF FutureInv
    <2>2. QED
      BY <1>2, <2>1 DEF FutureInv
  <1>4. upstream' = future[2]
    <2>1. upstream' = future'[1]
      BY <1>2 DEF upstream
    <2>2. 1 \in 1..Len(future') /\ 1 + 1 = 2
      BY <1>1, <1>2
    <2>3. QED
      BY <1>2, <2>1, <2>2
  <1>5. HistoryInv'
    BY <1>1, <1>4 DEF HistoryInv, Forms
  <1>6. seed # Idle => gone \subseteq gone' /\ offered \subseteq offered' /\ Stayed' \subseteq Stayed
    BY <1>1 DEF Stayed
  <1>7. FreshInv'
    <2>1. SUFFICES ASSUME ~fromCache, seed # Idle
                   PROVE  /\ seed.phase = "list" => FreshList'
                          /\ seed.phase = "species" => FreshSpecies'
                          /\ seed.phase = "varieties" => FreshPlan'
      BY <1>1 DEF FreshInv, Idle
    <2>2. ASSUME seed.phase = "list" PROVE FreshList'
      BY <1>1, <1>6, <2>1, <2>2 DEF FreshInv, FreshList
    <2>3. ASSUME seed.phase = "species" PROVE FreshSpecies'
      BY <1>1, <1>6, <2>1, <2>3 DEF FreshInv, FreshSpecies
    <2>4. ASSUME seed.phase = "varieties" PROVE FreshPlan'
      BY <1>1, <1>6, <2>1, <2>4 DEF FreshInv, FreshPlan
    <2>5. QED
      BY <2>2, <2>3, <2>4
  <1>8. PagesInv' /\ PlanInv'
    BY <1>1 DEF PagesInv, PlanInv
  <1>9. QED
    BY <1>1, <1>3, <1>5, <1>7, <1>8, SameTable

\* Every step keeps the invariant.
LEMMA StepInv ==
  ASSUME IInv, [Next]_vars
  PROVE  IInv'
  <1>1. CASE \E limit \in Limits, use_cache \in BOOLEAN : start(limit, use_cache)
    BY <1>1, StartStep
  <1>2. CASE \E url \in DOMAIN fetch : acquire(url) \/ respond(url)
    BY <1>2, AcquireStep, RespondStep
  <1>3. CASE list_species
    BY <1>3, ListStep
  <1>4. CASE select
    BY <1>4, SelectStep
  <1>5. CASE apply_catalog
    BY <1>5, ApplyStep
  <1>6. CASE abort
    BY <1>6, AbortStep
  <1>7. CASE killed
    BY <1>7, KilledStep
  <1>8. CASE upstream_changes
    BY <1>8, UpstreamStep
  <1>9. CASE UNCHANGED vars
    <2>1. /\ UNCHANGED <<future, cache, table, seed, fetch, plan, fromCache, gone, offered>>
      BY <1>9 DEF vars, seedVars, history
    <2>2. PagesInv' /\ PlanInv' /\ FreshInv'
      BY <2>1 DEF IInv, PagesInv, PlanInv, FreshInv, FreshList, FreshSpecies, FreshPlan, Stayed
    <2>3. QED
      BY <2>1, <2>2, SameFuture, SameTable, SameHistory DEF IInv
  <1>10. QED
    BY <1>1, <1>2, <1>3, <1>4, <1>5, <1>6, <1>7, <1>8, <1>9 DEF Next, Progress
-----------------------------------------------------------------------------
(* The theorems.                                                           *)

\* Pages are right for their address, plans for upstream, and rows are of
\* answers, in every state that seeds, failures and kills lead to.
THEOREM SeedSound == Spec => []IInv
  <1>1. Init => IInv
    BY InitInv
  <1>2. IInv /\ [Next]_vars => IInv'
    BY StepInv
  <1>3. QED
    BY <1>1, <1>2, PTL DEF Spec

\* No battle form, excluded form or unknown breed ever gets a row
\* (overrides.py:79-89).
THEOREM SeedAnswers == Spec => []AnswersOnly
  <1>1. IInv => AnswersOnly
    BY DEF IInv, TableInv, Stored, AnswersOnly
  <1>2. QED
    BY <1>1, SeedSound, PTL

\* Every form that is kept has the hints it should have, whatever order the
\* flavor texts have upstream (build.py:145-183).
THEOREM SeedHints == Spec => []HintsOfTheForm
  <1>1. IInv => HintsOfTheForm
    <2>1. SUFFICES ASSUME IInv, seed.phase = "varieties", NEW i \in DOMAIN plan
                   PROVE  HintsRight(Payload[plan[i].species], plan[i].ref.region_key)
      BY DEF HintsOfTheForm, HintsRight
    <2> DEFINE species == Payload[plan[i].species]
               region == plan[i].ref.region_key
    <2>2. plan[i] \in Entries
      BY <2>1, LenProperties DEF IInv, PlanInv
    <2>3. plan[i].species \in DOMAIN Payload /\ (region # None => region \in Regions)
      BY <2>2, EntryFacts
    <2>4. species.flavor \in Seq(Flavor)
      BY <2>3, UpstreamAssumption DEF Species, Flavor
    <2>5. region # None => PreferredVersions[region] \in Seq(Versions)
      BY <2>3, RegionFacts
    <2> HIDE DEF species, region
    <2>6. HintsRight(species, region)
      BY <2>4, <2>5, HintFacts
    <2>7. QED
      BY <2>6 DEF species, region
  <1>2. QED
    BY <1>1, SeedSound, PTL

\* Only a seed that gets through changes the table.
LEMMA TableChanges ==
  ASSUME IInv, [Next]_vars, table' # table
  PROVE  /\ seed.phase = "varieties" /\ plan \in Seq(Entries)
         /\ table' = Seeded(Rows(plan))
  <1>1. apply_catalog
    <2>1. CASE \E limit \in Limits, use_cache \in BOOLEAN : start(limit, use_cache)
      BY <2>1 DEF start
    <2>2. CASE \E url \in DOMAIN fetch : acquire(url) \/ respond(url)
      BY <2>2 DEF acquire, respond
    <2>3. CASE list_species \/ select \/ abort \/ killed \/ upstream_changes
      BY <2>3 DEF list_species, select, abort, killed, upstream_changes
    <2>4. CASE UNCHANGED vars
      BY <2>4 DEF vars
    <2>5. QED
      BY <2>1, <2>2, <2>3, <2>4 DEF Next, Progress
  <1>2. seed.phase = "varieties" /\ table' = Seeded(Rows(plan))
    BY <1>1 DEF apply_catalog, Seeded
  <1>3. QED
    BY <1>2 DEF IInv, PlanInv

\* Rows stay, keep their slug and are never enabled again, whatever upstream
\* says and however a seed ends (seed.py:3-14).
THEOREM SeedNonDestructive == Spec => NonDestructive
  <1> DEFINE Takes == \A i \in DOMAIN table :
               /\ i \in DOMAIN table'
               /\ table'[i].form_key = table[i].form_key
               /\ table'[i].slug = table[i].slug
               /\ table'[i].enabled => table[i].enabled
  <1>1. IInv /\ [Next]_vars => Takes
    <2>1. SUFFICES ASSUME IInv, [Next]_vars PROVE Takes
      OBVIOUS
    <2>2. CASE table' = table
      BY <2>2
    <2>3. CASE table' # table
      <3>1. plan \in Seq(Entries) /\ table' = Seeded(Rows(plan)) /\ TableInv
        BY <2>1, <2>3, TableChanges DEF IInv
      <3>2. \A i \in DOMAIN table :
              i \in DOMAIN table' /\ table'[i] = Updated(table[i], Rows(plan)) /\ Stored(table[i])
        BY <3>1, SeededFacts DEF TableInv
      <3>3. QED
        BY <3>2, UpdatedFacts
    <2>4. QED
      BY <2>2, <2>3
  <1>2. QED
    BY <1>1, SeedSound, PTL DEF Spec, NonDestructive

\* A full seed from the network disables only what upstream did not offer for
\* some time while it ran, and leaves enabled only what was offered then.
THEOREM SeedFollows == Spec => FollowsUpstream
  <1> DEFINE Follows ==
               table' # table /\ seed.limit = 0 /\ ~fromCache =>
                 /\ \A i \in DOMAIN table :
                      table[i].enabled /\ ~table'[i].enabled => table[i].form_key \in gone
                 /\ \A i \in DOMAIN table' : table'[i].enabled => table'[i].form_key \in offered
  <1>1. IInv /\ [Next]_vars => Follows
    <2>1. SUFFICES ASSUME IInv, [Next]_vars, table' # table, seed.limit = 0, ~fromCache
                   PROVE  /\ \A i \in DOMAIN table :
                               table[i].enabled /\ ~table'[i].enabled => table[i].form_key \in gone
                          /\ \A i \in DOMAIN table' :
                               table'[i].enabled => table'[i].form_key \in offered
      OBVIOUS
    <2> DEFINE rows == Rows(plan)
    <2>2. plan \in Seq(Entries) /\ table' = Seeded(rows) /\ TableInv /\ seed.phase = "varieties"
      BY <2>1, TableChanges DEF IInv
    <2>3. /\ \A i \in DOMAIN table : table'[i] = Updated(table[i], rows) /\ Stored(table[i])
          /\ \A i \in DOMAIN table' : i \in DOMAIN table
               \/ \E j \in DOMAIN plan : table'[i].form_key = plan[j].ref.form_key
      BY <2>2, SeededFacts DEF TableInv
    <2>4. FreshPlan
      BY <2>1, <2>2 DEF IInv, FreshInv
    <2>5. \A f : Has(rows, f) <=> \E j \in DOMAIN plan : plan[j].ref.form_key = f
      <3>1. DOMAIN rows = DOMAIN plan /\ \A j \in DOMAIN plan : rows[j].form_key = plan[j].ref.form_key
        BY <2>2, RowsFacts
      <3> HIDE DEF rows
      <3>2. QED
        BY <3>1 DEF Has
    <2> HIDE DEF rows
    <2>6. ASSUME NEW i \in DOMAIN table, table[i].enabled, ~table'[i].enabled
          PROVE  table[i].form_key \in gone
      <3>1. ~Has(rows, table[i].form_key)
        BY <2>3, <2>6, UpdatedFacts
      <3>2. table[i].form_key \in AllForms
        BY <2>3 DEF Stored, Answers
      <3>3. table[i].form_key \notin Stayed
        BY <2>1, <2>4, <2>5, <3>1 DEF FreshPlan
      <3>4. QED
        BY <3>2, <3>3 DEF Stayed
    <2>7. ASSUME NEW i \in DOMAIN table', table'[i].enabled
          PROVE  table'[i].form_key \in offered
      <3>1. \E j \in DOMAIN plan : table'[i].form_key = plan[j].ref.form_key
        <4>1. CASE i \in DOMAIN table
          <5>1. Has(rows, table[i].form_key) /\ table'[i].form_key = table[i].form_key
            BY <2>3, <2>7, <4>1, UpdatedFacts
          <5>2. QED
            BY <2>5, <5>1
        <4>2. CASE i \notin DOMAIN table
          BY <2>3, <4>2
        <4>3. QED
          BY <4>1, <4>2
      <3>2. QED
        BY <2>4, <3>1 DEF FreshPlan
    <2>8. QED
      BY <2>6, <2>7
  <1>2. QED
    BY <1>1, SeedSound, PTL DEF Spec, FollowsUpstream

=============================================================================
