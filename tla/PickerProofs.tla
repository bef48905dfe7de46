---------------------------- MODULE PickerProofs ----------------------------
(***************************************************************************)
(* Proofs about Picker: its types, and that no Pokemon gets ahead of       *)
(* another by more than the players and the slack.                         *)
(*                                                                         *)
(* SpreadBounded is not inductive: a player who holds a Pokemon will add a *)
(* drawing to it whatever has happened since.  Margin charges for those    *)
(* drawings in advance.  When a Pokemon is dealt it is a least drawn one,  *)
(* and at most all players hold it, so the margin is new; when it is drawn *)
(* a charge becomes a drawing.                                             *)
(***************************************************************************)
EXTENDS Picker, FiniteSetTheorems, WellFoundedInduction, TLAPS

Drawn(p) == {r \in rows : r.pokemon = p /\ ~r.deleted}

\* The players who will add a drawing of p.
Holding(p) == {u \in Players : hand[u] # Empty /\ hand[u].pokemon = p}

\* Nothing refers to a Pokemon that has no row in the table.
Listed ==
    /\ \A r \in rows : r.pokemon \in catalog
    /\ \A u \in Players : hand[u] # Empty => hand[u].pokemon \in catalog

Margin ==
    \A p, q \in enabled :
        drawing_count(p) + Cardinality(Holding(p))
          <= drawing_count(q) + Cardinality(Players) + slack

IInv == TypeOK /\ Listed /\ Margin

-----------------------------------------------------------------------------
(* Counting.                                                               *)

\* Counts and holders are numbers, and there are no more holders than players.
LEMMA Numbers ==
  ASSUME TypeOK, NEW p
  PROVE  /\ IsFiniteSet(Drawn(p)) /\ drawing_count(p) = Cardinality(Drawn(p))
         /\ drawing_count(p) \in Nat
         /\ IsFiniteSet(Holding(p)) /\ Cardinality(Holding(p)) \in Nat
         /\ Cardinality(Players) \in Nat
         /\ Cardinality(Holding(p)) <= Cardinality(Players)
  <1>1. IsFiniteSet(Drawn(p)) /\ Drawn(p) \subseteq rows
    BY FS_Subset DEF TypeOK, Drawn
  <1>2. /\ IsFiniteSet(Holding(p)) /\ Cardinality(Holding(p)) <= Cardinality(Players)
    <2>1. Holding(p) \subseteq Players
      BY DEF Holding
    <2>2. QED
      BY <2>1, FS_Subset, PlayersAssumption
  <1>3. QED
    BY <1>1, <1>2, FS_CardinalityType, PlayersAssumption DEF drawing_count, Drawn

\* The same in the next state.
LEMMA NumbersNext ==
  ASSUME TypeOK', NEW p
  PROVE  /\ IsFiniteSet(Drawn(p)') /\ drawing_count(p)' = Cardinality(Drawn(p)')
         /\ drawing_count(p)' \in Nat
         /\ IsFiniteSet(Holding(p)') /\ Cardinality(Holding(p)') \in Nat
         /\ Cardinality(Holding(p)') <= Cardinality(Players)
  <1>1. IsFiniteSet(Drawn(p)') /\ Drawn(p)' \subseteq rows'
    BY FS_Subset DEF TypeOK, Drawn
  <1>2. /\ IsFiniteSet(Holding(p)') /\ Cardinality(Holding(p)') <= Cardinality(Players)
    <2>1. Holding(p)' \subseteq Players
      BY DEF Holding
    <2>2. QED
      BY <2>1, FS_Subset, PlayersAssumption
  <1>3. QED
    BY <1>1, <1>2, FS_CardinalityType, PlayersAssumption DEF drawing_count, Drawn

\* A smaller set has no more elements; one element more or less counts one.
LEMMA CardSubset ==
  ASSUME NEW S, NEW T, IsFiniteSet(T), S \subseteq T
  PROVE  Cardinality(S) <= Cardinality(T)
  BY FS_Subset

\* One element more counts one at most.
LEMMA CardAdd ==
  ASSUME NEW S, NEW T, NEW x, IsFiniteSet(T), S \subseteq T \cup {x}
  PROVE  Cardinality(S) <= Cardinality(T) + 1
  <1>1. IsFiniteSet(T \cup {x}) /\ Cardinality(T \cup {x}) \in {Cardinality(T), Cardinality(T) + 1}
    BY FS_AddElement
  <1>2. Cardinality(S) <= Cardinality(T \cup {x}) /\ Cardinality(S) \in Nat
    BY <1>1, FS_Subset, FS_CardinalityType
  <1>3. Cardinality(T) \in Nat
    BY FS_CardinalityType
  <1>4. QED
    BY <1>1, <1>2, <1>3

\* One element less counts one less.
LEMMA CardRemove ==
  ASSUME NEW S, IsFiniteSet(S), NEW x \in S
  PROVE  Cardinality(S \ {x}) = Cardinality(S) - 1
  BY FS_RemoveElement

-----------------------------------------------------------------------------
(* Types.                                                                  *)

\* An empty catalog has all types and no spread.
LEMMA InitOK == Init => IInv
  <1> SUFFICES ASSUME Init PROVE IInv
    OBVIOUS
  <1>1. TypeOK
    BY FS_EmptySet DEF Init, TypeOK
  <1>2. QED
    BY <1>1 DEF Init, IInv, Listed, Margin

\* Who has an assignment has one with a Pokemon.
LEMMA Held ==
  ASSUME TypeOK, NEW u \in Players, hand[u].step \in {"opening", "drawing"}
  PROVE  hand[u] # Empty /\ hand[u] \in Hand
  BY DEF TypeOK, Empty, Hand

\* A new row has a number and the Pokemon of the assignment.
LEMMA NewRowOK ==
  ASSUME TypeOK, NEW u \in Players, hand[u].step = "drawing"
  PROVE  NewRow(u) \in Row /\ NewRow(u).pokemon = hand[u].pokemon /\ ~NewRow(u).deleted
  <1>1. hand[u] \in Hand
    BY Held
  <1> DEFINE mine == {r \in rows : r.pokemon = hand[u].pokemon /\ r.user = u}
  <1>2. Cardinality(mine) \in Nat
    <2>1. mine \subseteq rows
      OBVIOUS
    <2>2. QED
      BY <2>1, FS_Subset, FS_CardinalityType DEF TypeOK
  <1>3. 1 + Cardinality(mine) \in Nat
    BY <1>2
  <1> HIDE DEF mine
  <1>4. NewRow(u) = [pokemon |-> hand[u].pokemon, user |-> u, chosen |-> hand[u].chosen,
                     deleted |-> FALSE, index |-> 1 + Cardinality(mine)]
    BY DEF NewRow, mine
  <1>5. QED
    BY <1>1, <1>3, <1>4 DEF Row, Hand

\* Every step keeps the types.
LEMMA TypeNext == TypeOK /\ [Next]_vars => TypeOK'
  <1> SUFFICES ASSUME TypeOK, [Next]_vars PROVE TypeOK'
    OBVIOUS
  <1> USE DEF TypeOK
  <1>1. ASSUME NEW u \in Players, pick(u) PROVE TypeOK'
    <2>1. PICK p \in min_tier(drawing_counts) : Deal(u, "opening", p, FALSE)
      BY <1>1 DEF pick
    <2>2. [step |-> "opening", pokemon |-> p, chosen |-> FALSE] \in Hand
      BY DEF min_tier, drawing_counts, Hand
    <2>3. QED
      BY <1>1, <2>1, <2>2 DEF pick, Deal
  <1>2. ASSUME NEW u \in Players, choose(u) PROVE TypeOK'
    <2>1. PICK p \in enabled : Deal(u, "opening", p, TRUE)
      BY <1>2 DEF choose
    <2>2. [step |-> "opening", pokemon |-> p, chosen |-> TRUE] \in Hand
      BY DEF Hand
    <2>3. hand' \in [Players -> Hand \cup {Empty}]
      BY <2>1, <2>2 DEF Deal
    <2>4. slack' \in Nat
      BY <1>2 DEF choose
    <2>5. QED
      BY <1>2, <2>3, <2>4 DEF choose
  <1>3. ASSUME NEW u \in Players, assign(u) PROVE TypeOK'
    <2>1. [hand[u] EXCEPT !.step = "drawing"] \in Hand
      BY <1>3, Held DEF assign, Hand
    <2>2. QED
      BY <1>3, <2>1 DEF assign
  <1>4. ASSUME NEW u \in Players, fail(u) PROVE TypeOK'
    BY <1>4 DEF fail
  <1>5. ASSUME NEW u \in Players, skip(u) PROVE TypeOK'
    <2>1. CASE enabled = {}
      BY <1>5, <2>1 DEF skip
    <2>2. CASE enabled # {}
      <3>1. PICK p \in min_tier(drawing_counts) : Deal(u, "drawing", p, FALSE)
        BY <1>5, <2>2 DEF skip
      <3>2. [step |-> "drawing", pokemon |-> p, chosen |-> FALSE] \in Hand
        BY DEF min_tier, drawing_counts, Hand
      <3>3. QED
        BY <1>5, <3>1, <3>2 DEF skip, Deal
    <2>3. QED
      BY <2>1, <2>2
  <1>6. ASSUME NEW u \in Players, submit(u) PROVE TypeOK'
    <2>1. rows' \subseteq Row /\ IsFiniteSet(rows')
      BY <1>6, NewRowOK, FS_AddElement DEF submit
    <2>2. QED
      BY <1>6, <2>1 DEF submit
  <1>7. ASSUME NEW u \in Players, submit_torn(u) PROVE TypeOK'
    <2>1. rows' \subseteq Row /\ IsFiniteSet(rows')
      BY <1>7, NewRowOK, FS_AddElement DEF submit_torn
    <2>2. QED
      BY <1>7, <2>1 DEF submit_torn
  <1>8. ASSUME NEW r \in rows, delete(r) PROVE TypeOK'
    <2>1. [r EXCEPT !.deleted = TRUE] \in Row
      BY DEF Row
    <2>2. IsFiniteSet(rows \ {r})
      BY FS_RemoveElement
    <2>3. rows' \subseteq Row /\ IsFiniteSet(rows')
      BY <1>8, <2>1, <2>2, FS_AddElement DEF delete
    <2>4. QED
      BY <1>8, <2>3 DEF delete
  <1>9. ASSUME NEW q \in Quotas, update_settings(q) PROVE TypeOK'
    BY <1>9 DEF update_settings
  <1>10. ASSUME NEW seen \in SUBSET Pokemon, apply_catalog(seen) PROVE TypeOK'
    <2>1. slack' \in Nat
      <3>1. \A p : drawing_count(p) \in Nat
        BY Numbers
      <3>2. QED
        BY <1>10, <3>1 DEF apply_catalog
    <2>2. QED
      BY <1>10, <2>1 DEF apply_catalog
  <1>11. CASE UNCHANGED vars
    BY <1>11 DEF vars
  <1>12. QED
    BY <1>1, <1>2, <1>3, <1>4, <1>5, <1>6, <1>7, <1>8, <1>9, <1>10, <1>11 DEF Next

\* Rows and assignments refer to Pokemon of the catalog, which only grows.
LEMMA ListedNext == TypeOK /\ Listed /\ [Next]_vars => Listed'
  <1> SUFFICES ASSUME TypeOK, Listed, [Next]_vars PROVE Listed'
    OBVIOUS
  <1> USE DEF Listed
  <1>1. ASSUME NEW u \in Players, pick(u) PROVE Listed'
    BY <1>1 DEF pick, Deal, min_tier, drawing_counts, TypeOK
  <1>2. ASSUME NEW u \in Players, choose(u) PROVE Listed'
    BY <1>2 DEF choose, Deal, TypeOK
  <1>3. ASSUME NEW u \in Players, assign(u) PROVE Listed'
    <2>1. hand[u] # Empty /\ hand[u] \in Hand
      BY <1>3, Held DEF assign
    <2>2. QED
      BY <1>3, <2>1 DEF assign, TypeOK, Hand
  <1>4. ASSUME NEW u \in Players, fail(u) PROVE Listed'
    BY <1>4 DEF fail, TypeOK
  <1>5. ASSUME NEW u \in Players, skip(u) PROVE Listed'
    BY <1>5 DEF skip, Deal, min_tier, drawing_counts, TypeOK
  <1>6. ASSUME NEW u \in Players, submit(u) PROVE Listed'
    <2>1. hand[u] # Empty /\ NewRow(u).pokemon = hand[u].pokemon
      BY <1>6, Held, NewRowOK DEF submit
    <2>2. QED
      BY <1>6, <2>1 DEF submit, TypeOK
  <1>7. ASSUME NEW u \in Players, submit_torn(u) PROVE Listed'
    <2>1. hand[u] # Empty /\ NewRow(u).pokemon = hand[u].pokemon
      BY <1>7, Held, NewRowOK DEF submit_torn
    <2>2. QED
      BY <1>7, <2>1 DEF submit_torn, TypeOK
  <1>8. ASSUME NEW r \in rows, delete(r) PROVE Listed'
    BY <1>8 DEF delete, TypeOK, Row
  <1>9. ASSUME NEW q \in Quotas, update_settings(q) PROVE Listed'
    BY <1>9 DEF update_settings
  <1>10. ASSUME NEW seen \in SUBSET Pokemon, apply_catalog(seen) PROVE Listed'
    BY <1>10 DEF apply_catalog
  <1>11. CASE UNCHANGED vars
    BY <1>11 DEF vars
  <1>12. QED
    BY <1>1, <1>2, <1>3, <1>4, <1>5, <1>6, <1>7, <1>8, <1>9, <1>10, <1>11 DEF Next

-----------------------------------------------------------------------------
(* The margin.                                                             *)

\* A step that deals nothing and draws nothing.
LEMMA MarginKept ==
  ASSUME TypeOK, TypeOK', Margin,
         enabled' \subseteq enabled, rows' = rows, slack' >= slack,
         \A u \in Players : hand'[u] = Empty \/ (hand[u] # Empty /\ hand'[u].pokemon = hand[u].pokemon)
  PROVE  Margin'
  <1> SUFFICES ASSUME NEW p \in enabled', NEW q \in enabled'
               PROVE  drawing_count(p)' + Cardinality(Holding(p)')
                        <= drawing_count(q)' + Cardinality(Players) + slack'
    BY DEF Margin
  <1>1. drawing_count(p)' = drawing_count(p) /\ drawing_count(q)' = drawing_count(q)
    BY DEF drawing_count
  <1>2. Cardinality(Holding(p)') <= Cardinality(Holding(p))
    <2>1. Holding(p)' \subseteq Holding(p)
      BY DEF Holding
    <2>2. QED
      BY <2>1, Numbers, CardSubset
  <1>3. /\ drawing_count(p) \in Nat /\ drawing_count(q) \in Nat /\ Cardinality(Players) \in Nat
        /\ Cardinality(Holding(p)) \in Nat /\ Cardinality(Holding(p)') \in Nat
    BY Numbers, NumbersNext
  <1>4. drawing_count(p) + Cardinality(Holding(p)) <= drawing_count(q) + Cardinality(Players) + slack
    BY DEF Margin
  <1>5. slack \in Nat /\ slack' \in Nat
    BY DEF TypeOK
  <1>6. QED
    BY <1>1, <1>2, <1>3, <1>4, <1>5

\* Dealing a least drawn Pokemon: whoever holds it, it starts level.
LEMMA MarginDealt ==
  ASSUME TypeOK, TypeOK', Margin, UNCHANGED <<enabled, rows, slack>>,
         NEW u \in Players, NEW m \in min_tier(drawing_counts), NEW step, NEW chosen,
         Deal(u, step, m, chosen)
  PROVE  Margin'
  <1> SUFFICES ASSUME NEW p \in enabled, NEW q \in enabled
               PROVE  drawing_count(p) + Cardinality(Holding(p)')
                        <= drawing_count(q) + Cardinality(Players) + slack
    BY DEF Margin, drawing_count
  <1>1. /\ drawing_count(p) \in Nat /\ drawing_count(q) \in Nat /\ Cardinality(Players) \in Nat
        /\ Cardinality(Holding(p)) \in Nat /\ Cardinality(Holding(p)') \in Nat /\ slack \in Nat
    BY Numbers, NumbersNext DEF TypeOK
  <1>2. CASE p = m
    <2>1. drawing_count(p) <= drawing_count(q)
      BY <1>2 DEF min_tier, drawing_counts
    <2>2. Cardinality(Holding(p)') <= Cardinality(Players)
      BY NumbersNext
    <2>3. QED
      BY <2>1, <2>2, <1>1
  <1>3. CASE p # m
    <2>1. Holding(p)' \subseteq Holding(p)
      BY <1>3 DEF Holding, Deal, TypeOK
    <2>2. Cardinality(Holding(p)') <= Cardinality(Holding(p))
      BY <2>1, Numbers, CardSubset
    <2>3. drawing_count(p) + Cardinality(Holding(p)) <= drawing_count(q) + Cardinality(Players) + slack
      BY DEF Margin
    <2>4. QED
      BY <2>2, <2>3, <1>1
  <1>4. QED
    BY <1>2, <1>3

\* A free pick may be ahead already; slack allows for it.
LEMMA MarginChosen ==
  ASSUME TypeOK, TypeOK', Margin, NEW u \in Players, choose(u)
  PROVE  Margin'
  <1> SUFFICES ASSUME NEW p \in enabled, NEW q \in enabled
               PROVE  drawing_count(p) + Cardinality(Holding(p)')
                        <= drawing_count(q) + Cardinality(Players) + (slack + 1)
    BY DEF Margin, drawing_count, choose
  <1>1. /\ drawing_count(p) \in Nat /\ drawing_count(q) \in Nat /\ Cardinality(Players) \in Nat
        /\ Cardinality(Holding(p)) \in Nat /\ Cardinality(Holding(p)') \in Nat /\ slack \in Nat
    BY Numbers, NumbersNext DEF TypeOK
  <1>2. Cardinality(Holding(p)') <= Cardinality(Holding(p)) + 1
    <2>1. Holding(p)' \subseteq Holding(p) \cup {u}
      BY DEF choose, Deal, Holding, TypeOK
    <2>2. QED
      BY <2>1, Numbers, CardAdd
  <1>3. drawing_count(p) + Cardinality(Holding(p)) <= drawing_count(q) + Cardinality(Players) + slack
    BY DEF Margin
  <1>4. QED
    BY <1>1, <1>2, <1>3

\* A drawing is stored of what its player holds.
LEMMA OneDrawn ==
  ASSUME TypeOK, TypeOK', NEW u \in Players, hand[u].step = "drawing",
         rows' = rows \cup {NewRow(u)}, NEW p
  PROVE  /\ drawing_count(p)' >= drawing_count(p)
         /\ drawing_count(p)' <= drawing_count(p) + 1
         /\ p # hand[u].pokemon => drawing_count(p)' = drawing_count(p)
  <1>1. NewRow(u).pokemon = hand[u].pokemon /\ ~NewRow(u).deleted
    BY NewRowOK
  <1>2. Drawn(p) \subseteq Drawn(p)' /\ Drawn(p)' \subseteq Drawn(p) \cup {NewRow(u)}
    BY <1>1 DEF Drawn
  <1>3. p # hand[u].pokemon => Drawn(p)' = Drawn(p)
    BY <1>1 DEF Drawn
  <1>4. Cardinality(Drawn(p)) <= Cardinality(Drawn(p)')
    BY <1>2, NumbersNext, CardSubset
  <1>5. Cardinality(Drawn(p)') <= Cardinality(Drawn(p)) + 1
    BY <1>2, Numbers, CardAdd
  <1>6. /\ drawing_count(p) = Cardinality(Drawn(p)) /\ drawing_count(p) \in Nat
        /\ drawing_count(p)' = Cardinality(Drawn(p)') /\ drawing_count(p)' \in Nat
    BY Numbers, NumbersNext
  <1>7. QED
    BY <1>3, <1>4, <1>5, <1>6

\* A drawing takes the place of a holder.
LEMMA MarginSubmitted ==
  ASSUME TypeOK, TypeOK', Margin, NEW u \in Players, submit(u)
  PROVE  Margin'
  <1> SUFFICES ASSUME NEW p \in enabled, NEW q \in enabled
               PROVE  drawing_count(p)' + Cardinality(Holding(p)')
                        <= drawing_count(q)' + Cardinality(Players) + slack
    BY DEF Margin, submit
  <1>1. /\ drawing_count(p) \in Nat /\ drawing_count(q) \in Nat /\ Cardinality(Players) \in Nat
        /\ drawing_count(p)' \in Nat /\ drawing_count(q)' \in Nat
        /\ Cardinality(Holding(p)) \in Nat /\ Cardinality(Holding(p)') \in Nat /\ slack \in Nat
    BY Numbers, NumbersNext DEF TypeOK
  <1>2. drawing_count(q)' >= drawing_count(q)
    BY OneDrawn DEF submit
  <1>3. hand[u] # Empty
    BY Held DEF submit
  <1>4. drawing_count(p) + Cardinality(Holding(p)) <= drawing_count(q) + Cardinality(Players) + slack
    BY DEF Margin
  <1>5. CASE p = hand[u].pokemon
    <2>1. u \in Holding(p) /\ Holding(p)' = Holding(p) \ {u}
      BY <1>3, <1>5 DEF Holding, submit, TypeOK
    <2>2. Cardinality(Holding(p)') = Cardinality(Holding(p)) - 1
      BY <2>1, Numbers, CardRemove
    <2>3. drawing_count(p)' <= drawing_count(p) + 1
      BY OneDrawn DEF submit
    <2>4. QED
      BY <2>2, <2>3, <1>1, <1>2, <1>4
  <1>6. CASE p # hand[u].pokemon
    <2>1. Holding(p)' \subseteq Holding(p)
      BY DEF Holding, submit, TypeOK
    <2>2. Cardinality(Holding(p)') <= Cardinality(Holding(p))
      BY <2>1, Numbers, CardSubset
    <2>3. drawing_count(p)' = drawing_count(p)
      BY <1>6, OneDrawn DEF submit
    <2>4. QED
      BY <2>2, <2>3, <1>1, <1>2, <1>4
  <1>7. QED
    BY <1>5, <1>6

\* A torn submission draws and still holds.
LEMMA MarginTorn ==
  ASSUME TypeOK, TypeOK', Margin, NEW u \in Players, submit_torn(u)
  PROVE  Margin'
  <1> SUFFICES ASSUME NEW p \in enabled, NEW q \in enabled
               PROVE  drawing_count(p)' + Cardinality(Holding(p))
                        <= drawing_count(q)' + Cardinality(Players) + (slack + 1)
    BY DEF Margin, submit_torn, Holding
  <1>1. /\ drawing_count(p) \in Nat /\ drawing_count(q) \in Nat /\ Cardinality(Players) \in Nat
        /\ drawing_count(p)' \in Nat /\ drawing_count(q)' \in Nat
        /\ Cardinality(Holding(p)) \in Nat /\ slack \in Nat
    BY Numbers, NumbersNext DEF TypeOK
  <1>2. drawing_count(q)' >= drawing_count(q) /\ drawing_count(p)' <= drawing_count(p) + 1
    BY OneDrawn DEF submit_torn
  <1>3. drawing_count(p) + Cardinality(Holding(p)) <= drawing_count(q) + Cardinality(Players) + slack
    BY DEF Margin
  <1>4. QED
    BY <1>1, <1>2, <1>3

\* A deletion takes one drawing away.
LEMMA MarginDeleted ==
  ASSUME TypeOK, TypeOK', Margin, NEW r \in rows, delete(r)
  PROVE  Margin'
  <1> SUFFICES ASSUME NEW p \in enabled, NEW q \in enabled
               PROVE  drawing_count(p)' + Cardinality(Holding(p))
                        <= drawing_count(q)' + Cardinality(Players) + (slack + 1)
    BY DEF Margin, delete, Holding
  <1>1. /\ drawing_count(p) \in Nat /\ drawing_count(q) \in Nat /\ Cardinality(Players) \in Nat
        /\ drawing_count(p)' \in Nat /\ drawing_count(q)' \in Nat
        /\ Cardinality(Holding(p)) \in Nat /\ slack \in Nat
    BY Numbers, NumbersNext DEF TypeOK
  <1>2. [r EXCEPT !.deleted = TRUE].deleted
    BY DEF TypeOK, Row
  <1>3. Drawn(p)' \subseteq Drawn(p) /\ Drawn(q) \subseteq Drawn(q)' \cup {r}
    BY <1>2 DEF Drawn, delete
  <1>4. Cardinality(Drawn(p)') <= Cardinality(Drawn(p))
    BY <1>3, Numbers, CardSubset
  <1>5. Cardinality(Drawn(q)) <= Cardinality(Drawn(q)') + 1
    BY <1>3, NumbersNext, CardAdd
  <1>6. /\ drawing_count(p) = Cardinality(Drawn(p)) /\ drawing_count(p)' = Cardinality(Drawn(p)')
        /\ drawing_count(q) = Cardinality(Drawn(q)) /\ drawing_count(q)' = Cardinality(Drawn(q)')
    BY Numbers, NumbersNext
  <1>7. drawing_count(p) + Cardinality(Holding(p)) <= drawing_count(q) + Cardinality(Players) + slack
    BY DEF Margin
  <1>8. QED
    BY <1>1, <1>4, <1>5, <1>6, <1>7

\* New rows start at zero and nobody holds them; slack makes up for how far
\* the others have got.
LEMMA MarginSeeded ==
  ASSUME TypeOK, TypeOK', Listed, Margin, NEW seen \in SUBSET Pokemon, apply_catalog(seen)
  PROVE  Margin'
  <1> SUFFICES ASSUME NEW p \in enabled', NEW q \in enabled'
               PROVE  drawing_count(p) + Cardinality(Holding(p))
                        <= drawing_count(q) + Cardinality(Players) + slack'
    BY SMTT(40) DEF Margin, apply_catalog, Holding, drawing_count
  <1>1. \A x : drawing_count(x) \in Nat /\ Cardinality(Holding(x)) \in Nat
    BY Numbers
  <1>2. Cardinality(Players) \in Nat /\ slack \in Nat /\ slack' \in Nat
    BY Numbers DEF TypeOK
  <1>3. ASSUME NEW x, x \notin catalog
        PROVE  drawing_count(x) = 0 /\ Cardinality(Holding(x)) = 0
    <2>1. Drawn(x) = {} /\ Holding(x) = {}
      BY <1>3 DEF Listed, Drawn, Holding
    <2>2. QED
      BY <2>1, Numbers, FS_EmptySet
  <1>4. slack' >= slack
    BY <1>1, <1>2 DEF apply_catalog
  <1>5. CASE p \notin catalog
    BY <1>1, <1>2, <1>3, <1>5
  <1>6. CASE p \in catalog /\ q \in catalog
    <2>1. p \in enabled /\ q \in enabled
      BY <1>6 DEF apply_catalog
    <2>2. drawing_count(p) + Cardinality(Holding(p)) <= drawing_count(q) + Cardinality(Players) + slack
      BY <2>1 DEF Margin
    <2>3. QED
      BY <2>2, <1>1, <1>2, <1>4
  <1>7. CASE p \in catalog /\ q \notin catalog
    <2>1. p \in enabled /\ ~(seen \subseteq catalog)
      BY <1>7 DEF apply_catalog
    <2>2. PICK m \in min_tier(drawing_counts) : slack' = slack + drawing_count(m)
      BY <2>1 DEF apply_catalog
    <2>3. m \in enabled
      BY DEF min_tier, drawing_counts
    <2>4. drawing_count(p) + Cardinality(Holding(p)) <= drawing_count(m) + Cardinality(Players) + slack
      BY <2>1, <2>3 DEF Margin
    <2>5. drawing_count(q) = 0
      BY <1>3, <1>7
    <2>6. QED
      BY <2>2, <2>4, <2>5, <1>1, <1>2
  <1>8. QED
    BY <1>5, <1>6, <1>7

\* Every step keeps the margin.
LEMMA MarginNext == TypeOK /\ Listed /\ Margin /\ [Next]_vars => Margin'
  <1> SUFFICES ASSUME TypeOK, Listed, Margin, [Next]_vars PROVE Margin'
    OBVIOUS
  <1>0. TypeOK' /\ slack \in Nat
    BY TypeNext DEF TypeOK
  <1>1. ASSUME NEW u \in Players, pick(u) PROVE Margin'
    BY <1>0, <1>1, MarginDealt DEF pick
  <1>2. ASSUME NEW u \in Players, choose(u) PROVE Margin'
    BY <1>0, <1>2, MarginChosen
  <1>3. ASSUME NEW u \in Players, assign(u) PROVE Margin'
    <2>1. hand[u] # Empty /\ hand[u] \in Hand
      BY <1>3, Held DEF assign
    <2>2. \A v \in Players : hand'[v] = Empty \/ (hand[v] # Empty /\ hand'[v].pokemon = hand[v].pokemon)
      BY <1>3, <2>1 DEF assign, TypeOK, Hand
    <2>3. enabled' \subseteq enabled /\ rows' = rows /\ slack' >= slack
      BY <1>0, <1>3 DEF assign
    <2>4. QED
      BY <1>0, <2>2, <2>3, MarginKept
  <1>4. ASSUME NEW u \in Players, fail(u) PROVE Margin'
    <2>1. \A v \in Players : hand'[v] = Empty \/ (hand[v] # Empty /\ hand'[v].pokemon = hand[v].pokemon)
      BY <1>4 DEF fail, TypeOK
    <2>2. enabled' \subseteq enabled /\ rows' = rows /\ slack' >= slack
      BY <1>0, <1>4 DEF fail
    <2>3. QED
      BY <1>0, <2>1, <2>2, MarginKept
  <1>5. ASSUME NEW u \in Players, skip(u) PROVE Margin'
    <2>1. CASE enabled = {}
      BY <1>5, <2>1 DEF skip, Margin
    <2>2. CASE enabled # {}
      BY <1>0, <1>5, <2>2, MarginDealt DEF skip
    <2>3. QED
      BY <2>1, <2>2
  <1>6. ASSUME NEW u \in Players, submit(u) PROVE Margin'
    BY <1>0, <1>6, MarginSubmitted
  <1>7. ASSUME NEW u \in Players, submit_torn(u) PROVE Margin'
    BY <1>0, <1>7, MarginTorn
  <1>8. ASSUME NEW r \in rows, delete(r) PROVE Margin'
    BY <1>0, <1>8, MarginDeleted
  <1>9. ASSUME NEW q \in Quotas, update_settings(q) PROVE Margin'
    BY <1>9 DEF update_settings, Margin, Holding, drawing_count
  <1>10. ASSUME NEW seen \in SUBSET Pokemon, apply_catalog(seen) PROVE Margin'
    BY <1>0, <1>10, MarginSeeded
  <1>11. CASE UNCHANGED vars
    BY <1>11 DEF vars, Margin, Holding, drawing_count
  <1>12. QED
    BY <1>1, <1>2, <1>3, <1>4, <1>5, <1>6, <1>7, <1>8, <1>9, <1>10, <1>11 DEF Next

-----------------------------------------------------------------------------

\* Every step of the players, Admins and operators keeps the invariant.
LEMMA NextOK == IInv /\ [Next]_vars => IInv'
  BY TypeNext, ListedNext, MarginNext DEF IInv

\* Every column holds a value of its type, and only catalogued Pokemon are
\* enabled.
THEOREM Typed == Spec => []TypeOK
  <1>1. IInv => TypeOK
    BY DEF IInv
  <1>2. QED
    BY InitOK, NextOK, <1>1, PTL DEF Spec

\* However many players hold what they were dealt from old counts, no enabled
\* Pokemon is ahead of another by more than the players and the slack.
THEOREM SpreadIsBounded == Spec => []SpreadBounded
  <1>1. IInv => SpreadBounded
    <2> SUFFICES ASSUME IInv, NEW p \in enabled, NEW q \in enabled
                 PROVE  drawing_count(p) <= drawing_count(q) + Cardinality(Players) + slack
      BY DEF SpreadBounded
    <2>1. /\ drawing_count(p) \in Nat /\ drawing_count(q) \in Nat /\ slack \in Nat
          /\ Cardinality(Holding(p)) \in Nat /\ Cardinality(Players) \in Nat
      BY Numbers DEF IInv, TypeOK
    <2>2. drawing_count(p) + Cardinality(Holding(p)) <= drawing_count(q) + Cardinality(Players) + slack
      BY DEF IInv, Margin
    <2>3. QED
      BY <2>1, <2>2
  <1>2. QED
    BY InitOK, NextOK, <1>1, PTL DEF Spec

-----------------------------------------------------------------------------
(* simulate-picker.  A set of numbers that is not empty has a least one;   *)
(* so, if the counts ever differed by more than one, they would do so      *)
(* after some draw for the first time.                                     *)

\* The least of a set of numbers.
LEMMA Least ==
  ASSUME NEW I \in SUBSET Nat, I # {}
  PROVE  \E m \in I : \A i \in I : m <= i
  <1>1. IsWellFoundedOn(OpToRel(<, Nat), Nat)
    BY NatLessThanWellFounded
  <1>2. PICK m \in I : \A i \in I : <<i, m>> \notin OpToRel(<, Nat)
    BY <1>1, WFMin
  <1>3. \A i \in I : ~(i < m)
    BY <1>2 DEF OpToRel
  <1>4. m \in Nat /\ \A i \in I : i \in Nat
    BY <1>2
  <1>5. \A i \in I : m <= i
    BY <1>3, <1>4
  <1>6. QED
    BY <1>5

\* How often p is among the first picks is a number, zero at first, and the
\* n-th pick adds one to what it picks and nothing to the others.
Tallied(picks, p, n) ==
    /\ Repeats(picks, p, n) \in Nat
    /\ n = 0 => Repeats(picks, p, n) = 0
    /\ n # 0 => Repeats(picks, p, n) = IF picks[n] = p THEN Repeats(picks, p, n - 1) + 1
                                       ELSE Repeats(picks, p, n - 1)

\* So with every prefix of the picks.
LEMMA RepeatsFacts ==
  ASSUME NEW E, NEW draws \in Nat, NEW picks \in [1..draws -> E], NEW p, NEW n \in 0..draws
  PROVE  Tallied(picks, p, n)
  <1> DEFINE Among(k) == {i \in 1..k : picks[i] = p}
  <1>1. ASSUME NEW k \in Nat
        PROVE  IsFiniteSet(Among(k)) /\ Repeats(picks, p, k) = Cardinality(Among(k))
               /\ Cardinality(Among(k)) \in Nat
    <2>1. IsFiniteSet(1..k)
      BY FS_Interval
    <2>2. IsFiniteSet(Among(k))
      BY <2>1, FS_Subset
    <2>3. QED
      BY <2>2, FS_CardinalityType DEF Repeats
  <1>2. n = 0 => Among(n) = {}
    OBVIOUS
  <1>3. ASSUME n # 0
        PROVE  /\ n - 1 \in Nat /\ n \notin Among(n - 1)
               /\ Among(n) = IF picks[n] = p THEN Among(n - 1) \cup {n} ELSE Among(n - 1)
    BY <1>3
  <1> HIDE DEF Among
  <1>4. n = 0 => Repeats(picks, p, n) = 0
    BY <1>1, <1>2, FS_EmptySet
  <1>5. ASSUME n # 0
        PROVE  Repeats(picks, p, n) = IF picks[n] = p THEN Repeats(picks, p, n - 1) + 1
                                      ELSE Repeats(picks, p, n - 1)
    <2>1. n - 1 \in Nat /\ n \in Nat /\ n \notin Among(n - 1)
      BY <1>3, <1>5
    <2>2. IsFiniteSet(Among(n - 1)) /\ Repeats(picks, p, n - 1) = Cardinality(Among(n - 1))
          /\ Repeats(picks, p, n) = Cardinality(Among(n))
      BY <1>1, <2>1
    <2>3. Cardinality(Among(n - 1) \cup {n}) = Cardinality(Among(n - 1)) + 1
      BY <2>1, <2>2, FS_AddElement
    <2>4. CASE picks[n] = p
      BY <1>3, <1>5, <2>2, <2>3, <2>4
    <2>5. CASE picks[n] # p
      BY <1>3, <1>5, <2>2, <2>5
    <2>6. QED
      BY <2>4, <2>5
  <1>6. QED
    BY <1>1, <1>4, <1>5 DEF Tallied

\* After every draw the counts of a level pool differ by at most one.
LEMMA StaysLevel ==
  ASSUME NEW E, NEW counts \in [E -> Nat], \A p, q \in E : counts[p] = counts[q],
         NEW draws \in Nat, NEW picks \in sequence(counts, draws), NEW n \in 0..draws
  PROVE  \A p, q \in E : Simulated(counts, picks, n)[p] <= Simulated(counts, picks, n)[q] + 1
  <1> DEFINE Level(k) == \A p, q \in E : Simulated(counts, picks, k)[p] <= Simulated(counts, picks, k)[q] + 1
             Bad == {k \in 0..draws : ~Level(k)}
  <1>1. picks \in [1..draws -> E]
    BY DEF sequence
  <1>2. \A k \in 0..draws : Simulated(counts, picks, k) = [p \in E |-> counts[p] + Repeats(picks, p, k)]
    BY DEF Simulated
  <1>3. SUFFICES ASSUME Bad # {} PROVE FALSE
    OBVIOUS
  <1>4. PICK m \in Bad : \A k \in Bad : m <= k
    <2>1. Bad \in SUBSET Nat
      OBVIOUS
    <2> HIDE DEF Bad
    <2>2. QED
      BY <1>3, <2>1, Least
  <1>5. ASSUME NEW r, NEW k \in 0..draws
         PROVE  Tallied(picks, r, k)
    BY <1>1, RepeatsFacts
  <1>6. PICK p \in E, q \in E : ~(counts[p] + Repeats(picks, p, m) <= counts[q] + Repeats(picks, q, m) + 1)
    BY <1>2, <1>4
  <1>7. m \in 0..draws /\ counts[p] \in Nat /\ counts[q] = counts[p]
        /\ Repeats(picks, p, m) \in Nat /\ Repeats(picks, q, m) \in Nat
    BY <1>1, <1>4, <1>5 DEF Tallied
  <1>8. m # 0
    <2>1. m = 0 => Repeats(picks, p, m) = 0
      BY <1>7, <1>5 DEF Tallied
    <2>2. QED
      BY <1>6, <1>7, <2>1
  <1>9. m \in 1..draws /\ m - 1 \in 0..draws
    BY <1>7, <1>8
  <1>10. Level(m - 1)
    BY <1>4, <1>9
  <1>11. /\ Repeats(picks, p, m - 1) \in Nat /\ Repeats(picks, q, m - 1) \in Nat
         /\ Repeats(picks, p, m) = IF picks[m] = p THEN Repeats(picks, p, m - 1) + 1
                                   ELSE Repeats(picks, p, m - 1)
         /\ Repeats(picks, q, m - 1) <= Repeats(picks, q, m)
    <2>1. Repeats(picks, q, m - 1) \in Nat /\ Repeats(picks, p, m - 1) \in Nat
      BY <1>9, <1>5 DEF Tallied
    <2>2. Repeats(picks, q, m) = IF picks[m] = q THEN Repeats(picks, q, m - 1) + 1
                                 ELSE Repeats(picks, q, m - 1)
      BY <1>7, <1>8, <1>5 DEF Tallied
    <2>3. Repeats(picks, p, m) = IF picks[m] = p THEN Repeats(picks, p, m - 1) + 1
                                 ELSE Repeats(picks, p, m - 1)
      BY <1>7, <1>8, <1>5 DEF Tallied
    <2>4. QED
      BY <2>1, <2>2, <2>3
  <1>12. Repeats(picks, p, m - 1) <= Repeats(picks, q, m - 1) + 1
    <2>1. counts[p] + Repeats(picks, p, m - 1) <= counts[q] + Repeats(picks, q, m - 1) + 1
      BY <1>2, <1>9, <1>10
    <2>2. QED
      BY <1>7, <1>11, <2>1
  <1>13. picks[m] = p => Repeats(picks, p, m - 1) <= Repeats(picks, q, m - 1)
    <2>1. SUFFICES ASSUME picks[m] = p
                   PROVE  Repeats(picks, p, m - 1) <= Repeats(picks, q, m - 1)
      OBVIOUS
    <2>2. p \in min_tier(Simulated(counts, picks, m - 1))
      BY <1>9, <2>1 DEF sequence
    <2>3. counts[p] + Repeats(picks, p, m - 1) <= counts[q] + Repeats(picks, q, m - 1)
      BY <1>2, <1>9, <2>2 DEF min_tier
    <2>4. QED
      BY <1>7, <1>11, <2>3
  <1>14. QED
    BY <1>6, <1>7, <1>11, <1>12, <1>13

\* In a level pool nothing is picked twice before everything is picked once.
LEMMA AllDifferent ==
  ASSUME NEW E, IsFiniteSet(E), NEW counts \in [E -> Nat], \A p, q \in E : counts[p] = counts[q],
         NEW draws \in Nat, draws <= Cardinality(E), NEW picks \in sequence(counts, draws),
         NEW i \in 1..draws, NEW j \in 1..draws, i < j
  PROVE  picks[i] # picks[j]
  <1>1. SUFFICES ASSUME picks[i] = picks[j] PROVE FALSE
    OBVIOUS
  <1>2. picks \in [1..draws -> E] /\ picks[j] \in min_tier(Simulated(counts, picks, j - 1))
    BY DEF sequence
  <1>3. j - 1 \in 0..draws /\ i \in 1..(j - 1)
    OBVIOUS
  <1>4. Simulated(counts, picks, j - 1) = [p \in E |-> counts[p] + Repeats(picks, p, j - 1)]
    BY DEF Simulated
  <1>5. ASSUME NEW p \in E
        PROVE  IsFiniteSet({k \in 1..(j - 1) : picks[k] = p}) /\ Repeats(picks, p, j - 1) \in Nat
    <2>1. IsFiniteSet(1..(j - 1))
      BY <1>3, FS_Interval
    <2>2. QED
      BY <1>2, <1>3, <2>1, FS_Subset, RepeatsFacts DEF Tallied
  <1>6. Repeats(picks, picks[j], j - 1) # 0
    <2> DEFINE mine == {k \in 1..(j - 1) : picks[k] = picks[j]}
    <2>1. i \in mine
      BY <1>1, <1>3
    <2>2. IsFiniteSet(mine)
      BY <1>2, <1>5
    <2>3. Repeats(picks, picks[j], j - 1) = Cardinality(mine)
      BY DEF Repeats
    <2> HIDE DEF mine
    <2>4. QED
      BY <2>1, <2>2, <2>3, FS_EmptySet
  <1>7. ASSUME NEW p \in E
        PROVE  \E k \in 1..(j - 1) : picks[k] = p
    <2>1. counts[picks[j]] + Repeats(picks, picks[j], j - 1) <= counts[p] + Repeats(picks, p, j - 1)
      BY <1>2, <1>4 DEF min_tier
    <2>2. Repeats(picks, p, j - 1) # 0
      <3>1. /\ picks[j] \in E /\ counts[picks[j]] = counts[p] /\ counts[p] \in Nat
            /\ Repeats(picks, p, j - 1) \in Nat /\ Repeats(picks, picks[j], j - 1) \in Nat
        BY <1>2, <1>5
      <3>2. QED
        BY <1>6, <2>1, <3>1
    <2> DEFINE mine == {k \in 1..(j - 1) : picks[k] = p}
    <2>3. Repeats(picks, p, j - 1) = Cardinality(mine)
      BY DEF Repeats
    <2>4. mine # {}
      <3> HIDE DEF mine
      <3>1. QED
        BY <2>2, <2>3, FS_EmptySet
    <2>5. QED
      BY <2>4
  <1> DEFINE before == [k \in 1..(j - 1) |-> picks[k]]
  <1>8. before \in Surjection(1..(j - 1), E)
    BY <1>2, <1>3, <1>7 DEF Surjection
  <1>9. IsFiniteSet(1..(j - 1)) /\ Cardinality(1..(j - 1)) = j - 1
    <2>1. Cardinality(1..(j - 1)) = IF 1 > j - 1 THEN 0 ELSE (j - 1) - 1 + 1
      BY FS_Interval
    <2>2. QED
      BY <1>3, <2>1, FS_Interval
  <1> HIDE DEF before
  <1>10. Cardinality(E) <= j - 1
    BY <1>8, <1>9, FS_Surjection
  <1>11. Cardinality(E) \in Nat
    BY FS_CardinalityType
  <1>12. QED
    BY <1>10, <1>11

\* So that many draws pick that many Pokemon.
LEMMA AllPicked ==
  ASSUME NEW E, IsFiniteSet(E), NEW counts \in [E -> Nat], \A p, q \in E : counts[p] = counts[q],
         NEW draws \in Nat, draws <= Cardinality(E), NEW picks \in sequence(counts, draws)
  PROVE  Cardinality({picks[i] : i \in 1..draws}) = draws
  <1> DEFINE picked == {picks[i] : i \in 1..draws}
  <1>1. picks \in [1..draws -> E]
    BY DEF sequence
  <1>2. picks \in Surjection(1..draws, picked)
    BY <1>1 DEF Surjection
  <1>3. ASSUME NEW i \in 1..draws, NEW j \in 1..draws, picks[i] = picks[j]
        PROVE  i = j
    <2>1. ~(i < j)
      BY <1>3, AllDifferent
    <2>2. ~(j < i)
      BY <1>3, AllDifferent
    <2>3. QED
      BY <2>1, <2>2
  <1>4. picks \in Injection(1..draws, picked)
    BY <1>2, <1>3 DEF Surjection, Injection, IsInjective
  <1>5. IsFiniteSet(1..draws) /\ Cardinality(1..draws) = draws
    <2>1. Cardinality(1..draws) = IF 1 > draws THEN 0 ELSE draws - 1 + 1
      BY FS_Interval
    <2>2. QED
      BY <2>1, FS_Interval
  <1> HIDE DEF picked
  <1>6. Cardinality(picked) = Cardinality(1..draws)
    BY <1>2, <1>4, <1>5, FS_Surjection
  <1>7. QED
    BY <1>5, <1>6 DEF picked

\* The counts of a pool with one tier are equal.
LEMMA OneTier ==
  ASSUME NEW E, IsFiniteSet(E), NEW counts \in [E -> Nat], Cardinality(DOMAIN coverage(counts)) = 1
  PROVE  \A p, q \in E : counts[p] = counts[q]
  <1> DEFINE tiers == {counts[p] : p \in E}
  <1>1. DOMAIN coverage(counts) = tiers
    BY DEF coverage
  <1>2. counts \in Surjection(E, tiers)
    BY DEF Surjection
  <1>3. \A p \in E : counts[p] \in tiers
    OBVIOUS
  <1> HIDE DEF tiers
  <1>4. IsFiniteSet(tiers) /\ Cardinality(tiers) = 1
    BY <1>1, <1>2, FS_Surjection
  <1>5. \E n : tiers = {n}
    BY <1>4, FS_Singleton
  <1>6. QED
    BY <1>3, <1>5

\* From a level pool simulate-picker reports success and shows counts that
\* differ by at most one, whatever the seed and however many draws it is asked
\* for: sequence() counts what it has picked before it picks again (picker.py,
\* cmd_simulate_picker in cli.py).
THEOREM SimulationIsHonest == Spec => []SimulationHonest
  <1> DEFINE counts == drawing_counts
  <1>1. ASSUME TypeOK, NEW draws \in 0..MaxDraws, enabled # {},
               Cardinality(DOMAIN coverage(counts)) = 1, NEW picks \in sequence(counts, draws)
        PROVE  LET final == Simulated(counts, picks, draws)
               IN  /\ cmd_simulate_picker(counts, picks, draws) = 0
                   /\ \A m, n \in DOMAIN coverage(final) : m <= n + 1
    <2>1. counts \in [enabled -> Nat] /\ DOMAIN counts = enabled
      BY <1>1, Numbers DEF drawing_counts
    <2>2. IsFiniteSet(enabled)
      <3>1. enabled \subseteq Pokemon
        BY <1>1 DEF TypeOK
      <3>2. QED
        BY <3>1, PokemonAssumption, FS_Subset
    <2>3. draws \in Nat /\ draws \in 0..draws
      BY <1>1, BoundsAssumption
    <2> HIDE DEF counts
    <2>4. \A p, q \in enabled : counts[p] = counts[q]
      BY <1>1, <2>1, <2>2, OneTier
    <2>5. counts # <<>>
      BY <1>1, <2>1
    <2>6. draws <= Cardinality(DOMAIN counts) => Cardinality({picks[i] : i \in 1..draws}) = draws
      BY <1>1, <2>1, <2>2, <2>3, <2>4, AllPicked
    <2>7. cmd_simulate_picker(counts, picks, draws) = 0
      BY <2>5, <2>6 DEF cmd_simulate_picker
    <2> DEFINE final == Simulated(counts, picks, draws)
    <2>8. DOMAIN coverage(final) = {final[p] : p \in enabled}
      BY <2>1 DEF Simulated, coverage
    <2>9. \A p, q \in enabled : final[p] <= final[q] + 1
      BY <1>1, <2>1, <2>3, <2>4, StaysLevel
    <2> HIDE DEF final
    <2>10. \A m, n \in DOMAIN coverage(final) : m <= n + 1
      BY <2>8, <2>9
    <2>11. QED
      BY <2>7, <2>10 DEF final
  <1>2. TypeOK => SimulationHonest
    BY <1>1 DEF SimulationHonest
  <1>3. QED
    BY <1>2, Typed, PTL

=============================================================================
