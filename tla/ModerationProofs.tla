-------------------------- MODULE ModerationProofs --------------------------
(***************************************************************************)
(* Proofs about Moderation for every number of drawings, users, Pokemon,   *)
(* names and options.  The inductive invariant adds to the properties what *)
(* makes them inductive: rows refer to named Pokemon, and every question   *)
(* that was ever shipped is the one its uniqueId still stands for.         *)
(***************************************************************************)
EXTENDS Moderation, FiniteSetTheorems, SequenceTheorems, TLAPS

USE DEF Ids, NoUid, NoLetter

\* Every enabled Pokemon has a name, and every row a user and a named Pokemon.
CatalogNamed ==
    /\ \A p \in Pokemon : pokemon[p].enabled => pokemon[p].display_name # None
    /\ \A id \in Ids : submissions[id].status # "absent" =>
         /\ submissions[id].user \in Users
         /\ submissions[id].pokemon \in Pokemon
         /\ pokemon[submissions[id].pokemon].display_name # None

\* What was shipped is complete, its id is spent, and the drawing that still
\* holds the id still asks the same question.
PublishedStands ==
    \A q \in published :
        /\ q.unique_id \in 1..(nextUniqueId - 1)
        /\ q.options_json # <<>>
        /\ q.credit_name # None
        /\ \A id \in Ids : submissions[id].unique_id = q.unique_id => Question(submissions[id]) = q

\* The part of the invariant that is about rows.
RowsInv ==
    /\ NumberedIffApproved
    /\ UnnumberedIsBlank
    /\ UniqueIdsDistinct
    /\ QuestionWellFormed
    /\ PublishedStands
    /\ PublishedOnce

IInv == TypeOK /\ CatalogNamed /\ RowsInv

-----------------------------------------------------------------------------
(* What the helpers return.                                                *)

\* Inserting e into a sample of n different others: the result has one element
\* more, all different, and e is where it was put.
LEMMA InsertAtSlot ==
  ASSUME NEW S, NEW n \in Nat, NEW e, e \notin S, NEW s \in Samples(S, n),
         NEW slot \in 1..(n + 1)
  PROVE  /\ InsertAt(s, slot, e) \in Seq(S \cup {e})
         /\ Len(InsertAt(s, slot, e)) = n + 1
         /\ IsInjective(InsertAt(s, slot, e))
         /\ InsertAt(s, slot, e)[slot] = e
  <1> DEFINE r == InsertAt(s, slot, e)
  <1>1. s \in Seq(S \cup {e}) /\ Len(s) = n
    BY DEF Samples
  <1>2. /\ SubSeq(s, 1, slot - 1) \in Seq(S \cup {e})
        /\ Len(SubSeq(s, 1, slot - 1)) = slot - 1
        /\ \A j \in 1..(slot - 1) : SubSeq(s, 1, slot - 1)[j] = s[j]
    BY <1>1
  <1>3. /\ SubSeq(s, slot, Len(s)) \in Seq(S \cup {e})
        /\ Len(SubSeq(s, slot, Len(s))) = n - slot + 1
        /\ \A j \in 1..(n - slot + 1) : SubSeq(s, slot, Len(s))[j] = s[j + slot - 1]
    BY <1>1
  <1>4. /\ r \in Seq(S \cup {e})
        /\ Len(r) = n + 1
        /\ \A j \in 1..(n + 1) :
              r[j] = IF j < slot THEN s[j] ELSE IF j = slot THEN e ELSE s[j - 1]
    BY <1>1, <1>2, <1>3 DEF InsertAt
  <1>5. \A k, l \in 1..n : s[k] # e /\ (s[k] = s[l] => k = l)
    BY DEF Samples, IsInjective
  <1> HIDE DEF r
  <1>6. ASSUME NEW i \in 1..(n + 1), NEW j \in 1..(n + 1), r[i] = r[j], i < j
        PROVE  FALSE
    <2>1. CASE j < slot
      BY <1>4, <1>5, <1>6, <2>1
    <2>2. CASE j = slot
      BY <1>4, <1>5, <1>6, <2>2
    <2>3. CASE j > slot
      <3>1. r[j] = s[j - 1] /\ j - 1 \in 1..n
        BY <1>4, <2>3
      <3>2. CASE i < slot
        BY <1>4, <1>5, <1>6, <2>3, <3>1, <3>2
      <3>3. CASE i = slot
        BY <1>4, <1>5, <1>6, <2>3, <3>1, <3>3
      <3>4. CASE i > slot
        <4>1. r[i] = s[i - 1] /\ i - 1 \in 1..n
          BY <1>4, <3>4
        <4>2. QED
          BY <1>5, <1>6, <3>1, <4>1
      <3>5. QED
        BY <3>2, <3>3, <3>4
    <2>4. QED
      BY <2>1, <2>2, <2>3
  <1>7. IsInjective(r)
    <2>1. DOMAIN r = 1..(n + 1)
      BY <1>4
    <2>2. \A i, j \in 1..(n + 1) : r[i] = r[j] => i = j
      BY <1>6
    <2>3. QED
      BY <2>1, <2>2 DEF IsInjective
  <1>8. QED
    BY <1>4, <1>7 DEF r

\* OptionCount different names of S, with the letter of the right one.
GoodQuestions(S, correct) ==
    {q \in [options : Seq(S), letter : 1..OptionCount] :
        /\ Len(q.options) = OptionCount
        /\ IsInjective(q.options)
        /\ q.options[q.letter] = correct}

\* build_options returns good questions, whatever the pool.
LEMMA BuildOptionsSound ==
  ASSUME NEW S, NEW pool \in SUBSET S, NEW correct \in S
  PROVE  build_options(pool, correct) \subseteq GoodQuestions(S, correct)
  <1> DEFINE rest == pool \ {correct}
  <1>1. OptionCount - 1 \in Nat /\ (OptionCount - 1) + 1 = OptionCount
    BY BoundsAssumption
  <1>2. correct \notin rest /\ rest \cup {correct} \subseteq S
    OBVIOUS
  <1> HIDE DEF rest
  <1>3. ASSUME NEW s \in Samples(rest, OptionCount - 1), NEW slot \in 1..OptionCount
        PROVE  [options |-> InsertAt(s, slot, correct), letter |-> slot] \in GoodQuestions(S, correct)
    <2>1. /\ InsertAt(s, slot, correct) \in Seq(rest \cup {correct})
          /\ Len(InsertAt(s, slot, correct)) = OptionCount
          /\ IsInjective(InsertAt(s, slot, correct))
          /\ InsertAt(s, slot, correct)[slot] = correct
      BY <1>1, <1>2, InsertAtSlot
    <2>2. InsertAt(s, slot, correct) \in Seq(S)
      BY <1>2, <2>1, SeqMonotonic
    <2>3. QED
      BY <2>1, <2>2 DEF GoodQuestions
  <1>4. ASSUME NEW q \in build_options(pool, correct)
        PROVE  q \in GoodQuestions(S, correct)
    <2>1. PICK s \in Samples(pool \ {correct}, OptionCount - 1), slot \in 1..OptionCount :
            q = [options |-> InsertAt(s, slot, correct), letter |-> slot]
      BY DEF build_options
    <2>2. s \in Samples(rest, OptionCount - 1)
      BY Zenon DEF rest
    <2>3. QED
      BY <1>3, <2>1, <2>2
  <1>5. QED
    BY <1>4

\* The enabled names are names.
LEMMA EnabledNamesAreNames ==
  ASSUME TypeOK, CatalogNamed
  PROVE  enabled_names \subseteq Names
  <1>1. ASSUME NEW p \in Pokemon, pokemon[p].enabled
        PROVE  pokemon[p].display_name \in Names
    <2>1. pokemon[p] \in [display_name : Names \cup {None}, enabled : BOOLEAN]
      BY DEF TypeOK
    <2>2. QED
      BY <1>1, <2>1 DEF CatalogNamed
  <1>2. QED
    BY <1>1 DEF enabled_names

\* A question written into a row with a named Pokemon is a good one, or the
\* old one if the catalog is too small.
LEMMA QuestionsSound ==
  ASSUME TypeOK, CatalogNamed,
         NEW row \in Row, row.pokemon \in Pokemon,
         pokemon[row.pokemon].display_name # None
  PROVE  QuestionsFor(row) \subseteq
           GoodQuestions(Names, pokemon[row.pokemon].display_name)
             \cup {[options |-> row.options_json, letter |-> row.correct_letter]}
  <1>1. pokemon[row.pokemon].display_name \in Names /\ enabled_names \in SUBSET Names
    BY EnabledNamesAreNames DEF TypeOK
  <1>2. build_options(enabled_names, pokemon[row.pokemon].display_name)
          \subseteq GoodQuestions(Names, pokemon[row.pokemon].display_name)
    BY <1>1, BuildOptionsSound
  <1>3. QED
    BY <1>2 DEF QuestionsFor

-----------------------------------------------------------------------------
(* Ranks: rows repaired together get different ids from the counter on.    *)

\* Ranks in U are below its size and grow with the row.
LEMMA Ranks ==
  ASSUME NEW U \in SUBSET Ids
  PROVE  /\ Cardinality(U) \in Nat
         /\ \A a \in U : Rank(U, a) \in Nat /\ Rank(U, a) < Cardinality(U)
         /\ \A a, b \in U : a < b => Rank(U, a) < Rank(U, b)
  <1>1. IsFiniteSet(Ids)
    BY FS_Interval, BoundsAssumption
  <1>2. IsFiniteSet(U) /\ Cardinality(U) \in Nat
    BY <1>1, FS_Subset, FS_CardinalityType
  <1>3. ASSUME NEW a \in U
        PROVE  Rank(U, a) \in Nat /\ Rank(U, a) < Cardinality(U)
    <2>1. PICK T : T = {i \in U : i < a}
      OBVIOUS
    <2>2. T \in SUBSET U /\ a \notin T
      BY <2>1, BoundsAssumption
    <2>3. IsFiniteSet(T) /\ Cardinality(T) \in Nat /\ Cardinality(T) <= Cardinality(U)
      BY <1>2, <2>2, FS_Subset, FS_CardinalityType
    <2>4. Cardinality(T) # Cardinality(U)
      BY <1>2, <2>2, FS_Subset
    <2>5. Rank(U, a) = Cardinality(T)
      BY <2>1, Zenon DEF Rank
    <2>6. QED
      BY <1>2, <2>3, <2>4, <2>5
  <1>4. ASSUME NEW a \in U, NEW b \in U, a < b
        PROVE  Rank(U, a) < Rank(U, b)
    <2>1. PICK R : R = {i \in U : i < a}
      OBVIOUS
    <2>2. PICK T : T = {i \in U : i < b}
      OBVIOUS
    <2>3. T \in SUBSET U /\ R \in SUBSET T /\ a \in T /\ a \notin R
      <3>1. \A i \in U : i \in Int
        BY BoundsAssumption
      <3>2. a \in T /\ a \notin R /\ T \in SUBSET U
        BY <1>4, <2>1, <2>2, <3>1
      <3>3. \A i \in R : i \in U /\ i < b
        BY <1>4, <2>1, <3>1
      <3>4. R \in SUBSET T
        BY <2>2, <3>3
      <3>5. QED
        BY <3>2, <3>4
    <2>4. IsFiniteSet(T) /\ Cardinality(T) \in Nat
      BY <1>2, <2>3, FS_Subset, FS_CardinalityType
    <2>5. Cardinality(R) \in Nat /\ Cardinality(R) < Cardinality(T)
      <3>1. IsFiniteSet(R) /\ Cardinality(R) \in Nat /\ Cardinality(R) <= Cardinality(T)
        BY <2>3, <2>4, FS_Subset, FS_CardinalityType
      <3>2. Cardinality(R) # Cardinality(T)
        BY <2>3, <2>4, FS_Subset
      <3>3. QED
        BY <2>4, <3>1, <3>2
    <2>6. Rank(U, a) = Cardinality(R) /\ Rank(U, b) = Cardinality(T)
      BY <2>1, <2>2, Zenon DEF Rank
    <2>7. QED
      BY <2>5, <2>6
  <1>5. QED
    BY <1>2, <1>3, <1>4

-----------------------------------------------------------------------------
(* How each kind of step treats the rows.                                  *)

\* Every row of U gets an id that was never handed out, the others keep theirs.
Issues(U) ==
    /\ \A id \in U : /\ submissions[id].unique_id = NoUid
                     /\ submissions'[id].unique_id \in nextUniqueId..(nextUniqueId' - 1)
    /\ \A id \in Ids \ U : submissions'[id].unique_id = submissions[id].unique_id
    /\ nextUniqueId' = nextUniqueId + Cardinality(U)
    /\ nextUniqueId' <= MaxUniqueId + 1

\* Row id gives its id up, or had none.
Retires(id) ==
    /\ \A i \in Ids : submissions'[i].unique_id =
                         IF i = id THEN NoUid ELSE submissions[i].unique_id
    /\ nextUniqueId' = nextUniqueId

KeepsIds ==
    /\ \A i \in Ids : submissions'[i].unique_id = submissions[i].unique_id
    /\ nextUniqueId' = nextUniqueId

\* What a step may do to the uniqueIds.
IdStep ==
    \/ \E U \in SUBSET Ids : Issues(U)
    \/ \E id \in Ids : Retires(id)
    \/ KeepsIds

Blank(row) ==
    /\ row.unique_id = NoUid
    /\ row.options_json = <<>>
    /\ row.correct_letter = NoLetter
    /\ row.credit_name = None
    /\ row.public_url = None

\* One row is replaced by one outside the pack: a new drawing, a retirement.
LEMMA BlankStep ==
  ASSUME TypeOK, RowsInv, NEW id \in Ids, NEW new \in Row, Blank(new),
         new.status = "approved" => MayCrash,
         submissions' = [submissions EXCEPT ![id] = new],
         UNCHANGED <<nextUniqueId, published>>
  PROVE  submissions' \in [Ids -> Row] /\ RowsInv' /\ IdStep
  <1>1. /\ submissions' \in [Ids -> Row]
        /\ \A i \in Ids : submissions'[i] = IF i = id THEN new ELSE submissions[i]
    BY DEF TypeOK
  <1>2. NumberedIffApproved' /\ UnnumberedIsBlank'
    BY <1>1, CrashAssumption DEF RowsInv, NumberedIffApproved, UnnumberedIsBlank, Blank
  <1>3. UniqueIdsDistinct'
    <2>1. nextUniqueId \in Nat \ {0}
      BY DEF TypeOK
    <2>2. QED
      BY <1>1, <2>1 DEF RowsInv, UniqueIdsDistinct, Blank
  <1>4. QuestionWellFormed'
    BY <1>1 DEF RowsInv, QuestionWellFormed, Blank
  <1>5. PublishedStands' /\ PublishedOnce'
    BY <1>1 DEF RowsInv, PublishedStands, PublishedOnce, Blank
  <1>6. Retires(id)
    BY <1>1 DEF Retires, Blank
  <1>7. QED
    BY <1>1, <1>2, <1>3, <1>4, <1>5, <1>6 DEF RowsInv, IdStep

\* The four columns that are frozen besides the id.
SamePayload(row, old) ==
    /\ row.unique_id = old.unique_id
    /\ row.options_json = old.options_json
    /\ row.correct_letter = old.correct_letter
    /\ row.credit_name = old.credit_name

\* What freeze() makes of a blank row is a row, numbered by the counter, with
\* a good question or none.
LEMMA FrozenRow ==
  ASSUME TypeOK, CatalogNamed,
         NEW row \in Row, Blank(row),
         row.user \in Users, row.pokemon \in Pokemon,
         pokemon[row.pokemon].display_name # None,
         NEW q \in QuestionsFor(row)
  PROVE  /\ Frozen(row, q) \in Row
         /\ Frozen(row, q).status = row.status
         /\ Frozen(row, q).pokemon = row.pokemon
         /\ Frozen(row, q).user = row.user
         /\ Frozen(row, q).unique_id = nextUniqueId
         /\ \/ /\ Frozen(row, q).options_json = <<>>
               /\ Frozen(row, q).correct_letter = NoLetter
            \/ /\ Len(Frozen(row, q).options_json) = OptionCount
               /\ IsInjective(Frozen(row, q).options_json)
               /\ Frozen(row, q).correct_letter \in 1..OptionCount
  <1>1. q \in GoodQuestions(Names, pokemon[row.pokemon].display_name)
          \cup {[options |-> row.options_json, letter |-> row.correct_letter]}
    BY QuestionsSound
  <1>2. /\ q.options \in Seq(Names)
        /\ q.letter \in 0..OptionCount
        /\ \/ q.options = <<>> /\ q.letter = NoLetter
           \/ /\ Len(q.options) = OptionCount
              /\ IsInjective(q.options)
              /\ q.letter \in 1..OptionCount
    <2>1. CASE q \in GoodQuestions(Names, pokemon[row.pokemon].display_name)
      BY <2>1, BoundsAssumption DEF GoodQuestions
    <2>2. CASE q = [options |-> row.options_json, letter |-> row.correct_letter]
      BY <2>2 DEF Blank, Row
    <2>3. QED
      BY <1>1, <2>1, <2>2
  <1>3. nextUniqueId \in Nat /\ displayName[row.user] \in Credits /\ publicBaseUrl \in Bases \cup {None}
    BY DEF TypeOK
  <1>4. /\ Frozen(row, q) \in Row
        /\ Frozen(row, q).status = row.status
        /\ Frozen(row, q).pokemon = row.pokemon
        /\ Frozen(row, q).user = row.user
        /\ Frozen(row, q).unique_id = nextUniqueId
        /\ Frozen(row, q).options_json = q.options
        /\ Frozen(row, q).correct_letter = q.letter
    BY <1>2, <1>3 DEF Frozen, Row
  <1>5. QED
    BY <1>2, <1>4

\* freeze() of an approved row that is blank, or that keeps what it had.
LEMMA FreezeStep ==
  ASSUME TypeOK, CatalogNamed, RowsInv,
         NEW id \in Ids, NEW row \in Row, row.status = "approved",
         row.user \in Users, row.pokemon \in Pokemon,
         pokemon[row.pokemon].display_name # None,
         SamePayload(row, submissions[id]), row.unique_id = NoUid => Blank(row),
         freeze(id, row), UNCHANGED published
  PROVE  /\ submissions' \in [Ids -> Row] /\ nextUniqueId' \in Nat \ {0}
         /\ \A i \in Ids \ {id} : submissions'[i] = submissions[i]
         /\ submissions'[id].user = row.user /\ submissions'[id].pokemon = row.pokemon
         /\ RowsInv' /\ IdStep
  <1> USE CrashAssumption
  <1>0. nextUniqueId \in Nat \ {0} /\ submissions \in [Ids -> Row]
    BY DEF TypeOK
  <1>1. CASE row.unique_id # NoUid
    <2>1. /\ \A i \in Ids : submissions'[i] = IF i = id THEN row ELSE submissions[i]
          /\ submissions' \in [Ids -> Row] /\ nextUniqueId' = nextUniqueId
      BY <1>0, <1>1 DEF freeze
    <2>2. SamePayload(row, submissions[id])
      OBVIOUS
    <2>3. NumberedIffApproved' /\ UnnumberedIsBlank'
      BY <1>1, <2>1, <2>2 DEF RowsInv, NumberedIffApproved, UnnumberedIsBlank, SamePayload
    <2>4. UniqueIdsDistinct'
      BY <1>0, <2>1, <2>2 DEF RowsInv, UniqueIdsDistinct, SamePayload
    <2>5. QuestionWellFormed'
      BY <2>1, <2>2 DEF RowsInv, QuestionWellFormed, SamePayload
    <2>6. PublishedStands' /\ PublishedOnce'
      BY <2>1, <2>2 DEF RowsInv, PublishedStands, PublishedOnce, SamePayload, Question
    <2>7. KeepsIds
      BY <2>1, <2>2 DEF KeepsIds, SamePayload
    <2>8. QED
      BY <1>0, <2>1, <2>3, <2>4, <2>5, <2>6, <2>7 DEF RowsInv, IdStep
  <1>2. CASE row.unique_id = NoUid
    <2>1. Blank(row)
      BY <1>2
    <2>2. PICK q \in QuestionsFor(row) :
            submissions' = [submissions EXCEPT ![id] = Frozen(row, q)]
      BY <1>2 DEF freeze
    <2>3. PICK new \in Row : new = Frozen(row, q)
      BY <2>1, FrozenRow
    <2>4. /\ new.status = "approved"
          /\ new.user = row.user /\ new.pokemon = row.pokemon
          /\ new.unique_id = nextUniqueId
          /\ \/ new.options_json = <<>> /\ new.correct_letter = NoLetter
             \/ /\ Len(new.options_json) = OptionCount
                /\ IsInjective(new.options_json)
                /\ new.correct_letter \in 1..OptionCount
      BY <2>1, <2>3, FrozenRow
    <2>5. /\ \A i \in Ids : submissions'[i] = IF i = id THEN new ELSE submissions[i]
          /\ submissions' \in [Ids -> Row] /\ nextUniqueId' = nextUniqueId + 1
      BY <1>0, <1>2, <2>2, <2>3 DEF freeze
    <2>6. NumberedIffApproved' /\ UnnumberedIsBlank'
      BY <1>0, <2>4, <2>5 DEF RowsInv, NumberedIffApproved, UnnumberedIsBlank
    <2>7. UniqueIdsDistinct'
      <3>1. \A i \in Ids : submissions[i].unique_id \in Nat /\ submissions[i].unique_id < nextUniqueId
        BY <1>0 DEF RowsInv, UniqueIdsDistinct, Row
      <3>2. QED
        BY <1>0, <2>4, <2>5, <3>1 DEF RowsInv, UniqueIdsDistinct
    <2>8. QuestionWellFormed'
      BY <2>4, <2>5 DEF RowsInv, QuestionWellFormed
    <2>9. PublishedStands' /\ PublishedOnce'
      BY <1>0, <2>4, <2>5 DEF RowsInv, PublishedStands, PublishedOnce
    <2>10. Issues({id})
      <3>1. Cardinality({id}) = 1
        BY FS_Singleton
      <3>2. nextUniqueId <= MaxUniqueId /\ MaxUniqueId \in Nat
        BY <1>2, BoundsAssumption DEF freeze
      <3>3. submissions[id].unique_id = NoUid
        BY <1>2 DEF SamePayload
      <3>4. QED
        BY <1>0, <2>4, <2>5, <3>1, <3>2, <3>3 DEF Issues
    <2>11. QED
      BY <1>0, <2>4, <2>5, <2>6, <2>7, <2>8, <2>9, <2>10 DEF RowsInv, IdStep
  <1>3. QED
    BY <1>1, <1>2

\* ensure_frozen of one row: an approved row, numbered, with a good question
\* unless the catalog is too small, and with all that it had before.
LEMMA CompletedRow ==
  ASSUME TypeOK, CatalogNamed,
         NEW row \in Row, row.user \in Users, row.pokemon \in Pokemon,
         pokemon[row.pokemon].display_name # None,
         row.options_json = <<>> => row.correct_letter = NoLetter,
         row.options_json # <<>> => Len(row.options_json) = OptionCount
                                    /\ IsInjective(row.options_json)
                                    /\ row.correct_letter \in 1..OptionCount,
         NEW uid \in Nat, uid # NoUid,
         NEW question, row.options_json = <<>> => question \in QuestionsFor(row)
  PROVE  /\ Completed(row, uid, question) \in Row
         /\ Completed(row, uid, question).status = row.status
         /\ Completed(row, uid, question).pokemon = row.pokemon
         /\ Completed(row, uid, question).user = row.user
         /\ Completed(row, uid, question).unique_id = IF row.unique_id = NoUid THEN uid ELSE row.unique_id
         /\ Completed(row, uid, question).credit_name # None
         /\ row.credit_name # None => Completed(row, uid, question).credit_name = row.credit_name
         /\ row.options_json # <<>> =>
              /\ Completed(row, uid, question).options_json = row.options_json
              /\ Completed(row, uid, question).correct_letter = row.correct_letter
         /\ ~NotEnoughCatalog(enabled_names, pokemon[row.pokemon].display_name)
              => Completed(row, uid, question).options_json # <<>>
         /\ \/ /\ Completed(row, uid, question).options_json = <<>>
               /\ Completed(row, uid, question).correct_letter = NoLetter
            \/ /\ Len(Completed(row, uid, question).options_json) = OptionCount
               /\ IsInjective(Completed(row, uid, question).options_json)
               /\ Completed(row, uid, question).correct_letter \in 1..OptionCount
  <1> DEFINE asked == row.options_json # <<>>
             q == IF asked THEN [options |-> row.options_json, letter |-> row.correct_letter]
                  ELSE question
  <1>1. /\ q.options \in Seq(Names)
        /\ q.letter \in 0..OptionCount
        /\ \/ q.options = <<>> /\ q.letter = NoLetter
           \/ /\ Len(q.options) = OptionCount
              /\ IsInjective(q.options)
              /\ q.letter \in 1..OptionCount
    <2>1. CASE asked
      BY <2>1 DEF Row
    <2>2. CASE ~asked
      <3>1. question \in GoodQuestions(Names, pokemon[row.pokemon].display_name)
              \cup {[options |-> row.options_json, letter |-> row.correct_letter]}
        BY <2>2, QuestionsSound
      <3>2. CASE question \in GoodQuestions(Names, pokemon[row.pokemon].display_name)
        BY <2>2, <3>2, BoundsAssumption DEF GoodQuestions
      <3>3. CASE question = [options |-> row.options_json, letter |-> row.correct_letter]
        BY <2>2, <3>3 DEF Row
      <3>4. QED
        BY <3>1, <3>2, <3>3
    <2>3. QED
      BY <2>1, <2>2
  <1>2. ~NotEnoughCatalog(enabled_names, pokemon[row.pokemon].display_name) => q.options # <<>>
    <2>1. SUFFICES ASSUME ~NotEnoughCatalog(enabled_names, pokemon[row.pokemon].display_name),
                          ~asked
                   PROVE  question.options # <<>>
      OBVIOUS
    <2>2. pokemon[row.pokemon].display_name \in Names /\ enabled_names \in SUBSET Names
      BY EnabledNamesAreNames DEF TypeOK
    <2>3. question \in GoodQuestions(Names, pokemon[row.pokemon].display_name)
      BY <2>1, <2>2, BuildOptionsSound DEF QuestionsFor
    <2>4. QED
      BY <2>3, BoundsAssumption DEF GoodQuestions
  <1>3. /\ displayName[row.user] \in Credits
        /\ displayName[row.user] # None
        /\ publicBaseUrl \in Bases \cup {None}
    <2>1. displayName[row.user] \in Credits /\ publicBaseUrl \in Bases \cup {None}
      BY DEF TypeOK
    <2>2. QED
      BY <2>1, NoneAssumption
  <1>4. /\ Completed(row, uid, question).options_json = q.options
        /\ Completed(row, uid, question).correct_letter = q.letter
    <2>1. CASE asked
      <3>1. q.options = row.options_json /\ q.letter = row.correct_letter
        BY <2>1
      <3>2. /\ Completed(row, uid, question).options_json = row.options_json
            /\ Completed(row, uid, question).correct_letter = row.correct_letter
        BY <2>1 DEF Completed, Row
      <3>3. QED
        BY <3>1, <3>2, Zenon
    <2>2. CASE ~asked
      <3>1. q = question
        BY <2>2
      <3>2. /\ Completed(row, uid, question).options_json = question.options
            /\ Completed(row, uid, question).correct_letter = question.letter
        BY <2>2 DEF Completed, Row
      <3>3. QED
        BY <3>1, <3>2, Zenon
    <2>3. QED
      BY <2>1, <2>2
  <1>5. /\ Completed(row, uid, question).status = row.status
        /\ Completed(row, uid, question).pokemon = row.pokemon
        /\ Completed(row, uid, question).user = row.user
        /\ Completed(row, uid, question).unique_id = IF row.unique_id = NoUid THEN uid ELSE row.unique_id
        /\ Completed(row, uid, question).credit_name # None
        /\ row.credit_name # None => Completed(row, uid, question).credit_name = row.credit_name
    BY <1>3 DEF Completed, Row
  <1>6. Completed(row, uid, question) \in Row
    <2> DEFINE id == IF row.unique_id = NoUid THEN uid ELSE row.unique_id
               credit == IF row.credit_name = None THEN displayName[row.user] ELSE row.credit_name
               url == IF row.public_url = None THEN publicBaseUrl ELSE row.public_url
    <2>1. id \in Nat /\ credit \in Credits \cup {None} /\ url \in Bases \cup {None}
      BY <1>3 DEF Row
    <2>2. Completed(row, uid, question) =
            [row EXCEPT !.unique_id = id, !.options_json = q.options,
                        !.correct_letter = q.letter, !.credit_name = credit,
                        !.public_url = url]
      BY DEF Completed, Row
    <2> HIDE DEF q, id, credit, url
    <2>3. QED
      BY <1>1, <2>1, <2>2 DEF Row
  <1>7. QED
    <2> HIDE DEF q
    <2>1. asked => q.options = row.options_json /\ q.letter = row.correct_letter
      BY DEF q
    <2>2. row.options_json # <<>> =>
              /\ Completed(row, uid, question).options_json = row.options_json
              /\ Completed(row, uid, question).correct_letter = row.correct_letter
      BY <1>4, <2>1
    <2>3. \/ /\ Completed(row, uid, question).options_json = <<>>
             /\ Completed(row, uid, question).correct_letter = NoLetter
          \/ /\ Len(Completed(row, uid, question).options_json) = OptionCount
             /\ IsInjective(Completed(row, uid, question).options_json)
             /\ Completed(row, uid, question).correct_letter \in 1..OptionCount
      BY <1>1, <1>4
    <2>4. ~NotEnoughCatalog(enabled_names, pokemon[row.pokemon].display_name)
            => Completed(row, uid, question).options_json # <<>>
      BY <1>2, <1>4
    <2>5. QED
      BY <1>5, <1>6, <2>2, <2>3, <2>4, Zenon

\* ensure_frozen of some approved rows: ids from the counter on, one each, and
\* whatever was shipped before still stands.
LEMMA EnsureStep ==
  ASSUME TypeOK, CatalogNamed, RowsInv,
         NEW S \in SUBSET Approved, ensure_frozen(S)
  PROVE  /\ submissions' \in [Ids -> Row]
         /\ nextUniqueId' \in Nat \ {0} /\ nextUniqueId <= nextUniqueId'
         /\ NumberedIffApproved' /\ UnnumberedIsBlank'
         /\ UniqueIdsDistinct' /\ QuestionWellFormed'
         /\ \A id \in Ids : /\ submissions'[id].status = submissions[id].status
                            /\ submissions'[id].pokemon = submissions[id].pokemon
                            /\ submissions'[id].user = submissions[id].user
         /\ \A q \in published : \A id \in Ids :
              submissions'[id].unique_id = q.unique_id => Question(submissions'[id]) = q
         /\ \A id \in S :
              /\ submissions'[id].unique_id \in 1..(nextUniqueId' - 1)
              /\ submissions'[id].credit_name # None
              /\ ~Starved(id) => submissions'[id].options_json # <<>>
         /\ IdStep
  <1> DEFINE U == Unnumbered(S)
             uid(id) == nextUniqueId + Rank(U, id)
  <1> USE CrashAssumption
  <1>1. PICK question \in [Unasked(S) -> AnyQuestion] :
          /\ \A id \in Unasked(S) : question[id] \in QuestionsFor(submissions[id])
          /\ submissions' = [id \in Ids |->
               IF id \notin S THEN submissions[id]
               ELSE Completed(submissions[id], nextUniqueId + Rank(Unnumbered(S), id),
                              IF id \in Unasked(S) THEN question[id] ELSE {})]
    BY Zenon DEF ensure_frozen
  <1>2. /\ nextUniqueId \in Nat \ {0}
        /\ submissions \in [Ids -> Row]
        /\ \A id \in S : id \in Ids /\ submissions[id].status = "approved"
    BY DEF TypeOK, Approved
  <1>3. /\ Cardinality(U) \in Nat
        /\ \A a \in U : Rank(U, a) \in Nat /\ Rank(U, a) < Cardinality(U)
        /\ \A a, b \in U : a < b => Rank(U, a) < Rank(U, b)
    <2>1. U \in SUBSET Ids
      BY <1>2 DEF Unnumbered
    <2> HIDE DEF U
    <2>2. QED
      BY <2>1, Ranks
  <1>4. nextUniqueId' = nextUniqueId + Cardinality(U)
    BY DEF ensure_frozen
  <1>5. \A id \in Ids : id \in U <=> id \in S /\ submissions[id].unique_id = NoUid
    BY DEF Unnumbered
  <1>6. \A id \in Ids : Rank(U, id) \in Nat
    <2>1. TAKE id \in Ids
    <2>2. PICK T : T = {i \in U : i < id}
      OBVIOUS
    <2>3. T \in SUBSET Ids
      BY <1>2, <2>2 DEF Unnumbered
    <2>4. Cardinality(T) \in Nat
      BY <2>3, Ranks
    <2>5. QED
      BY <2>2, <2>4, Zenon DEF Rank
  <1>7. \A id \in Ids : submissions'[id] =
          IF id \notin S THEN submissions[id]
          ELSE Completed(submissions[id], uid(id), IF id \in Unasked(S) THEN question[id] ELSE {})
    BY <1>1
  <1> HIDE DEF U, uid
  <1>8. ASSUME NEW id \in S
        PROVE  /\ submissions'[id] \in Row
               /\ submissions'[id].status = "approved"
               /\ submissions'[id].pokemon = submissions[id].pokemon
               /\ submissions'[id].user = submissions[id].user
               /\ submissions'[id].unique_id = IF submissions[id].unique_id = NoUid THEN uid(id)
                                               ELSE submissions[id].unique_id
               /\ submissions'[id].credit_name # None
               /\ submissions[id].credit_name # None =>
                    submissions'[id].credit_name = submissions[id].credit_name
               /\ submissions[id].options_json # <<>> =>
                    /\ submissions'[id].options_json = submissions[id].options_json
                    /\ submissions'[id].correct_letter = submissions[id].correct_letter
               /\ ~Starved(id) => submissions'[id].options_json # <<>>
               /\ \/ submissions'[id].options_json = <<>> /\ submissions'[id].correct_letter = NoLetter
                  \/ /\ Len(submissions'[id].options_json) = OptionCount
                     /\ IsInjective(submissions'[id].options_json)
                     /\ submissions'[id].correct_letter \in 1..OptionCount
    <2>1. PICK row \in Row : row = submissions[id] /\ id \in Ids /\ row.status = "approved"
      BY <1>2
    <2>2. /\ row.user \in Users /\ row.pokemon \in Pokemon
          /\ pokemon[row.pokemon].display_name # None
      BY <2>1 DEF CatalogNamed
    <2>3. /\ row.options_json = <<>> => row.correct_letter = NoLetter
          /\ row.options_json # <<>> => Len(row.options_json) = OptionCount
                                        /\ IsInjective(row.options_json)
                                        /\ row.correct_letter \in 1..OptionCount
      <3>1. \/ row.options_json = <<>> /\ row.correct_letter = NoLetter
            \/ /\ Len(row.options_json) = OptionCount
               /\ IsInjective(row.options_json)
               /\ row.correct_letter \in 1..OptionCount
        BY <2>1 DEF RowsInv, QuestionWellFormed
      <3>2. QED
        BY <3>1, BoundsAssumption
    <2>4. PICK n \in Nat : n = uid(id) /\ n # NoUid
      BY <1>2, <1>6, <2>1 DEF uid
    <2>5. PICK q : q = IF id \in Unasked(S) THEN question[id] ELSE {}
      OBVIOUS
    <2>6. row.options_json = <<>> => q \in QuestionsFor(row)
      BY <1>1, <2>1, <2>5 DEF Unasked
    <2>7. submissions'[id] = Completed(row, n, q)
      BY <1>7, <2>1, <2>4, <2>5
    <2>8. Starved(id) <=> row.options_json = <<>>
                          /\ NotEnoughCatalog(enabled_names, pokemon[row.pokemon].display_name)
      BY <2>1 DEF Starved
    <2>9. ~Starved(id) => submissions'[id].options_json # <<>>
      BY <2>2, <2>3, <2>4, <2>6, <2>7, <2>8, CompletedRow
    <2>10. PICK new : new = Completed(row, n, q)
      OBVIOUS
    <2>11. /\ new \in Row
           /\ new.status = row.status
           /\ new.pokemon = row.pokemon
           /\ new.user = row.user
           /\ new.unique_id = IF row.unique_id = NoUid THEN n ELSE row.unique_id
           /\ new.credit_name # None
           /\ row.credit_name # None => new.credit_name = row.credit_name
           /\ row.options_json # <<>> =>
                /\ new.options_json = row.options_json
                /\ new.correct_letter = row.correct_letter
           /\ \/ new.options_json = <<>> /\ new.correct_letter = NoLetter
              \/ /\ Len(new.options_json) = OptionCount
                 /\ IsInjective(new.options_json)
                 /\ new.correct_letter \in 1..OptionCount
      BY <2>2, <2>3, <2>4, <2>6, <2>10, CompletedRow
    <2>12. new = submissions'[id]
      BY <2>7, <2>10
    <2>13. QED
      BY <2>1, <2>4, <2>9, <2>11, <2>12
  <1>9. \A id \in Ids : id \notin S => submissions'[id] = submissions[id]
    BY <1>7
  <1>10. /\ submissions' \in [Ids -> Row]
         /\ \A id \in Ids : /\ submissions'[id].status = submissions[id].status
                            /\ submissions'[id].pokemon = submissions[id].pokemon
                            /\ submissions'[id].user = submissions[id].user
    <2>1. \A id \in Ids : submissions'[id] \in Row
      BY <1>2, <1>8, <1>9
    <2>2. submissions' = [id \in Ids |-> submissions'[id]]
      BY <1>1
    <2>3. QED
      BY <1>2, <1>8, <1>9, <2>1, <2>2
  <1>11. /\ \A id \in U : /\ submissions'[id].unique_id = uid(id)
                          /\ uid(id) \in Nat /\ nextUniqueId <= uid(id)
                          /\ uid(id) < nextUniqueId'
         /\ \A id \in Ids \ U : submissions'[id].unique_id = submissions[id].unique_id
         /\ \A id \in Ids : /\ submissions[id].unique_id \in Nat
                            /\ submissions[id].unique_id < nextUniqueId
    <2>1. \A id \in U : uid(id) \in Nat /\ nextUniqueId <= uid(id) /\ uid(id) < nextUniqueId'
      BY <1>2, <1>3, <1>4 DEF uid
    <2>2. \A id \in U : id \in S /\ submissions[id].unique_id = NoUid
      BY DEF U, Unnumbered
    <2>3. \A id \in Ids : submissions[id].unique_id \in Nat /\ submissions[id].unique_id < nextUniqueId
      BY <1>2 DEF RowsInv, UniqueIdsDistinct, Row
    <2>4. QED
      BY <1>5, <1>8, <1>9, <2>1, <2>2, <2>3
  <1>12. NumberedIffApproved' /\ UnnumberedIsBlank'
    <2>1. \A id \in S : submissions'[id].unique_id # NoUid
      BY <1>2, <1>5, <1>11
    <2>2. QED
      BY <1>8, <1>9, <2>1 DEF RowsInv, NumberedIffApproved, UnnumberedIsBlank
  <1>13. UniqueIdsDistinct'
    <2>1. \A a, b \in U : uid(a) = uid(b) => a = b
      <3>1. \A a \in U : a \in Int
        BY <1>2 , BoundsAssumption DEF U, Unnumbered
      <3>2. QED
        BY <1>2, <1>3, <3>1 DEF uid
    <2>2. nextUniqueId \in Nat /\ nextUniqueId' \in Nat /\ nextUniqueId <= nextUniqueId'
      BY <1>2, <1>3, <1>4
    <2>3. \A a, b \in Ids \ U : submissions[a].unique_id = submissions[b].unique_id
            => a = b \/ submissions[a].unique_id = NoUid
      BY DEF RowsInv, UniqueIdsDistinct
    <2>4. QED
      BY <1>11, <2>1, <2>2, <2>3 DEF UniqueIdsDistinct
  <1>14. QuestionWellFormed'
    BY <1>8, <1>9 DEF RowsInv, QuestionWellFormed
  <1>15. ASSUME NEW q \in published, NEW id \in Ids, submissions'[id].unique_id = q.unique_id
         PROVE  Question(submissions'[id]) = q
    <2>1. q.unique_id \in 1..(nextUniqueId - 1) /\ q.options_json # <<>> /\ q.credit_name # None
      BY DEF RowsInv, PublishedStands
    <2>2. id \notin U
      BY <1>2, <1>11, <1>15, <2>1
    <2>3. submissions[id].unique_id = q.unique_id /\ Question(submissions[id]) = q
      BY <1>11, <1>15, <2>2 DEF RowsInv, PublishedStands
    <2>4. SamePayload(submissions'[id], submissions[id])
      <3>1. q.options_json = submissions[id].options_json /\ q.credit_name = submissions[id].credit_name
        BY <2>3 DEF Question
      <3>2. QED
        BY <1>8, <1>9, <1>15, <2>1, <2>3, <3>1 DEF SamePayload
    <2>5. QED
      BY <2>3, <2>4 DEF SamePayload, Question
  <1>16. nextUniqueId' \in Nat \ {0} /\ nextUniqueId <= nextUniqueId'
    BY <1>2, <1>3, <1>4
  <1>17. ASSUME NEW id \in S
         PROVE  submissions'[id].unique_id \in 1..(nextUniqueId' - 1)
    <2>1. id \in Ids /\ (id \notin U => submissions[id].unique_id # NoUid)
      BY <1>2, <1>5
    <2>2. QED
      BY <1>2, <1>11, <1>16, <2>1
  <1>18. Issues(U)
    <2>1. \A id \in U : submissions[id].unique_id = NoUid
      BY DEF U, Unnumbered
    <2>2. nextUniqueId' <= MaxUniqueId + 1
      BY DEF ensure_frozen
    <2>3. QED
      BY <1>2, <1>4, <1>11, <1>16, <2>1, <2>2 DEF Issues
  <1>19. IdStep
    <2>1. U \in SUBSET Ids
      BY <1>2 DEF U, Unnumbered
    <2>2. QED
      BY <1>18, <2>1 DEF IdStep
  <1>20. QED
    BY <1>8, <1>10, <1>12, <1>13, <1>14, <1>15, <1>16, <1>17, <1>19

-----------------------------------------------------------------------------
(* One step of the lifecycle is one step of the ledger, or none.           *)

\* Whatever a step does to the uniqueIds, the ledger does or ignores.
LEMMA LedgerStep ==
  ASSUME TypeOK, nextUniqueId' \in Nat \ {0}, submissions' \in [Ids -> Row],
         UniqueIdsDistinct', IdStep
  PROVE  [Ledger!Next]_(Ledger!ledgerVars)
  <1> DEFINE held == [id \in Ids |-> submissions[id].unique_id]
  <1>1. CASE \E U \in SUBSET Ids : Issues(U)
    <2>1. PICK U \in SUBSET Ids : Issues(U)
      BY <1>1
    <2>2. nextUniqueId' = nextUniqueId + Cardinality(U)
      BY <2>1 DEF Issues
    <2> DEFINE given == [id \in U |-> submissions'[id].unique_id]
    <2>3. given \in [U -> nextUniqueId..(nextUniqueId + Cardinality(U) - 1)]
      <3>1. PICK range : range = nextUniqueId..(nextUniqueId + Cardinality(U) - 1)
        OBVIOUS
      <3>2. \A id \in U : submissions'[id].unique_id \in range
        <4>1. nextUniqueId \in Nat /\ Cardinality(U) \in Nat
          BY Ranks DEF TypeOK
        <4>2. QED
          BY <2>1, <2>2, <3>1, <4>1 DEF Issues
      <3>3. given \in [U -> range]
        BY <3>2
      <3>4. QED
        BY <3>1, <3>3, Zenon
    <2>4. \A a, b \in U : given[a] = given[b] => a = b
      <3>1. nextUniqueId \in Nat \ {0}
        BY DEF TypeOK
      <3>2. \A id \in U : submissions'[id].unique_id # 0
        BY <2>1, <3>1 DEF Issues
      <3>3. QED
        BY <3>2 DEF UniqueIdsDistinct
    <2>5. IsInjective(given)
      BY <2>4 DEF IsInjective
    <2>6. held' = [id \in Ids |-> IF id \in U THEN given[id] ELSE held[id]]
      BY <2>1 DEF Issues
    <2>7. \A id \in U : held[id] = 0
      BY <2>1 DEF Issues
    <2>8. nextUniqueId + Cardinality(U) <= MaxUniqueId + 1
      BY <2>1, <2>2 DEF Issues
    <2> HIDE DEF given
    <2>9. Ledger!Issue(U)
      <3>1. \E id \in [U -> nextUniqueId..(nextUniqueId + Cardinality(U) - 1)] :
              /\ IsInjective(id)
              /\ held' = [d \in Ids |-> IF d \in U THEN id[d] ELSE held[d]]
        BY <2>3, <2>5, <2>6, Zenon
      <3>2. QED
        BY <2>2, <2>7, <2>8, <3>1, Zenon
          DEF Ledger!Issue, Ledger!Cardinality, Cardinality, Ledger!IsInjective, IsInjective
    <2>10. QED
      BY <2>9 DEF Ledger!Next
  <1>2. CASE \E id \in Ids : Retires(id)
    <2>1. PICK id \in Ids : Retires(id)
      BY <1>2
    <2>2. held' = [held EXCEPT ![id] = 0]
      BY <2>1 DEF Retires
    <2>3. Ledger!Retire(id)
      BY <2>1, <2>2 DEF Ledger!Retire, Retires
    <2>4. QED
      BY <2>3 DEF Ledger!Next
  <1>3. CASE KeepsIds
    <2>1. held' = held /\ nextUniqueId' = nextUniqueId
      BY <1>3 DEF KeepsIds
    <2>2. QED
      BY <2>1 DEF Ledger!ledgerVars
  <1>4. QED
    BY <1>1, <1>2, <1>3 DEF IdStep

-----------------------------------------------------------------------------
(* Every action keeps the invariant.                                       *)

\* What an action has to show of the rows it leaves behind.
StepOK ==
    /\ TypeOK'
    /\ CatalogNamed'
    /\ RowsInv'
    /\ IdStep

\* Moderation leaves the catalog and the settings alone and answers nothing.
LEMMA ModeratedStep ==
  ASSUME IInv, Moderated,
         submissions' \in [Ids -> Row], nextUniqueId' \in Nat \ {0},
         \A id \in Ids : submissions'[id].status # "absent" =>
            /\ submissions'[id].user \in Users
            /\ submissions'[id].pokemon \in Pokemon
            /\ pokemon[submissions'[id].pokemon].display_name # None,
         RowsInv', IdStep
  PROVE  StepOK
  <1>1. TypeOK'
    <2>1. Silence \in [kind : {"none", "csv", "empty", "blocked", "error",
                               "preview", "preview error"}, rows : Seq(Ids)]
      BY DEF Silence
    <2>2. QED
      BY <2>1 DEF IInv, TypeOK, Moderated
  <1>2. CatalogNamed'
    BY DEF IInv, CatalogNamed, Moderated
  <1>3. QED
    BY <1>1, <1>2 DEF StepOK

\* A row that exists has a user and a named Pokemon.
LEMMA RowNamed ==
  ASSUME IInv, NEW id \in Ids, submissions[id].status # "absent"
  PROVE  /\ submissions[id] \in Row
         /\ submissions[id].user \in Users
         /\ submissions[id].pokemon \in Pokemon
         /\ pokemon[submissions[id].pokemon].display_name # None
  BY DEF IInv, TypeOK, CatalogNamed

\* One row leaves the pack, or is drawn outside it.
LEMMA RetireAction ==
  ASSUME IInv, Moderated, NEW id \in Ids, NEW new \in Row, Blank(new),
         new.status = "approved" => MayCrash,
         new.user \in Users, new.pokemon \in Pokemon,
         pokemon[new.pokemon].display_name # None,
         submissions' = [submissions EXCEPT ![id] = new],
         UNCHANGED nextUniqueId
  PROVE  StepOK
  <1>1. submissions' \in [Ids -> Row] /\ RowsInv' /\ IdStep
    BY BlankStep DEF IInv, Moderated
  <1>2. \A i \in Ids : submissions'[i] = IF i = id THEN new ELSE submissions[i]
    BY DEF IInv, TypeOK
  <1>3. nextUniqueId' \in Nat \ {0}
    BY DEF IInv, TypeOK
  <1>4. \A i \in Ids : submissions'[i].status # "absent" =>
            /\ submissions'[i].user \in Users
            /\ submissions'[i].pokemon \in Pokemon
            /\ pokemon[submissions'[i].pokemon].display_name # None
    BY <1>2, RowNamed
  <1>5. QED
    BY <1>1, <1>3, <1>4, ModeratedStep

\* One row enters the pack.
LEMMA FreezeAction ==
  ASSUME IInv, Moderated, NEW id \in Ids, NEW row \in Row, row.status = "approved",
         row.user \in Users, row.pokemon \in Pokemon,
         pokemon[row.pokemon].display_name # None,
         SamePayload(row, submissions[id]), row.unique_id = NoUid => Blank(row),
         freeze(id, row)
  PROVE  StepOK
  <1>1. /\ submissions' \in [Ids -> Row] /\ nextUniqueId' \in Nat \ {0}
        /\ \A i \in Ids \ {id} : submissions'[i] = submissions[i]
        /\ submissions'[id].user = row.user /\ submissions'[id].pokemon = row.pokemon
        /\ RowsInv' /\ IdStep
    BY FreezeStep DEF IInv, Moderated
  <1>2. \A i \in Ids : submissions'[i].status # "absent" =>
            /\ submissions'[i].user \in Users
            /\ submissions'[i].pokemon \in Pokemon
            /\ pokemon[submissions'[i].pokemon].display_name # None
    BY <1>1, RowNamed
  <1>3. QED
    BY <1>1, <1>2, ModeratedStep

\* A row of the invariant that has no id is blank.
LEMMA BlankIfUnnumbered ==
  ASSUME IInv, NEW id \in Ids, submissions[id].unique_id = NoUid
  PROVE  Blank(submissions[id])
  BY DEF IInv, RowsInv, UnnumberedIsBlank, Blank

\* An approved row is the old one with another status.
LEMMA ApprovedRow ==
  ASSUME IInv, Moderated, NEW id \in Ids, submissions[id].status # "absent",
         freeze(id, [submissions[id] EXCEPT !.status = "approved"])
  PROVE  StepOK
  <1>1. PICK old \in Row : old = submissions[id]
    BY RowNamed
  <1>2. PICK row \in Row : row = [old EXCEPT !.status = "approved"]
    BY <1>1 DEF Row, Statuses
  <1>3. /\ row.status = "approved"
        /\ row.user = old.user /\ row.pokemon = old.pokemon
        /\ SamePayload(row, old) /\ row.public_url = old.public_url
    BY <1>1, <1>2 DEF SamePayload, Row
  <1>4. row.unique_id = NoUid => Blank(row)
    BY <1>1, <1>3, BlankIfUnnumbered DEF Blank, SamePayload
  <1>5. QED
    BY <1>1, <1>2, <1>3, <1>4, RowNamed, FreezeAction

\* A new drawing, pending, approved at once, or torn from its freeze.
LEMMA CreateOK ==
  ASSUME IInv, NEW id \in Ids, NEW p \in Pokemon, NEW u \in Users,
         create_submission(id, p, u)
  PROVE  StepOK
  <1>1. /\ Moderated
        /\ submissions[id] = NoRow
        /\ pokemon[p].display_name # None
    BY DEF create_submission, Moderated, NextId
  <1>2. ASSUME NEW status \in {"pending", "approved"}
        PROVE  /\ NewRow(p, u, status) \in Row
               /\ NewRow(p, u, status).status = status
               /\ NewRow(p, u, status).user = u
               /\ NewRow(p, u, status).pokemon = p
               /\ Blank(NewRow(p, u, status))
               /\ SamePayload(NewRow(p, u, status), NoRow)
    <2>1. <<>> \in Seq(Names) /\ 0 \in 0..OptionCount /\ 0 \in Nat
      BY BoundsAssumption
    <2>2. NoRow \in Row /\ Blank(NoRow)
      BY <2>1 DEF Row, Statuses, Blank, NoRow
    <2>3. PICK none \in Row : none = NoRow
      BY <2>2
    <2>4. PICK new : new = [none EXCEPT !.status = status, !.pokemon = p, !.user = u]
      OBVIOUS
    <2>5. /\ new \in Row
          /\ new.status = status /\ new.pokemon = p /\ new.user = u
          /\ SamePayload(new, none) /\ new.public_url = none.public_url
      BY <2>4 DEF Row, Statuses, SamePayload
    <2>6. Blank(new)
      BY <2>2, <2>3, <2>5 DEF Blank, SamePayload
    <2>7. new = NewRow(p, u, status)
      BY <2>3, <2>4, Zenon DEF NewRow
    <2>8. QED
      BY <2>3, <2>5, <2>6, <2>7
  <1>3. CASE SubmitPending(id, p, u)
    BY <1>1, <1>2, <1>3, RetireAction DEF SubmitPending
  <1>4. CASE SubmitApproved(id, p, u)
    BY <1>1, <1>2, <1>4, FreezeAction DEF SubmitApproved
  <1>5. CASE SubmitTorn(id, p, u)
    BY <1>1, <1>2, <1>5, RetireAction DEF SubmitTorn
  <1>6. QED
    BY <1>3, <1>4, <1>5 DEF create_submission

\* Approval freezes a row that left the pack blank, or keeps it as it is.
LEMMA ApproveOK ==
  ASSUME IInv, NEW id \in Ids, approve(id)
  PROVE  StepOK
  BY ApprovedRow DEF approve

\* A retired row is blank and belongs to the same drawing.
LEMMA RetiredRow ==
  ASSUME NEW row \in Row, NEW status \in Statuses
  PROVE  /\ [Retired(row) EXCEPT !.status = status] \in Row
         /\ [Retired(row) EXCEPT !.status = status].status = status
         /\ [Retired(row) EXCEPT !.status = status].user = row.user
         /\ [Retired(row) EXCEPT !.status = status].pokemon = row.pokemon
         /\ Blank([Retired(row) EXCEPT !.status = status])
  <1>1. <<>> \in Seq(Names) /\ 0 \in 0..OptionCount /\ 0 \in Nat
    BY BoundsAssumption
  <1>2. PICK retired : retired = Retired(row)
    OBVIOUS
  <1>3. /\ retired \in Row /\ Blank(retired)
        /\ retired.user = row.user /\ retired.pokemon = row.pokemon
    BY <1>1, <1>2 DEF Retired, Row, Blank
  <1>4. QED
    BY <1>2, <1>3 DEF Row, Blank

\* Every way out of the pack leaves a blank row.
LEMMA LeaveOK ==
  ASSUME IInv, NEW id \in Ids, unapprove(id) \/ reject(id) \/ delete(id)
  PROVE  StepOK
  <1>1. /\ Moderated /\ nextUniqueId' = nextUniqueId
        /\ submissions[id].status \notin {"absent", "deleted"}
    BY DEF unapprove, reject, delete
  <1>2. PICK old \in Row : old = submissions[id]
    BY <1>1, RowNamed
  <1>3. ASSUME NEW status \in {"pending", "rejected", "deleted"},
               submissions' = [submissions EXCEPT ![id] = [Retired(old) EXCEPT !.status = status]]
        PROVE  StepOK
    <2>0. status \in Statuses
      BY DEF Statuses
    <2>1. PICK new : new = [Retired(old) EXCEPT !.status = status]
      OBVIOUS
    <2>2. /\ new \in Row /\ new.status = status /\ new.user = old.user
          /\ new.pokemon = old.pokemon /\ Blank(new)
      BY <2>0, <2>1, RetiredRow
    <2>3. QED
      BY <1>1, <1>2, <1>3, <2>1, <2>2, RowNamed, RetireAction
  <1>4. CASE unapprove(id)
    BY <1>2, <1>3, <1>4 DEF unapprove
  <1>5. CASE delete(id)
    BY <1>2, <1>3, <1>5 DEF delete
  <1>6. CASE reject(id) /\ old.status = "approved"
    BY <1>2, <1>3, <1>6 DEF reject, AfterReject
  <1>7. CASE reject(id) /\ old.status # "approved"
    <2>1. PICK new \in Row : new = [old EXCEPT !.status = "rejected"]
      BY DEF Row, Statuses
    <2>2. submissions' = [submissions EXCEPT ![id] = new]
      BY <1>2, <1>7, <2>1 DEF reject, AfterReject
    <2>3. Blank(old)
      BY <1>2, <1>7, BlankIfUnnumbered DEF IInv, RowsInv, NumberedIffApproved
    <2>4. new.status = "rejected" /\ new.user = old.user /\ new.pokemon = old.pokemon /\ Blank(new)
      BY <2>1, <2>3 DEF Row, Blank
    <2>5. QED
      BY <1>1, <1>2, <2>2, <2>4, RowNamed, RetireAction
  <1>8. QED
    BY <1>4, <1>5, <1>6, <1>7

\* A rejected drawing waits again, or is approved when no approval is required.
LEMMA UnrejectOK ==
  ASSUME IInv, NEW id \in Ids, unreject(id)
  PROVE  StepOK
  <1>1. Moderated /\ submissions[id].status = "rejected"
    BY DEF unreject
  <1>2. CASE requireApproval
    <2>1. PICK old \in Row : old = submissions[id]
      BY <1>1, RowNamed
    <2>2. PICK new \in Row : new = [old EXCEPT !.status = "pending"]
      BY DEF Row, Statuses
    <2>3. submissions' = [submissions EXCEPT ![id] = new] /\ nextUniqueId' = nextUniqueId
      BY <1>2, <2>1, <2>2 DEF unreject
    <2>4. Blank(old)
      BY <1>1, <2>1, BlankIfUnnumbered DEF IInv, RowsInv, NumberedIffApproved
    <2>5. new.status = "pending" /\ new.user = old.user /\ new.pokemon = old.pokemon /\ Blank(new)
      BY <2>2, <2>4 DEF Row, Blank
    <2>6. QED
      BY <1>1, <2>1, <2>3, <2>5, RowNamed, RetireAction
  <1>3. CASE ~requireApproval
    BY <1>1, <1>3, ApprovedRow DEF unreject
  <1>4. QED
    BY <1>2, <1>3

\* The rows stay as they are: settings, credits, catalog, refused requests.
LEMMA RowsKept ==
  ASSUME IInv, UNCHANGED <<submissions, nextUniqueId, published>>
  PROVE  RowsInv' /\ IdStep
  <1>1. RowsInv'
    BY DEF IInv, RowsInv, NumberedIffApproved, UnnumberedIsBlank, UniqueIdsDistinct,
           QuestionWellFormed, PublishedStands, PublishedOnce
  <1>2. KeepsIds
    BY DEF KeepsIds
  <1>3. QED
    BY <1>1, <1>2 DEF IdStep

\* A whole pack goes out: what is new in it stands from now on.
LEMMA CsvOK ==
  ASSUME IInv, ExportCsv
  PROVE  StepOK
  <1>1. \A id \in Approved : id \in Ids /\ ~Starved(id)
    BY DEF ExportCsv, Approved
  <1>2. /\ submissions' \in [Ids -> Row]
        /\ nextUniqueId' \in Nat \ {0} /\ nextUniqueId <= nextUniqueId'
        /\ NumberedIffApproved' /\ UnnumberedIsBlank'
        /\ UniqueIdsDistinct' /\ QuestionWellFormed'
        /\ \A id \in Ids : /\ submissions'[id].status = submissions[id].status
                           /\ submissions'[id].pokemon = submissions[id].pokemon
                           /\ submissions'[id].user = submissions[id].user
        /\ \A q \in published : \A id \in Ids :
             submissions'[id].unique_id = q.unique_id => Question(submissions'[id]) = q
        /\ \A id \in Approved :
             /\ submissions'[id].unique_id \in 1..(nextUniqueId' - 1)
             /\ submissions'[id].credit_name # None
             /\ submissions'[id].options_json # <<>>
        /\ IdStep
    BY <1>1, EnsureStep DEF IInv, ExportCsv
  <1>3. /\ published' = published \cup {Question(submissions'[id]) : id \in Approved}
        /\ ExportUnchanged
    BY DEF ExportCsv
  <1>4. ASSUME NEW q \in published'
        PROVE  \/ q \in published
               \/ \E id \in Approved : q = Question(submissions'[id])
    BY <1>3
  <1>5. ASSUME NEW id \in Approved
        PROVE  /\ Question(submissions'[id]).unique_id = submissions'[id].unique_id
               /\ Question(submissions'[id]).options_json = submissions'[id].options_json
               /\ Question(submissions'[id]).credit_name = submissions'[id].credit_name
               /\ Question(submissions'[id]) \in [unique_id : Nat, options_json : Seq(Names),
                                                 correct_letter : 0..OptionCount,
                                                 credit_name : Credits \cup {None}]
    <2>1. submissions'[id] \in Row
      BY <1>1, <1>2
    <2>2. QED
      BY <2>1 DEF Question, Row
  <1>6. \A q \in published : /\ q.unique_id \in 1..(nextUniqueId' - 1)
                             /\ q.options_json # <<>> /\ q.credit_name # None
    <2>1. nextUniqueId \in Nat
      BY DEF IInv, TypeOK
    <2>2. QED
      BY <1>2, <2>1 DEF IInv, RowsInv, PublishedStands
  <1>7. ASSUME NEW id \in Approved, NEW i \in Ids,
               submissions'[i].unique_id = submissions'[id].unique_id
        PROVE  i = id
    BY <1>1, <1>2, <1>7 DEF UniqueIdsDistinct
  <1>8. PublishedStands'
    <2>1. SUFFICES ASSUME NEW q \in published'
                   PROVE  /\ q.unique_id \in 1..(nextUniqueId' - 1)
                          /\ q.options_json # <<>>
                          /\ q.credit_name # None
                          /\ \A i \in Ids : submissions'[i].unique_id = q.unique_id
                               => Question(submissions'[i]) = q
      BY DEF PublishedStands
    <2>2. CASE q \in published
      BY <1>2, <1>6, <2>2
    <2>3. CASE \E id \in Approved : q = Question(submissions'[id])
      <3>1. PICK id \in Approved : q = Question(submissions'[id])
        BY <2>3
      <3>2. QED
        BY <1>2, <1>5, <1>7, <3>1
    <2>4. QED
      BY <1>4, <2>2, <2>3
  <1>9. PublishedOnce'
    <2>1. SUFFICES ASSUME NEW q \in published', NEW r \in published',
                          q.unique_id = r.unique_id
                   PROVE  q = r
      BY DEF PublishedOnce
    <2>2. CASE q \in published /\ r \in published
      BY <2>1, <2>2 DEF IInv, RowsInv, PublishedOnce
    <2>3. CASE \E id \in Approved : q = Question(submissions'[id])
      <3>1. PICK id \in Approved : q = Question(submissions'[id])
        BY <2>3
      <3>2. QED
        BY <1>1, <1>5, <1>8, <2>1, <3>1 DEF PublishedStands
    <2>4. CASE \E id \in Approved : r = Question(submissions'[id])
      <3>1. PICK id \in Approved : r = Question(submissions'[id])
        BY <2>4
      <3>2. QED
        BY <1>1, <1>5, <1>8, <2>1, <3>1 DEF PublishedStands
    <2>5. QED
      BY <1>4, <2>2, <2>3, <2>4
  <1>10. CatalogNamed'
    BY <1>2, <1>3 DEF IInv, CatalogNamed, ExportUnchanged
  <1>11. answer' \in [kind : {"none", "csv", "empty", "blocked", "error",
                             "preview", "preview error"}, rows : Seq(Ids)]
    <2>1. Cardinality(Approved) \in Nat
      BY Ranks DEF Approved
    <2>2. PICK order \in [1..Cardinality(Approved) -> Approved] :
            answer' = [kind |-> "csv", rows |-> order]
      BY DEF ExportCsv
    <2>3. order \in Seq(Ids)
      <3>1. PICK n \in Nat : n = Cardinality(Approved)
        BY <2>1
      <3>2. order \in [1..n -> Ids]
        BY <1>1, <3>1
      <3>3. QED
        BY <3>2, SeqDef
    <2>4. QED
      BY <2>2, <2>3
  <1>12. published' \in SUBSET [unique_id : Nat, options_json : Seq(Names),
                                correct_letter : 0..OptionCount,
                                credit_name : Credits \cup {None}]
    <2>1. \A q \in published : q \in [unique_id : Nat, options_json : Seq(Names),
                                      correct_letter : 0..OptionCount,
                                      credit_name : Credits \cup {None}]
      BY DEF IInv, TypeOK
    <2>2. QED
      BY <1>3, <1>5, <2>1
  <1>13. TypeOK'
    BY <1>2, <1>3, <1>11, <1>12 DEF IInv, TypeOK, ExportUnchanged
  <1>14. QED
    BY <1>2, <1>8, <1>9, <1>10, <1>13 DEF StepOK, RowsInv

\* A refused export keeps what the rows before the blocked one gained.
LEMMA RefusedOK ==
  ASSUME IInv, ExportRefused
  PROVE  StepOK
  <1>1. PICK first \in Approved :
          ensure_frozen({id \in Approved : id = first \/ Precedes(id, first)})
    BY DEF ExportRefused
  <1>2. PICK S \in SUBSET Approved : ensure_frozen(S)
    BY <1>1
  <1>3. /\ submissions' \in [Ids -> Row]
        /\ nextUniqueId' \in Nat \ {0} /\ nextUniqueId <= nextUniqueId'
        /\ NumberedIffApproved' /\ UnnumberedIsBlank'
        /\ UniqueIdsDistinct' /\ QuestionWellFormed'
        /\ \A id \in Ids : /\ submissions'[id].status = submissions[id].status
                           /\ submissions'[id].pokemon = submissions[id].pokemon
                           /\ submissions'[id].user = submissions[id].user
        /\ \A q \in published : \A id \in Ids :
             submissions'[id].unique_id = q.unique_id => Question(submissions'[id]) = q
        /\ IdStep
    BY <1>2, EnsureStep DEF IInv
  <1>4. published' = published /\ ExportUnchanged /\ answer' = [kind |-> "blocked", rows |-> <<>>]
    BY DEF ExportRefused
  <1>5. PublishedStands' /\ PublishedOnce'
    <2>1. nextUniqueId \in Nat
      BY DEF IInv, TypeOK
    <2>2. QED
      BY <1>3, <1>4, <2>1 DEF IInv, RowsInv, PublishedStands, PublishedOnce
  <1>6. CatalogNamed'
    BY <1>3, <1>4 DEF IInv, CatalogNamed, ExportUnchanged
  <1>7. TypeOK'
    <2>1. answer' \in [kind : {"none", "csv", "empty", "blocked", "error",
                              "preview", "preview error"}, rows : Seq(Ids)]
      BY <1>4
    <2>2. QED
      BY <1>3, <1>4, <2>1 DEF IInv, TypeOK, ExportUnchanged
  <1>8. QED
    BY <1>3, <1>5, <1>6, <1>7 DEF StepOK, RowsInv

\* An export that changes no row, and the preview.
LEMMA IdleExportOK ==
  ASSUME IInv, ExportEmpty \/ ExportFails \/ export_preview
  PROVE  StepOK
  <1>1. UNCHANGED <<submissions, nextUniqueId, published>> /\ ExportUnchanged
    BY DEF ExportEmpty, ExportFails, export_preview
  <1>2. answer' \in [kind : {"none", "csv", "empty", "blocked", "error",
                            "preview", "preview error"}, rows : Seq(Ids)]
    <2>1. \/ answer' = [kind |-> "empty", rows |-> <<>>]
          \/ answer' = [kind |-> "error", rows |-> <<>>]
          \/ answer' = [kind |-> "preview", rows |-> <<>>]
          \/ answer' = [kind |-> "preview error", rows |-> <<>>]
      BY DEF ExportEmpty, ExportFails, export_preview
    <2>2. <<>> \in Seq(Ids)
      BY EmptySeq
    <2>3. CASE answer' = [kind |-> "empty", rows |-> <<>>]
      BY <2>2, <2>3
    <2>4. CASE answer' = [kind |-> "error", rows |-> <<>>]
      BY <2>2, <2>4
    <2>5. CASE answer' = [kind |-> "preview", rows |-> <<>>]
      BY <2>2, <2>5
    <2>6. CASE answer' = [kind |-> "preview error", rows |-> <<>>]
      BY <2>2, <2>6
    <2>7. QED
      BY <2>1, <2>3, <2>4, <2>5, <2>6
  <1>3. TypeOK' /\ CatalogNamed'
    BY <1>1, <1>2 DEF IInv, TypeOK, CatalogNamed, ExportUnchanged
  <1>4. QED
    BY <1>1, <1>3, RowsKept DEF StepOK

\* Settings and credits are not part of any row.
LEMMA SettingsOK ==
  ASSUME IInv,
         \/ \E base \in Bases \cup {None}, approval \in BOOLEAN : update_settings(base, approval)
         \/ \E base \in Bases : cmd_set_url(base)
         \/ \E u \in Users, name \in Credits : update_profile(u, name)
  PROVE  StepOK
  <1>1. /\ UNCHANGED <<submissions, pokemon, nextUniqueId, published>>
        /\ answer' = Silence
        /\ publicBaseUrl' \in Bases \cup {None}
        /\ requireApproval' \in BOOLEAN
        /\ displayName' \in [Users -> Credits]
    <2>1. /\ publicBaseUrl \in Bases \cup {None}
          /\ requireApproval \in BOOLEAN
          /\ displayName \in [Users -> Credits]
      BY DEF IInv, TypeOK
    <2>2. CASE \E base \in Bases \cup {None}, approval \in BOOLEAN : update_settings(base, approval)
      BY <2>1, <2>2 DEF update_settings
    <2>3. CASE \E base \in Bases : cmd_set_url(base)
      BY <2>1, <2>3 DEF cmd_set_url
    <2>4. CASE \E u \in Users, name \in Credits : update_profile(u, name)
      BY <2>1, <2>4 DEF update_profile, settingsVars
    <2>5. QED
      BY <2>2, <2>3, <2>4
  <1>2. Silence \in [kind : {"none", "csv", "empty", "blocked", "error",
                            "preview", "preview error"}, rows : Seq(Ids)]
    BY DEF Silence
  <1>3. TypeOK' /\ CatalogNamed'
    BY <1>1, <1>2 DEF IInv, TypeOK, CatalogNamed
  <1>4. QED
    BY <1>1, <1>3, RowsKept DEF StepOK

\* Re-basing moves URLs and nothing else.
LEMMA RebaseOK ==
  ASSUME IInv, NEW to \in Bases \cup {None}, cmd_rebase_urls(to)
  PROVE  StepOK
  <1>1. PICK base \in Bases, moving \in SUBSET Ids :
          /\ submissions' = [id \in Ids |-> IF id \in moving
                                THEN [submissions[id] EXCEPT !.public_url = base]
                                ELSE submissions[id]]
          /\ \A id \in moving : submissions[id].public_url # None
          /\ publicBaseUrl' = base
    <2> DEFINE base == IF to = None THEN publicBaseUrl ELSE to
               moving == {id \in Ids : submissions[id].public_url \notin {None, base}}
    <2>1. base \in Bases
      BY DEF cmd_rebase_urls, IInv, TypeOK
    <2>2. moving \in SUBSET Ids /\ \A id \in moving : submissions[id].public_url # None
      OBVIOUS
    <2>3. /\ submissions' = [id \in Ids |-> IF id \in moving
                                THEN [submissions[id] EXCEPT !.public_url = base]
                                ELSE submissions[id]]
          /\ publicBaseUrl' = base
      BY DEF cmd_rebase_urls
    <2> HIDE DEF base, moving
    <2>4. QED
      BY <2>1, <2>2, <2>3
  <1>2. /\ answer' = Silence
        /\ UNCHANGED <<pokemon, displayName, nextUniqueId, requireApproval, published>>
    BY DEF cmd_rebase_urls
  <1>3. ASSUME NEW id \in Ids
        PROVE  /\ submissions'[id] \in Row
               /\ submissions'[id].status = submissions[id].status
               /\ submissions'[id].pokemon = submissions[id].pokemon
               /\ submissions'[id].user = submissions[id].user
               /\ SamePayload(submissions'[id], submissions[id])
               /\ submissions[id].public_url = None => submissions'[id].public_url = None
    <2>1. PICK old \in Row : old = submissions[id]
      BY DEF IInv, TypeOK
    <2>2. CASE id \in moving
      <3>1. submissions'[id] = [old EXCEPT !.public_url = base] /\ old.public_url # None
        BY <1>1, <2>1, <2>2
      <3>2. QED
        BY <2>1, <3>1 DEF Row, SamePayload
    <2>3. CASE id \notin moving
      BY <1>1, <2>1, <2>3 DEF SamePayload
    <2>4. QED
      BY <2>2, <2>3
  <1>4. submissions' \in [Ids -> Row]
    <2>1. submissions' = [id \in Ids |-> submissions'[id]]
      BY <1>1
    <2>2. QED
      BY <1>3, <2>1
  <1>5. TypeOK' /\ CatalogNamed'
    <2>1. Silence \in [kind : {"none", "csv", "empty", "blocked", "error",
                              "preview", "preview error"}, rows : Seq(Ids)]
      BY DEF Silence
    <2>2. TypeOK'
      BY <1>1, <1>2, <1>4, <2>1 DEF IInv, TypeOK
    <2>3. CatalogNamed'
      BY <1>2, <1>3 DEF IInv, CatalogNamed
    <2>4. QED
      BY <2>2, <2>3
  <1>6. NumberedIffApproved' /\ UnnumberedIsBlank' /\ UniqueIdsDistinct' /\ QuestionWellFormed'
    BY <1>2, <1>3
    DEF IInv, RowsInv, SamePayload, NumberedIffApproved, UnnumberedIsBlank,
        UniqueIdsDistinct, QuestionWellFormed
  <1>7. PublishedStands' /\ PublishedOnce'
    <2>1. \A id \in Ids : /\ submissions'[id].unique_id = submissions[id].unique_id
                          /\ Question(submissions'[id]) = Question(submissions[id])
      BY <1>3 DEF SamePayload, Question
    <2>2. QED
      BY <1>2, <2>1 DEF IInv, RowsInv, PublishedStands, PublishedOnce
  <1>8. KeepsIds
    BY <1>2, <1>3 DEF KeepsIds, SamePayload
  <1>9. QED
    BY <1>5, <1>6, <1>7, <1>8 DEF StepOK, RowsInv, IdStep

\* A re-seed renames Pokemon but never makes one nameless.
LEMMA CatalogOK ==
  ASSUME IInv, NEW seen \in SUBSET Pokemon, NEW rows \in [seen -> Names], apply_catalog(rows)
  PROVE  StepOK
  <1>1. \A p \in Pokemon : pokemon[p] \in [display_name : Names \cup {None}, enabled : BOOLEAN]
    BY DEF IInv, TypeOK
  <1>2. /\ pokemon' = [p \in Pokemon |->
             IF p \notin seen THEN [pokemon[p] EXCEPT !.enabled = FALSE]
             ELSE [display_name |-> rows[p],
                   enabled |-> pokemon[p].display_name = None \/ pokemon[p].enabled]]
        /\ answer' = Silence
        /\ UNCHANGED <<submissions, displayName, settingsVars, published>>
    BY DEF apply_catalog
  <1>3. ASSUME NEW p \in Pokemon
        PROVE  /\ pokemon'[p] \in [display_name : Names \cup {None}, enabled : BOOLEAN]
               /\ pokemon'[p].enabled => pokemon'[p].display_name # None
               /\ pokemon[p].display_name # None => pokemon'[p].display_name # None
    <2>1. CASE p \in seen
      <3>1. rows[p] \in Names /\ rows[p] # None
        BY <2>1, NoneAssumption
      <3>2. PICK b \in BOOLEAN : b = (pokemon[p].display_name = None \/ pokemon[p].enabled)
        BY <1>1
      <3>3. pokemon'[p] = [display_name |-> rows[p], enabled |-> b]
        BY <1>2, <2>1, <3>2
      <3>4. QED
        BY <3>1, <3>3
    <2>2. CASE p \notin seen
      <3>1. pokemon'[p] = [pokemon[p] EXCEPT !.enabled = FALSE]
        BY <1>2, <2>2
      <3>2. QED
        BY <1>1, <3>1
    <2>3. QED
      BY <2>1, <2>2
  <1>4. TypeOK'
    <2>1. Silence \in [kind : {"none", "csv", "empty", "blocked", "error",
                              "preview", "preview error"}, rows : Seq(Ids)]
      BY DEF Silence
    <2>2. pokemon' \in [Pokemon -> [display_name : Names \cup {None}, enabled : BOOLEAN]]
      BY <1>2, <1>3
    <2>3. QED
      BY <1>2, <2>1, <2>2 DEF IInv, TypeOK, settingsVars
  <1>5. CatalogNamed'
    BY <1>2, <1>3 DEF IInv, CatalogNamed
  <1>6. RowsInv' /\ IdStep
    BY <1>2, RowsKept DEF settingsVars
  <1>7. QED
    BY <1>4, <1>5, <1>6 DEF StepOK

-----------------------------------------------------------------------------
(* The invariant.                                                          *)

\* An empty table has nothing to be wrong.
LEMMA InitOK == Init => IInv
  <1> SUFFICES ASSUME Init PROVE IInv
    OBVIOUS
  <1>1. <<>> \in Seq(Names) /\ 0 \in 0..OptionCount /\ 0 \in Nat
    BY BoundsAssumption
  <1>2. PICK none \in Row : none = NoRow /\ none.status = "absent" /\ Blank(none)
    <2>1. NoRow \in Row /\ NoRow.status = "absent" /\ Blank(NoRow)
      BY <1>1 DEF Row, Statuses, NoRow, Blank
    <2>2. QED
      BY <2>1
  <1>3. submissions \in [Ids -> Row] /\ \A id \in Ids : submissions[id] = none
    BY <1>2 DEF Init
  <1>4. Silence \in [kind : {"none", "csv", "empty", "blocked", "error",
                            "preview", "preview error"}, rows : Seq(Ids)]
    BY DEF Silence
  <1>5. TypeOK
    <2>1. pokemon \in [Pokemon -> [display_name : Names \cup {None}, enabled : BOOLEAN]]
      BY DEF Init
    <2>2. /\ displayName \in [Users -> Credits]
          /\ nextUniqueId \in Nat \ {0}
          /\ publicBaseUrl \in Bases \cup {None}
          /\ requireApproval \in BOOLEAN
      <3>1. /\ displayName \in [Users -> Credits] /\ nextUniqueId = 1
            /\ publicBaseUrl = None /\ requireApproval = FALSE
        BY Zenon DEF Init
      <3>2. requireApproval \in BOOLEAN
        BY <3>1, Zenon
      <3>3. /\ displayName \in [Users -> Credits] /\ nextUniqueId \in Nat \ {0}
            /\ publicBaseUrl \in Bases \cup {None}
        BY <3>1
      <3>4. QED
        BY <3>2, <3>3, Zenon
    <2>3. answer = Silence /\ published = {}
      BY DEF Init
    <2>4. QED
      BY <1>3, <1>4, <2>1, <2>2, <2>3 DEF TypeOK
  <1>6. CatalogNamed
    BY <1>2, <1>3 DEF Init, CatalogNamed
  <1>7. RowsInv
    <2>1. NumberedIffApproved /\ UnnumberedIsBlank /\ UniqueIdsDistinct /\ QuestionWellFormed
      BY <1>2, <1>3
      DEF Init, Blank, NumberedIffApproved, UnnumberedIsBlank, UniqueIdsDistinct, QuestionWellFormed
    <2>2. PublishedStands /\ PublishedOnce
      BY DEF Init, PublishedStands, PublishedOnce
    <2>3. QED
      BY <2>1, <2>2 DEF RowsInv
  <1>8. QED
    BY <1>5, <1>6, <1>7 DEF IInv

\* The invariant is inductive, and every step is a step of the ids.
LEMMA NextOK ==
  ASSUME IInv, [Next]_vars
  PROVE  IInv' /\ IdStep
  <1>1. ASSUME Next PROVE StepOK
    <2>1. ASSUME NEW id \in Ids,
                 \/ \E p \in Pokemon, u \in Users : create_submission(id, p, u)
                 \/ approve(id) \/ unapprove(id) \/ reject(id) \/ unreject(id) \/ delete(id)
          PROVE  StepOK
      BY <2>1, CreateOK, ApproveOK, LeaveOK, UnrejectOK
    <2>2. ASSUME export \/ export_preview PROVE StepOK
      BY <2>2, CsvOK, RefusedOK, IdleExportOK DEF export
    <2>3. QED
      BY <1>1, <2>1, <2>2, SettingsOK, RebaseOK, CatalogOK DEF Next
  <1>2. ASSUME UNCHANGED vars PROVE StepOK
    <2>1. TypeOK' /\ CatalogNamed'
      BY <1>2 DEF IInv, TypeOK, CatalogNamed, vars, settingsVars
    <2>2. QED
      BY <1>2, <2>1, RowsKept DEF StepOK, vars, settingsVars
  <1>3. QED
    BY <1>1, <1>2 DEF StepOK, IInv

-----------------------------------------------------------------------------
(* The theorems.                                                           *)

\* Every column always holds a value of its type.
THEOREM Typed == Spec => []TypeOK
  <1>1. IInv /\ [Next]_vars => IInv'
    BY NextOK
  <1>2. IInv => TypeOK
    BY DEF IInv
  <1>3. QED
    BY InitOK, <1>1, <1>2, PTL DEF Spec

\* A drawing has a uniqueId only while it is approved, and without a crash
\* whenever it is; outside the pack it keeps nothing of its question; ids are
\* distinct and behind the counter.
THEOREM IdsAreSound ==
    Spec => [](NumberedIffApproved /\ UnnumberedIsBlank /\ UniqueIdsDistinct)
  <1>1. IInv /\ [Next]_vars => IInv'
    BY NextOK
  <1>2. IInv => NumberedIffApproved /\ UnnumberedIsBlank /\ UniqueIdsDistinct
    BY DEF IInv, RowsInv
  <1>3. QED
    BY InitOK, <1>1, <1>2, PTL DEF Spec

\* Every frozen question has OptionCount different names and a letter for one of
\* them.  That it is the right one is AlwaysFair.
THEOREM QuestionsWellFormed == Spec => []QuestionWellFormed
  <1>1. IInv /\ [Next]_vars => IInv'
    BY NextOK
  <1>2. IInv => QuestionWellFormed
    BY DEF IInv, RowsInv
  <1>3. QED
    BY InitOK, <1>1, <1>2, PTL DEF Spec

\* All CSV files ever sent agree on what a uniqueId asks: the options, the letter
\* and the credit (re-exports, export.py:122-187).  That it is always the same
\* drawing's id is IdsAreSound and IdsAreRetiredForGood.
THEOREM ShippedOnce == Spec => []PublishedOnce
  <1>1. IInv /\ [Next]_vars => IInv'
    BY NextOK
  <1>2. IInv => PublishedOnce
    BY DEF IInv, RowsInv
  <1>3. QED
    BY InitOK, <1>1, <1>2, PTL DEF Spec

\* The lifecycle implements the abstract ledger of uniqueIds.
THEOREM ImplementsLedger == Spec => LedgerSpec
  <1>1. Init => Ledger!Init
    <2>1. ASSUME Init PROVE Ledger!Init
      <3>1. \A id \in Ids : submissions[id].unique_id = 0
        BY <2>1 DEF Init, NoRow
      <3>2. nextUniqueId = 1
        BY <2>1 DEF Init
      <3>3. QED
        BY <3>1, <3>2 DEF Ledger!Init
    <2>2. QED
      BY <2>1
  <1>2. IInv /\ [Next]_vars => IInv'
    BY NextOK
  <1>3. IInv /\ [Next]_vars => [Ledger!Next]_(Ledger!ledgerVars)
    <2>1. SUFFICES ASSUME IInv, [Next]_vars PROVE [Ledger!Next]_(Ledger!ledgerVars)
      OBVIOUS
    <2>2. IInv' /\ IdStep
      BY <2>1, NextOK
    <2>3. /\ TypeOK /\ UniqueIdsDistinct'
          /\ nextUniqueId' \in Nat \ {0} /\ submissions' \in [Ids -> Row]
      BY <2>1, <2>2 DEF IInv, RowsInv, TypeOK
    <2>4. QED
      BY <2>2, <2>3, LedgerStep
  <1>4. QED
    BY InitOK, <1>1, <1>2, <1>3, PTL DEF Spec, LedgerSpec, Ledger!Spec

\* A uniqueId that leaves the pack never comes back, and the counter never goes
\* back to it.
THEOREM IdsAreRetiredForGood == Spec => RetiredForGood
  <1>1. IInv /\ [Next]_vars => IInv'
    BY NextOK
  <1>2. ASSUME IInv, [Next]_vars
        PROVE  /\ nextUniqueId' >= nextUniqueId
               /\ \A uid \in 1..(nextUniqueId - 1) : ~Live(uid) => ~Live(uid)'
    <2>1. IInv' /\ IdStep
      BY <1>2, NextOK
    <2>2. nextUniqueId \in Nat \ {0} /\ nextUniqueId' \in Nat \ {0}
      BY <1>2, <2>1 DEF IInv, TypeOK
    <2>3. nextUniqueId' >= nextUniqueId
      <3>1. ASSUME NEW U \in SUBSET Ids, Issues(U) PROVE nextUniqueId' >= nextUniqueId
        <4>1. nextUniqueId' = nextUniqueId + Cardinality(U)
          BY <3>1 DEF Issues
        <4>2. QED
          BY <2>2, <4>1, Ranks
      <3>2. QED
        BY <2>1, <2>2, <3>1 DEF IdStep, Retires, KeepsIds
    <2>4. ASSUME NEW uid \in 1..(nextUniqueId - 1), Live(uid)' PROVE Live(uid)
      <3>1. PICK id \in Ids : submissions'[id].unique_id = uid
        BY <2>4 DEF Live
      <3>2. submissions[id].unique_id = uid
        <4>1. CASE \E U \in SUBSET Ids : Issues(U)
          BY <2>2, <3>1, <4>1 DEF Issues
        <4>2. CASE \E i \in Ids : Retires(i)
          BY <2>2, <3>1, <4>2 DEF Retires
        <4>3. CASE KeepsIds
          BY <3>1, <4>3 DEF KeepsIds
        <4>4. QED
          BY <2>1, <4>1, <4>2, <4>3 DEF IdStep
      <3>3. QED
        BY <3>2 DEF Live
    <2>5. QED
      BY <2>3, <2>4
  <1>3. QED
    BY InitOK, <1>1, <1>2, PTL DEF Spec, RetiredForGood
-----------------------------------------------------------------------------
(* How each kind of step treats the question of one row.                   *)

\* The right name stands where the letter says, and the others are enabled.
Fair(row) ==
    LET correct == pokemon[row.pokemon].display_name
    IN  /\ row.options_json[row.correct_letter] = correct
        /\ \A name \in ToSet(row.options_json) \ {correct} :
             \E p \in Pokemon : pokemon[p].enabled /\ pokemon[p].display_name = name

\* What the row had it keeps, and what it gains is fair.
Completes(old, new) ==
    /\ old.options_json # <<>> =>
         /\ new.options_json = old.options_json
         /\ new.correct_letter = old.correct_letter
    /\ old.options_json = <<>> => new.options_json = <<>> \/ Fair(new)
    /\ old.credit_name # None => new.credit_name = old.credit_name
    /\ old.public_url # None => new.public_url = old.public_url

\* Only the URL may differ, because URLs are being re-based.
Rebased(old, new) ==
    /\ SamePayload(new, old)
    /\ \E to \in Bases \cup {None} : cmd_rebase_urls(to)

\* What any step does to any row.
RowStep(old, new) ==
    \/ Completes(old, new)
    \/ Blank(new)
    \/ Blank(old) /\ (new.options_json = <<>> \/ Fair(new))
    \/ Rebased(old, new)

\* A row that is left alone, but for its status.
LEMMA SameRow ==
  ASSUME NEW old, NEW new, SamePayload(new, old), new.public_url = old.public_url
  PROVE  RowStep(old, new)
  BY DEF SamePayload, RowStep, Completes

\* Questions built from the enabled names are fair.
LEMMA FairQuestion ==
  ASSUME TypeOK, CatalogNamed, NEW row \in Row, row.pokemon \in Pokemon,
         pokemon[row.pokemon].display_name # None, row.options_json = <<>>,
         NEW q \in QuestionsFor(row),
         NEW new, new.pokemon = row.pokemon,
         new.options_json = q.options, new.correct_letter = q.letter
  PROVE  new.options_json = <<>> \/ Fair(new)
  <1> DEFINE correct == pokemon[row.pokemon].display_name
             pool == enabled_names
  <1>1. CASE q = [options |-> row.options_json, letter |-> row.correct_letter]
    BY <1>1
  <1>2. CASE q \in build_options(pool, correct)
    <2>1. build_options(pool, correct) \subseteq GoodQuestions(pool \cup {correct}, correct)
      <3>1. PICK S : S = pool \cup {correct}
        OBVIOUS
      <3>2. pool \in SUBSET S /\ correct \in S
        BY <3>1
      <3> HIDE DEF pool, correct
      <3>3. build_options(pool, correct) \subseteq GoodQuestions(S, correct)
        BY <3>2, BuildOptionsSound
      <3>4. QED
        BY <3>1, <3>3
    <2> HIDE DEF pool, correct
    <2>2. q \in GoodQuestions(pool \cup {correct}, correct)
      BY <1>2, <2>1
    <2>3. q.options \in Seq(pool \cup {correct}) /\ q.options[q.letter] = correct
      BY <2>2 DEF GoodQuestions
    <2>4. ASSUME NEW name \in ToSet(new.options_json) \ {correct}
          PROVE  \E p \in Pokemon : pokemon[p].enabled /\ pokemon[p].display_name = name
      <3>1. PICK i \in DOMAIN q.options : name = q.options[i]
        BY DEF ToSet
      <3>2. name \in pool
        BY <2>3, <3>1
      <3>3. QED
        BY <3>2 DEF pool, enabled_names
    <2>5. QED
      BY <2>3, <2>4 DEF Fair, correct
  <1>3. QED
    BY <1>1, <1>2 DEF QuestionsFor

\* freeze() asks a fair question, or none, of a row that had no id.
LEMMA FreezeRows ==
  ASSUME IInv, NEW id \in Ids, NEW row \in Row,
         row.user \in Users, row.pokemon \in Pokemon,
         pokemon[row.pokemon].display_name # None,
         SamePayload(row, submissions[id]), row.public_url = submissions[id].public_url,
         freeze(id, row), NEW i \in Ids
  PROVE  RowStep(submissions[i], submissions'[i])
  <1>1. submissions \in [Ids -> Row]
    BY DEF IInv, TypeOK
  <1>2. CASE row.unique_id # NoUid
    <2>1. submissions' = [submissions EXCEPT ![id] = row]
      BY <1>2 DEF freeze
    <2>2. CASE i = id
      <3>1. submissions'[i] = row
        BY <1>1, <2>1, <2>2
      <3>2. QED
        BY <2>2, <3>1, SameRow
    <2>3. CASE i # id
      BY <1>1, <2>1, <2>3, SameRow DEF SamePayload
    <2>4. QED
      BY <2>2, <2>3
  <1>3. CASE row.unique_id = NoUid
    <2>1. PICK q \in QuestionsFor(row) : submissions' = [submissions EXCEPT ![id] = Frozen(row, q)]
      BY <1>3 DEF freeze
    <2>2. Blank(submissions[id])
      BY <1>3, BlankIfUnnumbered DEF SamePayload
    <2>3. row.options_json = <<>>
      BY <2>2 DEF Blank, SamePayload
    <2>4. PICK new : new = Frozen(row, q)
      OBVIOUS
    <2>5. new.pokemon = row.pokemon /\ new.options_json = q.options /\ new.correct_letter = q.letter
      BY <2>4 DEF Frozen, Row
    <2>6. new.options_json = <<>> \/ Fair(new)
      BY <2>3, <2>5, FairQuestion DEF IInv
    <2>7. CASE i = id
      <3>1. submissions'[i] = new
        BY <1>1, <2>1, <2>4, <2>7
      <3>2. QED
        BY <2>2, <2>6, <2>7, <3>1 DEF RowStep
    <2>8. CASE i # id
      BY <1>1, <2>1, <2>8, SameRow DEF SamePayload
    <2>9. QED
      BY <2>7, <2>8
  <1>4. QED
    BY <1>2, <1>3

\* A row that becomes blank, or changes its status only.
LEMMA OneRow ==
  ASSUME IInv, NEW id \in Ids, NEW new,
         Blank(new) \/ (SamePayload(new, submissions[id]) /\ new.public_url = submissions[id].public_url),
         submissions' = [submissions EXCEPT ![id] = new], NEW i \in Ids
  PROVE  RowStep(submissions[i], submissions'[i])
  <1>1. submissions'[i] = IF i = id THEN new ELSE submissions[i]
    BY DEF IInv, TypeOK
  <1>2. CASE i = id
    BY <1>1, <1>2, SameRow DEF RowStep
  <1>3. CASE i # id
    BY <1>1, <1>3, SameRow DEF SamePayload
  <1>4. QED
    BY <1>2, <1>3

\* A row of a drawing with another status is the same row.
LEMMA Restated ==
  ASSUME NEW old \in Row, NEW status \in Statuses, NEW new, new = [old EXCEPT !.status = status]
  PROVE  /\ new \in Row /\ new.user = old.user /\ new.pokemon = old.pokemon
         /\ SamePayload(new, old) /\ new.public_url = old.public_url
  BY DEF Row, SamePayload

\* A row of a new drawing has no question yet.
LEMMA NewRowBlank ==
  ASSUME NEW p \in Pokemon, NEW u \in Users, NEW status \in {"pending", "approved"}
  PROVE  /\ NewRow(p, u, status) \in Row
         /\ NewRow(p, u, status).user = u
         /\ NewRow(p, u, status).pokemon = p
         /\ Blank(NewRow(p, u, status))
         /\ SamePayload(NewRow(p, u, status), NoRow)
         /\ NewRow(p, u, status).public_url = NoRow.public_url
  <1>1. <<>> \in Seq(Names) /\ 0 \in 0..OptionCount /\ 0 \in Nat
    BY BoundsAssumption
  <1>2. PICK none \in Row : none = NoRow /\ Blank(none)
    <2>1. NoRow \in Row /\ Blank(NoRow)
      BY <1>1 DEF Row, Statuses, Blank, NoRow
    <2>2. QED
      BY <2>1
  <1>3. PICK new : new = [none EXCEPT !.status = status, !.pokemon = p, !.user = u]
    OBVIOUS
  <1>4. /\ new \in Row /\ new.user = u /\ new.pokemon = p
        /\ SamePayload(new, none) /\ new.public_url = none.public_url
    BY <1>3 DEF Row, Statuses, SamePayload
  <1>5. Blank(new)
    BY <1>2, <1>4 DEF Blank, SamePayload
  <1>6. new = NewRow(p, u, status)
    BY <1>2, <1>3, Zenon DEF NewRow
  <1>7. QED
    BY <1>2, <1>4, <1>5, <1>6

\* A new submission fills an absent row.
LEMMA CreateRows ==
  ASSUME IInv, NEW id \in Ids, NEW p \in Pokemon, NEW u \in Users,
         create_submission(id, p, u), NEW i \in Ids
  PROVE  RowStep(submissions[i], submissions'[i])
  <1>1. submissions[id] = NoRow /\ pokemon[p].display_name # None
    BY DEF create_submission, NextId
  <1>2. CASE SubmitApproved(id, p, u)
    <2>1. PICK row : row = NewRow(p, u, "approved")
      OBVIOUS
    <2>2. /\ row \in Row /\ row.user = u /\ row.pokemon = p
          /\ SamePayload(row, NoRow) /\ row.public_url = NoRow.public_url
      BY <2>1, NewRowBlank
    <2>3. freeze(id, row)
      BY <1>2, <2>1 DEF SubmitApproved
    <2>4. QED
      BY <1>1, <2>2, <2>3, FreezeRows
  <1>3. ASSUME NEW status \in {"pending", "approved"},
               submissions' = [submissions EXCEPT ![id] = NewRow(p, u, status)]
        PROVE  RowStep(submissions[i], submissions'[i])
    <2>1. Blank(NewRow(p, u, status))
      BY NewRowBlank
    <2>2. QED
      BY <1>3, <2>1, OneRow
  <1>4. CASE SubmitPending(id, p, u) \/ SubmitTorn(id, p, u)
    BY <1>3, <1>4 DEF SubmitPending, SubmitTorn
  <1>5. QED
    BY <1>2, <1>4 DEF create_submission

\* An approval completes a row.
LEMMA EnterRows ==
  ASSUME IInv, NEW id \in Ids, submissions[id].status # "absent",
         freeze(id, [submissions[id] EXCEPT !.status = "approved"]), NEW i \in Ids
  PROVE  RowStep(submissions[i], submissions'[i])
  <1>1. PICK old \in Row : old = submissions[id]
    BY RowNamed
  <1>2. PICK row : row = [old EXCEPT !.status = "approved"]
    OBVIOUS
  <1>3. /\ row \in Row /\ row.user = old.user /\ row.pokemon = old.pokemon
        /\ SamePayload(row, old) /\ row.public_url = old.public_url
    BY <1>2, Restated DEF Statuses
  <1>4. /\ old.user \in Users /\ old.pokemon \in Pokemon
        /\ pokemon[old.pokemon].display_name # None
    BY <1>1, RowNamed
  <1>5. QED
    BY <1>1, <1>2, <1>3, <1>4, FreezeRows

\* What takes a drawing from the catalog blanks its row, or leaves the question.
LEMMA LeaveRows ==
  ASSUME IInv, NEW id \in Ids, unapprove(id) \/ reject(id) \/ delete(id), NEW i \in Ids
  PROVE  RowStep(submissions[i], submissions'[i])
  <1>1. PICK old \in Row : old = submissions[id]
    BY DEF IInv, TypeOK
  <1>2. ASSUME NEW status \in {"pending", "rejected", "deleted"},
               submissions' = [submissions EXCEPT ![id] = [Retired(old) EXCEPT !.status = status]]
        PROVE  RowStep(submissions[i], submissions'[i])
    <2>1. Blank([Retired(old) EXCEPT !.status = status])
      BY RetiredRow DEF Statuses
    <2>2. QED
      BY <1>2, <2>1, OneRow
  <1>3. CASE reject(id) /\ old.status # "approved"
    <2>1. PICK new : new = [old EXCEPT !.status = "rejected"]
      OBVIOUS
    <2>2. submissions' = [submissions EXCEPT ![id] = new]
      BY <1>1, <1>3, <2>1 DEF reject, AfterReject
    <2>3. SamePayload(new, old) /\ new.public_url = old.public_url
      BY <2>1, Restated DEF Statuses
    <2>4. QED
      BY <1>1, <2>2, <2>3, OneRow
  <1>4. CASE reject(id) /\ old.status = "approved"
    BY <1>1, <1>2, <1>4 DEF reject, AfterReject
  <1>5. QED
    BY <1>1, <1>2, <1>3, <1>4 DEF unapprove, delete

\* What is taken back from the rejected is approved or waits.
LEMMA UnrejectRows ==
  ASSUME IInv, NEW id \in Ids, unreject(id), NEW i \in Ids
  PROVE  RowStep(submissions[i], submissions'[i])
  <1>1. CASE requireApproval
    <2>1. PICK old \in Row : old = submissions[id]
      BY DEF IInv, TypeOK
    <2>2. PICK new : new = [old EXCEPT !.status = "pending"]
      OBVIOUS
    <2>3. submissions' = [submissions EXCEPT ![id] = new]
      BY <1>1, <2>1, <2>2 DEF unreject
    <2>4. SamePayload(new, old) /\ new.public_url = old.public_url
      BY <2>2, Restated DEF Statuses
    <2>5. QED
      BY <2>1, <2>3, <2>4, OneRow
  <1>2. CASE ~requireApproval
    BY <1>2, EnterRows DEF unreject
  <1>3. QED
    BY <1>1, <1>2

\* ensure_frozen adds to the rows it is about.
LEMMA EnsureRows ==
  ASSUME IInv, NEW S \in SUBSET Approved, ensure_frozen(S), NEW i \in Ids
  PROVE  /\ RowStep(submissions[i], submissions'[i])
         /\ submissions[i].unique_id # NoUid => submissions'[i].unique_id = submissions[i].unique_id
         /\ i \in S => \/ submissions'[i].public_url # None
                       \/ submissions[i].public_url = None /\ publicBaseUrl = None
  <1>1. PICK question \in [Unasked(S) -> AnyQuestion] :
          /\ \A id \in Unasked(S) : question[id] \in QuestionsFor(submissions[id])
          /\ submissions' = [id \in Ids |->
               IF id \notin S THEN submissions[id]
               ELSE Completed(submissions[id], nextUniqueId + Rank(Unnumbered(S), id),
                              IF id \in Unasked(S) THEN question[id] ELSE {})]
    BY Zenon DEF ensure_frozen
  <1>2. CASE i \notin S
    <2>1. submissions'[i] = submissions[i]
      BY <1>1, <1>2
    <2>2. QED
      BY <1>2, <2>1, SameRow DEF SamePayload
  <1>3. CASE i \in S
    <2>1. submissions[i].status # "absent"
      BY <1>3 DEF Approved
    <2>2. PICK row \in Row : row = submissions[i]
      BY <2>1, RowNamed
    <2>3. row.pokemon \in Pokemon /\ pokemon[row.pokemon].display_name # None
      BY <2>1, <2>2, RowNamed
    <2>4. PICK uid, q : /\ submissions'[i] = Completed(row, uid, q)
                        /\ row.options_json = <<>> => q \in QuestionsFor(row)
      <3>1. i \in Unasked(S) <=> row.options_json = <<>>
        BY <1>3, <2>2 DEF Unasked
      <3>2. CASE i \in Unasked(S)
        <4>1. submissions'[i] = Completed(row, nextUniqueId + Rank(Unnumbered(S), i), question[i])
          BY <1>1, <1>3, <2>2, <3>2
        <4>2. question[i] \in QuestionsFor(row)
          BY <1>1, <2>2, <3>2
        <4>3. QED
          BY <4>1, <4>2, Zenon
      <3>3. CASE i \notin Unasked(S)
        <4>1. submissions'[i] = Completed(row, nextUniqueId + Rank(Unnumbered(S), i), {})
          BY <1>1, <1>3, <2>2, <3>3
        <4>2. QED
          BY <3>1, <3>3, <4>1, Zenon
      <3>4. QED
        BY <3>2, <3>3
    <2>5. PICK new : new = Completed(row, uid, q)
      OBVIOUS
    <2>6. /\ new.pokemon = row.pokemon
          /\ new.unique_id = IF row.unique_id = NoUid THEN uid ELSE row.unique_id
          /\ new.options_json = IF row.options_json = <<>> THEN q.options ELSE row.options_json
          /\ new.correct_letter = IF row.options_json = <<>> THEN q.letter ELSE row.correct_letter
          /\ row.credit_name # None => new.credit_name = row.credit_name
          /\ new.public_url = IF row.public_url = None THEN publicBaseUrl ELSE row.public_url
      BY <2>5 DEF Completed, Row
    <2>7. row.options_json = <<>> => new.options_json = <<>> \/ Fair(new)
      <3>1. SUFFICES ASSUME row.options_json = <<>>
                     PROVE  new.options_json = <<>> \/ Fair(new)
        OBVIOUS
      <3>2. q \in QuestionsFor(row) /\ new.options_json = q.options /\ new.correct_letter = q.letter
        BY <2>4, <2>6, <3>1
      <3>3. QED
        BY <2>3, <2>6, <3>1, <3>2, FairQuestion DEF IInv
    <2>8. Completes(row, new)
      BY <2>6, <2>7 DEF Completes
    <2>9. QED
      BY <2>2, <2>4, <2>5, <2>6, <2>8 DEF RowStep
  <1>4. QED
    BY <1>2, <1>3

\* A new base URL rebases the rows that are published.
LEMMA RebaseRows ==
  ASSUME IInv, NEW to \in Bases \cup {None}, cmd_rebase_urls(to), NEW i \in Ids
  PROVE  RowStep(submissions[i], submissions'[i])
  <1> DEFINE base == IF to = None THEN publicBaseUrl ELSE to
             moving == {id \in Ids : submissions[id].public_url \notin {None, base}}
  <1>1. submissions' = [id \in Ids |-> IF id \in moving
                                THEN [submissions[id] EXCEPT !.public_url = base]
                                ELSE submissions[id]]
    BY DEF cmd_rebase_urls
  <1> HIDE DEF base, moving
  <1>2. PICK old \in Row : old = submissions[i]
    BY DEF IInv, TypeOK
  <1>3. submissions'[i] = old \/ submissions'[i] = [old EXCEPT !.public_url = base]
    BY <1>1, <1>2
  <1>4. SamePayload(submissions'[i], old)
    BY <1>3 DEF Row, SamePayload
  <1>5. QED
    BY <1>2, <1>4 DEF RowStep, Rebased

\* Any step treats any row in one of these ways.
LEMMA EveryRow ==
  ASSUME IInv, Next, NEW i \in Ids
  PROVE  RowStep(submissions[i], submissions'[i])
  <1>1. ASSUME NEW id \in Ids,
               \/ \E p \in Pokemon, u \in Users : create_submission(id, p, u)
               \/ approve(id) \/ unapprove(id) \/ reject(id) \/ unreject(id) \/ delete(id)
        PROVE  RowStep(submissions[i], submissions'[i])
    <2>1. CASE approve(id)
      BY <2>1, EnterRows DEF approve
    <2>2. QED
      BY <1>1, <2>1, CreateRows, LeaveRows, UnrejectRows
  <1>2. ASSUME export \/ export_preview
        PROVE  RowStep(submissions[i], submissions'[i])
    <2>1. CASE \E S \in SUBSET Approved : ensure_frozen(S)
      BY <2>1, EnsureRows
    <2>2. CASE submissions' = submissions
      BY <2>2, SameRow DEF SamePayload
    <2>3. QED
      <3>1. ExportCsv => ensure_frozen(Approved)
        BY DEF ExportCsv
      <3>2. ExportRefused => \E S \in SUBSET Approved : ensure_frozen(S)
        <4>1. SUFFICES ASSUME ExportRefused PROVE \E S \in SUBSET Approved : ensure_frozen(S)
          OBVIOUS
        <4>2. PICK first \in Approved :
                ensure_frozen({id \in Approved : id = first \/ Precedes(id, first)})
          BY <4>1 DEF ExportRefused
        <4>3. QED
          BY <4>2
      <3>3. ExportEmpty \/ ExportFails \/ export_preview => submissions' = submissions
        BY DEF ExportEmpty, ExportFails, export_preview
      <3>4. QED
        BY <1>2, <2>1, <2>2, <3>1, <3>2, <3>3 DEF export
  <1>3. ASSUME \E to \in Bases \cup {None} : cmd_rebase_urls(to)
        PROVE  RowStep(submissions[i], submissions'[i])
    BY <1>3, RebaseRows
  <1>4. ASSUME submissions' = submissions
        PROVE  RowStep(submissions[i], submissions'[i])
    BY <1>4, SameRow DEF SamePayload
  <1>5. QED
    BY <1>1, <1>2, <1>3, <1>4
      DEF Next, update_settings, cmd_set_url, update_profile, apply_catalog

\* While a drawing keeps its uniqueId its question and credit stay, and only
\* rebase-urls moves its URL.
THEOREM FrozenForGood == Spec => FrozenOnce
  <1> DEFINE Kept(old, new) ==
               old.unique_id # NoUid /\ new.unique_id = old.unique_id =>
                 /\ old.options_json # <<>> =>
                      /\ new.options_json = old.options_json
                      /\ new.correct_letter = old.correct_letter
                 /\ old.credit_name # None => new.credit_name = old.credit_name
                 /\ old.public_url \notin {None, new.public_url} =>
                      \E to \in Bases \cup {None} : cmd_rebase_urls(to)
  <1>1. ASSUME NEW old, NEW new, RowStep(old, new) PROVE Kept(old, new)
    BY <1>1 DEF RowStep, Completes, Blank, Rebased, SamePayload
  <1> HIDE DEF Kept
  <1>2. IInv /\ [Next]_vars => IInv'
    BY NextOK
  <1>3. IInv /\ [Next]_vars => [\A id \in Ids : Kept(submissions[id], submissions'[id])]_vars
    BY <1>1, EveryRow
  <1>4. QED
    BY InitOK, <1>2, <1>3, PTL DEF Spec, FrozenOnce, Kept

\* Whenever a question is written the right name is right, and the others are
\* names of Pokemon that are enabled.
THEOREM AlwaysFair == Spec => AskedFairly
  <1> DEFINE Asked(old, new) ==
               old.options_json # new.options_json /\ new.options_json # <<>>
                 => LET correct == pokemon[new.pokemon].display_name
                    IN  /\ new.options_json[new.correct_letter] = correct
                        /\ \A name \in ToSet(new.options_json) \ {correct} :
                             \E p \in Pokemon : pokemon[p].enabled /\ pokemon[p].display_name = name
  <1>1. ASSUME NEW old, NEW new, RowStep(old, new) PROVE Asked(old, new)
    BY <1>1 DEF RowStep, Completes, Blank, Rebased, SamePayload, Fair
  <1> HIDE DEF Asked
  <1>2. IInv /\ [Next]_vars => IInv'
    BY NextOK
  <1>3. IInv /\ [Next]_vars => [\A id \in Ids : Asked(submissions[id], submissions'[id])]_vars
    BY <1>1, EveryRow
  <1>4. QED
    BY InitOK, <1>2, <1>3, PTL DEF Spec, AskedFairly, Asked


-----------------------------------------------------------------------------
(* The CSV.                                                                *)

\* In an order that Precedes respects no row comes twice, so it has them all.
LEMMA OrderComplete ==
  ASSUME IInv, NEW order \in [1..Cardinality(Approved) -> Approved],
         \A i, j \in 1..Cardinality(Approved) : i < j => Precedes(order[i], order[j])
  PROVE  IsInjective(order) /\ ToSet(order) = Approved
  <1>1. IsFiniteSet(Approved) /\ Cardinality(Approved) \in Nat
    <2>1. IsFiniteSet(1..MaxSubmission)
      BY FS_Interval, BoundsAssumption
    <2>2. Approved \subseteq 1..MaxSubmission
      BY DEF Approved
    <2>3. QED
      BY <2>1, <2>2, FS_Subset, FS_CardinalityType
  <1>2. PICK n \in Nat : n = Cardinality(Approved)
    BY <1>1
  <1>3. order \in [1..n -> Approved] /\ DOMAIN order = 1..n
    BY <1>2
  <1>4. ASSUME NEW id \in Approved PROVE ~Precedes(id, id)
    <2>1. id \in Ids
      BY DEF Approved
    <2>2. submissions[id] \in Row
      BY <2>1 DEF IInv, TypeOK
    <2>3. submissions[id].unique_id \in Nat
      BY <2>2 DEF Row
    <2>4. id \in Nat
      BY <2>1, BoundsAssumption
    <2>5. QED
      BY <2>3, <2>4 DEF Precedes
  <1>5. \A i, j \in 1..n : order[i] = order[j] => i = j
    <2>1. SUFFICES ASSUME NEW i \in 1..n, NEW j \in 1..n, order[i] = order[j], i < j PROVE FALSE
      OBVIOUS
    <2>2. Precedes(order[i], order[i])
      BY <1>2, <2>1
    <2>3. QED
      BY <1>3, <1>4, <2>2
  <1>6. order \in Injection(1..n, Approved)
    BY <1>3, <1>5 DEF Injection, IsInjective
  <1>7. Cardinality(1..n) = n
    BY FS_Interval
  <1>8. order \in Surjection(1..n, Approved)
    BY <1>1, <1>2, <1>6, <1>7, FS_Injection
  <1>9. ToSet(order) = Approved
    BY <1>3, <1>8 DEF Surjection, ToSet
  <1>10. QED
    BY <1>3, <1>5, <1>9 DEF IsInjective

\* A CSV that is sent is complete.
LEMMA CsvSent ==
  ASSUME IInv, IInv', ExportCsv
  PROVE  CsvComplete'
  <1>1. ensure_frozen(Approved) /\ \A id \in Approved : ~Starved(id) /\ ~Blocked(id)
    BY DEF ExportCsv
  <1>2. PICK order \in [1..Cardinality(Approved) -> Approved] :
          /\ \A i, j \in 1..Cardinality(Approved) : i < j => Precedes(order[i], order[j])
          /\ answer' = [kind |-> "csv", rows |-> order]
    BY DEF ExportCsv
  <1>3. IsInjective(order) /\ ToSet(order) = Approved
    BY <1>2, OrderComplete
  <1>4. /\ \A id \in Ids : submissions'[id].status = submissions[id].status
        /\ \A id \in Approved :
             /\ submissions'[id].unique_id # NoUid
             /\ submissions'[id].credit_name # None
             /\ submissions'[id].options_json # <<>>
    <2>1. /\ nextUniqueId' \in Nat \ {0}
          /\ \A id \in Ids : submissions'[id].status = submissions[id].status
          /\ \A id \in Approved :
               /\ submissions'[id].unique_id \in 1..(nextUniqueId' - 1)
               /\ submissions'[id].credit_name # None
               /\ ~Starved(id) => submissions'[id].options_json # <<>>
      BY <1>1, EnsureStep DEF IInv
    <2>2. QED
      BY <1>1, <2>1
  <1>5. Approved' = Approved
    BY <1>4 DEF Approved
  <1>6. ASSUME NEW id \in Approved
        PROVE  /\ submissions'[id].unique_id # NoUid
               /\ Len(submissions'[id].options_json) = OptionCount
               /\ submissions'[id].credit_name # None
               /\ submissions'[id].public_url # None
    <2>1. id \in Ids
      BY DEF Approved
    <2>2. submissions'[id].public_url # None
      BY <1>1, <2>1, EnsureRows DEF Blocked
    <2>3. QuestionWellFormed'
      BY DEF IInv, RowsInv
    <2>4. Len(submissions'[id].options_json) = OptionCount
      BY <1>4, <2>1, <2>3 DEF QuestionWellFormed
    <2>5. submissions'[id].unique_id # NoUid
      BY <1>4
    <2>6. QED
      BY <1>4, <2>2, <2>4, <2>5
  <1>7. answer'.rows = order
    BY <1>2
  <1>8. QED
    BY <1>3, <1>5, <1>6, <1>7 DEF CsvComplete

\* Every other request answers something else.
LEMMA NotCsv ==
  ASSUME Next, ~ExportCsv
  PROVE  answer'.kind # "csv"
  <1>1. Silence.kind # "csv"
    BY DEF Silence
  <1>2. ASSUME NEW id \in Ids,
               \/ \E p \in Pokemon, u \in Users : create_submission(id, p, u)
               \/ approve(id) \/ unapprove(id) \/ reject(id) \/ unreject(id) \/ delete(id)
        PROVE  answer' = Silence
    <2>1. CASE \E p \in Pokemon, u \in Users : create_submission(id, p, u)
      BY <2>1 DEF create_submission
    <2>2. CASE approve(id) \/ unapprove(id) \/ reject(id) \/ unreject(id) \/ delete(id)
      <3>1. Moderated
        BY <2>2 DEF approve, unapprove, reject, unreject, delete
      <3>2. QED
        BY <3>1 DEF Moderated
    <2>3. QED
      BY <1>2, <2>1, <2>2
  <1>3. ExportEmpty \/ ExportRefused \/ ExportFails \/ export_preview => answer'.kind # "csv"
    <2>1. ASSUME NEW kind \in {"empty", "blocked", "error", "preview", "preview error"},
                 answer' = [kind |-> kind, rows |-> <<>>]
          PROVE  answer'.kind # "csv"
      BY <2>1
    <2>2. ExportEmpty \/ ExportRefused \/ ExportFails \/ export_preview =>
            \E k \in {"empty", "blocked", "error", "preview", "preview error"} :
               answer' = [kind |-> k, rows |-> <<>>]
      <3>1. export_preview => \E k \in {"preview", "preview error"} :
                                 answer' = [kind |-> k, rows |-> <<>>]
        BY DEF export_preview
      <3>2. QED
        BY <3>1 DEF ExportEmpty, ExportRefused, ExportFails
    <2>3. QED
      BY <2>1, <2>2
  <1>4. ASSUME \/ \E base \in Bases \cup {None}, approval \in BOOLEAN : update_settings(base, approval)
               \/ \E base \in Bases : cmd_set_url(base)
               \/ \E to \in Bases \cup {None} : cmd_rebase_urls(to)
               \/ \E u \in Users, name \in Credits : update_profile(u, name)
               \/ \E seen \in SUBSET Pokemon : \E rows \in [seen -> Names] : apply_catalog(rows)
        PROVE  answer' = Silence
    BY <1>4 DEF update_settings, cmd_set_url, cmd_rebase_urls, update_profile, apply_catalog
  <1>5. QED
    BY <1>1, <1>2, <1>3, <1>4 DEF Next, export

\* A CSV that is sent holds every approved drawing once, each complete.
THEOREM CsvIsWhole == Spec => []CsvComplete
  <1>1. Init => CsvComplete
    BY DEF Init, Silence, CsvComplete
  <1>2. IInv /\ CsvComplete /\ [Next]_vars => IInv' /\ CsvComplete'
    <2>1. SUFFICES ASSUME IInv, CsvComplete, [Next]_vars PROVE IInv' /\ CsvComplete'
      OBVIOUS
    <2>2. IInv'
      BY <2>1, NextOK
    <2>3. CASE ExportCsv
      BY <2>1, <2>2, <2>3, CsvSent
    <2>4. CASE Next /\ ~ExportCsv
      BY <2>2, <2>4, NotCsv DEF CsvComplete
    <2>5. CASE UNCHANGED vars
      BY <2>1, <2>2, <2>5 DEF vars, CsvComplete, Approved
    <2>6. QED
      BY <2>1, <2>3, <2>4, <2>5
  <1>3. QED
    BY InitOK, <1>1, <1>2, PTL DEF Spec

\* A CSV for which no row had to be repaired is in uniqueId order.
THEOREM CsvIsOrdered == Spec => CsvInUniqueIdOrder
  <1>1. ASSUME IInv, Next, answer'.kind = "csv", Unnumbered(Approved) = {},
               NEW i \in DOMAIN answer'.rows, NEW j \in DOMAIN answer'.rows, i < j
        PROVE  submissions'[answer'.rows[i]].unique_id < submissions'[answer'.rows[j]].unique_id
    <2>1. ExportCsv
      BY <1>1, NotCsv
    <2>2. PICK order \in [1..Cardinality(Approved) -> Approved] :
            /\ \A a, b \in 1..Cardinality(Approved) : a < b => Precedes(order[a], order[b])
            /\ answer' = [kind |-> "csv", rows |-> order]
      BY <2>1 DEF ExportCsv
    <2>3. answer'.rows = order /\ DOMAIN order = 1..Cardinality(Approved)
      BY <2>2
    <2>4. PICK a \in Approved, b \in Approved :
            a = order[i] /\ b = order[j] /\ Precedes(a, b) /\ a # b
      <3>1. IsInjective(order)
        BY <1>1, <2>2, OrderComplete
      <3>2. i \in DOMAIN order /\ j \in DOMAIN order /\ i # j
        <4>1. Cardinality(Approved) \in Nat
          BY Ranks DEF Approved
        <4>2. QED
          BY <1>1, <2>3, <4>1
      <3>3. order[i] # order[j]
        BY <3>1, <3>2 DEF IsInjective
      <3>4. order[i] \in Approved /\ order[j] \in Approved /\ Precedes(order[i], order[j])
        BY <1>1, <2>2, <2>3, <3>2
      <3>5. QED
        BY <3>3, <3>4
    <2>5. a \in Ids /\ b \in Ids /\ submissions[a].unique_id # NoUid /\ submissions[b].unique_id # NoUid
      BY <1>1 DEF Approved, Unnumbered
    <2>6. submissions[a].unique_id < submissions[b].unique_id
      BY <1>1, <2>4, <2>5 DEF Precedes, IInv, RowsInv, UniqueIdsDistinct
    <2>7. /\ submissions'[a].unique_id = submissions[a].unique_id
          /\ submissions'[b].unique_id = submissions[b].unique_id
      <3>1. ensure_frozen(Approved)
        BY <2>1 DEF ExportCsv
      <3>2. QED
        BY <1>1, <2>5, <3>1, EnsureRows
    <2>8. QED
      BY <2>3, <2>4, <2>6, <2>7
  <1>2. IInv /\ [Next]_vars => IInv'
    BY NextOK
  <1>3. IInv /\ [Next]_vars
          => [answer'.kind = "csv" /\ Unnumbered(Approved) = {} =>
                \A i, j \in DOMAIN answer'.rows : i < j =>
                  submissions'[answer'.rows[i]].unique_id
                    < submissions'[answer'.rows[j]].unique_id]_vars
    BY <1>1
  <1>4. QED
    BY InitOK, <1>2, <1>3, PTL DEF Spec, CsvInUniqueIdOrder

=============================================================================
