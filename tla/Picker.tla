------------------------------- MODULE Picker -------------------------------
(***************************************************************************)
(* How the players together cover the dex: picker.py, the assignments of   *)
(* draw.py, freechoice.py, and the operators' simulate-picker.             *)
(*                                                                         *)
(* A Pokemon is dealt from the counts of a moment and drawn later, while   *)
(* others are dealt theirs, Admins delete drawings, free picks are spent   *)
(* and the catalog is re-seeded.  Nothing is reserved.  Each player has    *)
(* one request at work; the races between tabs of one player are the       *)
(* matter of DrawFlow, the status of a drawing that of Moderation: here it *)
(* counts, or it is deleted.                                               *)
(*                                                                         *)
(* slack is history: how far what the picker does not control (a free      *)
(* pick, a deletion, a new row in a catalog under way, a submission cut    *)
(* in two) may have driven the counts apart.  It is bounded by MaxSlack,   *)
(* and the players stop when every Pokemon has Rounds drawings.            *)
(***************************************************************************)
EXTENDS Integers, FiniteSets

CONSTANTS
    Pokemon,    \* what upstream may ever describe
    Players,
    Regulars,   \* the players who keep playing
    Quotas,     \* values of the setting free_choice_quota
    Rounds, MaxSlack, MaxDraws  \* bounds

ASSUME PokemonAssumption == IsFiniteSet(Pokemon)
ASSUME PlayersAssumption == IsFiniteSet(Players) /\ Regulars \subseteq Players
ASSUME QuotasAssumption == Quotas \subseteq Nat
ASSUME BoundsAssumption == Rounds \in Nat /\ MaxSlack \in Nat /\ MaxDraws \in Nat

VARIABLES
    catalog,  \* Pokemon with a row in table pokemon
    enabled,  \* those of them that may be dealt
    rows,     \* table submissions
    hand,     \* what each player was dealt: the open draw session
    quota,    \* settings.free_choice_quota
    slack

vars == <<catalog, enabled, rows, hand, quota, slack>>

Row == [pokemon : Pokemon, user : Players, index : Nat, chosen : BOOLEAN, deleted : BOOLEAN]

\* opening: the Pokemon is picked, the session not yet inserted.
Hand == [step : {"opening", "drawing"}, pokemon : Pokemon, chosen : BOOLEAN]
Empty == [step |-> "none"]

Init ==
    /\ catalog = {}
    /\ enabled = {}
    /\ rows = {}
    /\ hand = [u \in Players |-> Empty]
    /\ quota \in Quotas
    /\ slack = 0

-----------------------------------------------------------------------------
(* The rule.                                                               *)

\* drawing_counts: deleted drawings release their Pokemon.
drawing_count(p) == Cardinality({r \in rows : r.pokemon = p /\ ~r.deleted})
drawing_counts == [p \in enabled |-> drawing_count(p)]

\* The lowest two tiers are pooled.
min_tier_Wrong_TwoTiers(counts) ==
    {p \in DOMAIN counts : \A q \in DOMAIN counts : counts[p] <= counts[q] + 1}

\* What a player holds is kept for that player.
min_tier_Wrong_Reserves(counts) ==
    LET free == {p \in DOMAIN counts : \A u \in Players : hand[u] = Empty \/ hand[u].pokemon # p}
    IN  {p \in free : \A q \in free : counts[p] <= counts[q]}

min_tier(counts) ==
    {p \in DOMAIN counts : \A q \in DOMAIN counts : counts[p] <= counts[q]}

\* coverage: drawing_count -> number of answer units.
coverage(counts) ==
    [n \in {counts[p] : p \in DOMAIN counts} |-> Cardinality({p \in DOMAIN counts : counts[p] = n})]

\* balance() of a player.
_count(u, chosen) == Cardinality({r \in rows : r.user = u /\ r.chosen = chosen /\ ~r.deleted})
can_choose(u) == quota > 0 /\ _count(u, FALSE) \div quota > _count(u, TRUE)

-----------------------------------------------------------------------------
(* simulate-picker.                                                        *)

Repeats(picks, p, n) == Cardinality({i \in 1..n : picks[i] = p})
Simulated(counts, picks, n) == [p \in DOMAIN counts |-> counts[p] + Repeats(picks, p, n)]

\* The working copy is not brought up to date between two draws.
sequence_Wrong_Stale(counts, draws) ==
    {picks \in [1..draws -> DOMAIN counts] : \A i \in 1..draws : picks[i] \in min_tier(counts)}

\* Every sequence that some seed produces.
sequence(counts, draws) ==
    {picks \in [1..draws -> DOMAIN counts] :
        \A i \in 1..draws : picks[i] \in min_tier(Simulated(counts, picks, i - 1))}

\* The exit status of one run; 1 when nothing is enabled.
cmd_simulate_picker(counts, picks, draws) ==
    IF counts = <<>> THEN 1
    ELSE IF draws <= Cardinality(DOMAIN counts)
              /\ Cardinality({picks[i] : i \in 1..draws}) # draws THEN 2
    ELSE 0

-----------------------------------------------------------------------------
(* The players.                                                            *)

Playing == \E p \in enabled : drawing_count(p) < Rounds

Deal(u, step, p, chosen) ==
    hand' = [hand EXCEPT ![u] = [step |-> step, pokemon |-> p, chosen |-> chosen]]

\* assign(): pick() reads the counts before it has the write lock.
pick(u) ==
    /\ hand[u] = Empty
    /\ Playing
    /\ \E p \in min_tier(drawing_counts) : Deal(u, "opening", p, FALSE)
    /\ UNCHANGED <<catalog, enabled, rows, quota, slack>>

\* choose(): an earned free pick of anything that is enabled.
choose(u) ==
    /\ hand[u] = Empty
    /\ Playing /\ slack < MaxSlack
    /\ can_choose(u)
    /\ \E p \in enabled : Deal(u, "opening", p, TRUE)
    /\ slack' = slack + 1
    /\ UNCHANGED <<catalog, enabled, rows, quota>>

\* The rest of assign(): the session is inserted.
assign(u) ==
    /\ hand[u].step = "opening"
    /\ hand' = [hand EXCEPT ![u].step = "drawing"]
    /\ UNCHANGED <<catalog, enabled, rows, quota, slack>>

\* The request ends in an error before the INSERT.
fail(u) ==
    /\ hand[u].step = "opening"
    /\ hand' = [hand EXCEPT ![u] = Empty]
    /\ UNCHANGED <<catalog, enabled, rows, quota, slack>>

\* skip() and timed_out(): one transaction, which holds the write lock while
\* pick() counts.  With nothing enabled (EmptyPool) the session just ends.
skip(u) ==
    /\ hand[u].step = "drawing"
    /\ Playing \/ enabled = {}
    /\ IF enabled = {} THEN hand' = [hand EXCEPT ![u] = Empty]
       ELSE \E p \in min_tier(drawing_counts) : Deal(u, "drawing", p, FALSE)
    /\ UNCHANGED <<catalog, enabled, rows, quota, slack>>

NewRow(u) ==
    LET p == hand[u].pokemon
    IN  [pokemon |-> p, user |-> u, chosen |-> hand[u].chosen, deleted |-> FALSE,
         index |-> 1 + Cardinality({r \in rows : r.pokemon = p /\ r.user = u})]

\* create_submission() and resolve_draw_session().
submit(u) ==
    /\ hand[u].step = "drawing"
    /\ rows' = rows \cup {NewRow(u)}
    /\ hand' = [hand EXCEPT ![u] = Empty]
    /\ UNCHANGED <<catalog, enabled, quota, slack>>

\* The row is committed, the process stops, and the session stays open.
submit_torn(u) ==
    /\ hand[u].step = "drawing"
    /\ slack < MaxSlack
    /\ rows' = rows \cup {NewRow(u)}
    /\ slack' = slack + 1
    /\ UNCHANGED <<catalog, enabled, hand, quota>>

-----------------------------------------------------------------------------
(* Admins and operators.                                                   *)

delete(r) ==
    /\ ~r.deleted
    /\ slack < MaxSlack
    /\ rows' = (rows \ {r}) \cup {[r EXCEPT !.deleted = TRUE]}
    /\ slack' = slack + 1
    /\ UNCHANGED <<catalog, enabled, hand, quota>>

update_settings(q) ==
    /\ quota' = q
    /\ UNCHANGED <<catalog, enabled, rows, hand, slack>>

\* A re-seed from what upstream describes: new rows are enabled and start at
\* zero, vanished ones are disabled for good.
apply_catalog(seen) ==
    /\ seen # {}
    /\ catalog' = catalog \cup seen
    /\ enabled' = (enabled \cap seen) \cup (seen \ catalog)
    /\ IF enabled = {} \/ seen \subseteq catalog THEN UNCHANGED slack
       ELSE \E p \in min_tier(drawing_counts) :
              slack' = slack + drawing_count(p) /\ slack' <= MaxSlack
    /\ UNCHANGED <<rows, hand, quota>>

-----------------------------------------------------------------------------

Next ==
    \/ \E u \in Players :
         \/ pick(u) \/ choose(u) \/ assign(u) \/ fail(u) \/ skip(u)
         \/ submit(u) \/ submit_torn(u)
    \/ \E r \in rows : delete(r)
    \/ \E q \in Quotas : update_settings(q)
    \/ \E seen \in SUBSET Pokemon : apply_catalog(seen)

Spec == Init /\ [][Next]_vars

\* Nothing is asked of most players: they may skip, or keep a Pokemon and
\* never come back.  The regulars come back when they have nothing to draw
\* (WF); whatever they skip and however often their requests fail, a request
\* goes through again and again, and again and again they submit (SF).
FairSpec ==
    /\ Spec
    /\ \A u \in Regulars : WF_vars(pick(u)) /\ SF_vars(assign(u)) /\ SF_vars(submit(u))

-----------------------------------------------------------------------------
(* Properties.                                                             *)

\* Every column holds a value of its type, and only rows are enabled.
TypeOK ==
    /\ catalog \subseteq Pokemon
    /\ enabled \subseteq catalog
    /\ rows \subseteq Row /\ IsFiniteSet(rows)
    /\ hand \in [Players -> Hand \cup {Empty}]
    /\ quota \in Quotas
    /\ slack \in Nat

\* No Pokemon is ahead of another by more than one drawing per player and
\* the slack: counts go stale between a pick and its drawing, but never
\* further than that (picker.py:3-13).
SpreadBounded ==
    \A p, q \in enabled :
        drawing_count(p) <= drawing_count(q) + Cardinality(Players) + slack

\* As long as one player keeps playing, every enabled Pokemon gets its
\* drawings, though others skip, choose freely, or sit on what they hold.
CoversTheDex ==
    \A p \in Pokemon :
        (p \in enabled) ~> (p \notin enabled \/ drawing_count(p) >= Rounds)

\* From a level pool simulate-picker reports success, whatever the seed, and
\* the counts it shows differ by at most one (cli.py:138-145).
SimulationHonest ==
    \A draws \in 0..MaxDraws :
        enabled # {} /\ Cardinality(DOMAIN coverage(drawing_counts)) = 1 =>
            \A picks \in sequence(drawing_counts, draws) :
                LET final == Simulated(drawing_counts, picks, draws)
                IN  /\ cmd_simulate_picker(drawing_counts, picks, draws) = 0
                    /\ \A m, n \in DOMAIN coverage(final) : m <= n + 1

=============================================================================
