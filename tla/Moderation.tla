----------------------------- MODULE Moderation -----------------------------
(***************************************************************************)
(* The lifecycle of a drawing after it is drawn: moderation, the freezing  *)
(* of its question, the uniqueId counter and the CSV export, one request   *)
(* at a time (app/moderation.py, app/export.py, app/submissions.py and the *)
(* commands of app/cli.py and app/routes/admin.py that touch the same      *)
(* rows).  Every handler is one action: its session commits when the       *)
(* handler returns and rolls back when an exception escapes it.            *)
(* ModerationRace splits the same handlers where the database lets two     *)
(* requests interleave.                                                    *)
(*                                                                         *)
(* A definition whose name ends in _Wrong_... is a mistake that could be   *)
(* made in the definition after it: no action uses it, it is there to show *)
(* that a property notices.                                                *)
(***************************************************************************)
EXTENDS Integers, FiniteSets, SequencesExt

CONSTANTS
    MaxSubmission,  \* bound on the rows of table submissions (ids are 1, 2, ...)
    MaxUniqueId,    \* bound on the uniqueIds handed out
    Pokemon,        \* form_key of every answer unit upstream may describe
    Users,
    Names,          \* display names of Pokemon
    Credits,        \* display names of users
    Bases,          \* public base URLs
    None,           \* NULL, or the empty string of a setting
    OptionCount,    \* OPTION_COUNT, 4 in the code
    MayCrash        \* whether the process may die between two commits

ASSUME BoundsAssumption ==
    MaxSubmission \in Nat /\ MaxUniqueId \in Nat /\ OptionCount \in Nat \ {0}

ASSUME NoneAssumption ==
    None \notin Names \cup Credits \cup Bases \cup Pokemon \cup Users

ASSUME CrashAssumption == MayCrash \in BOOLEAN

VARIABLES
    submissions,      \* table submissions, by primary key
    pokemon,          \* table pokemon: display_name (None: no such row), enabled
    displayName,      \* users.display_name
    nextUniqueId,     \* settings.next_unique_id
    publicBaseUrl,    \* settings.public_base_url
    requireApproval,  \* settings.require_approval
    answer,           \* what the last export request answered
    published         \* history: every question ever shipped in a CSV

settingsVars == <<nextUniqueId, publicBaseUrl, requireApproval>>
vars == <<submissions, pokemon, displayName, settingsVars, answer, published>>

Ids == 1..MaxSubmission
NoUid == 0       \* unique_id IS NULL: ids count from 1
NoLetter == 0    \* correct_letter IS NULL: letter A is slot 1

Statuses == {"absent", "pending", "approved", "rejected", "deleted"}

(***************************************************************************)
(* options_json lists names (empty: NULL), correct_letter is the slot of   *)
(* the right one and public_url is the base the URL was built from: the    *)
(* file name it ends in never changes.                                     *)
(***************************************************************************)
Row == [status : Statuses,
        pokemon : Pokemon \cup {None},
        user : Users \cup {None},
        unique_id : Nat,
        options_json : Seq(Names),
        correct_letter : 0..OptionCount,
        credit_name : Credits \cup {None},
        public_url : Bases \cup {None}]

NoRow == [status |-> "absent", pokemon |-> None, user |-> None,
          unique_id |-> NoUid, options_json |-> <<>>, correct_letter |-> NoLetter,
          credit_name |-> None, public_url |-> None]

\* The columns of a CSV row that no command may ever move.
Question(row) == [unique_id |-> row.unique_id,
                  options_json |-> row.options_json,
                  correct_letter |-> row.correct_letter,
                  credit_name |-> row.credit_name]

Silence == [kind |-> "none", rows |-> <<>>]

Init ==
    /\ submissions = [id \in Ids |-> NoRow]
    /\ pokemon = [p \in Pokemon |-> [display_name |-> None, enabled |-> FALSE]]
    /\ displayName \in [Users -> Credits]
    /\ nextUniqueId = 1
    /\ publicBaseUrl = None
    /\ requireApproval = FALSE
    /\ answer = Silence
    /\ published = {}

-----------------------------------------------------------------------------
(* Freezing a question.                                                    *)

Approved == {id \in Ids : submissions[id].status = "approved"}

\* Distractors from all Pokemon, disabled ones too.
enabled_names_Wrong_All == {pokemon[p].display_name : p \in Pokemon} \ {None}

\* The pool the distractors come from.
enabled_names == {pokemon[p].display_name : p \in {q \in Pokemon : pokemon[q].enabled}}

\* NotEnoughCatalog is raised instead of a question.
NotEnoughCatalog(pool, correct) == Cardinality(pool \ {correct}) < OptionCount - 1

\* rng.sample: n different members of S, in any order.
Samples(S, n) == {s \in [1..n -> S] : IsInjective(s)}

\* The right name is left in the pool it is added to.
build_options_Wrong_KeepsRight(pool, correct) ==
    {[options |-> InsertAt(s, slot, correct), letter |-> slot] :
        s \in Samples(pool \cup {correct}, OptionCount - 1), slot \in 1..OptionCount}

\* Sample the distractors, then insert the right name at a random slot.
build_options(pool, correct) ==
    {[options |-> InsertAt(s, slot, correct), letter |-> slot] :
        s \in Samples(pool \ {correct}, OptionCount - 1), slot \in 1..OptionCount}

\* The questions freeze() or the export may write into row, the old one if none.
QuestionsFor(row) ==
    LET correct == pokemon[row.pokemon].display_name
    IN  IF NotEnoughCatalog(enabled_names, correct)
        THEN {[options |-> row.options_json, letter |-> row.correct_letter]}
        ELSE build_options(enabled_names, correct)

\* What freeze() makes of a row that has no uniqueId yet.
Frozen(row, question) ==
    [row EXCEPT !.unique_id = nextUniqueId,
                !.credit_name = displayName[row.user],
                !.options_json = question.options,
                !.correct_letter = question.letter,
                !.public_url = IF publicBaseUrl = None THEN @ ELSE publicBaseUrl]

\* The counter is read and not moved.
freeze_Wrong_SameId(id, row) ==
    \/ /\ row.unique_id # NoUid
       /\ submissions' = [submissions EXCEPT ![id] = row]
       /\ UNCHANGED nextUniqueId
    \/ /\ row.unique_id = NoUid
       /\ \E question \in QuestionsFor(row) :
            submissions' = [submissions EXCEPT ![id] = Frozen(row, question)]
       /\ UNCHANGED nextUniqueId

\* freeze() of the row that submission id has become, with the counter it moves.
freeze(id, row) ==
    \/ /\ row.unique_id # NoUid
       /\ submissions' = [submissions EXCEPT ![id] = row]
       /\ UNCHANGED nextUniqueId
    \/ /\ row.unique_id = NoUid
       /\ nextUniqueId <= MaxUniqueId
       /\ \E question \in QuestionsFor(row) :
            submissions' = [submissions EXCEPT ![id] = Frozen(row, question)]
       /\ nextUniqueId' = nextUniqueId + 1

\* The row without its frozen payload.
Retired(row) ==
    [row EXCEPT !.unique_id = NoUid, !.options_json = <<>>,
                !.correct_letter = NoLetter, !.credit_name = None,
                !.public_url = None]

-----------------------------------------------------------------------------
(* Submitting.                                                             *)

\* The row create_submission inserts; p is the Pokemon of the open session.
NewRow(p, u, status) ==
    [NoRow EXCEPT !.status = status, !.pokemon = p, !.user = u]

NextId(id) == submissions[id] = NoRow /\ \A i \in 1..(id - 1) : submissions[i] # NoRow

SubmitPending(id, p, u) ==
    /\ requireApproval
    /\ submissions' = [submissions EXCEPT ![id] = NewRow(p, u, "pending")]
    /\ UNCHANGED nextUniqueId

SubmitApproved(id, p, u) ==
    /\ ~requireApproval
    /\ freeze(id, NewRow(p, u, "approved"))

\* The savepoint of create_submission commits the INSERT on its own; the
\* process may die before freeze() has run and committed.
SubmitTorn(id, p, u) ==
    /\ MayCrash
    /\ ~requireApproval
    /\ submissions' = [submissions EXCEPT ![id] = NewRow(p, u, "approved")]
    /\ UNCHANGED nextUniqueId

create_submission(id, p, u) ==
    /\ NextId(id)
    /\ pokemon[p].display_name # None
    /\ SubmitPending(id, p, u) \/ SubmitApproved(id, p, u) \/ SubmitTorn(id, p, u)
    /\ answer' = Silence
    /\ UNCHANGED <<pokemon, displayName, publicBaseUrl, requireApproval, published>>

-----------------------------------------------------------------------------
(* The moderation actions.  A ModerationError changes nothing.             *)

\* What no moderation action touches.
Moderated == UNCHANGED <<pokemon, displayName, publicBaseUrl, requireApproval, published>>
             /\ answer' = Silence

\* Whatever the drawing was, it ends approved, with a frozen question.
approve(id) ==
    /\ submissions[id].status \notin {"absent", "deleted"}
    /\ freeze(id, [submissions[id] EXCEPT !.status = "approved"])
    /\ Moderated

\* The drawing goes back to the queue with its id.
unapprove_Wrong_KeepsId(id) ==
    /\ submissions[id].status = "approved"
    /\ submissions' = [submissions EXCEPT ![id].status = "pending"]
    /\ UNCHANGED nextUniqueId
    /\ Moderated

unapprove(id) ==
    /\ submissions[id].status = "approved"
    /\ submissions' = [submissions EXCEPT ![id] = [Retired(@) EXCEPT !.status = "pending"]]
    /\ UNCHANGED nextUniqueId
    /\ Moderated

\* Only an approved drawing is retired on its way out.
AfterReject(row) == IF row.status = "approved" THEN Retired(row) ELSE row

reject(id) ==
    /\ submissions[id].status \notin {"absent", "deleted"}
    /\ submissions' = [submissions EXCEPT ![id] = [AfterReject(@) EXCEPT !.status = "rejected"]]
    /\ UNCHANGED nextUniqueId
    /\ Moderated

unreject(id) ==
    /\ submissions[id].status = "rejected"
    /\ \/ /\ requireApproval
          /\ submissions' = [submissions EXCEPT ![id].status = "pending"]
          /\ UNCHANGED nextUniqueId
       \/ /\ ~requireApproval
          /\ freeze(id, [submissions[id] EXCEPT !.status = "approved"])
    /\ Moderated

\* The id of the drawing deleted is handed out again if it was the last.
delete_Wrong_GivesBack(id) ==
    /\ submissions[id].status \notin {"absent", "deleted"}
    /\ submissions' = [submissions EXCEPT ![id] = [Retired(@) EXCEPT !.status = "deleted"]]
    /\ nextUniqueId' = IF submissions[id].unique_id = nextUniqueId - 1 /\ nextUniqueId > 1
                       THEN nextUniqueId - 1 ELSE nextUniqueId
    /\ Moderated

delete(id) ==
    /\ submissions[id].status \notin {"absent", "deleted"}
    /\ submissions' = [submissions EXCEPT ![id] = [Retired(@) EXCEPT !.status = "deleted"]]
    /\ UNCHANGED nextUniqueId
    /\ Moderated

-----------------------------------------------------------------------------
(* The export.                                                             *)

\* No ORDER BY: the rows come in primary key order.
Precedes_Wrong_ByRow(a, b) == a < b

\* ORDER BY unique_id: NULLs first, ties in row order.
Precedes(a, b) ==
    \/ submissions[a].unique_id < submissions[b].unique_id
    \/ submissions[a].unique_id = submissions[b].unique_id /\ a < b

\* ensure_frozen raises NotEnoughCatalog (Starved) or ExportBlocked (Blocked).
Starved(id) ==
    /\ submissions[id].options_json = <<>>
    /\ NotEnoughCatalog(enabled_names, pokemon[submissions[id].pokemon].display_name)

\* Rows without a URL are exported all the same.
Blocked_Wrong_Never(id) == FALSE

Blocked(id) == submissions[id].public_url = None /\ publicBaseUrl = None

\* The row at which the loop over the approved drawings ends with an exception.
FirstFailing(id) ==
    /\ id \in Approved
    /\ Starved(id) \/ Blocked(id)
    /\ \A other \in Approved :
          Starved(other) \/ Blocked(other) => other = id \/ Precedes(id, other)

\* The rows of S that lack an id, and those that lack a question.
Unnumbered(S) == {id \in S : submissions[id].unique_id = NoUid}
Unasked(S) == {id \in S : submissions[id].options_json = <<>>}

\* How many of U come before row id.
Rank(U, id) == Cardinality({i \in U : i < id})

\* The credit follows the display name until the export.
Completed_Wrong_FreshCredit(row, uid, question) ==
    [row EXCEPT !.unique_id = IF @ = NoUid THEN uid ELSE @,
                !.options_json = IF @ = <<>> THEN question.options ELSE @,
                !.correct_letter = IF row.options_json = <<>> THEN question.letter ELSE @,
                !.credit_name = displayName[row.user],
                !.public_url = IF @ = None THEN publicBaseUrl ELSE @]

\* ensure_frozen: complete what approval left empty, and nothing else.
Completed(row, uid, question) ==
    [row EXCEPT !.unique_id = IF @ = NoUid THEN uid ELSE @,
                !.options_json = IF @ = <<>> THEN question.options ELSE @,
                !.correct_letter = IF row.options_json = <<>> THEN question.letter ELSE @,
                !.credit_name = IF @ = None THEN displayName[row.user] ELSE @,
                !.public_url = IF @ = None THEN publicBaseUrl ELSE @]

\* The bound of the choice below.
AnyQuestion == [options : [1..OptionCount -> Names], letter : 1..OptionCount]

\* build_rows over the rows S, in export order: rows without an id are first.
ensure_frozen(S) ==
    /\ nextUniqueId + Cardinality(Unnumbered(S)) <= MaxUniqueId + 1
    /\ nextUniqueId' = nextUniqueId + Cardinality(Unnumbered(S))
    /\ \E question \in [Unasked(S) -> AnyQuestion] :
         /\ \A id \in Unasked(S) : question[id] \in QuestionsFor(submissions[id])
         /\ submissions' = [id \in Ids |->
              IF id \notin S THEN submissions[id]
              ELSE Completed(submissions[id],
                             nextUniqueId + Rank(Unnumbered(S), id),
                             IF id \in Unasked(S) THEN question[id] ELSE {})]

ExportUnchanged == UNCHANGED <<pokemon, displayName, publicBaseUrl, requireApproval>>

\* The whole pack: one row per approved drawing, in the order it was read.
ExportCsv ==
    /\ Approved # {}
    /\ \A id \in Approved : ~(Starved(id) \/ Blocked(id))
    /\ ensure_frozen(Approved)
    /\ \E order \in [1..Cardinality(Approved) -> Approved] :
         /\ \A i, j \in 1..Cardinality(Approved) : i < j => Precedes(order[i], order[j])
         /\ answer' = [kind |-> "csv", rows |-> order]
    /\ published' = published \cup {Question(submissions'[id]) : id \in Approved}
    /\ ExportUnchanged

ExportEmpty ==
    /\ Approved = {}
    /\ answer' = [kind |-> "empty", rows |-> <<>>]
    /\ UNCHANGED <<submissions, nextUniqueId, published>>
    /\ ExportUnchanged

\* ExportBlocked is caught: what the rows up to the blocked one gained is kept.
ExportRefused ==
    /\ \E first \in Approved :
         /\ FirstFailing(first)
         /\ ~Starved(first)
         /\ ensure_frozen({id \in Approved : id = first \/ Precedes(id, first)})
    /\ answer' = [kind |-> "blocked", rows |-> <<>>]
    /\ UNCHANGED published
    /\ ExportUnchanged

\* NotEnoughCatalog is not caught: the request fails and rolls back.
ExportFails ==
    /\ \E first \in Approved : FirstFailing(first) /\ Starved(first)
    /\ answer' = [kind |-> "error", rows |-> <<>>]
    /\ UNCHANGED <<submissions, nextUniqueId, published>>
    /\ ExportUnchanged

export == ExportCsv \/ ExportEmpty \/ ExportRefused \/ ExportFails

\* The preview counts rows per pack: pack_index of a missing uniqueId raises.
export_preview ==
    /\ answer' = [kind |-> IF Unnumbered(Approved) = {} THEN "preview" ELSE "preview error",
                  rows |-> <<>>]
    /\ UNCHANGED <<submissions, nextUniqueId, published>>
    /\ ExportUnchanged

-----------------------------------------------------------------------------
(* Settings, credits, the catalog and the URL repair.                      *)

\* Both fields of the form are saved, even when a later field is refused.
update_settings(base, approval) ==
    /\ publicBaseUrl' = base
    /\ requireApproval' = approval
    /\ answer' = Silence
    /\ UNCHANGED <<submissions, pokemon, displayName, nextUniqueId, published>>

cmd_set_url(base) ==
    /\ publicBaseUrl' = base
    /\ answer' = Silence
    /\ UNCHANGED <<submissions, pokemon, displayName, nextUniqueId,
                   requireApproval, published>>

\* rebase-urls --yes, to the given base or to the one in force.
cmd_rebase_urls(to) ==
    LET base == IF to = None THEN publicBaseUrl ELSE to
        moving == {id \in Ids : submissions[id].public_url \notin {None, base}}
    IN  /\ base # None
        /\ moving # {}
        /\ submissions' = [id \in Ids |-> IF id \in moving
                              THEN [submissions[id] EXCEPT !.public_url = base]
                              ELSE submissions[id]]
        /\ publicBaseUrl' = base
        /\ answer' = Silence
        /\ UNCHANGED <<pokemon, displayName, nextUniqueId, requireApproval, published>>

\* An empty display name is saved.
update_profile_Wrong_Empty(u, name) ==
    /\ displayName' = [displayName EXCEPT ![u] = None]
    /\ answer' = Silence
    /\ UNCHANGED <<submissions, pokemon, settingsVars, published>>

\* Published credits do not follow.  set-display-name does the same.
update_profile(u, name) ==
    /\ displayName' = [displayName EXCEPT ![u] = name]
    /\ answer' = Silence
    /\ UNCHANGED <<submissions, pokemon, settingsVars, published>>

\* A re-seed: rows is what upstream describes now, a name for each form_key.
apply_catalog(rows) ==
    /\ pokemon' = [p \in Pokemon |->
         IF p \notin DOMAIN rows THEN [pokemon[p] EXCEPT !.enabled = FALSE]
         ELSE [display_name |-> rows[p],
               enabled |-> pokemon[p].display_name = None \/ pokemon[p].enabled]]
    /\ \A p, q \in Pokemon :  \* display_name is UNIQUE, or the seed rolls back
         p # q /\ pokemon'[p].display_name # None
           => pokemon'[p].display_name # pokemon'[q].display_name
    /\ answer' = Silence
    /\ UNCHANGED <<submissions, displayName, settingsVars, published>>

-----------------------------------------------------------------------------

Next ==
    \/ \E id \in Ids :
         \/ \E p \in Pokemon, u \in Users : create_submission(id, p, u)
         \/ approve(id) \/ unapprove(id) \/ reject(id) \/ unreject(id) \/ delete(id)
    \/ export \/ export_preview
    \/ \E base \in Bases \cup {None}, approval \in BOOLEAN : update_settings(base, approval)
    \/ \E base \in Bases : cmd_set_url(base)
    \/ \E to \in Bases \cup {None} : cmd_rebase_urls(to)
    \/ \E u \in Users, name \in Credits : update_profile(u, name)
    \/ \E seen \in SUBSET Pokemon : \E rows \in [seen -> Names] : apply_catalog(rows)

Spec == Init /\ [][Next]_vars

\* The lifecycle implements the abstract ledger of uniqueIds: approval and
\* repair issue, unapproval, rejection and deletion retire.
Ledger == INSTANCE UniqueIdLedger WITH
    Drawings <- Ids,
    MaxId <- MaxUniqueId,
    held <- [id \in Ids |-> submissions[id].unique_id],
    next <- nextUniqueId

LedgerSpec == Ledger!Spec

-----------------------------------------------------------------------------
(* Properties.                                                             *)

\* Every column holds a value of its type and the counter starts at 1.
TypeOK ==
    /\ submissions \in [Ids -> Row]
    /\ pokemon \in [Pokemon -> [display_name : Names \cup {None}, enabled : BOOLEAN]]
    /\ displayName \in [Users -> Credits]
    /\ nextUniqueId \in Nat \ {0}
    /\ publicBaseUrl \in Bases \cup {None}
    /\ requireApproval \in BOOLEAN
    /\ answer \in [kind : {"none", "csv", "empty", "blocked", "error",
                           "preview", "preview error"},
                   rows : Seq(Ids)]
    /\ published \in SUBSET [unique_id : Nat, options_json : Seq(Names),
                             correct_letter : 0..OptionCount,
                             credit_name : Credits \cup {None}]

\* The uniqueId exists exactly while the drawing is approved: every way in
\* freezes, every way out retires (a torn submission waits for the export).
NumberedIffApproved ==
    \A id \in Ids :
        /\ submissions[id].unique_id # NoUid => submissions[id].status = "approved"
        /\ submissions[id].status = "approved" /\ ~MayCrash => submissions[id].unique_id # NoUid

\* A drawing outside the pack keeps nothing of a former question, so that a
\* later approval freezes it afresh.
UnnumberedIsBlank ==
    \A id \in Ids : submissions[id].unique_id = NoUid =>
        /\ submissions[id].options_json = <<>>
        /\ submissions[id].correct_letter = NoLetter
        /\ submissions[id].credit_name = None
        /\ submissions[id].public_url = None

\* No two drawings share a uniqueId and the counter is ahead of all of them:
\* the UNIQUE constraint never refuses an approval.
UniqueIdsDistinct ==
    \A a, b \in Ids :
        /\ submissions[a].unique_id < nextUniqueId
        /\ submissions[a].unique_id = submissions[b].unique_id
             => a = b \/ submissions[a].unique_id = NoUid

\* A frozen question has OptionCount different names, and a letter for one.
QuestionWellFormed ==
    \A id \in Ids :
        LET row == submissions[id]
        IN  \/ row.options_json = <<>> /\ row.correct_letter = NoLetter
            \/ /\ Len(row.options_json) = OptionCount
               /\ IsInjective(row.options_json)
               /\ row.correct_letter \in 1..OptionCount

\* Whatever was shipped under a uniqueId is all that is ever shipped under it:
\* re-exports agree on the options, the letter and the credit.
PublishedOnce ==
    \A p, q \in published : p.unique_id = q.unique_id => p = q

Live(uid) == \E id \in Ids : submissions[id].unique_id = uid

\* A uniqueId that leaves the pack never comes back, on any drawing, and the
\* counter never goes back to it.
RetiredForGood ==
    [][/\ nextUniqueId' >= nextUniqueId
       /\ \A uid \in 1..(nextUniqueId - 1) : ~Live(uid) => ~Live(uid)']_vars

\* The name that is right is the name the Pokemon has when the question is
\* written, and the others are enabled then.
AskedFairly ==
    [][\A id \in Ids :
         submissions[id].options_json # submissions'[id].options_json
           /\ submissions'[id].options_json # <<>>
         => LET row == submissions'[id]
                correct == pokemon[row.pokemon].display_name
            IN  /\ row.options_json[row.correct_letter] = correct
                /\ \A name \in ToSet(row.options_json) \ {correct} :
                     \E p \in Pokemon : pokemon[p].enabled /\ pokemon[p].display_name = name]_vars

\* While a drawing keeps its uniqueId, what has been frozen stays: an empty
\* field may be filled once, and only rebase-urls moves a URL.
FrozenOnce ==
    [][\A id \in Ids :
         LET old == submissions[id]
             new == submissions'[id]
         IN  old.unique_id # NoUid /\ new.unique_id = old.unique_id =>
               /\ old.options_json # <<>> =>
                    /\ new.options_json = old.options_json
                    /\ new.correct_letter = old.correct_letter
               /\ old.credit_name # None => new.credit_name = old.credit_name
               /\ old.public_url \notin {None, new.public_url} =>
                    \E to \in Bases \cup {None} : cmd_rebase_urls(to)]_vars

\* A CSV that is sent holds every approved drawing once, each complete, with
\* an image URL.
CsvComplete ==
    answer.kind = "csv" =>
        /\ ToSet(answer.rows) = Approved
        /\ IsInjective(answer.rows)
        /\ \A id \in Approved :
             /\ submissions[id].unique_id # NoUid
             /\ Len(submissions[id].options_json) = OptionCount
             /\ submissions[id].credit_name # None
             /\ submissions[id].public_url # None

\* A CSV for which no row had to be repaired is in uniqueId order
\* (export.py:180).
CsvInUniqueIdOrder ==
    [][answer'.kind = "csv" /\ Unnumbered(Approved) = {} =>
         \A i, j \in DOMAIN answer'.rows : i < j =>
             submissions'[answer'.rows[i]].unique_id < submissions'[answer'.rows[j]].unique_id]_vars

=============================================================================
