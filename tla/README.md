# Specifications of "Who's That Pokémon"

TLA+ models of the drawing game in `src/`, the instances TLC checks, and the
theorems TLAPS proves. The program deals Pokémon to a few friends, stores what
they draw, and turns every approved drawing into one row of a trivia pack whose
numbers and image URLs are permanent once they are published. The models follow
the code of `src/app`; a line reference in a comment is to a file there.

## 1. Inventory of the system

FastAPI over SQLite (WAL) in one process. Synchronous routes run in a thread
pool, `submit` is a coroutine of the one event loop, every request has a database
session of its own that `get_db` commits after the handler has returned. A
SELECT takes no lock; the first INSERT or UPDATE takes the write lock until
COMMIT; releasing an outermost savepoint is a COMMIT; an UPDATE writes the
columns that differ from what the session loaded, with no version check.

| Part | State | Operations | Meets | What makes it correct |
|---|---|---|---|---|
| Moderation (`moderation.py`, `routes/admin.py`) | `submissions`, `settings.next_unique_id` | approve, unapprove, reject, unreject, delete, freeze | export, submissions | an approved drawing has one uniqueId and one question, and neither is ever reused |
| Export (`export.py`, `cli.py`) | the frozen columns | repair and export, preview, rebase-urls, set-url | moderation | every CSV is complete, in order, and agrees with every earlier one |
| Submissions (`submissions.py`) | `submissions`, files | create, resolve | draw flow, moderation | a row never lacks its file, an approved row never lacks its question |
| Draw sessions (`draw.py`, `routes/draw.py`) | `draw_sessions` | draw, start, skip, time out, choose, submit | submissions, free picks | one open assignment, resumed until it is resolved; a drawing is filed under what was assigned |
| Drawing files (`images.py`) | the images directory | next_index, write_once | submissions | a file is written once and kept for ever |
| Free picks (`freechoice.py`) | none: derived from rows | balance, can_choose | draw sessions | a pick is paid for by dealt drawings, once |
| Settings (`routes/admin.py`) | base URL, approval, timer, quota | update | everything | an old question is not touched by a new setting |
| Profile (`routes/pages.py`) | `users.display_name` | update | export credit | a frozen credit stays |
| Picker (`picker.py`) | none | pick, sequence, coverage | draw sessions | counts stay close together, every Pokémon gets drawn |
| Rate limiter (`ratelimit.py`) | hits per client, in memory | check, hit, retry_after, reset | login, submit | never more than the limit in a window, never a player blocked for longer |
| Canvas (`static/draw.js`) | undo and redo stacks, strokes, timer | stroke, fill, undo, redo, clear, submit | submit, timeout routes | undo and redo walk the pictures that were drawn; time out ends in one submission |
| Catalog seed (`catalog/`) | `pokemon`, snapshot label | fetch, build, apply | picker, questions | permanent slugs, an Admin's choices survive a re-seed |
| PokeAPI client (`catalog/pokeapi.py`) | a file cache | get, get_many | seed | bounded concurrency, retries end |
| Accounts (`auth.py`, `users.py`, `routes/auth.py`) | users, the signing key, cookies | login, create, reset, set role | all routes | one Admin remains, sessions survive restarts, a password changes by a reset only |
| Backup (`scripts/backup.sh`) | an archive | snapshot, archive, prune | database, files | a restore is consistent |
| Preflight, pages, wiring | none | | | |

Hard behaviours: requests that decide on rows they loaded before another request
changed them; a handler that commits twice with room for a crash between; files
and rows that no transaction spans; a counter read outside the lock; tabs that
show an assignment that has been replaced; answers that are lost and repeated.
`PROJECT.json` lists each at its line, with the properties that cover it.

## 2. Modules

| Module | Models |
|---|---|
| `Moderation` | Moderation, freezing, the counter and the export, one request at a time, with a crash between the two commits of a submission |
| `UniqueIdLedger` | The promise about uniqueIds: issue new ones, retire old ones |
| `ModerationRace` | The same handlers cut where SQLite lets requests interleave |
| `DrawFlow` | A player's tabs, from an assignment to a file and a row; the backup next to them |
| `Picker` | All players: how dealing from stale counts covers the dex; simulate-picker |
| `RateLimiter` | The methods of the limiter as operators on a bucket |
| `Accounts` | Login, the signing key, accounts and roles, with overlapping requests; extends `RateLimiter` |
| `CatalogBuild` | From a species upstream to catalog rows, as pure operators |
| `CatalogSeed` | The event loop of a seed, its cache and retries, and what it does to the table; extends `CatalogBuild` |
| `UndoHistory` | The promise of Undo and Redo |
| `Canvas` | The drawing page, its requests at the server and its timer; implements `UndoHistory` |
| `MC...` | Symmetry sets and the constants of the instances |
| `ModerationProofs`, `UniqueIdLedgerProofs`, `ModerationRaceProofs`, `DrawFlowProofs`, `PickerProofs`, `AccountsProofs`, `CanvasProofs`, `CatalogSeedProofs` | Theorems and proofs; the second part of `DrawFlowProofs` is about what holds unless requests fail, or where they follow each other |

In all of them a definition named `X_Wrong_Y` stands before `X` and is `X` with
one plausible slip (a dropped guard, a counter that is not moved, a handler that
runs in another thread). Nothing uses it; it serves to see that the property it
belongs to fails when `X` is replaced by it.

**Worlds.** A component is asked different questions under different
circumstances: a player alone, two tabs, a backup. `ModerationRace`, `DrawFlow`,
`Accounts` and `Canvas` have a variable `world`, chosen by `Init` from the
constant `Worlds` and never changed, whose fields are read by the guards. One run
then covers all of them, and a property that needs a circumstance names it.

**`Moderation`.** `submissions` is the table by primary key, `absent` rows being
those not inserted yet; `options_json` is a sequence of names, `correct_letter`
a position in it (the shuffle is a choice of the other names and of a slot).
`public_url` is the base the URL was built from; the file name at its end never
changes. `answer` is what the last export request answered and `published` is
history: every question that was ever in a CSV. Each handler is one action,
because its session commits once: `approve`, `unapprove`, `reject`, `unreject`,
`delete`, `create_submission`, `export`, `export_preview`, `update_settings`,
`update_profile` (which is set-display-name as well), the commands `cmd_set_url`
and `cmd_rebase_urls`, and `apply_catalog`. `create_submission` is the exception:
its INSERT is committed when the savepoint is released, and with `MayCrash` the
row may be left without its question (`SubmitTorn`). `ensure_frozen` keeps the
order of the code: rows are repaired in the order the query gives (`NULL`
first), a catalog that is too small rolls everything back, a missing URL keeps
what was repaired before it. `apply_catalog` lets two rows swap their names in
one seed, which `CatalogSeed` shows the database refuses: a superset.

**`UniqueIdLedger`** knows which id each drawing holds and the next one.
`Moderation!LedgerSpec` instantiates it with the `unique_id` column and the
counter.

**`ModerationRace`.** A request loads rows (`load`, `load_export`, `insert`),
reads the counter before it holds the write lock where the code does
(`read_counter`, when nothing was flushed before `allocate_unique_id`), and then
writes and commits in one step (`write`), because the lock is held from the first
UPDATE on. `LoopIsFree` is the event loop: `submit` is not suspended between its
INSERT and its return, by when it holds the write lock, so no other submission
runs then, and no other request commits, since the loop dispatches every COMMIT
of `get_db`; only an export may, which can be the command, in a process of its own.
`Flushed` is the UPDATE of the changed columns. `fail` ends a request
without a write. The frozen columns besides `unique_id` are one payload. In a
world that is `apart` no two moderation requests are on the same drawing;
`Reviewed` adds that every drawing waits for a moderator.

**`DrawFlow`.** One player: every table, index and file name of this part is
keyed by the player, so players meet only in the picker's counts, and the picker
may deal any Pokémon here. A tab shows a Pokémon; `request` holds the requests in
flight, several of one tab too, because `draw.js` disables Submit during an upload
but not the Skip form of `draw.html`. `Navigate` is the answer that moves the page,
unless it is lost or the browser was sent elsewhere by another request. `InTurn`
are the worlds with one place for a request, where each follows the last.
Synchronous routes read and then write;
`submit` goes through `read` (the upload is awaited), `store`, `insert`,
`resolve` and `commit`. `OnLoop` says that the event loop runs one submit at a
time between the end of its upload and its return; `CanWrite` that the write lock
is held until the commit. The temporary file and its rename are one step: a
crash before the rename leaves a `.part` file that the next attempt replaces.
`posted` and `session` in a row are history. With `faults` a request may end in
an error, an answer may be lost, the process may restart. An overlap can make a
request fail by itself: an INSERT on the loop waits for a write lock whose COMMIT
waits for the loop, until SQLite gives up ("database is locked"). Without `faults`
nobody fails, for whatever reason; that error is `fail` in the worlds with them. `backup_snapshot`,
`tar_begins` and `tar_ends` are the script: the archive has the rows of the
snapshot, the files that were there when tar began, and some of the later ones.

**`Picker`.** `hand` is each player's open session; the pick and the INSERT of
`assign` are two steps because the counts are read without the lock. What the
picker does not control (a free pick, a deletion, new rows in a catalog under
way, a submission torn in two) moves `slack`, a history variable that
`SpreadBounded` may use and a bound limits. The status of a drawing is reduced
to counting or deleted; the quota is changed at any time.

**`Accounts`.** `users` is the table; `password` stands for the hash, `stale` for
one that `needs_rehash`. `_load_or_create_secret` is `load`, `truncate`, `fill`
(write_text truncates first), then `get_serializer`. A login goes through the
limiter (`login` reads the clock, `login_hit` takes the lock, so hits are out of
order), `verify`, `login_reset`, the cookie, and the UPDATE of a renewed hash at
commit. A request with a cookie loads the user, is let through by
`require_admin`, reads, and writes later. `raced`, `accepted` and `told` are
history. Sessions carry no epoch in the code: a password reset does not end the
sessions of the user, and no property says so.

**`CatalogBuild`, `CatalogSeed`.** A variety is the sequence of the tokens of its
name; the tables of `overrides.py` are operators. A seed fetches the list, then
all species, then all kept varieties; each `get` looks into the cache, then
queues for a slot (`acquire`), gets an answer or a failure (`respond`), and
retries from the back of the queue. `upstream_changes` is PokeAPI between two
answers, `killed` the process, which may tear the cache entry it writes.
`apply_catalog` is one transaction: UPDATEs in id order, then INSERTs, each
under the unique columns; what they refuse, and a `SlugCollision`, leave the
table as it was. `fromCache`, `gone` and `offered` are history of the seed at
work.

**`UndoHistory`, `Canvas`.** A picture is a set of marks. Every handler and
callback of `draw.js` is an action; `restore` only starts to load an image and
`onload` runs later, in any order. `posts` are the submissions of the page at the
server, which goes on with them when the page has given up: `read_session`,
`create_submission` (the row commits when its savepoint is released,
`submissions.py:66`), `commit` (the session, with the request: it may fail and
leave the row, step `torn`). `lost` marks one the page gave up before it had
ended. `serve_timeout` is the other route as the page meets it (`DrawFlow` has
both in full). The refinement
maps the undo and redo stacks and the picture the player will see when all
images are there; it is claimed while nobody edits during a load or undoes
during a stroke (`hurried`), where the code does lose pictures.

## 3. Runs

| Run | Instance | Shows |
|---|---|---|
| `lifecycle` | 2 drawings, 3 ids, 2 Pokémon, crashes | types; complete CSVs, in order; one question per published id for ever; the ledger is implemented, so ids are distinct and a retired one stays retired |
| `question_freezing` | 1 drawing, 3 names, 3 options, 2 credits, 2 bases | numbered iff approved; questions well formed and fairly asked when written, and only filled in or rebased afterwards |
| `race` | 2 requests of every handler on 2 drawings, in any way; and apart, reviewed | `OneIdOneQuestion`, whatever overlaps: an id belongs to one drawing and is never without its question; while every drawing is reviewed and moderators keep apart, only approved drawings are numbered, questions are written once and the ledger is kept |
| `draw` | requests one after another from one tab, or from two; two requests at once from two tabs; two at once with faults; one tab with faults and a backup | whatever overlaps and fails: one open session; a permanent file of its own for every row, in the archive too; a row is of its session; a submitted session has its drawing. Unless something fails: a drawn session has ended, indexes are usable. One request after another: one drawing per submitted session, picks paid for; from one tab, filed under its Pokémon |
| `picker` | 2 Pokémon, 2 players, 2 rounds, slack 2, quotas 0 and 1 | spread bounded; the dex is covered (liveness); simulate-picker honest for up to 3 draws |
| `accounts` | roles; new accounts; resets; first use of the key; the limiter over 5 half-seconds | an Admin remains, sessions survive, passwords by reset, the limiter's budget and its word |
| `catalog` | 4 histories of 2 species, 2 seeds, 2 slots, 2 attempts, limits 0 and 1 | slugs permanent and nothing re-enabled (`NonDestructive`), answers and hints right, upstream followed, seeds end (liveness) |
| `canvas` | drawing with 2 marks, 2 loads; undoing until time is up; submitting after up to 2 strokes; submitting up to 3 times | history refined, a second picture stored only after one that was given up or torn, button usable, nothing drawn is discarded, every wait for an answer ends (liveness) |
| `race_reissue` | violation | an export that repairs a row reads the counter; a submission takes that id and is unapproved; the export assigns it again |
| `draw_stale_tab` | violation | a stale tab's drawing is filed under another Pokémon |
| `draw_orphan` | violation | a file without a row blocks its index for good |
| `admins_demoted` | violation | two Admins demote each other and none is left |

The violations are disagreements between a comment, docstring or message and the
code; `PROJECT.json` quotes both.

**Seen while modelling, without a run.** These follow from the models or the
code in the same way, and a run for each would only repeat a step or two:

* Two approvals of one pending drawing each freeze it, and the second rewrites
  the uniqueId and options of the first (`ModerationRace` when moderators do not
  keep apart; `models.py:6-8` says they are written exactly once).
* `download_csv` and `cmd_export` catch only `ExportBlocked`: a drawing approved
  while too few Pokémon are enabled makes the export fail with `NotEnoughCatalog`
  (`Moderation`, answer `"error"`; `moderation.py:97-98` promises a clear message).
* `seed --limit N` disables every row beyond the first N species, as does a stale
  cache entry (`seed.py:8`: rows that *vanish upstream* are disabled). Hence the
  hypotheses of `FollowsUpstream`.
* A row that reappears stays disabled "until an Admin re-enables it"
  (`seed.py:11-14`), but no route or command enables a Pokémon.
* "This cannot be undone with Undo" (`draw.js:374`): `clear` pushes an undo
  picture, and Undo brings the drawing back, with a stroke count of zero. Such a
  picture, or a first stroke in progress, is discarded when time runs out: hence
  the exceptions in `DiscardsOnlyEmpty`.
* A submission pressed while the time-out request is under way is stored for the
  next Pokémon: hence `StoredOnce` ends with the timer.
* The row is committed before its session is resolved: when the second commit
  fails, or the answer is lost while the server is still at work, a retry stores a
  second drawing of one assignment. `StoredOnce` names exactly these two
  exceptions, and the balance of picks is claimed without faults.
* A Skip that is clicked while an upload travels reads the same open session: the
  drawing is stored, and the outcome may end as `skipped`; or the submission reads
  the session that the Skip opened, and the drawing is filed under the next
  Pokémon. Nothing reads the outcome beyond whether it is there.
  `DrawnForItsPokemon` and the exact part of `OutcomeTellsDrawn` are claimed where
  requests follow each other (`draw_stale_tab` has the second case with two tabs).
* `approved_submissions` promises uniqueId order (`export.py:180`), but orders
  before the missing ids are assigned, so a repaired row stands first. Hence the
  hypothesis of `CsvInUniqueIdOrder`.

**Bounds.** `MaxSubmission`, `MaxUniqueId`, `maxSessions`, `maxRows`, `Rounds`,
`MaxSlack`, `MaxDraws`, `MaxUsers`, `MaxSeeds`, `maxStrokes`, `maxLoads`,
`maxPosts` and the clock of a world are bounds of the guards; all other constants are finite sets.
Two drawings are the fewest that can share or swap an id, and three ids let one
be retired and both be numbered again, on either side of a crash. Questions with
three options have two distractors, the fewest that can be equal. Two requests
are enough for every race here: each hazard is one request writing between
another's read and write. Two sessions and two rows let a session be skipped
while its submission is under way and a second submission follow. Two Pokémon
and two players let one hold what another is dealt; two rounds let a count be
ahead and be caught up with. The limiter lets 2 hits through in a window of 2
seconds; ticks of half a second show the truncation of `retry_after`, and 5 of
them are a window and more. The four histories of `catalog` are a first seed
while a species vanishes, a corrected name and a species that goes and returns,
two species that swap names, and a form that gets another key before two forms
clash; two attempts let the first fail. Two marks tell pictures apart, a depth of
2 is passed by a third stroke or a clear, two loads can end in either order;
two submissions and the one of the timer meet every pair of steps at the server.

**Fairness.** `Picker`: the regular player comes back when there is nothing to
draw (`WF` of `pick`), and whatever requests fail in between, assigning and
submitting go through again and again (`SF`); nothing is asked of the others or
of Admins. Without a regular player the program has no reason to cover anything.
`CatalogSeed`: `WF(Progress)`, the event loop runs what can run, and httpx
answers or times out (`SEED_TIMEOUT_SECONDS`); that a seed is killed or upstream
changes is never assumed. `Canvas`: `toBlob` calls back, the interval fires, and
`fetch` settles (`WF` of `blob`, `expire`, `answer`, `timeout_answer`); that the
server is reached is not assumed. The other runs check safety only.

**Deadlock** is checked in every run but `catalog`, which stops after
`MaxSeeds`, and `canvas`, which stops when the page is left. **Symmetry**
permutes model values that are only compared for equality, and is not used where
a liveness property is checked.

## 4. Proofs

The proofs are for all values of the constants, under the assumptions named in
the modules, which TLC evaluates on the instances: bounds are naturals,
`OptionCount` and `UNDO_DEPTH` are positive, `None` is no name, key or stroke,
there is a key to draw, what upstream says has the form of PokeAPI's payloads
(`UpstreamAssumption`), and the tabs, the requests, the players, the Pokémon and
the worlds are finite sets. The fields of a world keep the types the guards give them. Every
strengthened invariant below was an invariant of a TLC run before it was proved.

* `UniqueIdLedgerProofs`: `LedgerSafe` (an id is held by one drawing and lies
  below the next) and `LedgerNeverReissues`, for a finite set of drawings. The
  invariant is `LedgerTypeOK /\ HeldByOne`; retirement is final because new ids
  start at `next` and every old one lies below it.
* `ModerationProofs` has one inductive invariant, `IInv`: the types, a name for
  every Pokémon a row or the enabled catalog refers to (`CatalogNamed`), and about
  the rows `NumberedIffApproved`, `UnnumberedIsBlank`, `UniqueIdsDistinct`,
  `QuestionWellFormed`, `PublishedOnce` and `PublishedStands`. The last is what
  makes `PublishedOnce` inductive: a published question is complete, its id is
  spent, and a drawing that still has the id still asks that question, so that a
  later export can only repeat it. `CatalogNamed` is needed because a question
  with a missing name would not be one of different names.
  * One lemma for each action (`approve`, `export`, ...) shows that it keeps the
    invariant and is an `IdStep`: it issues ids from the counter to unnumbered
    drawings, retires one, or keeps them all. `export` is the long one: its
    repaired rows are numbered by their rank in the order of the query, and the
    rank lemmas show that ranks are different and fill the interval.
  * Theorems: `Typed`, `IdsAreSound`, `QuestionsWellFormed`, `ShippedOnce`, and
    from `IdStep` `ImplementsLedger` (the refinement) and
    `IdsAreRetiredForGood`.
  * `RowStep` says what any step may do to any row: complete it, blank it, fill a
    blank one fairly, or rebase its URL. With the invariant it gives
    `FrozenForGood` and `AlwaysFair`. `CsvIsWhole` and `CsvIsOrdered` follow the
    export alone: what it answers is a permutation of the approved rows, sorted
    by the ids they had.
* `ModerationRaceProofs`: what the requests hold is stale, so the invariant is
  about them too. `SoundInv` (any world): every row a request has read, and every
  row of the table, has an id exactly if it has a question; a flush writes both
  columns or neither, which keeps that true. It gives `Typed` and
  `IdsWithQuestions`, the unique index forbidding equal ids. `ReviewInv` (worlds
  that are `Reviewed`): what a moderator has read of a drawing is still its row,
  no two requests have read the same one, and exactly the approved rows are
  numbered.
  Then a write settles one drawing (`Settles`), and `NumbersAreApproved`,
  `QuestionsStay` and `ReviewedImplementsLedger` follow. The proof found that two
  arms of a `CASE` in `Handled` overlapped, so that TLA+ did not say which one
  was meant; it is an `IF` now, in the order of the code.
* `DrawFlowProofs`: `CoreInv` (types, one open session, what a request needs at
  its step) gives `Typed` and `OneAssignment`. `FileInv` adds that one submission
  at a time is between its index and its last UPDATE (`OneOnLoop`, from the event
  loop), that the name it has chosen is free (`NameFree`) and, once written, has
  its picture (`JustWritten`), that rows have sessions, and that the files of the
  backup's snapshot are there (`SnapshotFiles`). It gives `FileOfEveryRow`,
  `RowOfItsSession`, `NothingOverwritten` and `BackupWhole`. Without `OneOnLoop`
  two submissions could choose the same name.
* `DrawFlowProofs`, second part: whatever overlaps and fails, a submitted session
  has its row (`SubmittedDrawn`). If nothing fails, a row's session has ended or the
  submission that drew it is about to end it (`RowsCommitted`), and every file has
  its row or the submission that will insert it (`FilesTell`): `NextNameFree` for
  any number of overlapping requests. Where requests follow each other, what the
  one at work has read is still so (`StillSo`), a session has exactly one row if
  its outcome says so or is about to (`OutcomeTells`), and one more pick is paid for
  where one is being chosen or drawn (`TurnInv`); with one tab the page shows what
  is assigned (`PageTells`).
* `PickerProofs`: `Typed`, `SpreadIsBounded` and `SimulationIsHonest`, for any
  finite sets of players and Pokémon. `SpreadBounded` says nothing of players who
  still hold what they were dealt; `Margin` charges each of them as a drawing in
  advance (`Holding`): a dealt Pokémon is a least drawn one, and at most all
  players hold it, so the margin is restored at every deal, and a drawing replaces
  a holder. `Listed` (rows and assignments refer to catalogued Pokémon) is what
  lets a newly seeded one start at zero. `SimulationIsHonest` is about every
  sequence of picks: counts that differ by more than one would do so for the
  first time after some pick, and before something is picked twice everything has
  been picked once, so that more than the whole pool has been drawn.
* `AccountsProofs`: `CoreInv` (`Typed`) places every request: what it has read
  is what its step needs. `RoleInv`: while no two demotions overlapped, a request
  that is about to demote one Admin has left another (`AnAdminRemains`).
  `KeyInv`: one request at a time writes the key file, and what is installed is
  what the file says, while the first uses did not overlap (`SessionsAreKept`).
  `LimiterInv`: a bucket is the end of the list of attempts let through, those
  before it being a window old (`Latest`); `Spread` is then the budget
  (`LoginsAreRationed`), and `Promised` the wait (`WaitingIsEnough`), although
  the hits are stored out of order. `OnlyResetsChange` needs no more than the
  placed requests.
* `CanvasProofs`: `Sound` (the types, `EditorInv`, `RequestInv`). The
  stacks together are never longer than the depth (`DepthInv`, so that the
  history that `pushUndo` cuts is the one `UndoHistory` cuts); a player who is not
  hurried has at most one image loading, none during a stroke, and the stroke is
  already on the canvas (`CalmInv`, so that a longer stroke does not change the
  picture). Then every handler is a step of `UndoHistory` or leaves it alone:
  `ImplementsUndoHistory`. `EmptyInv` and `ButtonInv` give `NothingDiscarded` and
  `ButtonUsable`. `StoreInv` is about all the submissions of the page (`Fair`): one
  that reads the session reads the page's own, the first to succeed closes it, and
  when another is sent the earlier ones have ended or were given up. So an earlier
  stored one that was neither given up nor torn had succeeded, and the session the
  later one would need was closed: `StoresOnePicture`.
* `CatalogSeedProofs`: `SeedSound`, for any payloads, histories, limits, numbers of
  seeds, slots and attempts. `PagesInv` says that a page is right for its address,
  whether the network or the cache gave it: the list holds names of species, the
  page of a name holds one species of that name. It is what makes `PlanInv`
  inductive (a plan holds forms that are kept), and with it `TableInv` (rows are
  of answers).
  * `SeedAnswers` follows from what `parse_variety` keeps (`ParseFacts`), and
    `SeedHints` from what `English`, `TextsOf`, `dedupe` and `FirstThree` compute
    for any list of texts (`HintFacts`). Both, and the table that a seed leaves,
    need to know what concatenating a sequence of sequences does: the last of the
    running concatenations is shown, by a least counterexample, to hold the
    elements of them all, each once when no two parts share one (`FlattenFacts`).
  * `SeedNonDestructive`: only a seed that gets through changes the table, and then
    to its rows, updated where they are, with new ones after them
    (`SeededFacts`).
  * `SeedFollows` is about pages that are of different moments. `FreshInv` says
    what a batch without a page of the cache tells: a form that was offered all
    the time (`Stayed`) is of a species on the list, is on the page of its species
    whenever that was answered, and so is in the plan; and every form on a page
    was offered at some time (`HistoryInv`). It needs `UpstreamAssumption`: a form
    belongs to one species, and a list names a species once. The code relies on
    that when it takes the address for the species (seed.py:77) and the form for
    the row (seed.py:109); were a form to move between species during a seed, it
    could be missed although it was always there.

Proved and not in a run of their own: `UnnumberedIsBlank`, and
`UniqueIdsDistinct` and `RetiredForGood`, which also follow from `LedgerSpec`; the
types of `ModerationRace`, `DrawFlow`, `Picker`, `Accounts` and `Canvas`; the
invariant of `CatalogSeed`.

Model-checked only: `CoversTheDex`, `SeedEnds` and `WaitingEnds`, which are
liveness under fairness and out of the prover's reach, as is ENABLED. Every safety
property of the passing runs, invariant or about steps, is a theorem. Where an
induction was needed (the limiter, simulate-picker, sequences that are put
together) the proof takes the least counterexample, which the library states for
sets, since its induction theorems take an operator as a parameter.

## 5. Not modelled, and why

* The bytes of the CSV, of PNGs and of pages; names of files beyond their pair of
  Pokémon and index; hints, colours, brush sizes and the search.
* Preflight, templates, static files and start-up wiring: they keep no state.
  The start-up retrofits of `db.py` only add columns and an index. The listings
  of `cli.py` (`status`, `audit`) and of the gallery only read.
* argon2, cookie signing and the 30 days a cookie lasts, SQLAlchemy, SQLite,
  PokeAPI: external. What the code relies on (locking, the savepoint commit,
  unique indexes) is in the actions.
* Types and genus of a Pokémon, the characters `slugify` replaces, and two seeds
  run at once by hand; the pruning of old archives.
* The default timer of the settings: the canvas has a timer or none.
* Several pointers on one canvas, and a canvas whose picture cannot be read for
  the undo stack.

## 6. Plan

Done: 1. `Moderation` with `UniqueIdLedger` and proofs; 2. `ModerationRace`;
3. `DrawFlow` with the backup; 4. `Picker` and proofs; 5. `RateLimiter` and `Accounts`;
6. `CatalogBuild` and `CatalogSeed`; 7. `UndoHistory` and `Canvas`.

Proofs: of every module with a safety property a run checks. Left are the
hazards of `PROJECT.json` that no property covers, or not wholly, each with a note.
