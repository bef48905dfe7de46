---------------------------- MODULE CatalogSeed ----------------------------
(***************************************************************************)
(* app.cli seed: catalog/pokeapi.py, catalog/seed.py and cmd_seed.         *)
(*                                                                         *)
(* A seed fetches the list of species, then all species at once, then all  *)
(* the varieties it keeps at once, and only then touches the table.  The   *)
(* fetches of a batch are coroutines of one event loop: they share the     *)
(* slots of a semaphore, and each tries again when the network fails it.   *)
(* Upstream may change between two answers, the process may be killed, and *)
(* cache entries of former seeds are used unless the operator says         *)
(* --no-cache.                                                             *)
(*                                                                         *)
(* fromCache, gone and offered are history of the seed at work: whether a  *)
(* page came from the cache, and which forms upstream did not offer, or    *)
(* did, at some time since it started.                                     *)
(***************************************************************************)
EXTENDS CatalogBuild, FiniteSets

CONSTANTS
    Payload,      \* what PokeAPI may say of a species
    Histories,    \* and of them all: what former seeds saw, and what seeds will see,
                  \* one day after the other
    Retired,      \* forms that the seeds of the past have disabled
    Limits,       \* values of --limit; 0 is none
    Concurrency,  \* SEED_CONCURRENCY
    Retries,
    MaxSeeds,     \* bound on the seeds that are started
    Torn,         \* an unreadable cache entry
    NotFound      \* a 404

ASSUME SeedAssumption ==
    Concurrency \in Nat \ {0} /\ Retries \in Nat \ {0} /\ Limits \subseteq Nat

VARIABLES
    future,   \* of upstream; its head is what PokeAPI says today
    seeds,    \* seeds started
    cache,    \* the files of cache/pokeapi
    table,    \* table pokemon, in id order
    label,    \* settings.catalog_snapshot_label
    seed,     \* the seed at work: its phase and its options
    fetch,    \* the batch at work: the state of each get()
    slots,    \* free slots of the semaphore
    plan,     \* the forms that are kept, each with its species
    fromCache, gone, offered

seedVars == <<seed, fetch, slots, plan>>
history == <<fromCache, gone, offered>>
vars == <<future, seeds, cache, table, label, seedVars, history>>

ListUrl == <<"pokemon-species", <<>>>>
SpeciesUrl(name) == <<"pokemon-species", name>>
VarietyUrl(form) == <<"pokemon", form>>

\* The forms that are kept of each payload.
Refs == [s \in DOMAIN Payload |-> select_forms(Payload[s])]
FormsOf == [s \in DOMAIN Payload |-> {ref.form_key : ref \in ToSet(Refs[s])}]

upstream == Head(future)

\* A form is a variety of one species, and a list names a species once: the
\* program takes the name for the species (seed.py:77).
ASSUME UpstreamAssumption ==
    /\ \A s \in DOMAIN Payload : Payload[s] \in Species
    /\ \A s, t \in DOMAIN Payload :
         FormsOf[s] \cap FormsOf[t] # {} => Payload[s].name = Payload[t].name
    /\ \A h \in Histories :
         /\ h.past \in Seq(DOMAIN Payload)
         /\ h.future \in Seq(Seq(DOMAIN Payload)) \ {<<>>}
         /\ \A u \in ToSet(h.future) : \A s, t \in ToSet(u) :
              Payload[s].name = Payload[t].name => s = t

\* The forms that are kept of several payloads, each with its species.
Kept(u) == FlattenSeq([i \in DOMAIN u |->
             [j \in DOMAIN Refs[u[i]] |-> [ref |-> Refs[u[i]][j], species |-> u[i]]]])

\* A row of the table.
Pokemon(row, enabled) ==
    [form_key |-> row.form_key, display_name |-> row.display_name, slug |-> row.slug,
     generation |-> row.generation, dex_entries |-> row.dex_entries, enabled |-> enabled]

\* The row of each form that is kept.
Row == [s \in DOMAIN Payload |-> [ref \in ToSet(Refs[s]) |-> build_row(ref, Payload[s])]]

Rows(kept) == [i \in DOMAIN kept |-> Row[kept[i].species][kept[i].ref]]

Forms(u) == UNION {FormsOf[s] : s \in ToSet(u)}
AllForms == UNION {FormsOf[s] : s \in DOMAIN Payload}

Urls == {ListUrl} \cup {SpeciesUrl(Payload[s].name) : s \in DOMAIN Payload}
          \cup {VarietyUrl(f) : f \in AllForms}

\* The answer to a request; the types of a variety are not modelled.
Answer(url) ==
    LET described == {s \in ToSet(upstream) : url = SpeciesUrl(Payload[s].name)}
    IN  IF url = ListUrl THEN [i \in DOMAIN upstream |-> Payload[upstream[i]].name]
        ELSE IF url[1] = "pokemon" /\ url[2] \in Forms(upstream) THEN <<"types">>
        ELSE IF described # {} THEN <<CHOOSE s \in described : TRUE>>
        ELSE NotFound

Idle == [phase |-> "idle", limit |-> 0, use_cache |-> FALSE]
Nothing == [url \in {} |-> None]

Init ==
    /\ \E h \in Histories :
         /\ future = h.future
         /\ LET rows == Rows(Kept(h.past))
            IN  table = [i \in DOMAIN rows |-> Pokemon(rows[i], rows[i].form_key \notin Retired)]
    /\ seeds = 0
    /\ cache = [url \in Urls |-> None]
    /\ label = None
    /\ seed = Idle
    /\ fetch = Nothing
    /\ slots = Concurrency
    /\ plan = <<>>
    /\ fromCache = FALSE
    /\ gone = {}
    /\ offered = {}

-----------------------------------------------------------------------------
(* PokeApiClient.                                                          *)

Queued == [step |-> "queued", attempt |-> 1, data |-> None]
Done(data) == [step |-> "done", attempt |-> 0, data |-> data]

Readable(url) == cache[url] \notin {None, Torn}

\* The first steps of get_many(): each get() looks into the cache.
get_many(urls, use_cache) ==
    /\ fetch' = [url \in urls |-> IF use_cache /\ Readable(url) THEN Done(cache[url]) ELSE Queued]
    /\ slots' = Concurrency

acquire(url) ==
    /\ fetch[url].step = "queued"
    /\ slots > 0
    /\ slots' = slots - 1
    /\ fetch' = [fetch EXCEPT ![url].step = "requesting"]
    /\ UNCHANGED <<future, seeds, cache, table, label, seed, plan, history>>

Received(url) ==
    LET answer == Answer(url)
    IN  /\ fetch' = [fetch EXCEPT ![url] = IF answer = NotFound THEN [@ EXCEPT !.step = "failed"]
                                           ELSE Done(answer)]
        /\ cache' = IF seed.use_cache /\ answer # NotFound
                    THEN [cache EXCEPT ![url] = answer] ELSE cache

\* Network failure, 5xx, throttle: asleep, then in the queue again.
Flaked(url) ==
    LET get == fetch[url]
    IN  /\ fetch' = [fetch EXCEPT ![url] = IF get.attempt = Retries THEN [get EXCEPT !.step = "failed"]
                                           ELSE [get EXCEPT !.step = "queued", !.attempt = @ + 1]]
        /\ UNCHANGED cache

\* A failed attempt keeps its slot.
respond_Wrong_Leaks(url) ==
    /\ fetch[url].step = "requesting"
    /\ \/ Received(url) /\ slots' = slots + 1
       \/ Flaked(url) /\ UNCHANGED slots
    /\ UNCHANGED <<future, seeds, table, label, seed, plan, history>>

respond(url) ==
    /\ fetch[url].step = "requesting"
    /\ slots' = slots + 1
    /\ Received(url) \/ Flaked(url)
    /\ UNCHANGED <<future, seeds, table, label, seed, plan, history>>

-----------------------------------------------------------------------------
(* fetch_catalog().                                                        *)

AllDone == \A url \in DOMAIN fetch : fetch[url].step = "done"

Goto(phase) == seed' = [seed EXCEPT !.phase = phase]

Cached(urls, use_cache) == use_cache /\ \E url \in urls : Readable(url)

\* The operator starts a seed; a list from the cache is used like any other.
start(limit, use_cache) ==
    /\ seed = Idle
    /\ seeds < MaxSeeds
    /\ seeds' = seeds + 1
    /\ seed' = [phase |-> "list", limit |-> limit, use_cache |-> use_cache]
    /\ get_many({ListUrl}, use_cache)
    /\ fromCache' = Cached({ListUrl}, use_cache)
    /\ gone' = AllForms \ Forms(upstream)
    /\ offered' = Forms(upstream)
    /\ UNCHANGED <<future, cache, table, label, plan>>

\* --limit keeps the first species of the list.
list_species ==
    /\ seed.phase = "list" /\ AllDone
    /\ LET names == fetch[ListUrl].data
           refs == IF seed.limit = 0 THEN names
                   ELSE SubSeq(names, 1, IF Len(names) < seed.limit THEN Len(names) ELSE seed.limit)
           urls == {SpeciesUrl(name) : name \in ToSet(refs)}
       IN  /\ get_many(urls, seed.use_cache)
           /\ fromCache' = (fromCache \/ Cached(urls, seed.use_cache))
           /\ plan' = refs
    /\ Goto("species")
    /\ UNCHANGED <<future, seeds, cache, table, label, gone, offered>>

select ==
    /\ seed.phase = "species" /\ AllDone
    /\ LET species == [i \in DOMAIN plan |-> fetch[SpeciesUrl(plan[i])].data[1]]
           kept == Kept(species)
           urls == {VarietyUrl(entry.ref.form_key) : entry \in ToSet(kept)}
       IN  /\ plan' = kept
           /\ get_many(urls, seed.use_cache)
           /\ fromCache' = (fromCache \/ Cached(urls, seed.use_cache))
    /\ Goto("varieties")
    /\ UNCHANGED <<future, seeds, cache, table, label, gone, offered>>

-----------------------------------------------------------------------------
(* apply_catalog().                                                        *)

Finish ==
    /\ seed' = Idle
    /\ fetch' = Nothing
    /\ slots' = Concurrency
    /\ plan' = <<>>
    /\ fromCache' = FALSE /\ gone' = {} /\ offered' = {}

Distinct(values) == \A i, j \in DOMAIN values : i # j => values[i] # values[j]

Column(rows, name) == [i \in DOMAIN rows |-> rows[i][name]]

\* assert_unique() of the slugs and of the display names.
assert_unique(rows) == Distinct(Column(rows, "slug")) /\ Distinct(Column(rows, "display_name"))

Has(rows, form) == \E i \in DOMAIN rows : rows[i].form_key = form

\* The last row of a form wins.
RowOf(rows, form) == rows[Max({i \in DOMAIN rows : rows[i].form_key = form})]

\* The slug follows upstream.
Updated_Wrong_Slug(row, rows) ==
    LET new == RowOf(rows, row.form_key)
    IN  IF Has(rows, row.form_key) THEN Pokemon(new, row.enabled)
        ELSE [row EXCEPT !.enabled = FALSE]

\* What becomes of a row: hints refreshed, slug kept, disabled when missing.
Updated(row, rows) ==
    LET new == RowOf(rows, row.form_key)
    IN  IF Has(rows, row.form_key)
        THEN [row EXCEPT !.display_name = new.display_name, !.generation = new.generation,
                         !.dex_entries = new.dex_entries]
        ELSE [row EXCEPT !.enabled = FALSE]

Inserted(rows) ==
    LET new == At(rows, {i \in DOMAIN rows : ~Has(table, rows[i].form_key)})
    IN  [i \in DOMAIN new |-> Pokemon(new[i], TRUE)]

\* The UPDATEs run in id order, then the INSERTs; each must leave form_key,
\* display_name and slug UNIQUE.
Accepted(rows) ==
    /\ \A k \in DOMAIN table :
         Distinct([i \in DOMAIN table |->
                     (IF i <= k THEN Updated(table[i], rows) ELSE table[i]).display_name])
    /\ LET final == [i \in DOMAIN table |-> Updated(table[i], rows)] \o Inserted(rows)
       IN  \A name \in {"form_key", "display_name", "slug"} : Distinct(Column(final, name))

\* A SlugCollision, and what the database refuses, leave the table as it was.
apply_catalog ==
    /\ seed.phase = "varieties" /\ AllDone
    /\ \E rows \in {Rows(plan)} :
         IF assert_unique(rows) /\ Accepted(rows)
         THEN /\ table' = [i \in DOMAIN table |-> Updated(table[i], rows)] \o Inserted(rows)
              /\ label' = Len(rows)
         ELSE UNCHANGED <<table, label>>
    /\ Finish
    /\ UNCHANGED <<future, seeds, cache>>

\* A page that cannot be had is left out.
abort_Wrong_SkipsFailures ==
    /\ \E url \in DOMAIN fetch : fetch[url].step = "failed"
    /\ LET rest == SelectSeq(plan, LAMBDA entry : seed.phase # "varieties"
                                     \/ fetch[VarietyUrl(entry.ref.form_key)].step # "failed")
       IN  plan' = rest
    /\ seed.phase = "varieties"
    /\ fetch' = [url \in {u \in DOMAIN fetch : fetch[u].step # "failed"} |-> fetch[url]]
    /\ UNCHANGED <<future, seeds, cache, table, label, seed, slots, history>>

\* PokeApiError: the other fetches are cancelled.
abort ==
    /\ \E url \in DOMAIN fetch : fetch[url].step = "failed"
    /\ Finish
    /\ UNCHANGED <<future, seeds, cache, table, label>>

\* A cache entry may be half written.
killed ==
    /\ seed # Idle
    /\ \/ UNCHANGED cache
       \/ \E url \in DOMAIN fetch :
            fetch[url].step = "requesting" /\ seed.use_cache /\ cache' = [cache EXCEPT ![url] = Torn]
    /\ Finish
    /\ UNCHANGED <<future, seeds, table, label>>

upstream_changes ==
    /\ Len(future) > 1
    /\ future' = Tail(future)
    /\ gone' = IF seed = Idle THEN {} ELSE gone \cup (AllForms \ Forms(future[2]))
    /\ offered' = IF seed = Idle THEN {} ELSE offered \cup Forms(future[2])
    /\ UNCHANGED <<seeds, cache, table, label, seedVars, fromCache>>

-----------------------------------------------------------------------------

\* What the event loop does of itself.
Progress ==
    \/ \E url \in DOMAIN fetch : acquire(url) \/ respond(url)
    \/ list_species \/ select \/ apply_catalog
    \/ abort

Next ==
    \/ \E limit \in Limits, use_cache \in BOOLEAN : start(limit, use_cache)
    \/ Progress
    \/ killed
    \/ upstream_changes

Spec == Init /\ [][Next]_vars

\* The event loop runs what can run, and every request is answered or times out.
FairSpec == Spec /\ WF_vars(Progress)

-----------------------------------------------------------------------------
(* Properties.                                                             *)

\* A seed takes nothing away: a row stays, keeps its slug whatever upstream
\* calls it later, and is never enabled again (seed.py:3-14).
NonDestructive ==
    [][\A i \in DOMAIN table :
         /\ i \in DOMAIN table'
         /\ table'[i].form_key = table[i].form_key
         /\ table'[i].slug = table[i].slug
         /\ table'[i].enabled => table[i].enabled]_vars

\* A full seed without stale pages disables a row only when upstream did not
\* offer its form for some time while it ran, and leaves enabled only what
\* was offered at some time.
FollowsUpstream ==
    [][table' # table /\ seed.limit = 0 /\ ~fromCache =>
         /\ \A i \in DOMAIN table :
              table[i].enabled /\ ~table'[i].enabled => table[i].form_key \in gone
         /\ \A i \in DOMAIN table' : table'[i].enabled => table'[i].form_key \in offered]_vars

\* Default varieties and regional forms of known breeds.
Answers ==
    {form \in AllForms : \E s \in DOMAIN Payload : \E v \in ToSet(Payload[s].varieties) :
       LET rest == SubSeq(form, Len(Payload[s].name) + 1, Len(form))
       IN  /\ v.name = form
           /\ v.is_default
              \/ /\ IsStrictPrefix(Payload[s].name, form)
                 /\ rest[1] \in DOMAIN ByApiStem
                 /\ ToSet(Tail(rest)) \subseteq KnownBreeds \cup CanonicalModes \cup {"breed"}}

\* A form with a mode, of an excluded kind, or of an unknown shape never
\* becomes an answer (overrides.py:79-89).
AnswersOnly == \A i \in DOMAIN table : table[i].form_key \in Answers

\* A player gets a hint for every Pokemon that has an English text, at most
\* three, no two the same, of the region's own games when there are any.
HintsOfTheForm ==
    seed.phase = "varieties" /\ AllDone =>
        \A i \in DOMAIN plan :
            LET species == Payload[plan[i].species]
                region == plan[i].ref.region_key
                shown == select_dex_entries(species, region)
                english == {e \in ToSet(species.flavor) : e.language = "en" /\ e.text # Blank}
                own == {e.text : e \in {f \in english :
                          region # None /\ f.version \in ToSet(PreferredVersions[region])}}
            IN  /\ english # {} => shown # <<>>
                /\ Len(shown) <= 3 /\ Distinct(shown)
                /\ own # {} => ToSet(shown) \subseteq own

\* A seed ends, however often the network fails it.
SeedEnds == (seed # Idle) ~> (seed = Idle)

=============================================================================
