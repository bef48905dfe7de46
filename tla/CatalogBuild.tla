---------------------------- MODULE CatalogBuild ----------------------------
(***************************************************************************)
(* From what PokeAPI says of a species to rows of the catalog: the pure    *)
(* functions of catalog/build.py with the tables of catalog/overrides.py   *)
(* and the rules of slugs.py.                                              *)
(*                                                                         *)
(* A name upstream is the sequence of its tokens between hyphens; a token  *)
(* of Excluded stands for one that begins with an excluded fragment.       *)
(* Flavor texts are equal when they are after clean_flavor and lower.      *)
(***************************************************************************)
EXTENDS Integers, SequencesExt

CONSTANTS
    None,
    Excluded,   \* tokens of excluded forms: mega, gmax, totem, ...
    slugify,    \* what slugify() makes of each English name
    Blank       \* a flavor text with nothing in it

\* What PokeAPI says of a species.
Species ==
    [name : Seq(STRING) \ {<<>>}, english : STRING, generation : Nat,
     varieties : Seq([name : Seq(STRING), is_default : BOOLEAN]),
     flavor : Seq([version : STRING, language : STRING, text : STRING])]

\* The elements of a sequence at some positions, in their order.
At(s, I) == FlattenSeq([i \in DOMAIN s |-> IF i \in I THEN <<s[i]>> ELSE <<>>])

ByApiStem == [alola |-> "alolan", galar |-> "galarian", hisui |-> "hisuian", paldea |-> "paldean"]

PreferredVersions ==
    [alolan   |-> <<"sun", "moon", "ultra-sun", "ultra-moon">>,
     galarian |-> <<"sword", "shield">>,
     hisuian  |-> <<"legends-arceus">>,
     paldean  |-> <<"scarlet", "violet">>]

RegionGeneration == [alolan |-> 7, galarian |-> 8, hisuian |-> 8, paldean |-> 9]

KnownBreeds == {"combat", "blaze", "aqua"}
CanonicalModes == {"standard"}

Keep(form, region, breed) == [form_key |-> form, region_key |-> region, breed_key |-> breed]

\* Battle modes are kept as the form they belong to.
parse_variety_Wrong_KeepsModes(species, form, is_default) ==
    LET tokens == SubSeq(form, Len(species) + 1, Len(form))
    IN  IF is_default THEN Keep(form, None, None)
        ELSE IF ToSet(form) \cap Excluded # {} \/ ~IsStrictPrefix(species, form) THEN None
        ELSE IF tokens[1] \in DOMAIN ByApiStem THEN Keep(form, ByApiStem[tokens[1]], None)
        ELSE None

\* None for a variety that is not an answer of its own.
parse_variety(species, form, is_default) ==
    LET tokens == SubSeq(form, Len(species) + 1, Len(form))
        bare == IF tokens # <<>> /\ Last(tokens) = "breed" /\ Len(tokens) > 1
                THEN Front(tokens) ELSE tokens
        regional(breed) == Keep(form, ByApiStem[tokens[1]], breed)
    IN  IF is_default THEN Keep(form, None, None)
        ELSE IF \/ ToSet(form) \cap Excluded # {}
                \/ ~IsStrictPrefix(species, form)
                \/ tokens[1] \notin DOMAIN ByApiStem
                \/ Len(bare) > 2 THEN None
        ELSE IF Len(bare) = 1 \/ bare[2] \in CanonicalModes THEN regional(None)
        ELSE IF bare[2] \in KnownBreeds THEN regional(bare[2])
        ELSE None

\* The varieties that are kept, in their order.
select_forms(species) ==
    LET parsed == [i \in DOMAIN species.varieties |->
                     parse_variety(species.name, species.varieties[i].name,
                                   species.varieties[i].is_default)]
    IN  At(parsed, {i \in DOMAIN parsed : parsed[i] # None})

build_display_name(english, region, breed) ==
    SelectSeq(<<region, english, breed>>, LAMBDA part : part # None)

pokemon_slug(english, region, breed) ==
    SelectSeq(<<slugify[english], region, breed>>, LAMBDA part : part # None)

\* Every text where it is first met.
dedupe(texts) ==
    At(texts, {i \in DOMAIN texts : texts[i] # Blank /\ \A j \in 1..(i - 1) : texts[j] # texts[i]})

Texts(entries) == [i \in DOMAIN entries |-> entries[i].text]

FirstThree(texts) == SubSeq(texts, 1, IF Len(texts) < 3 THEN Len(texts) ELSE 3)

English(flavor) == At(flavor, {i \in DOMAIN flavor : flavor[i].language = "en"})

\* The texts of some games, in the order in which these are preferred.
TextsOf(entries, versions) ==
    FlattenSeq([v \in DOMAIN versions |->
        Texts(At(entries, {i \in DOMAIN entries : entries[i].version = versions[v]}))])

\* A regional form without texts of its own games shows none.
select_dex_entries_Wrong_NoFallback(species, region) ==
    LET english == English(species.flavor)
    IN  FirstThree(dedupe(IF region = None THEN Reverse(Texts(english))
                          ELSE TextsOf(english, PreferredVersions[region])))

\* The texts of the region's own games, else of all games, newest first.
select_dex_entries(species, region) ==
    LET english == English(species.flavor)
        picked == dedupe(TextsOf(english, PreferredVersions[region]))
    IN  IF region # None /\ picked # <<>> THEN FirstThree(picked)
        ELSE FirstThree(dedupe(Reverse(Texts(english))))

build_row(ref, species) ==
    [form_key |-> ref.form_key,
     display_name |-> build_display_name(species.english, ref.region_key, ref.breed_key),
     slug |-> pokemon_slug(species.english, ref.region_key, ref.breed_key),
     generation |-> IF ref.region_key = None THEN species.generation
                    ELSE RegionGeneration[ref.region_key],
     dex_entries |-> select_dex_entries(species, ref.region_key)]

=============================================================================
