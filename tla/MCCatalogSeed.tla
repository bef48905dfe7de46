--------------------------- MODULE MCCatalogSeed ---------------------------
(***************************************************************************)
(* Instances of CatalogSeed for TLC: two species, and what may become of   *)
(* them upstream.                                                          *)
(***************************************************************************)
EXTENDS CatalogSeed

Variety(name, is_default) == [name |-> name, is_default |-> is_default]
Text(version, language, text) == [version |-> version, language |-> language, text |-> text]

Vulpix == [name |-> <<"vulpix">>, english |-> "Vulpix", generation |-> 1,
           varieties |-> <<Variety(<<"vulpix">>, TRUE), Variety(<<"vulpix", "alola">>, FALSE)>>,
           flavor |-> <<Text("red", "en", "t1"), Text("sun", "ja", "t2"), Text("sun", "en", "t3"),
                        Text("moon", "en", "t3"), Text("sword", "en", "blank")>>]

Darmanitan == [name |-> <<"darmanitan">>, english |-> "Darmanitan", generation |-> 5,
               varieties |-> <<Variety(<<"darmanitan", "standard">>, TRUE),
                               Variety(<<"darmanitan", "galar", "zen">>, FALSE)>>,
               flavor |-> <<Text("black", "en", "t1")>>]

\* The slug of an English name that has been corrected would be another.
Renamed == [Vulpix EXCEPT !.english = "Vulpyx"]
\* Two species swap their English names.
AsDarmanitan == [Vulpix EXCEPT !.english = "Darmanitan"]
AsVulpix == [Darmanitan EXCEPT !.english = "Vulpix"]
\* The default variety gets another key.
Rekeyed == [Darmanitan EXCEPT !.varieties = <<Variety(<<"darmanitan">>, TRUE)>>]
\* Two varieties of the same region, both plain.
Clashing == [Darmanitan EXCEPT !.varieties =
               <<Variety(<<"darmanitan", "galar">>, FALSE),
                 Variety(<<"darmanitan", "galar", "standard">>, FALSE)>>]

Payloads ==
    [vulpix |-> Vulpix, renamed |-> Renamed, asDarmanitan |-> AsDarmanitan,
     darmanitan |-> Darmanitan, rekeyed |-> Rekeyed, asVulpix |-> AsVulpix,
     clashing |-> Clashing]

Base == <<"vulpix", "darmanitan">>

\* The first seed of all, while a species vanishes; then of a full catalog: a
\* correction, a species that vanishes and returns, two species that swap
\* their names, a key that changes before two forms clash.
Days == {[past |-> <<>>, future |-> <<Base, <<"vulpix">>>>],
         [past |-> Base, future |-> <<<<"renamed", "darmanitan">>, <<"renamed">>, Base>>],
         [past |-> Base, future |-> <<<<"asDarmanitan", "asVulpix">>>>],
         [past |-> Base, future |-> <<<<"vulpix", "rekeyed">>, <<"clashing">>>>]}

Darmanitans == {<<"darmanitan", "standard">>}

Slugs == [name \in {"Vulpix", "Vulpyx", "Darmanitan"} |->
            CASE name = "Vulpix" -> "vulpix" [] name = "Vulpyx" -> "vulpyx"
              [] name = "Darmanitan" -> "darmanitan"]

=============================================================================
