-------------------------- MODULE ContentDocument --------------------------
(***************************************************************************)
(* The outputs of a content pack: what Django asks for, what the Content   *)
(* Renderer makes of it, and which template Django gives each output that  *)
(* comes back.  The two programs share a JSON contract that names no       *)
(* template per output: the renderer picks one of its own registry, and    *)
(* Django looks it up in its own catalogue.                                *)
(*                                                                         *)
(* A pack has a type and a set of links, each a template to include as an  *)
(* output.  The catalogue maps the template keys Django has to statuses.   *)
(***************************************************************************)

-----------------------------------------------------------------------------
(* Django: the catalogue and the payload *)

\* ContentPackTemplate: a template included in a pack, as what output.
Link(template, type, format, required) ==
    [template |-> template, output_type |-> type, format |-> format,
     required |-> required]

\* The catalogue as seed_content leaves it, and the packs it starts with.
SeededTemplates ==
    [t \in {"system_post", "system_story", "system_carousel", "system_thumbnail",
            "system_report", "system_media_kit"} |-> "active"]

SeededPacks ==
    {[type |-> "release_pack",
      links |-> {Link("system_post", "post", "png", TRUE),
                 Link("system_story", "story", "png", TRUE),
                 Link("system_thumbnail", "thumbnail", "png", TRUE)}],
     [type |-> "milestone_pack",
      links |-> {Link("system_post", "post", "png", TRUE),
                 Link("system_carousel", "carousel", "png", TRUE)}],
     [type |-> "weekly_growth_pack",
      links |-> {Link("system_post", "post", "png", TRUE),
                 Link("system_story", "story", "png", TRUE)}],
     [type |-> "auto_media_kit",
      links |-> {Link("system_media_kit", "media_kit", "pdf", TRUE),
                 Link("system_report", "report", "pdf", TRUE)}]}

\* _templates_and_outputs: the links whose template is active.
ExpectedOutputs(pack, catalogue) ==
    {l \in pack.links : catalogue[l.template] = "active"}

\* A campaign has a name; an artist, a track and an active smart link are what the
\* workspace may hold besides.  An expected output carries its type, its format and its
\* flag: no template.  Two that agree on them are told apart by their place in the list.
Payload(pack, catalogue, held) ==
    [pack_type |-> pack.type,
     named |-> {"campaign"} \cup (held \cap {"artist", "track"}),
     smart_link |-> "smart_link" \in held,
     expected_outputs |-> ExpectedOutputs(pack, catalogue)]

-----------------------------------------------------------------------------
(* The renderer: the registry *)

TemplateKeys ==
    {"generic_post", "generic_story", "milestone_card", "weekly_growth_card",
     "release_card", "report_cover", "media_kit_cover"}

\* resolveTemplate: an unknown key falls back.
ResolvedKey(key) == IF key \in TemplateKeys THEN key ELSE "generic_post"

\* resolveOutputDimensions: an unknown format falls back.  (Packs are seeded with file
\* formats, which no social format is.)
ResolvedFormat(format) ==
    IF format \in {"post_1_1", "post_4_5", "story_9_16", "thumbnail_16_9"}
    THEN format ELSE "post_1_1"

-----------------------------------------------------------------------------
(* The renderer: the outputs of a job *)

Rendition(type, key, format, required) ==
    [output_type |-> type, template_key |-> key, format |-> format,
     required |-> required]

\* PACK_DEFAULTS, and FALLBACK_SPEC for every other type.
FallbackSpec == Rendition("post", "generic_post", "post_1_1", TRUE)

PackDefaults ==
    [release_pack |-> Rendition("post", "release_card", "post_1_1", TRUE),
     milestone_pack |-> Rendition("post", "milestone_card", "post_1_1", TRUE),
     weekly_growth_pack |-> Rendition("post", "weekly_growth_card", "post_1_1", TRUE),
     monthly_recap_pack |-> Rendition("post", "generic_post", "post_1_1", TRUE),
     auto_media_kit |-> Rendition("cover", "media_kit_cover", "post_4_5", FALSE)]

DefaultSpec(payload) ==
    IF payload.pack_type \in DOMAIN PackDefaults
    THEN PackDefaults[payload.pack_type] ELSE FallbackSpec

\* readExpectedOutput: an output that names no template takes the pack's primary one.
ReadExpectedOutput(payload, expected) ==
    Rendition(IF expected.output_type = "" THEN "post" ELSE expected.output_type,
          DefaultSpec(payload).template_key,
          IF expected.format = "" THEN "post_1_1" ELSE expected.format,
          expected.required)

\* The specs by the place each has in the job: never none.
Specs(payload) ==
    IF payload.expected_outputs = {}
    THEN [place \in {DefaultSpec(payload)} |-> place]
    ELSE [place \in payload.expected_outputs |-> ReadExpectedOutput(payload, place)]

\* firstOf: no payload of Django sets a title, so the names of the product do; a campaign
\* has one, and the artist's is never reached.
Title(payload) == IF "track" \in payload.named THEN "track" ELSE "campaign"

\* renderTemplate and what renderOne reports of it, rendered or failed.
RenderedOutput(payload, spec) ==
    [output_type |-> spec.output_type,
     template_key |-> ResolvedKey(spec.template_key),
     dimension |-> ResolvedFormat(spec.format),
     required |-> spec.required,
     title |-> Title(payload),
     cta |-> payload.smart_link]

Result(payload) ==
    [place \in DOMAIN Specs(payload) |->
        RenderedOutput(payload, Specs(payload)[place])]

-----------------------------------------------------------------------------
(* Django: the callback *)

\* _resolve_template, which no template_id ever reaches: the key the renderer used,
\* then the links the pack has by now with that type of output, of which the first in
\* order is taken.  A template that is no longer active is found as well.
TemplatesOf(pack, catalogue, output) ==
    IF output.template_key \in DOMAIN catalogue THEN {output.template_key}
    ELSE {l.template : l \in {k \in pack.links : k.output_type = output.output_type}}

LinkedPlaces(result, pack, catalogue) ==
    {place \in DOMAIN result : TemplatesOf(pack, catalogue, result[place]) # {}}

RequiredPlaces(result) == {place \in DOMAIN result : result[place].required}
=============================================================================
