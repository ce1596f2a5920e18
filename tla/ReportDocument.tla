--------------------------- MODULE ReportDocument ---------------------------
(***************************************************************************)
(* The document of a report or a media kit: the payload Django builds from *)
(* what the workspace holds, the model the Content Renderer makes of that  *)
(* payload, and the file it stores.  Two programs in two languages share   *)
(* one JSON contract, so a field is modelled by its name and its shape.    *)
(***************************************************************************)

Kinds == {"report", "media_kit"}

\* What a workspace may hold about a report or a media kit, besides its title.
Materials ==
    {"period", "campaign", "artist", "track", "sections", "outputs",
     "clicks", "items", "files", "links", "contacts"}

\* The shapes of a JSON value.
Shapes == {"null", "text", "record", "list", "empty"}

-----------------------------------------------------------------------------
(* Django: payloads.py *)

\* _campaign_block, _artist_block, _track_block: a record, or None.
Block(held, name) == IF name \in held THEN "record" ELSE "null"

\* A list of the rows the workspace holds.
Rows(held, name) == IF name \in held THEN "list" ELSE "empty"

\* The rows of the report's campaign: none when it has no campaign.
RowsOf(held, owner, name) == IF owner \in held THEN Rows(held, name) ELSE "empty"

ReportPayload(held) ==
    [title |-> "text",
     period |-> IF "period" \in held THEN "text" ELSE "null",
     campaign |-> Block(held, "campaign"),
     artist |-> Block(held, "artist"),
     track |-> Block(held, "track"),
     sections |-> Rows(held, "sections"),
     related_outputs |-> RowsOf(held, "campaign", "outputs"),
     smart_link_stats |-> RowsOf(held, "campaign", "clicks")]

\* _artist_block has no contact, whatever the workspace holds.
MediaKitPayload(held) ==
    [artist |-> Block(held, "artist"),
     campaign |-> Block(held, "campaign"),
     track |-> Block(held, "track"),
     items |-> Rows(held, "items"),
     assets |-> Rows(held, "files"),
     smart_links |-> RowsOf(held, "artist", "links")]

Payload(kind, held) ==
    IF kind = "report" THEN ReportPayload(held) ELSE MediaKitPayload(held)

-----------------------------------------------------------------------------
(* The renderer: the two models *)

AsRecord(shape) == shape = "record"

\* The value of a field the schema keeps; a field that was not sent reads undefined.
Field(payload, name) == IF name \in DOMAIN payload THEN payload[name] ELSE "null"

\* A report needs a title, a type or a section.
ValidReport(payload) == Field(payload, "title") = "text" \/ Field(payload, "sections") = "list"

\* A media kit needs the name of its artist.
ValidMediaKit(payload) == AsRecord(Field(payload, "artist"))

\* The names both models take from the blocks.
NamesOf(payload) == {n \in {"campaign", "artist", "track"} : AsRecord(Field(payload, n))}

\* Mutant: the names are looked for in fields that are not sent.
ReportModelWithoutNames(payload) ==
    {n \in {"period"} : Field(payload, n) = "text"}
      \cup {n \in {"sections"} : Field(payload, n) = "list"}

\* buildReportModel: stats are read from a record, the count of outputs from "outputs".
ReportModel(payload) ==
    NamesOf(payload)
      \cup {n \in {"period"} : Field(payload, n) = "text"}
      \cup {n \in {"sections", "outputs"} : Field(payload, n) = "list"}
      \cup {n \in {"clicks"} : AsRecord(Field(payload, "smart_link_stats"))}

\* buildMediaKitModel: the contacts would be those of the artist's block.
MediaKitModel(payload) ==
    NamesOf(payload)
      \cup {n \in {"items"} : Field(payload, n) = "list"}
      \cup {n \in {"links"} : Field(payload, "smart_links") \in {"list", "record"}}
      \cup {n \in {"files"} : Field(payload, "assets") = "list"}

\* What the builders print of a model: the count of outputs is not printed.
HtmlReport(model) == model \ {"outputs"}
PdfReport(model) == model \ {"outputs"}
HtmlMediaKit(model) == model
PdfMediaKit(model) == model

-----------------------------------------------------------------------------
(* The renderer: the two renderers and the storage *)

FAILED == [status |-> "failed", shown |-> {}]

Document(shown) == [status |-> "completed", shown |-> shown]

\* Mutant: a document that could not be stored is reported all the same.
StoreQuietly(document) == {document, Document({})}

\* saveBuffer stores the document or throws, which fails the job.
Store(document) == {document, FAILED}

\* An invalid payload fails; a PDF that cannot be made, or is not wanted, falls back to
\* HTML; then the document is stored.
RenderReport(payload) ==
    IF ValidReport(payload)
    THEN LET model == ReportModel(payload)
         IN  Store(Document(PdfReport(model))) \cup Store(Document(HtmlReport(model)))
    ELSE {FAILED}

RenderMediaKit(payload) ==
    IF ValidMediaKit(payload)
    THEN LET model == MediaKitModel(payload)
         IN  Store(Document(PdfMediaKit(model))) \cup Store(Document(HtmlMediaKit(model)))
    ELSE {FAILED}

\* A throw fails the job, and so does a render that outlasts its timeout.
WithTimeout(documents) == documents \cup {FAILED}

Render(kind, payload) ==
    WithTimeout(IF kind = "report" THEN RenderReport(payload) ELSE RenderMediaKit(payload))

\* The callback carries an asset when a stored document completed.
HasAsset(document) == document.status = "completed"
=============================================================================
