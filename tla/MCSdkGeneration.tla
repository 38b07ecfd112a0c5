-------------------------- MODULE MCSdkGeneration ----------------------------
(***************************************************************************)
(* Revisions of a small API for TLC: two operations, with schemas in two   *)
(* contracts, and what the SDK says of them.                               *)
(***************************************************************************)
EXTENDS SdkGeneration

Schema(c, id, kind, required, optional) ==
  [contract |-> c, id |-> id, kind |-> kind, required |-> required, optional |-> optional,
   secret |-> {}, properties |-> "object", complete |-> TRUE]

Route(id, method, params, request, response) ==
  [id |-> id, names |-> <<"items", id>>, method |-> method, params |-> params,
   request |-> request, response |-> response, complete |-> TRUE, supported |-> TRUE]

ReadQuery == Schema("read", "Query", "request", {}, {"f"})
ReadItem == Schema("read", "Item", "response", {"f", "g"}, {})
EditItem == [Schema("edit", "Change", "request", {"f", "h"}, {}) EXCEPT !.secret = {"h"}]

\* A parameter of the path that no schema has, and one that is a field, too.
Get == Route("get", "GET", {"p"}, Ref(ReadQuery), {Ref(ReadItem)})
Put == Route("put", "PATCH", {"f"}, Ref(EditItem), {})

MCInput ==
  [status |-> "draft", allowed |-> {"typescript", "dart"}, targets |-> {"typescript"},
   route |-> {"path"}, error |-> {"code"}, runtime |-> {"timeout"}, webhook |-> {"event"},
   ownership |-> {"tokens"}, forbidden |-> {"secret"}]

\* A plain revision; one that makes a field optional and a parameter secret; one whose
\* second operation lacks metadata and that forbids another value; one that gives two
\* operations the same names; one that no script gets through.
Plain ==
  [input |-> MCInput, listed |-> <<"read", "edit">>, routes |-> {Get, Put}, rules |-> {"trace"},
   script |-> TRUE,
   schemas |-> [read |-> {ReadQuery, ReadItem}, edit |-> {EditItem}]]

MCApi ==
  [plain |-> Plain,
   relaxed |-> [Plain EXCEPT !.schemas.read =
                  {ReadQuery, [Schema("read", "Item", "response", {"f"}, {"g"})
                                 EXCEPT !.properties = "renamed"]},
                             !.schemas.edit = {[EditItem EXCEPT !.secret = {"f"}]}],
   dropped |-> [Plain EXCEPT !.routes = {Get, [Put EXCEPT !.complete = FALSE]},
                             !.rules = {"trace", "cookie"}],
   clashing |-> [Plain EXCEPT !.routes = {Get, [Put EXCEPT !.names = Get.names]}],
   broken |-> [Plain EXCEPT !.routes = {Get, Put, [Put EXCEPT !.id = "get"]},
                            !.schemas.edit = {EditItem, [EditItem EXCEPT !.optional = {"g"}]},
                            !.schemas.read =
                               {ReadQuery, [ReadItem EXCEPT !.properties = "unsupported"]}]]

MCRequired == [generation |-> [targets |-> {"typescript"}, forbidden |-> {"secret"}]]
MCExact == [generation |-> [sourceRepo |-> "zdp-api-contracts"]]
MCBoundary == [tokens |-> "refresh token storage"]

Typed(types, inline) == [types |-> types, inline |-> inline]

\* Types for the schemas of the first operation, and for the second one's too; the last
\* gives two inline models one name.
ReadTypes ==
  [r \in {Ref(ReadQuery), Ref(ReadItem)} |->
     IF r = Ref(ReadQuery)
     THEN Typed([f |-> "nullable"], {})
     ELSE Typed([f |-> "text", g |-> "object"], {"Owner"})]

AllTypes(inline) ==
  [r \in DOMAIN ReadTypes \cup {Ref(EditItem)} |->
     IF r = Ref(EditItem) THEN Typed([f |-> "text", h |-> "object"], inline) ELSE ReadTypes[r]]

MCConfigs == {ReadTypes, AllTypes({}), AllTypes({"Owner"})}

Agreed ==
  [generation |-> [targets |-> {"typescript"}, route |-> {"path"}, error |-> {"code"},
                   runtime |-> {"timeout"}, webhook |-> {"event"}, status |-> "draft",
                   mustNotOwn |-> {"refresh token storage"},
                   forbidden |-> {"secret", "trace"}, sourceRepo |-> "zdp-api-contracts"],
   libs |-> [targets |-> {"typescript"}, forbidden |-> {"stack"}, status |-> "draft"],
   auth |-> [owns |-> {}, mustNotOwn |-> {}, status |-> "draft"],
   upload |-> [owns |-> {}, mustNotOwn |-> {}, status |-> "draft"]]

MCDocuments ==
  {Agreed,
   [Agreed EXCEPT !.generation.forbidden = {"secret", "trace", "cookie"}],
   [Agreed EXCEPT !.generation.mustNotOwn = {}],
   [Agreed EXCEPT !.generation.runtime = {}],
   [Agreed EXCEPT !.libs.targets = {}]}

\* With and without each field, and one that nobody knows.
MCRequests ==
  UNION {[fields -> Values] : fields \in {{}, {"p"}, {"p", "f"}, {"f"}, {"f", "h"}}}
    \cup {[p |-> "text", x |-> "text"]}

MCAnswers ==
  {{}} \cup {{a} : a \in {Nothing, [f |-> "text"], [f |-> "text", g |-> "object"],
                          [f |-> "null", g |-> "object"], [f |-> "text", g |-> "items"],
                          [f |-> "text", g |-> "object", x |-> "text"], [g |-> "object"]}}
=============================================================================
