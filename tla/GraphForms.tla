----------------------------- MODULE GraphForms -----------------------------
(***************************************************************************)
(* The prompts of stage 1 (ttd/prompts) as forms, and what the readers of  *)
(* ttd/stages/graph.rs take from an answer that follows them.  A form is   *)
(* the root element it asks for, what of the draft and of its surroundings *)
(* it shows, and the parts of a node and of an edge that it asks for; a    *)
(* reader knows parts by name too and passes over the others.              *)
(***************************************************************************)
EXTENDS Fitness

Form(root, shows, node, edge) == [root |-> root, shows |-> shows, node |-> node, edge |-> edge]

-----------------------------------------------------------------------------
(* What of the graph is shown.                                             *)

\* render_nodes_section and render_edges_section: v1 shows a node as its id and claim.
NodesShownV1 == {"id", "text"}
EdgesShownV1 == {"edges"}
\* ArgumentationGraph::to_xml_string; its source stands where the readers look for it.
GraphShownLit == {"id", "text", "quote", "source", "edges"}

EndsV1  == {"from", "to", "type"}
EndsLit == {"source", "target", "type"}

-----------------------------------------------------------------------------
(* The forms.                                                              *)

ExtractionV1  == Form("graph", {"question", "response"}, {"id", "text", "source", "quote"}, EndsV1)
\* The paper is named in the answer too, and the model stamps its own quotes.
ExtractionLit == Form("graph", {"paper", "response"}, {"id", "text", "quote", "expert_id", "stamp"}, EndsLit)

ResolutionV1  == Form("resolution", {"question", "id", "text", "source"}, {"merges"}, EndsV1)
ResolutionLit == Form("graph", GraphShownLit, {}, EndsLit)

\* A gap asks for its description and its query.
GapsV1  == Form("gaps", NodesShownV1 \cup EdgesShownV1 \cup {"feedback"}, {"description", "query"}, {})
GapsLit == Form("gaps", GraphShownLit \cup {"question", "feedback"}, {"description", "query"}, {})

ResolveShownV1 == NodesShownV1 \cup EdgesShownV1 \cup {"gaps", "retrieved"}
PatchV1 == Form("patch", ResolveShownV1, {"id", "text", "source", "quote"}, EndsV1)
FullV1  == Form("graph", ResolveShownV1, {"id", "text", "source", "quote"}, EndsV1)
\* The lit dialect's patch prompt asks for the updated graph; its full prompt is the same.
PatchLit == Form("graph", GraphShownLit \cup {"gaps", "retrieved"}, {"id", "text", "source", "quote"}, EndsLit)
FullLit  == PatchLit

\* The judges see neither edges nor, in v1, quotes and sources; one form per dimension.
JudgeV1(dim)  == Form(dim, NodesShownV1, {"score", "rationale"}, {})
JudgeLit(dim) == Form(dim, GraphShownLit \ {"edges"}, {"score", "rationale"}, {})

\* dimension_rubric: any other name gets the rubric of overall quality.
RubricV1(dim) ==
  IF dim \in {"groundedness", "coverage", "atomicity", "non_redundancy", "relation_coherence",
              "dissent_preservation"}
  THEN dim ELSE "overall quality"

-----------------------------------------------------------------------------
(* The readers: the root they look for and the parts they know.            *)

Reads(root, node, edge) == [root |-> root, node |-> node, edge |-> edge]

ReadsExtraction == Reads("graph", {"id", "text", "quote"}, {})
ReadsResolution == Reads("resolution", {}, EndsV1)
ReadsPatch      == Reads("patch", {"id", "text", "source"}, {})
ReadsFull       == Reads("graph", {"id", "text", "source", "quote"}, {})

\* The part of a node that is asked for, written and read.
Carries(form, reader, part) == part \in form.node \cap reader.node
\* An edge is read when it has both ends and its type under the reader's names.
CarriesEdges(form, reader) == reader.edge # {} /\ reader.edge \subseteq form.edge
\* The block that the patch's and the full graph's readers look for.
HasRoot(form, reader) == form.root = reader.root
\* A part of a node survives its restatement when the model sees it and is read again.
Restates(form, reader, part) == part \in form.shows /\ Carries(form, reader, part)
=============================================================================
