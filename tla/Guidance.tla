------------------------------ MODULE Guidance ------------------------------
(***************************************************************************)
(* Retrieval of manuals, policies and notes: backend/app/rag/retrieval.py  *)
(* and what the agent graph makes of it while drafting.  A chunk is        *)
(* [doc, rev, section, text, model, component, status, superseded,         *)
(* effective, score]: text stands for its content hash, score for its      *)
(* similarity to the query (every query ranks alike here), and a corpus is *)
(* the table of chunks in its order.  Approval and supersession are a      *)
(* document's: all chunks of one revision have them alike.                 *)
(***************************************************************************)
EXTENDS Integers, Sequences, FiniteSets, SequencesExt

CONSTANT K   \* chunks a search returns, 4 in the code

ALL == "ALL"   \* also "", in a chunk or as the caller's None

\* A DocumentChunk row, as far as a search reads it.
IsChunk(c) ==
  /\ DOMAIN c = {"doc", "rev", "section", "text", "model", "component", "status",
                 "superseded", "effective", "score"}
  /\ c.status \in {"APPROVED", "OBSOLETE", "DRAFT", "UNAPPROVED"} /\ c.superseded \in BOOLEAN
  /\ c.effective \in Int /\ c.score \in Int

\* A table of chunks, as _add_doc() of rag/corpus.py fills it.
IsCorpus(corpus) ==
  /\ corpus \in Seq(ToSet(corpus)) /\ \A c \in ToSet(corpus) : IsChunk(c)
  /\ \A c, d \in ToSet(corpus) : c.doc = d.doc /\ c.rev = d.rev
       => c.status = d.status /\ c.superseded = d.superseded

\* _applicable(): no caller narrows the search to a plant.
Applicable(c, model, component) ==
  /\ model # ALL => c.model \in {ALL, model}
  /\ component # ALL => c.component \in {ALL, component}

Authoritative(c) == c.status = "APPROVED" /\ ~c.superseded

\* search(): what may be returned, then the k most similar of it, of equally
\* similar chunks the first.  Nothing depends on the order they are returned in.
Candidates(corpus, today, model, component, approvedOnly) ==
  {i \in DOMAIN corpus :
     /\ approvedOnly => Authoritative(corpus[i])
     /\ corpus[i].effective <= today
     /\ Applicable(corpus[i], model, component)}

Search(corpus, today, model, component, approvedOnly, k) ==
  LET matching == Candidates(corpus, today, model, component, approvedOnly)
      before(i) == {j \in matching : \/ corpus[j].score > corpus[i].score
                                     \/ corpus[j].score = corpus[i].score /\ j < i}
  IN  {corpus[i] : i \in {j \in matching : Cardinality(before(j)) < k}}

\* Mutant: two chunks are the same when their text is.
SameChunk_Text(c, d) == c.text = d.text

SameChunk(c, d) == c.doc = d.doc /\ c.rev = d.rev /\ c.section = d.section

\* detect_conflicts(): what matched as well and is not authoritative.
Conflicts(corpus, today, model, component) ==
  LET approved == Search(corpus, today, model, component, TRUE, K)
      everything == Search(corpus, today, model, component, FALSE, 3 * K)
      shown(c) == \E d \in approved : SameChunk(c, d)
  IN  {c \in everything : ~shown(c) /\ ~Authoritative(c)}
=============================================================================
