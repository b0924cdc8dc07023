------------------------------ MODULE SearchIndex ------------------------------
(***************************************************************************)
(* The one TF-IDF index of a process (ai-nlp.service.ts), shared by all    *)
(* who search: profiles and places are added to it as they are saved       *)
(* (ai-search.service.ts indexEntity), while every search over given       *)
(* documents and every product search empties it and fills it with its     *)
(* own.  Filling and searching are one synchronous step, so no request     *)
(* sees another's documents; what is lost is everyone else's.              *)
(*                                                                         *)
(* A text is one word, which a query matches or not; by how much it does   *)
(* only decides which of more than topN matches are returned: any of them. *)
(***************************************************************************)
EXTENDS Naturals, Sequences, FiniteSets

CONSTANTS
    Entities,  \* profiles and places
    Words,
    NoText,    \* of an entity that is not saved yet, or not remembered
    MaxDocs,   \* bound: documents of a search
    MaxSaves   \* bound: saves of entities

\* No entity is named by a number, as the documents of a search are.
IndexAssumption ==
    /\ NoText \notin Words /\ MaxDocs \in Nat \ {0} /\ MaxSaves \in Nat \ {0}
    /\ Entities \cap 1..MaxDocs = {}

VARIABLES
    stored,    \* entity -> its text in the database
    corpus,    \* the index: what was added, in order
    meta,      \* entity -> the text remembered with it, NoText when it was never added
    answer,    \* the last search and what it found
    emptied,   \* entities added before the index was last emptied (history)
    saves      \* saves made (bounds the model)

indexVars == <<stored, corpus, meta, answer, emptied, saves>>

Entry(key, text) == [key |-> key, text |-> text]
Documents == UNION {[1..n -> Words] : n \in 0..MaxDocs}
Unasked == [kind |-> "none", given |-> <<>>, query |-> NoText, top |-> 0, found |-> {}]

Init ==
    /\ stored = [e \in Entities |-> NoText] /\ meta = [e \in Entities |-> NoText]
    /\ corpus = <<>> /\ answer = Unasked
    /\ emptied = {} /\ saves = 0

\* searchDocuments names what it finds by its position in the index, and returns the
\* topN that match best.
Matches(index, query) == {i \in DOMAIN index : index[i].text = query}
Found(index, query, top) ==
    {f \in SUBSET Matches(index, query) :
        IF Cardinality(Matches(index, query)) <= top THEN f = Matches(index, query)
                                                     ELSE Cardinality(f) = top}

\* An entity whose key is remembered is not added again, whatever its text is now and
\* wherever the index went.  Profiles are saved again, places only once.
SaveEntity(e, text) ==
    /\ saves < MaxSaves
    /\ saves' = saves + 1
    /\ stored' = [stored EXCEPT ![e] = text]
    /\ IF meta[e] = NoText
       THEN /\ corpus' = Append(corpus, Entry(e, text))
            /\ meta' = [meta EXCEPT ![e] = text]
       ELSE UNCHANGED <<corpus, meta>>
    /\ UNCHANGED <<answer, emptied>>

\* Entities remembered so far are gone from the index.
Refill(docs) ==
    /\ corpus' = [i \in DOMAIN docs |-> Entry(i, docs[i])]
    /\ emptied' = {e \in Entities : meta[e] # NoText}

Answer(kind, docs, query, top, found) ==
    answer' = [kind |-> kind, given |-> docs, query |-> query, top |-> top, found |-> found]

SearchDocuments(docs, query, top) ==
    /\ Refill(docs)
    /\ \E found \in Found(corpus', query, top) : Answer("documents", docs, query, top, found)
    /\ UNCHANGED <<stored, meta, saves>>

\* Candidates come from the database.  Their scores are looked up by product id, which
\* no position is, so all have none and their order stays: found holds the positions
\* of those moved.  A single one is not ranked.
SearchProducts(candidates, query) ==
    /\ IF Len(candidates) > 1 THEN Refill(candidates) ELSE UNCHANGED <<corpus, emptied>>
    /\ Answer("products", candidates, query, Len(candidates), {})
    /\ UNCHANGED <<stored, meta, saves>>

Next ==
    \/ \E e \in Entities, w \in Words : SaveEntity(e, w)
    \/ \E docs \in Documents, w \in Words :
          \/ \E top \in 1..MaxDocs : SearchDocuments(docs, w, top)
          \/ SearchProducts(docs, w)

Spec == Init /\ [][Next]_indexVars

-----------------------------------------------------------------------------
(* Properties.                                                              *)

TypeOK ==
    /\ stored \in [Entities -> Words \cup {NoText}] /\ meta \in [Entities -> Words \cup {NoText}]
    /\ \A i \in DOMAIN corpus :
          corpus[i].key \in Entities \cup 1..MaxDocs /\ corpus[i].text \in Words
    /\ answer.kind \in {"none", "documents", "products"} /\ answer.given \in Documents
    /\ answer.query \in Words \cup {NoText} /\ answer.top \in 0..MaxDocs
    /\ answer.found \subseteq 1..MaxDocs
    /\ emptied \subseteq Entities /\ saves \in 0..MaxSaves

\* A search finds documents of its own that match, and nothing that others put into
\* the shared index before.  It leaves a match out only when it has found topN.
FoundIsAsked ==
    answer.kind = "documents" =>
        LET own == {i \in DOMAIN answer.given : answer.given[i] = answer.query}
        IN  /\ answer.found \subseteq own
            /\ answer.found = own \/ Cardinality(answer.found) = answer.top
            /\ Cardinality(own) <= answer.top => answer.found = own

\* Nothing is in the index twice, an entity in it was remembered with just that text,
\* and one that is remembered but not in it was there when the index was emptied.
\* (It is not added again, and a text changed later is never indexed.)
IndexExplained ==
    /\ \A i, j \in DOMAIN corpus : corpus[i].key = corpus[j].key => i = j
    /\ \A i \in DOMAIN corpus :
          corpus[i].key \in Entities => meta[corpus[i].key] = corpus[i].text
    /\ \A e \in Entities : meta[e] # NoText =>
          (e \in emptied <=> \A i \in DOMAIN corpus : corpus[i].key # e)

\* Whoever is not in the index any more stays out of it.
EmptiedStaysOut == [][emptied \subseteq emptied']_indexVars
=============================================================================
