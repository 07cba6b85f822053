--------------------------- MODULE ContextCompiler ---------------------------
(***************************************************************************)
(* Compiling a context bundle and replaying its receipt:                   *)
(* services/context_compiler.py over adapters/context_candidates.py, the   *)
(* lexical index of sqlite_catalog_search.py and the rows of               *)
(* sqlite_catalog_visual_context.py, in the default (ranked lexical)       *)
(* profile, for one task.                                                  *)
(*                                                                         *)
(* A compilation is many reads: a head per document, a page of the index   *)
(* at a time, the visual records of a representation.  Between two of them *)
(* other processes ingest, so that heads move and the ranks by which the   *)
(* index sorts its pages change everywhere.  Evidence is numbered in the   *)
(* total order lexical_candidate_rank_key puts it in.                      *)
(*                                                                         *)
(* Left out: trust and sensitivity, which admit everything here; objects,  *)
(* which are published before the rows that name them; the time of a       *)
(* snapshot, which only makes receipts differ; the semantic profile.       *)
(***************************************************************************)
EXTENDS Integers, Sequences, FiniteSets, SequencesExt

CONSTANTS
    Documents,     \* numbers: their identities, in order
    Scopes,        \* representations, the recipe being fixed
    DocumentOf,    \* the document of a scope
    TextScopes,    \* those with blocks in the lexical index; the others are rich
    Blocks, Projections, Handles,  \* evidence: blocks, rich projections, visual records
    Home,          \* the scope of an item of evidence
    Rows,          \* blocks the index finds for the task
    Hits,          \* blocks and projections that have a term of the task
    Relevant,      \* evidence that meets the minimum relevance
    Body,          \* blocks and projections: what they say
    Shows,         \* handles: the projection they are an image of
    Cost,          \* what an item adds to the bundle
    Base, NoticeCost,  \* what an empty bundle, and a notice, take
    BudgetLimit,   \* budget_limit of the request
    Required,      \* evidence the policy requires: "exact", "visual"
    PageSize, Quota, PrefixSize,  \* MAX_SEARCH_LIMIT, max_per_document, ranked_prefix
    DefaultLimits, \* ContextCompileLimits()
    LimitsOffered, \* limits of requests
    Compilers,     \* processes
    None,
    MaxStored      \* bound: compilations

Evidence == Blocks \union Projections \union Handles
Limits == [discovered: Nat, candidates: Nat, decisions: Nat]

ASSUME ContextAssumption ==
    /\ Documents \subseteq Nat /\ DocumentOf \in [Scopes -> Documents]
    /\ Evidence \subseteq Nat \ {0} /\ IsFiniteSet(Evidence)
    /\ Home \in [Evidence -> Scopes] /\ Cost \in [Evidence -> Nat]
    /\ Blocks \intersect Projections = {} /\ Rows \subseteq Blocks
    /\ \A b \in Rows : Home[b] \in TextScopes
    /\ Hits \subseteq Rows \union Projections
    /\ {Base, NoticeCost, BudgetLimit, PageSize} \subseteq Nat
    /\ DefaultLimits \in LimitsOffered /\ LimitsOffered \subseteq Limits

VARIABLES
    ready,     \* scopes whose representation is READY, and indexed
    head,      \* document_heads
    order,     \* the rows the index finds, as bm25 ranks them
    visual,    \* visual_evidence: records that exist
    stored,    \* context_compilations, by receipt
    made,      \* history: how the stored receipts came about
    proc       \* where every compiler stands

vars == <<ready, head, order, visual, stored, made, proc>>

Idle == [at |-> "idle", replay |-> None, docs |-> {}, todo |-> {}, limits |-> DefaultLimits,
         scopes |-> {}, offset |-> 0, available |-> None, seen |-> {}, found |-> {},
         saw |-> {}, result |-> None]

\* A rank of the rows of S: any order that bm25, which looks at all texts, may give.
Rankings(S) == SetToSeqs({b \in Rows : Home[b] \in S})

Init ==
    /\ ready = {}
    /\ head = [d \in Documents |-> None]
    /\ order = <<>>
    /\ visual = {}
    /\ stored = {}
    /\ made = {}
    /\ proc = [p \in Compilers |-> Idle]
-----------------------------------------------------------------------------
(* What other processes do meanwhile. *)

\* An ingestion of s: the first one writes its rows with its blocks; it makes s the head,
\* unless there is one and the observation is not the newest (see Representations).
Ingest(s) ==
    /\ ready' = ready \union {s}
    /\ head' \in {[head EXCEPT ![DocumentOf[s]] = s], head}
    /\ head'[DocumentOf[s]] # None
    /\ IF s \in TextScopes \ ready THEN order' \in Rankings(ready') ELSE UNCHANGED order
    /\ UNCHANGED <<visual, stored, made, proc>>

\* commit_visual_evidence: an image of an accepted projection, inserted or found.
CommitVisualEvidence(h) ==
    /\ Home[h] \in ready
    /\ visual' = visual \union {h}
    /\ UNCHANGED <<ready, head, order, stored, made, proc>>
-----------------------------------------------------------------------------
(* Budget, classification and allocation: pure. *)

\* The elements of A one after the other, none before one that R puts ahead of it.
Listed(A, R) ==
    CHOOSE s \in SetToSeqs(A) :
        \A i, j \in 1..Cardinality(A) : i < j => <<s[j], s[i]>> \notin R

Ceiling == BudgetLimit - (BudgetLimit + 9) \div 10

\* The numbers that have a digit more than those below.
Powers == {10, 100, 1000, 10000, 100000, 1000000, 10000000, 100000000, 1000000000}

Digits(n) == 1 + Cardinality({power \in Powers : power <= n})

\* What a bundle takes that states twice how much it takes, and takes zero with 0 there.
Usage(zero) ==
    LET measured[i \in 0..8] == IF i = 0 THEN 0 ELSE zero + 2 * (Digits(measured[i-1]) - 1)
    IN  measured[8]

Fits(zero) == Usage(zero) <= Ceiling

Earlier(e, S) == {x \in S : x < e}

\* One handle of a projection, the first to be discovered; the rest are duplicates.
Eligible(D) ==
    {e \in D \cap (Relevant \union Handles) :
        e \in Handles => ~\E x \in Earlier(e, D \cap Handles) : Shows[x] = Shows[e]}

\* Exact deduplication, then a quota for every source.
Unique(E) == {e \in E : e \in Handles \/ ~\E x \in Earlier(e, E \ Handles) : Body[x] = Body[e]}

OfSource(e, S) == {x \in S : Home[x] = Home[e]}

WithinQuota(U) == {e \in U : Cardinality(Earlier(e, OfSource(e, U))) < Quota}

\* The best of all, then the sources in turn, in the order of their best.
Allocated(A) ==
    LET prefix == {e \in A : Cardinality(Earlier(e, A)) < PrefixSize}
        rest == A \ prefix
        Round(e) == IF e \in prefix THEN 0
                    ELSE 1 + Cardinality(Earlier(e, OfSource(e, rest)))
        Turn(e) == IF e \in prefix THEN e ELSE Min(OfSource(e, rest))
        Ahead(x, y) == \/ Round(x) < Round(y)
                       \/ Round(x) = Round(y) /\ Turn(x) < Turn(y)
    IN  Listed(A, {pair \in A \X A : Ahead(pair[1], pair[2])})

\* A candidate is taken when it still fits.
Considered(acc, e) ==
    IF Fits(acc.zero + Cost[e])
    THEN [acc EXCEPT !.selected = Append(@, e), !.zero = @ + Cost[e]]
    ELSE [acc EXCEPT !.omitted = @ \union {e}]

\* _select_candidates: one after the other.
Selection(candidates) ==
    LET acc[i \in 0..Len(candidates)] ==
            IF i = 0 THEN [selected |-> <<>>, omitted |-> {}, zero |-> Base]
            ELSE Considered(acc[i-1], candidates[i])
    IN  acc[Len(candidates)]

KindOf(e) == IF e \in Handles THEN "visual" ELSE "exact"

\* missing_evidence: nothing that is required, or no image although one is required.
Missing(selected) ==
    LET kinds == {KindOf(e) : e \in ToSet(selected)}
    IN  Required \cap kinds = {} \/ "visual" \in Required \ kinds

\* A defect: every record is a subject of its own.
Subject_ByRecord(e) == e

\* What a decision is about: an image is known by its projection.
Subject(e) == <<KindOf(e), IF e \in Handles THEN Shows[e] ELSE e>>

\* SelectionReceipt refuses two decisions about one subject.
Exclusive(decided) == \A x, y \in decided : Subject(x) = Subject(y) => x = y

\* Images are discovered last, in the order of documents and records.
ByDocument(x, y) ==
    \/ DocumentOf[Home[x]] < DocumentOf[Home[y]]
    \/ Home[x] = Home[y] /\ x < y

\* What discovery found, cut at the limit of the request.
Discovered(found, saw, limits) ==
    LET room == limits.discovered - Cardinality(found)
        listed == Listed(saw, {pair \in saw \X saw : ByDocument(pair[1], pair[2])})
    IN  found \union ToSet(SubSeq(listed, 1, Min({room, Len(listed)})))

\* Whether an empty selection, missing evidence or a cut is told in the bundle.
Notified(sel, ordered, truncated) == Missing(sel.selected) \/ truncated \/ ordered = <<>>

\* _compile_with_snapshot after discovery: the receipt, or None where it raises.
Compiled(scopes, found, saw, limits) ==
    LET D == Discovered(found, saw, limits)
        admitted == WithinQuota(Unique(Eligible(D)))
        ordered == Allocated(admitted)
        candidates == SubSeq(ordered, 1, Min({limits.candidates, Len(ordered)}))
        truncated == D # found \union saw \/ Len(ordered) > limits.candidates
        sel == Selection(candidates)
        zero == sel.zero + IF Notified(sel, ordered, truncated) THEN NoticeCost ELSE 0
        rejected == D \ admitted
    IN  IF \/ ~Fits(Base) \/ ~Fits(zero)
           \/ Len(candidates) + Cardinality(rejected) > limits.decisions
           \/ ~Exclusive(ToSet(candidates) \union rejected)
        THEN None
        ELSE [scopes |-> scopes, selected |-> sel.selected, omitted |-> sel.omitted,
              rejected |-> rejected, truncated |-> truncated,
              missing |-> Missing(sel.selected), used |-> Usage(zero)]
-----------------------------------------------------------------------------
(* One compilation, or one replay. *)

At(p, place) == proc[p].at = place
Goto(p, next) == proc' = [proc EXCEPT ![p] = next]

\* An exception, a cancellation, the death of the process, or the answer.
Raise(p) == Goto(p, Idle)

\* The next document, in the order of their identities.
Upcoming(p) == Min(proc[p].todo)

\* compile_and_persist is called for some documents.
Compile(p) ==
    /\ At(p, "idle") /\ Cardinality(stored) < MaxStored
    /\ \E docs \in (SUBSET Documents) \ {{}}, limits \in LimitsOffered :
          Goto(p, [Idle EXCEPT !.at = "resolve", !.docs = docs, !.todo = docs,
                               !.limits = limits])
    /\ UNCHANGED <<ready, head, order, visual, stored, made>>

\* _resolve_snapshot_rows: the head of the next document.
Resolve(p) ==
    LET d == Upcoming(p)
        left == proc[p].todo \ {d}
    IN  /\ At(p, "resolve")
        /\ IF head[d] = None THEN Raise(p)
           ELSE Goto(p, [proc[p] EXCEPT
                    !.scopes = @ \union {head[d]},
                    !.at = IF left = {} THEN "text" ELSE "resolve",
                    !.todo = IF left = {} THEN proc[p].docs ELSE left])
        /\ UNCHANGED <<ready, head, order, visual, stored, made>>

\* A defect: the replay resolves the heads anew.
Replay_Floats(p) ==
    /\ At(p, "idle")
    /\ \E r \in stored :
          LET docs == {DocumentOf[s] : s \in r.scopes}
          IN  Goto(p, [Idle EXCEPT !.at = "resolve", !.replay = r, !.docs = docs, !.todo = docs])
    /\ UNCHANGED <<ready, head, order, visual, stored, made>>

\* _replay: the recorded scopes, the default limits.
Replay(p) ==
    /\ At(p, "idle")
    /\ \E r \in stored :
          LET docs == {DocumentOf[s] : s \in r.scopes}
          IN  Goto(p, [Idle EXCEPT !.at = "text", !.replay = r, !.docs = docs,
                                   !.todo = docs, !.scopes = r.scopes])
    /\ UNCHANGED <<ready, head, order, visual, stored, made>>

\* All rows of a document, of whatever version, in the order of the moment.
RowsOf(d) ==
    LET rows[i \in 0..Len(order)] ==
            IF i = 0 THEN <<>>
            ELSE IF DocumentOf[Home[order[i]]] = d THEN Append(rows[i-1], order[i])
                                                  ELSE rows[i-1]
    IN  rows[Len(order)]

\* The rows of a page that become candidates: of the snapshot, with an exact match.
Accepted(p, page) == {b \in ToSet(page) \cap Hits : Home[b] \in proc[p].scopes}

\* A row arrives when there are as many candidates as the request allows.
Overflows(p, page) ==
    \E i \in DOMAIN page :
        Cardinality(proc[p].found \union Accepted(p, SubSeq(page, 1, i - 1)))
            >= proc[p].limits.discovered

\* A defect: the count of the first page is trusted to the end.
Drifts_Trusting(p, page, count) == ToSet(page) \cap proc[p].seen # {}

\* The index has changed since the first page, or a row has come again.
Drifts(p, page, count) ==
    \/ proc[p].available \notin {None, count}
    \/ ToSet(page) \cap proc[p].seen # {}

\* _match_rows and discover of the text source: one page of one document.
Page(p) ==
    LET d == Upcoming(p)
        rows == RowsOf(d)
        c == proc[p]
        page == SubSeq(rows, c.offset + 1, Min({c.offset + PageSize, Len(rows)}))
        available == IF c.available = None THEN Len(rows) ELSE c.available
        offset == c.offset + Len(page)
        left == c.todo \ {d}
    IN  /\ At(p, "text")
        /\ IF \/ Drifts(p, page, Len(rows))
              \/ page = <<>> /\ c.offset < available
              \/ Overflows(p, page)
              \/ offset >= available /\ available # Cardinality(c.seen \union ToSet(page))
           THEN Raise(p)
           ELSE LET read == [c EXCEPT !.found = @ \union Accepted(p, page)]
                IN  IF offset < available
                    THEN Goto(p, [read EXCEPT !.offset = offset, !.available = available,
                                              !.seen = @ \union ToSet(page)])
                    ELSE Goto(p, [read EXCEPT !.offset = 0, !.available = None, !.seen = {},
                                      !.at = IF left = {} THEN "rich" ELSE "text",
                                      !.todo = left])
        /\ UNCHANGED <<ready, head, order, visual, stored, made>>

\* The rich source: every projection of the snapshot is read, in order.
Scan(p) ==
    LET c == proc[p]
        records == {e \in Projections : Home[e] \in c.scopes}
        matches == records \cap Hits
        full(e) == Cardinality({x \in matches : ByDocument(x, e)}) >= c.limits.discovered
    IN  /\ At(p, "rich")
        /\ IF \/ \E e \in records : full(e)
              \/ Cardinality(c.found \union matches) > c.limits.discovered
           THEN Raise(p)
           ELSE Goto(p, [c EXCEPT !.found = @ \union matches, !.at = "visual", !.todo = c.docs])
        /\ UNCHANGED <<ready, head, order, visual, stored, made>>

\* The visual source: the records of the next scope that exist by now.
ListVisual(p) ==
    LET c == proc[p]
        d == Upcoming(p)
        left == c.todo \ {d}
        saw == c.saw \union {h \in visual : Home[h] \in c.scopes /\ DocumentOf[Home[h]] = d}
    IN  /\ At(p, "visual")
        /\ IF Cardinality(saw) > c.limits.discovered THEN Raise(p)
           ELSE Goto(p, [c EXCEPT !.saw = saw, !.todo = left,
                                  !.at = IF left = {} THEN "select" ELSE "visual"])
        /\ UNCHANGED <<ready, head, order, visual, stored, made>>

\* A defect: a refused compilation is recorded.
Select_Anyway(p) ==
    LET c == proc[p]
        r == Compiled(c.scopes, c.found, c.saw, c.limits)
    IN  /\ At(p, "select")
        /\ Goto(p, [c EXCEPT !.result = r, !.at = IF c.replay = None THEN "commit" ELSE "compare"])
        /\ UNCHANGED <<ready, head, order, visual, stored, made>>

\* The rest of _compile_with_snapshot.
Select(p) ==
    LET c == proc[p]
        r == Compiled(c.scopes, c.found, c.saw, c.limits)
    IN  /\ At(p, "select")
        /\ IF r = None THEN Raise(p)
           ELSE Goto(p, [c EXCEPT !.result = r,
                                  !.at = IF c.replay = None THEN "commit" ELSE "compare"])
        /\ UNCHANGED <<ready, head, order, visual, stored, made>>

\* commit_context_compilation, once both objects are published: inserted or found.
Commit(p) ==
    LET c == proc[p]
    IN  /\ At(p, "commit") /\ c.scopes \subseteq ready
        /\ stored' = stored \union {c.result}
        /\ made' = made \union {[receipt |-> c.result, saw |-> c.saw, limits |-> c.limits]}
        /\ Raise(p)
        /\ UNCHANGED <<ready, head, order, visual>>

\* The end of _replay: the result is returned, or the divergence raised.
Compare(p) ==
    /\ At(p, "compare")
    /\ Raise(p)
    /\ UNCHANGED <<ready, head, order, visual, stored, made>>

\* Cancelled, killed, or failed by something not modelled.
Abandon(p) ==
    /\ ~At(p, "idle")
    /\ Raise(p)
    /\ UNCHANGED <<ready, head, order, visual, stored, made>>

Next ==
    \/ \E s \in Scopes : Ingest(s)
    \/ \E h \in Handles : CommitVisualEvidence(h)
    \/ \E p \in Compilers :
          \/ Compile(p) \/ Resolve(p) \/ Replay(p)
          \/ Page(p) \/ Scan(p) \/ ListVisual(p)
          \/ Select(p) \/ Commit(p) \/ Compare(p) \/ Abandon(p)

Spec == Init /\ [][Next]_vars
-----------------------------------------------------------------------------
Receipt == [scopes: SUBSET Scopes, selected: Seq(Evidence), omitted: SUBSET Evidence,
            rejected: SUBSET Evidence, truncated: BOOLEAN, missing: BOOLEAN, used: Nat]

Places == {"idle", "resolve", "text", "rich", "visual", "select", "commit", "compare"}

\* The types of the variables; only receipts are stored, each with an origin.
TypeOK ==
    /\ ready \subseteq Scopes
    /\ head \in [Documents -> ready \union {None}]
    /\ order \in Rankings(ready)
    /\ visual \subseteq Handles
    /\ stored \subseteq Receipt /\ {m.receipt : m \in made} = stored
    /\ \A p \in Compilers :
          LET c == proc[p]
          IN  /\ c.at \in Places /\ c.replay \in stored \union {None}
              /\ c.todo \subseteq c.docs /\ c.docs \subseteq Documents
              /\ c.limits \in LimitsOffered /\ c.scopes \subseteq ready
              /\ c.found \subseteq Hits /\ c.saw \subseteq visual
              /\ c.result \in Receipt \union {None}

\* A search that comes to its end has found exactly the blocks of the snapshot that match,
\* although it read one page at a time of an index that others write to and that ranks its
\* rows anew for every text they add (_match_rows, TextLexicalCandidateSource.discover).
DiscoveryIsExact ==
    \A p \in Compilers :
        proc[p].at \in {"rich", "visual", "select", "commit", "compare"} =>
            proc[p].found \cap Blocks = {b \in Hits \cap Blocks : Home[b] \in proc[p].scopes}

\* A replay that comes to its end arrives at the receipt it started from, whatever was
\* ingested since and wherever the heads have moved, unless the compilation had other than
\* the default limits or visual evidence was recorded for its snapshot since (_replay).
ReplayReproduces ==
    \A p \in Compilers : At(p, "compare") =>
        \A m \in made :
            /\ m.receipt = proc[p].replay
            /\ m.limits = DefaultLimits
            /\ m.saw = proc[p].saw
            => proc[p].result = proc[p].replay

\* What a bundle of the items of s takes, with zero where it states how much.
Total(s) ==
    LET sum[i \in 0..Len(s)] == IF i = 0 THEN Base ELSE sum[i-1] + Cost[s[i]]
    IN  sum[Len(s)]

\* A receipt accounts for everything discovered, once each, and for no projection with two
\* images, says so when something was cut off, stays within the ceiling, and leaves out
\* nothing that would still fit (_compile_with_snapshot, _select_candidates,
\* SelectionReceipt).
ReceiptsAccount ==
    \A p \in Compilers : At(p, "commit") =>
        LET c == proc[p]
            r == c.result
            decided == ToSet(r.selected) \union r.omitted \union r.rejected
        IN  /\ Len(r.selected) + Cardinality(r.omitted) + Cardinality(r.rejected)
                  = Cardinality(decided)
            /\ \A x, y \in decided \cap Handles : Shows[x] = Shows[y] => x = y
            /\ decided \subseteq c.found \union c.saw
            /\ decided # c.found \union c.saw => r.truncated
            /\ r.used <= Ceiling
            /\ \A e \in r.omitted : Usage(Total(r.selected) + Cost[e]) > Ceiling

=============================================================================
