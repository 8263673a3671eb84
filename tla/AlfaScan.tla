------------------------------ MODULE AlfaScan ------------------------------
(***************************************************************************)
(* One parse of the Alfa-Bank portal                                       *)
(* (bank_api_parser/parsers/alfabank_parser.py): the article index, a scan *)
(* of every leaf article by a pool of threads, one retry of the leaves     *)
(* that failed, and the methods that only the release notes mention.       *)
(*                                                                         *)
(* A step is one answer of the portal, in any order among the threads.     *)
(* What a page says is a constant of the parse; whether it can be had is   *)
(* not.                                                                    *)
(***************************************************************************)
EXTENDS Naturals, Sequences, FiniteSets, InOrder

CONSTANTS Tree,         \* the article index in document order, folders before
                        \* what is in them: parent (0: none), tags, visible,
                        \* page (NoPage for an entry without path) and ignored
          Endpoints,    \* Endpoints[p]: the methods page p describes, as written
          Notes,        \* methods the release notes mention, as written
          NoPage,
          Workers,      \* threads of the pool
          MaxRedirects  \* MAX_REDIRECTS

Entries == 1..Len(Tree)
Pages == {Tree[e].page : e \in Entries} \ {NoPage}

\* What is assumed of the constants.
AlfaAssumption ==
    /\ Tree \in Seq([parent : Nat, tags : SUBSET STRING, visible : BOOLEAN,
                     page : Pages \cup {NoPage}, ignored : BOOLEAN])
    /\ \A e \in Entries : Tree[e].parent \in 0..(e - 1)
    /\ Pages \subseteq DOMAIN Endpoints
    /\ Workers # {} /\ IsFiniteSet(Workers)
    /\ MaxRedirects \in Nat

-----------------------------------------------------------------------------
(* What the index and the pages say *)

\* An entry and the folders it is in.
Chain[e \in Entries] ==
    IF Tree[e].parent = 0 THEN {e} ELSE {e} \cup Chain[Tree[e].parent]

\* Mutant of IsPrivate: only the entry's own tag counts.
IsPrivateItself(e) == "private" \in Tree[e].tags

IsPrivate(e) == \E a \in Chain[e] : "private" \in Tree[a].tags

\* The nearest folder tagged as a service (the entry itself may be), else the
\* folder the entry is in, else the entry.
ServiceOf(e) ==
    LET tagged == {a \in Chain[e] : "service" \in Tree[a].tags}
    IN  IF tagged # {} THEN CHOOSE a \in tagged : \A b \in tagged : b <= a
        ELSE IF Tree[e].parent # 0 THEN Tree[e].parent ELSE e

IsLeaf(e) ==
    /\ \A c \in Entries : Tree[c].parent # e
    /\ Tree[e].page # NoPage
    /\ ~Tree[e].ignored

Leaves == Ascending({e \in Entries : IsLeaf(e)})

HiddenReason(e) ==
    IF IsPrivate(e) THEN "private" ELSE IF ~Tree[e].visible THEN "superseded" ELSE "none"

\* The key of a method: a leading /api is dropped.
Norm(m) == [m EXCEPT !.api = FALSE]

-----------------------------------------------------------------------------
VARIABLES stage,
          leaves,    \* what _collect_leaf_articles found, in document order
          queue,     \* positions of the leaves of this pass
          taken,     \* how many of them the threads have taken
          got,       \* pool.map's results: got[k] is for queue[k]
          busy,      \* busy[w]: the place in the queue thread w works at, or 0
          hops,      \* redirects thread w followed for it
          results,   \* results of _scan_all_articles, by position
          snapshot,
          answers    \* history variable: the last answer for each position

vars == <<stage, leaves, queue, taken, got, busy, hops, results, snapshot, answers>>

Positions == DOMAIN leaves

\* A page; a 404; no page, or one that cannot be understood; JSON of another
\* shape, which raises what _fetch_article_page does not catch.
Answers == {"page", "missing", "failed", "raised"}

TypeOK ==
    /\ stage \in {"start", "first", "retry", "notes", "done", "error"}
    /\ leaves \in Seq(Entries)
    /\ queue \in Seq(Positions)
    /\ taken \in 0..Len(queue)
    /\ got \in [DOMAIN queue -> Answers \cup {"pending"}]
    /\ busy \in [Workers -> {0} \cup DOMAIN queue]
    /\ hops \in [Workers -> 0..MaxRedirects]
    /\ results \in [Positions -> Answers \cup {"pending"}]
    /\ answers \in [Positions -> Answers \cup {"pending"}]

Init ==
    /\ stage = "start"
    /\ leaves = <<>>
    /\ queue = <<>> /\ got = <<>> /\ taken = 0
    /\ busy = [w \in Workers |-> 0]
    /\ hops = [w \in Workers |-> 0]
    /\ results = <<>> /\ answers = <<>>
    /\ snapshot = {}

-----------------------------------------------------------------------------
(* The scan *)

Pass(name, q) ==
    /\ stage' = name
    /\ queue' = q /\ taken' = 0
    /\ got' = [k \in DOMAIN q |-> "pending"]
    /\ UNCHANGED <<busy, hops, snapshot>>

End(name) ==
    /\ stage' = name
    /\ UNCHANGED <<leaves, queue, taken, got, busy, hops, answers>>

\* The build id and the index are read, or one of them cannot be.
Discover ==
    /\ stage = "start"
    /\ \/ /\ leaves' = Leaves
          /\ results' = [i \in DOMAIN Leaves |-> "pending"]
          /\ answers' = [i \in DOMAIN Leaves |-> "pending"]
          /\ Pass("first", [i \in DOMAIN Leaves |-> i])
       \/ End("error") /\ UNCHANGED <<results, snapshot>>

Take(w) ==
    /\ stage \in {"first", "retry"}
    /\ busy[w] = 0 /\ taken < Len(queue)
    /\ taken' = taken + 1
    /\ busy' = [busy EXCEPT ![w] = taken + 1]
    /\ hops' = [hops EXCEPT ![w] = 0]
    /\ UNCHANGED <<stage, leaves, queue, got, results, snapshot, answers>>

\* Mutant of Answer: a page that failed counts as one without methods.
AnswerLenient(w, a) ==
    /\ busy[w] # 0
    /\ got' = [got EXCEPT ![busy[w]] = IF a = "failed" THEN "missing" ELSE a]
    /\ answers' = [answers EXCEPT ![queue[busy[w]]] = a]
    /\ busy' = [busy EXCEPT ![w] = 0]
    /\ UNCHANGED <<stage, leaves, queue, taken, hops, results, snapshot>>

Answer(w, a) ==
    /\ busy[w] # 0
    /\ got' = [got EXCEPT ![busy[w]] = a]
    /\ answers' = [answers EXCEPT ![queue[busy[w]]] = a]
    /\ busy' = [busy EXCEPT ![w] = 0]
    /\ UNCHANGED <<stage, leaves, queue, taken, hops, results, snapshot>>

\* Mutant of Redirect: the hops are not counted.
RedirectForever(w) ==
    /\ busy[w] # 0
    /\ hops' = [hops EXCEPT ![w] = (@ + 1) % (MaxRedirects + 1)]
    /\ UNCHANGED <<stage, leaves, queue, taken, got, busy, results, snapshot, answers>>

\* Mutant of Redirect: one hop more than there may be.
RedirectOnceMore(w) ==
    /\ busy[w] # 0 /\ hops[w] <= MaxRedirects
    /\ hops' = [hops EXCEPT ![w] = @ + 1]
    /\ UNCHANGED <<stage, leaves, queue, taken, got, busy, results, snapshot, answers>>

\* The portal sends the reader to another page.
Redirect(w) ==
    /\ busy[w] # 0 /\ hops[w] < MaxRedirects
    /\ hops' = [hops EXCEPT ![w] = @ + 1]
    /\ UNCHANGED <<stage, leaves, queue, taken, got, busy, results, snapshot, answers>>

RedirectOnceTooOften(w) == hops[w] = MaxRedirects /\ Answer(w, "failed")

Idle == \A w \in Workers : busy[w] = 0

Raised == \E k \in DOMAIN got : got[k] = "raised"

\* list(pool.map(...)) raises; leaves that wait are cancelled.
Abort ==
    /\ stage \in {"first", "retry"} /\ Idle /\ Raised
    /\ End("error") /\ UNCHANGED <<results, snapshot>>

PassOver(name) ==
    stage = name /\ Idle /\ taken = Len(queue) /\ ~Raised

FailedOnes == Ascending({i \in Positions : got[i] = "failed"})

EndFirst ==
    /\ PassOver("first")
    /\ results' = got
    /\ IF FailedOnes = <<>> THEN End("notes") /\ UNCHANGED snapshot
       ELSE Pass("retry", FailedOnes) /\ UNCHANGED <<leaves, answers>>

\* The retried results take the places of those that failed.
Merged ==
    [i \in Positions |->
        IF \E k \in DOMAIN queue : queue[k] = i
        THEN got[CHOOSE k \in DOMAIN queue : queue[k] = i] ELSE results[i]]

EndRetry ==
    /\ PassOver("retry")
    /\ results' = Merged
    /\ End(IF \E i \in Positions : Merged[i] = "failed" THEN "error" ELSE "notes")
    /\ UNCHANGED snapshot

-----------------------------------------------------------------------------
(* The snapshot *)

Describes(i, key) ==
    /\ results[i] = "page"
    /\ \E m \in Endpoints[Tree[leaves[i]].page] : Norm(m) = key

Describing(key) == {i \in Positions : Describes(i, key)}

ArticleKeys ==
    {key \in {Norm(m) : m \in UNION {Endpoints[p] : p \in Pages}} : Describing(key) # {}}

Row(key, service, reason) == [key |-> key, service |-> service, hidden |-> reason]

\* The first leaf that describes a method decides about its service and on
\* whether it is shown.
ArticleRow(key) ==
    LET places == Describing(key)
        leaf == leaves[CHOOSE i \in places : \A j \in places : i <= j]
    IN  Row(key, ServiceOf(leaf), HiddenReason(leaf))

ArticleRows == {ArticleRow(key) : key \in ArticleKeys}

GhostRows == {Row(key, 0, "ghost") : key \in {Norm(m) : m \in Notes} \ ArticleKeys}

Finish ==
    /\ stage = "notes"
    /\ \/ ArticleRows # {} /\ End("done") /\ snapshot' = ArticleRows \cup GhostRows
       \/ End("error") /\ UNCHANGED snapshot  \* no method, or no release notes
    /\ UNCHANGED results

Next ==
    \/ Discover
    \/ \E w \in Workers : \/ Take(w) \/ Redirect(w) \/ RedirectOnceTooOften(w)
                          \/ \E a \in Answers : Answer(w, a)
    \/ Abort \/ EndFirst \/ EndRetry \/ Finish

Spec == Init /\ [][Next]_vars

\* A request is over within its timeout.
FairSpec == Spec /\ WF_vars(Next)

-----------------------------------------------------------------------------
(* Properties *)

\* "A partial scan is an error" (alfabank_parser.py:9): whatever the order of
\* the answers and of the retries, what the snapshot is made of is the last
\* answer the portal gave for that very leaf, and every leaf has one.
NoPartialSnapshot ==
    stage \in {"notes", "done"} =>
        \A i \in Positions : results[i] = answers[i] /\ answers[i] \in {"page", "missing"}

\* The method itself, however its path is written.
Method(row) == [row.key EXCEPT !.api = FALSE]

\* A method has one row, also when articles and release notes write its path
\* with and without /api.
OneRowPerMethod ==
    \A r1, r2 \in snapshot : Method(r1) = Method(r2) => r1 = r2

\* What the dashboard may show is described by an article that is visible and
\* in no private folder.
ShownIsPublic ==
    \A r \in snapshot : r.hidden = "none" =>
        \E i \in Positions :
            /\ answers[i] = "page"
            /\ \E m \in Endpoints[Tree[leaves[i]].page] : Method(r) = [m EXCEPT !.api = FALSE]
            /\ Tree[leaves[i]].visible
            /\ \A a \in Chain[leaves[i]] : "private" \notin Tree[a].tags

\* Whatever the portal answers, the parse ends.
ScanEnds == stage = "start" ~> stage \in {"done", "error"}

=============================================================================
