------------------------------ MODULE SpecWalk ------------------------------
(***************************************************************************)
(* How $refs are followed while an example or the list of fields is made   *)
(* from a schema: _resolve_ref, _fetch_external_spec, _schema_to_example   *)
(* and _extract_fields of bank_api_parser/parsers/base_parser.py.          *)
(*                                                                         *)
(* The two recursive functions are a walk with a stack: one frame for each *)
(* $ref that is being followed, a step down for one of the $refs of the    *)
(* schema on top, in any order, a step back when a call returns.  What is  *)
(* between two $refs of a branch is one level deep; values are left out.   *)
(* A walk begins at a body, of the operation or of a response, which may   *)
(* itself be a $ref into a sibling file.                                   *)
(***************************************************************************)
EXTENDS Naturals, Sequences, FiniteSets

CONSTANTS Docs,         \* addresses of files
          Host,         \* Host[d]
          Main,         \* the specification that was downloaded
          Names,        \* pointers within a file
          Graphs,       \* the contents the files may have
          Local,        \* the file part of '#/...'
          MaxDepth,     \* MaxDepth[walk]: _MAX_EXAMPLE_DEPTH, or 4
          MaxNested     \* fields: objects deeper than this are not entered (2)

Walks == {"example", "fields"}

\* The text of a $ref.
Refs == [file : Docs \cup {Local}, name : Names]

Schemas == [kind : {"object", "combiner", "alias"}, refs : SUBSET Refs]

\* What is assumed of the constants.
WalkAssumption ==
    /\ Main \in Docs /\ Local \notin Docs
    /\ IsFiniteSet(Docs) /\ IsFiniteSet(Names)
    /\ Host \in [Docs -> Docs]       \* a host is named by one of its files
    /\ MaxDepth \in [Walks -> Nat] /\ MaxNested \in Nat
    /\ \A g \in Graphs : \A d \in Docs : \A n \in DOMAIN g[d] : n \in Names /\ g[d][n] \in Schemas

VARIABLES graph,    \* graph[d][n]: the schema at pointer n of file d
          known,    \* whether the address of Main is handed on: Alfa's is not
          body,     \* the document of the body that is walked
          walk,
          stack,
          cache,    \* _external_spec_cache
          last,     \* how the last $ref was resolved, and what it means
          fetches   \* history variable: downloads of each file as a sibling

vars == <<graph, known, body, walk, stack, cache, last, fetches>>

\* at: where the schema was found; doc, seen: the document and the $refs the
\* function goes on with; via: called for a part of a combiner, whose own $ref
\* was followed before; place: history variable, the schema that is meant.
Frame == [at : Docs \X Names, doc : Docs, seen : SUBSET Refs, depth : Nat,
          via : BOOLEAN, place : Docs \X Names]

TypeOK ==
    /\ graph \in Graphs /\ known \in BOOLEAN /\ body \in Docs /\ walk \in Walks
    /\ \A i \in DOMAIN stack : stack[i] \in Frame
    /\ cache \in [Docs -> {"unknown", "good", "empty"}]
    /\ last.outcome \in {"none", "cut", "refused", "unavailable", "absent", "deep", "found"}
    /\ fetches \in [Docs -> Nat]

Nothing == [outcome |-> "none"]

Init ==
    /\ graph \in Graphs
    /\ known \in BOOLEAN
    /\ body = Main
    /\ walk = "example"
    /\ stack = <<>>
    /\ cache = [d \in Docs |-> "unknown"]
    /\ last = Nothing
    /\ fetches = [d \in Docs |-> 0]

-----------------------------------------------------------------------------
(* _resolve_ref, called where a frame f has met the $ref t *)

External(t) == t.file # Local

\* Mutant of SameOrigin: any absolute address will do.
AnyOrigin(d, base) == TRUE

SameOrigin(d, base) == Host[d] = Host[base]

Allowed(f, t) == External(t) => known /\ SameOrigin(t.file, f.doc)

Downloads(f, t) ==
    External(t) /\ t \notin f.seen /\ Allowed(f, t) /\ cache[t.file] = "unknown"

\* Mutant of Kept: a file that could not be read is not remembered.
KeptIfGood(d) == {cache, [cache EXCEPT ![d] = "good"]}

\* _fetch_external_spec keeps a file that could not be read as an empty one.
Kept(d) == {[cache EXCEPT ![d] = c] : c \in {"good", "empty"}}

Fetch(f, t) ==
    IF Downloads(f, t)
    THEN /\ cache' \in Kept(t.file)
         /\ fetches' = [fetches EXCEPT ![t.file] = @ + 1]
    ELSE UNCHANGED <<cache, fetches>>

Found(f, t) == <<IF External(t) THEN t.file ELSE f.doc, t.name>>

\* Mutant of Document: the $refs of a sibling file are looked up in the first one.
DocumentOfCaller(f, t) == f.doc

\* The document to go on with.
Document(f, t) == IF External(t) THEN t.file ELSE f.doc

Seen(f, t) == f.seen \cup {t}

\* What t means: a pointer into the file that it is written in.
Meaning(f, t) == <<IF External(t) THEN t.file ELSE f.place[1], t.name>>

Outcome(f, t) ==
    IF t \in f.seen THEN "cut"
    ELSE IF ~Allowed(f, t) THEN "refused"
    ELSE IF External(t) /\ cache'[t.file] # "good" THEN "unavailable"
    ELSE IF t.name \notin DOMAIN graph[Found(f, t)[1]] THEN "absent"
    ELSE "found"

-----------------------------------------------------------------------------
(* The walk *)

Schema(f) == graph[f.at[1]][f.at[2]]

\* A schema that is itself a $ref is not followed again, but for the part of a
\* combiner, which _schema_to_example resolves before it calls itself.
Children(f) ==
    IF \/ Schema(f).kind = "alias" /\ ~f.via
       \/ walk = "fields" /\ Schema(f).kind = "object" /\ f.depth >= MaxNested
    THEN {} ELSE Schema(f).refs

ResolvesFirst(f) == walk = "example" /\ Schema(f).kind = "combiner"

Below(f) == IF Schema(f).kind = "alias" THEN f.depth ELSE f.depth + 1

\* What a call at this depth does with the $ref t that f has met.
Call(f, t, depth, via) ==
    /\ Fetch(f, t)
    /\ last' = [outcome |-> Outcome(f, t), ref |-> t, means |-> Meaning(f, t)]
    /\ stack' = IF Outcome(f, t) # "found" THEN stack
                ELSE Append(stack, [at |-> Found(f, t), doc |-> Document(f, t), seen |-> Seen(f, t),
                                    depth |-> depth, via |-> via, place |-> Meaning(f, t)])

\* What is not below a schema: an operation, or a response, of document d.
Root(d) == [doc |-> d, seen |-> {}, place |-> <<d>>]

\* _select_response goes on in the document that the $ref t of a response leads
\* to, and forgets that it has followed t.
Respond(t) ==
    /\ stack = <<>>
    /\ Fetch(Root(Main), t)
    /\ body' = IF External(t) /\ Allowed(Root(Main), t) /\ cache'[t.file] = "good"
               THEN t.file ELSE Main
    /\ last' = Nothing
    /\ UNCHANGED <<graph, known, walk, stack>>

\* The schema of a body.
Begin(w, t) ==
    /\ stack = <<>>
    /\ walk' = w
    /\ Call(Root(body), t, 0, FALSE)
    /\ UNCHANGED <<graph, known, body>>

Top == stack[Len(stack)]

Descend(t) ==
    /\ stack # <<>> /\ t \in Children(Top)
    /\ Below(Top) <= MaxDepth[walk]
    /\ Call(Top, t, Below(Top), ResolvesFirst(Top))
    /\ UNCHANGED <<graph, known, body, walk>>

TooDeep(t) ==
    /\ stack # <<>> /\ t \in Children(Top)
    /\ Below(Top) > MaxDepth[walk]
    /\ IF ResolvesFirst(Top) THEN Fetch(Top, t) ELSE UNCHANGED <<cache, fetches>>
    /\ last' = [outcome |-> "deep"]
    /\ UNCHANGED <<graph, known, body, walk, stack>>

\* Mutant of Back: what one branch has seen is closed for its siblings.
BackWithSeen ==
    LET n == Len(stack) - 1
    IN  [i \in 1..n |-> IF i = n THEN [stack[i] EXCEPT !.seen = @ \cup Top.seen] ELSE stack[i]]

Back == SubSeq(stack, 1, Len(stack) - 1)

Return ==
    /\ stack # <<>>
    /\ stack' = Back
    /\ last' = Nothing
    /\ UNCHANGED <<graph, known, body, walk, cache, fetches>>

Next ==
    \/ \E t \in Refs : Respond(t) \/ (\E w \in Walks : Begin(w, t)) \/ Descend(t) \/ TooDeep(t)
    \/ Return

Spec == Init /\ [][Next]_vars

-----------------------------------------------------------------------------
(* Properties *)

\* A $ref means a pointer into the file it is written in, however many files
\* the branch has come through.
RightDocument ==
    \A i \in DOMAIN stack : stack[i].at = stack[i].place /\ stack[i].doc = stack[i].place[1]

\* Only files on the host of the specification are read, also those that the
\* sibling files name, and none for an embedded specification, which has no
\* address (alfabank_parser.py:479).
StaysOnHost ==
    \A d \in Docs : fetches[d] > 0 => known /\ Host[d] = Host[Main]

\* "One file is downloaded once per parse" (base_parser.py:284), whether it can
\* be read or not: every $ref of the parse into it finds the same.
FetchedOnce == \A d \in Docs : fetches[d] <= 1

\* No $ref is followed twice on a branch, so that a branch ends by itself
\* before the limit of the depth makes it end.
NoRefTwice == \A i \in DOMAIN stack : Cardinality(stack[i].seen) = i

Places == {stack[i].place : i \in DOMAIN stack}

\* A $ref is cut as a cycle only if the branch is inside the schema that it
\* means, whatever its siblings have followed before; for a branch that has
\* come through one file.
CutsAreCycles ==
    last.outcome = "cut" =>
        last.means \in Places \/ \E p \in Places : p[1] # last.means[1]

\* "A cycle is caught without blocking legitimate reuse" (base_parser.py:339),
\* "a $ref that would revisit itself on the same branch" (559) is cut.
\* Violated: _seen holds the text of a local $ref without the file it is in,
\* and the same pointer of another file counts as visited.
OnlyCyclesAreCut == last.outcome = "cut" => last.means \in Places

=============================================================================
