---------------------------- MODULE SpecParsers ----------------------------
(***************************************************************************)
(* One parse of a portal that publishes OpenAPI files: T-Bank, Tochka and  *)
(* Sber (bank_api_parser/parsers/), over _parse_openapi_spec.              *)
(*                                                                         *)
(* A parser reads its documents one after the other; a step is one         *)
(* document, which is read or cannot be.  What a document says is a        *)
(* constant of the parse.  Fields and examples of a method are left out    *)
(* (SpecWalk), and so are addresses and titles.                            *)
(***************************************************************************)
EXTENDS Naturals, Sequences, FiniteSets, SequencesExt, InOrder

CONSTANTS Described,   \* Described[d]: the operations of document d: key (verb
                       \* and path) and tags
          NoTag,       \* the tag of an operation without one
          Spaces,      \* T-Bank: its three documents, in order
          Private,     \*   those of the closed space
          Parent,      \*   Parent[d]: x-parent-tag of the tags that have one
          Products,    \* Tochka: its three specifications, in order
          Entry,       \*   home page, runtime and main: the way to
          Routes,      \*   the pages of the nominal account, in order
          Slugs,       \* Sber: the sections the overview may link, in order
          Extra,       \*   EXTRA_SECTIONS
          Title,       \*   Title[s]
          SpecsOf,     \*   _spec_list: the documents of section s, in order
          NotInMenu    \*   the pairs of document and key without a page

Documents == DOMAIN Described

\* What is assumed of the constants.  The keys of a document are those of a
\* dict; the products of Tochka have names of their own.
PortalAssumption ==
    /\ \A d \in Documents : \A op, o \in Described[d] :
          IsFiniteSet(op.tags) /\ (op.key = o.key => op = o)
    /\ {Spaces, Products, Entry, Routes} \subseteq Seq(Documents)
    /\ Slugs \in Seq(DOMAIN SpecsOf) /\ Extra \in Seq(DOMAIN SpecsOf)
    /\ \A s \in DOMAIN SpecsOf : SpecsOf[s] \in Seq(Documents) \ {<<>>}
    /\ "account" \notin Documents
    /\ Spaces # <<>> /\ Entry # <<>>
    /\ \A k \in 1..Len(Products \o Entry) - 1 : (Products \o Entry)[k] # Last(Entry)
    /\ Last(Entry) \notin Range(Routes)

VARIABLES bank,
          todo,    \* what is left of the loops: sections with documents to read
          rows,    \* methods so far
          parsing,
          plan,    \* history variable: all that was to be read
          read,    \* history variable: all that was
          dropped  \* history variable: pages that should have been read

vars == <<bank, todo, rows, parsing, plan, read, dropped>>

Banks == {"tbank", "tochka", "sber"}

TypeOK ==
    /\ bank \in Banks
    /\ parsing \in {"begin", "reading", "done", "error"}
    /\ \A k \in DOMAIN todo : todo[k].docs \in Seq(Documents) \ {<<>>}
    /\ \A r \in rows : r.doc \in Documents /\ r.hidden \in BOOLEAN
    /\ \A item \in plan : item.doc \in Documents
    /\ read \subseteq plan /\ dropped \subseteq plan

Init ==
    /\ bank \in Banks
    /\ todo = <<>> /\ rows = {}
    /\ parsing = "begin"
    /\ plan = {} /\ read = {} /\ dropped = {}

-----------------------------------------------------------------------------
(* What is read *)

Loop(section, docs) == [section |-> section, docs |-> docs]

Sections(slugs) == [k \in DOMAIN slugs |-> Loop(slugs[k], SpecsOf[slugs[k]])]

ItemsOf(loops) ==
    UNION {{[section |-> loop.section, doc |-> d] : d \in Range(loop.docs)} : loop \in Range(loops)}

\* The sections that the overview links, and the one it never links to.
Discovered(linked) == Among(Slugs, linked) \o Among(Extra, Range(Extra) \ linked)

FirstLoops ==
    CASE bank = "tbank"  -> {<<Loop("", Spaces)>>}
      [] bank = "tochka" -> {<<Loop("", Products \o Entry)>>}
      [] bank = "sber"   -> {Sections(Discovered(linked)) : linked \in (SUBSET Range(Slugs)) \ {{}}}

Begin ==
    /\ parsing = "begin"
    /\ todo' \in FirstLoops
    /\ plan' = ItemsOf(todo')
    /\ parsing' = "reading"
    /\ UNCHANGED <<bank, rows, read, dropped>>

-----------------------------------------------------------------------------
(* The methods of a document *)

Tags(op) == IF op.tags = {} THEN {NoTag} ELSE op.tags

IsPage(d) == d \in Range(Routes)

\* "Product. Tag": every page of the nominal account is of one product.
Prefixed(d, t) == <<IF IsPage(d) THEN "account" ELSE d, t>>

Service(item, t) ==
    CASE bank = "tochka" -> Prefixed(item.doc, t)
      [] bank = "tbank"  -> IF t \in DOMAIN Parent[item.doc] THEN <<Parent[item.doc][t], t>> ELSE <<t>>
      [] bank = "sber"   -> <<Title[item.section]>>

Hidden(item, key) ==
    \/ bank = "tbank" /\ item.doc \in Private
    \/ bank = "sber" /\ <<item.doc, key>> \in NotInMenu

RowsOf(item) ==
    UNION {{[service |-> Service(item, t), key |-> op.key, doc |-> item.doc,
             section |-> item.section, hidden |-> Hidden(item, op.key)] : t \in Tags(op)} :
              op \in Described[item.doc]}

\* Mutant of Fresh: every document of a section counts.
FreshAll(item) == RowsOf(item)

\* Within a section of Sber's a method counts once.
Fresh(item) ==
    {r \in RowsOf(item) : bank = "sber" =>
        \A q \in rows : q.section = r.section => q.key # r.key}

-----------------------------------------------------------------------------
(* Reading *)

Item == [section |-> Head(todo).section, doc |-> Head(Head(todo).docs)]

Rest ==
    IF Len(Head(todo).docs) = 1 THEN Tail(todo)
    ELSE <<Loop(Head(todo).section, Tail(Head(todo).docs))>> \o Tail(todo)

\* main.js lists the pages of the nominal account.
ListsPages == bank = "tochka" /\ Item.doc = Last(Entry)

\* A document is read.
Read ==
    /\ parsing = "reading" /\ todo # <<>>
    /\ rows' = rows \cup Fresh(Item)
    /\ read' = read \cup {Item}
    /\ IF ~ListsPages
       THEN todo' = Rest /\ UNCHANGED plan
       ELSE \E found \in (SUBSET Range(Routes)) \ {{}} :
               /\ todo' = <<Loop("", Among(Routes, found))>>
               /\ plan' = plan \cup ItemsOf(todo')
    /\ UNCHANGED <<bank, parsing, dropped>>

GoOnWithout ==
    /\ parsing = "reading" /\ todo # <<>>
    /\ bank = "tochka" /\ IsPage(Item.doc)
    /\ todo' = Rest
    /\ UNCHANGED <<bank, rows, parsing, plan, read>>

\* A page of the nominal account without a field "api": the page of a category,
\* as far as the parser can tell.
Skip == GoOnWithout /\ UNCHANGED dropped

\* A page whose hash no chunk file has, or whose operation has no method or path:
\* a warning.
Drop == GoOnWithout /\ dropped' = dropped \cup {Item}

\* No answer, an error, no specification, a broken link of the chain.
Fail ==
    /\ parsing \in {"begin", "reading"}
    /\ parsing' = "error"
    /\ UNCHANGED <<bank, todo, rows, plan, read, dropped>>

Enough == bank = "tochka" => \E r \in rows : IsPage(r.doc)

Finish ==
    /\ parsing = "reading" /\ todo = <<>>
    /\ parsing' = IF Enough THEN "done" ELSE "error"
    /\ UNCHANGED <<bank, todo, rows, plan, read, dropped>>

Next == Begin \/ Read \/ Skip \/ Drop \/ Fail \/ Finish

Spec == Init /\ [][Next]_vars

-----------------------------------------------------------------------------
(* Properties *)

\* "A snapshot as a whole or not at all" (README.md:17), as far as it goes: every
\* specification of the plan was read, and every operation of what was read is a
\* row in each of its services, or, for Sber, in its section.  Of the pages of
\* Tochka's nominal account any may be missing but not all (ChainIsWhole).
WholeOrNothing ==
    parsing = "done" =>
        /\ \A item \in plan \ read : bank = "tochka" /\ IsPage(item.doc)
        /\ \A item \in read : \A op \in Described[item.doc] :
              IF bank = "sber"
              THEN \E r \in rows : r.key = op.key /\ r.service = <<Title[item.section]>>
              ELSE Cardinality({r \in rows : r.key = op.key /\ r.doc = item.doc})
                      = Cardinality(Tags(op))
        /\ bank = "tochka" => \E r \in rows : IsPage(r.doc)

\* "Any break in that chain raises ParserError instead of silently producing a
\* partial or wrong snapshot" (tochka_parser.py:145): no snapshot lacks a page
\* that main.js lists because its chunk or its method could not be found.
\* Violated: such a page is left out with a warning.
ChainIsWhole == parsing = "done" => dropped = {}

\* "Must never reach the public dashboard" (tbank_parser.py:104): a row that is
\* shown is described by an open document that has a page for it, also when the
\* closed space describes the same method.
ShownHasPage ==
    \A r \in rows : ~r.hidden =>
        /\ bank = "tbank" => r.doc \notin Private
        /\ bank = "sber" => <<r.doc, r.key>> \notin NotInMenu

\* A section of several documents counts a method once (sber_parser.py:201).
OnceInSection ==
    bank = "sber" => \A r, q \in rows : r.section = q.section /\ r.key = q.key => r = q

\* "Can never collide into one service" (tochka_parser.py:99): a service has
\* the methods of one product.
ProductsApart ==
    bank = "tochka" => \A r, q \in rows :
        r.service = q.service => r.doc = q.doc \/ (IsPage(r.doc) /\ IsPage(q.doc))

=============================================================================
