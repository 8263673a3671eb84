------------------------------ MODULE MCPortals ------------------------------
(***************************************************************************)
(* Small portals for PortalReading and the rotation of proxies, one        *)
(* component at a time: part names the component that is at work; the      *)
(* others stay as they are.                                                *)
(***************************************************************************)
EXTENDS ProxyRotator, PortalReading, Sequences, TLC

CONSTANTS Parts,
          p1, p2, main, common, other, A, B, C, here, nowhere

VARIABLE part

-----------------------------------------------------------------------------
(* The article index of Alfa: a private folder with a service in it, whose  *)
(* page an open article shares, a service with a current and an old article *)
(* (the old one describes what others do), an entry of an ignored type.     *)

Article(parent, tags, visible, page) ==
    [parent |-> parent, tags |-> tags, visible |-> visible, page |-> page, ignored |-> FALSE]

Index == << Article(0, {"private"}, TRUE, NoPage),
            Article(1, {"service"}, TRUE, p1),
            Article(0, {}, TRUE, p1),
            Article(0, {"service"}, TRUE, NoPage),
            Article(4, {}, TRUE, p2),
            [Article(0, {}, TRUE, p2) EXCEPT !.ignored = TRUE],
            Article(4, {}, FALSE, p1) >>

Written(api, m) == [api |-> api, method |-> m]

PageMethods == (p1 :> {Written(TRUE, "pay")}) @@ (p2 :> {Written(FALSE, "pay"), Written(TRUE, "hook")})

Mentioned == {Written(FALSE, "hook"), Written(FALSE, "esop")}

-----------------------------------------------------------------------------
(* Specifications of two files on one host and of another host's: schemas   *)
(* that go round within a file, pointers of the same name in two files, a   *)
(* schema that is a $ref, a pointer that leads nowhere.                     *)

Ref(f, n) == [file |-> f, name |-> n]
Object(rs) == [kind |-> "object", refs |-> rs]
Combiner(rs) == [kind |-> "combiner", refs |-> rs]
Alias(r) == [kind |-> "alias", refs |-> {r}]

Empty == [n \in {} |-> Object({})]

OneFile ==
    (main :> ((A :> Object({Ref(here, B), Ref(here, C)})) @@ (B :> Object({Ref(here, C)}))
              @@ (C :> Combiner({Ref(here, A)}))))
    @@ (common :> Empty) @@ (other :> Empty)

TwoFiles ==
    (main :> ((A :> Object({Ref(here, B)})) @@ (B :> Object({Ref(common, A)}))))
    @@ (common :> ((A :> Combiner({Ref(here, B), Ref(main, A)})) @@ (B :> Object({Ref(other, A)}))))
    @@ (other :> (A :> Object({})))

Aliases ==
    (main :> ((A :> Combiner({Ref(here, B), Ref(common, C)})) @@ (B :> Alias(Ref(here, C)))
              @@ (C :> Object({Ref(common, A), Ref(here, A)}))))
    @@ (common :> (A :> Object({Ref(common, A)}))) @@ (other :> Empty)

\* Every specification of one file with two schemas.
OneFileGraphs ==
    {(main :> ((A :> a) @@ (B :> b))) @@ (common :> Empty) @@ (other :> Empty) :
        a, b \in {[kind |-> k, refs |-> rs] : k \in {"object", "combiner"},
                                            rs \in SUBSET {Ref(here, A), Ref(here, B)}}}

Files == {main, common, other}
FileHost == (main :> main) @@ (common :> main) @@ (other :> other)
FileGraphs == {OneFile, TwoFiles, Aliases} \cup OneFileGraphs
Depths == [w \in {"example", "fields"} |-> 2]

UrlOrigin ==
    [u \in Urls |-> CASE u = "elsewhere" -> other [] u = "ftp" -> nowhere [] OTHER -> main]

-----------------------------------------------------------------------------
(* Portals: a method in an open and the closed space, a method of two tags, *)
(* one of none, equal tags in two products, a section of two documents that *)
(* share a method, two sections that share one.                             *)

Op(key, tags) == [key |-> key, tags |-> tags]

Contents ==
    [d \in {"sme", "partner", "private"} |->
        CASE d = "sme"     -> {Op("get", {"cards", "pay"})}
          [] d = "partner" -> {Op("post", {"cards"}), Op("list", {})}
          [] d = "private" -> {Op("get", {"pay"}), Op("put", {"pay"})}]
    @@ [d \in {"bankapi", "gateway", "medusa", "echo", "beneficiary", "intro"} |->
        CASE d = "bankapi" -> {Op("get", {"orders"})}
          [] d = "gateway" -> {Op("get", {})}
          [] d = "medusa"  -> {Op("put", {"orders"})}
          [] d = "echo"    -> {Op("post", {"orders"})}
          [] d = "beneficiary" -> {Op("post", {"orders"}), Op("put", {})}
          [] d = "intro"   -> {}]
    @@ [d \in {"home", "runtime", "mainjs"} |-> {}]
    @@ [d \in {"qr", "qr-notify", "accounts", "accounts-be", "files"} |->
        CASE d = "qr"          -> {Op("post", {"qr", "sbp"}), Op("get", {})}
          [] d = "qr-notify"   -> {Op("post", {"qr"}), Op("put", {})}
          [] d = "accounts"    -> {Op("open", {})}
          [] d = "accounts-be" -> {Op("open", {})}
          [] d = "files"       -> {Op("load", {}), Op("task", {})}]

ThreeSpaces == <<"sme", "partner", "private">>
Parents == [d \in DOMAIN Contents |-> IF d = "sme" THEN "cards" :> "acquiring" ELSE <<>>]
ThreeProducts == <<"bankapi", "gateway", "medusa">>
WayToPages == <<"home", "runtime", "mainjs">>
ThreeRoutes == <<"echo", "beneficiary", "intro">>
Linked == <<"accounts", "files", "qr">>
NeverLinked == <<"accounts-be">>
Titles == [s \in {"accounts", "files", "qr", "accounts-be"} |-> IF s = "files" THEN "accounts" ELSE s]
SectionSpecs ==
    [s \in {"accounts", "files", "qr", "accounts-be"} |->
        IF s = "qr" THEN <<"qr", "qr-notify">> ELSE <<s>>]
Unlisted == {<<"files", "task">>}

-----------------------------------------------------------------------------
portalVars == <<part, vars, AlfaVars, WalkVars, GetVars, PortVars>>

\* The choices of the components that are not at work are left out.
PortalInit ==
    /\ part \in Parts
    /\ Init /\ Alfa!Init /\ Walk!Init /\ Get!Init /\ Port!Init
    /\ part # "walk" => graph = OneFile /\ known
    /\ part # "download" => url = "spec"
    /\ part # "openapi" => bank = "sber"

PortalNext ==
    \/ part = "rotator" /\ Next /\ UNCHANGED <<part, AlfaVars, WalkVars, GetVars, PortVars>>
    \/ part = "alfa" /\ Alfa!Next /\ UNCHANGED <<part, vars, WalkVars, GetVars, PortVars>>
    \/ part = "walk" /\ Walk!Next /\ UNCHANGED <<part, vars, AlfaVars, GetVars, PortVars>>
    \/ part = "download" /\ Get!Next /\ UNCHANGED <<part, vars, AlfaVars, WalkVars, PortVars>>
    \/ part = "openapi" /\ Port!Next /\ UNCHANGED <<part, vars, AlfaVars, WalkVars, GetVars>>

PortalSpec == PortalInit /\ [][PortalNext]_portalVars

\* Requests and reads have timeouts: Alfa's scan and a download go on.
FairPortalSpec == PortalSpec /\ WF_portalVars(part \in {"alfa", "download"} /\ PortalNext)

-----------------------------------------------------------------------------
\* Alfa's parse and a download end, whatever the portal answers.
ReadingEnds ==
    /\ part = "alfa" => Alfa!ScanEnds
    /\ part = "download" => Get!DownloadEnds

=============================================================================
