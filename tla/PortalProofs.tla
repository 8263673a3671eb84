---------------------------- MODULE PortalProofs ----------------------------
(***************************************************************************)
(* What reading the portals keeps, proved for every index, specification,  *)
(* address, document list and number of threads that PortalAssumptions     *)
(* admit.  Each component has an inductive invariant of its own (ScanInv,  *)
(* PortInv, WalkInv, DownloadInv); the theorems at the end put them        *)
(* together, as PortalReading puts the properties together.                *)
(***************************************************************************)
EXTENDS PortalReading, InOrder, Integers, FiniteSetTheorems, SequenceTheorems,
        WellFoundedInduction, TLAPS

-----------------------------------------------------------------------------
(* Lists without recursion *)

\* Ascending lists the members of a set, each once.
LEMMA AscendingLists ==
    ASSUME NEW S \in SUBSET Int, IsFiniteSet(S)
    PROVE  /\ Cardinality(S) \in Nat
           /\ Ascending(S) \in [1..Cardinality(S) -> S]
           /\ \A k, l \in 1..Cardinality(S) : Ascending(S)[k] = Ascending(S)[l] => k = l
           /\ \A i \in S : \E k \in 1..Cardinality(S) : Ascending(S)[k] = i
<1> DEFINE Upto(i) == {j \in S : j <= i}
           rank == [i \in S |-> Cardinality(Upto(i))]
<1>1. PICK n \in Nat : n = Cardinality(S)
  BY FS_CardinalityType
<1>2. ASSUME NEW i \in S
      PROVE  IsFiniteSet(Upto(i)) /\ Cardinality(Upto(i)) \in 1..n
  <2>1. Upto(i) \in SUBSET S /\ i \in Upto(i)
    OBVIOUS
  <2>2. IsFiniteSet(Upto(i)) /\ Cardinality(Upto(i)) <= n
    BY <1>1, <2>1, FS_Subset
  <2>3. Cardinality(Upto(i)) \in Nat /\ Cardinality(Upto(i)) # 0
    BY <2>1, <2>2, FS_CardinalityType, FS_EmptySet
  <2>4. QED
    BY <1>1, <2>2, <2>3
<1>3. ASSUME NEW i \in S, NEW j \in S, i < j
      PROVE  Cardinality(Upto(i)) # Cardinality(Upto(j))
  <2>0. i \in Int /\ j \in Int /\ \A x \in S : x \in Int
    OBVIOUS
  <2>1. Upto(i) \in SUBSET Upto(j) /\ j \in Upto(j) /\ j \notin Upto(i)
    <3>1. \A x \in S : x <= i => x <= j
      BY <1>3, <2>0
    <3>2. j <= j /\ ~(j <= i)
      BY <1>3, <2>0
    <3>3. QED
      BY <3>1, <3>2
  <2>2. IsFiniteSet(Upto(j))
    BY <1>2
  <2> HIDE DEF Upto
  <2>3. QED
    BY <2>1, <2>2, FS_Subset
<1>4. rank \in [S -> 1..n]
  BY <1>2
<1>5. \A i, j \in S : rank[i] = rank[j] => i = j
  <2> SUFFICES ASSUME NEW i \in S, NEW j \in S, rank[i] = rank[j], i # j PROVE FALSE
    OBVIOUS
  <2>1. rank[i] = Cardinality(Upto(i)) /\ rank[j] = Cardinality(Upto(j))
    OBVIOUS
  <2>2. i < j \/ j < i
    OBVIOUS
  <2> HIDE DEF rank, Upto
  <2>3. QED
    BY <1>3, <2>1, <2>2
<1>6. \A k \in 1..n : \E i \in S : rank[i] = k
  <2>1. IsFiniteSet(1..n) /\ Cardinality(1..n) = n
    BY <1>1, FS_Interval
  <2> HIDE DEF rank
  <2>2. rank \in Injection(S, 1..n)
    BY <1>4, <1>5 DEF Injection, IsInjective
  <2>3. rank \in Surjection(S, 1..n)
    BY <1>1, <2>1, <2>2, FS_Injection
  <2>4. QED
    BY <2>3 DEF Surjection
<1>7. ASSUME NEW k \in 1..n
      PROVE  Ascending(S)[k] \in S /\ rank[Ascending(S)[k]] = k
  <2>1. Ascending(S)[k] = CHOOSE i \in S : Cardinality(Upto(i)) = k
    BY <1>1 DEF Ascending
  <2>2. \E i \in S : Cardinality(Upto(i)) = k
    BY <1>6
  <2> HIDE DEF Upto
  <2>3. Ascending(S)[k] \in S /\ Cardinality(Upto(Ascending(S)[k])) = k
    BY <2>1, <2>2
  <2>4. QED
    BY <2>3
<1>8. Ascending(S) \in [1..n -> S]
  <2>1. DOMAIN Ascending(S) = 1..n /\ Ascending(S) = [k \in 1..n |-> Ascending(S)[k]]
    BY <1>1 DEF Ascending
  <2>2. QED
    BY <1>7, <2>1
<1> HIDE DEF rank
<1>9. \A k, l \in 1..n : Ascending(S)[k] = Ascending(S)[l] => k = l
  BY <1>7
<1>10. ASSUME NEW i \in S
       PROVE  \E k \in 1..n : Ascending(S)[k] = i
  <2>1. rank[i] \in 1..n
    BY <1>4
  <2>2. rank[Ascending(S)[rank[i]]] = rank[i] /\ Ascending(S)[rank[i]] \in S
    BY <1>7, <2>1
  <2>3. Ascending(S)[rank[i]] = i
    BY <1>5, <2>2
  <2>4. QED
    BY <2>1, <2>3
<1>11. QED
  BY <1>1, <1>8, <1>9, <1>10

\* So does what a comprehension keeps of a list.
LEMMA AmongKeeps ==
    ASSUME NEW T, NEW list \in Seq(T), NEW set
    PROVE  /\ Among(list, set) \in Seq(T)
           /\ Range(Among(list, set)) = Range(list) \cap set
<1>1. PICK n \in Nat : list \in [1..n -> T]
  OBVIOUS
<1>2. PICK S : S = {k \in DOMAIN list : list[k] \in set}
  OBVIOUS
<1>3. S \subseteq 1..n /\ S \in SUBSET Int /\ IsFiniteSet(S)
  <2>1. IsFiniteSet(1..n) /\ \A i \in 1..n : i \in Int
    BY FS_Interval
  <2>2. S \subseteq 1..n
    BY <1>1, <1>2
  <2>3. IsFiniteSet(S)
    BY <2>1, <2>2, FS_Subset
  <2>4. QED
    BY <2>1, <2>2, <2>3
<1>4. PICK m \in Nat : m = Cardinality(S)
  BY <1>3, FS_CardinalityType
<1>5. PICK places : /\ places = Ascending(S) /\ places \in [1..m -> S]
                    /\ \A i \in S : \E k \in 1..m : places[k] = i
  BY <1>3, <1>4, AscendingLists
<1>6. PICK kept : kept = Among(list, set) /\ kept = [k \in 1..m |-> list[places[k]]]
  BY <1>2, <1>5 DEF Among
<1>7. kept \in [1..m -> T] /\ \A k \in 1..m : kept[k] \in set
  BY <1>1, <1>2, <1>5, <1>6
<1>8. kept \in Seq(T)
  BY <1>7, SeqDef
<1>9. ASSUME NEW x \in Range(list) \cap set
      PROVE  x \in Range(kept)
  <2>1. PICK i \in S : list[i] = x
    BY <1>2, <1>9 DEF Range
  <2>2. PICK k \in 1..m : places[k] = i
    BY <1>5, <2>1
  <2>3. QED
    BY <1>6, <2>1, <2>2 DEF Range
<1>10. ASSUME NEW x \in Range(kept)
       PROVE  x \in Range(list) \cap set
  <2>1. PICK k \in 1..m : kept[k] = x
    BY <1>7, <1>10 DEF Range
  <2>2. places[k] \in DOMAIN list /\ list[places[k]] = x
    BY <1>2, <1>5, <1>6, <2>1
  <2>3. QED
    BY <1>7, <2>1, <2>2 DEF Range
<1>11. QED
  BY <1>6, <1>8, <1>9, <1>10

\* The scan's Ascending is InOrder's.
LEMMA AlfaAscending == \A S : Alfa!Ascending(S) = Ascending(S)
BY DEF Alfa!Ascending, Ascending, Alfa!Cardinality, Cardinality

\* A set of numbers has a least one.
LEMMA LeastNumber ==
    ASSUME NEW T \in SUBSET Nat, T # {}
    PROVE  \E m \in T : \A k \in T : m <= k
<1>1. \E m \in T : \A k \in T : <<k, m>> \notin OpToRel(<, Nat)
  BY NatLessThanWellFounded, WFMin
<1>2. PICK m \in T : \A k \in T : <<k, m>> \notin OpToRel(<, Nat)
  BY <1>1
<1>3. \A k \in T : ~(k < m)
  BY <1>2 DEF OpToRel
<1>4. QED
  BY <1>3

-----------------------------------------------------------------------------
(* A download *)

\* The address that is asked next is of the host that was meant, and a request
\* costs a hop but for the last one.
DownloadInv ==
    /\ Get!TypeOK
    /\ Origin[url] # NoOrigin /\ Origin[current] = Origin[url]
    /\ requests <= hopCount + (IF reading = "asking" THEN 0 ELSE 1)
    /\ Get!AsksOneHost /\ Get!Bounded

\* A download begins at the address it was given.
LEMMA DownloadInit ==
    ASSUME Get!DownloadAssumption, Get!Init
    PROVE  DownloadInv
BY DEF Get!DownloadAssumption, Get!Init, DownloadInv, Get!TypeOK, Get!AsksOneHost, Get!Bounded

\* A request, an answer, a chunk or an error keeps it.
LEMMA DownloadStep ==
    ASSUME Get!DownloadAssumption, DownloadInv, [Get!Next]_Get!vars
    PROVE  DownloadInv'
<1>0. /\ url \in Urls /\ current \in Urls /\ hopCount \in 0..MaxHops /\ asked \subseteq Urls
      /\ reading \in {"asking", "body"} \cup Get!Ends
      /\ size \in Nat /\ requests \in Nat /\ size <= MaxBytes
      /\ MaxHops \in Nat /\ MaxBytes \in Nat /\ ChunkBytes \in Nat
      /\ Origin[url] # NoOrigin /\ Origin[current] = Origin[url]
      /\ requests <= hopCount + (IF reading = "asking" THEN 0 ELSE 1)
      /\ \A u \in asked : Origin[u] = Origin[url]
  BY DEF DownloadInv, Get!TypeOK, Get!AsksOneHost, Get!Bounded, Get!DownloadAssumption
<1>1. ASSUME NEW target \in Urls, Get!Redirect(target)
      PROVE  DownloadInv'
  <2>1. /\ reading = "asking" /\ url' = url /\ size' = size
        /\ asked' = asked \cup {current} /\ requests' = requests + 1
    BY <1>1 DEF Get!Redirect, Get!Ask, Get!Stop
  <2>2. CASE reading' # "asking"
    <3>1. reading' \in Get!Ends /\ hopCount' = hopCount /\ current' = current
      BY <1>1, <2>2, <1>0, <2>1 DEF Get!Redirect, Get!Stop, Get!Ends
    <3>2. QED
      BY <1>0, <2>1, <2>2, <3>1
      DEF DownloadInv, Get!TypeOK, Get!AsksOneHost, Get!Bounded, Get!Ends
  <2>3. CASE reading' = "asking"
    <3>1. /\ current' = target /\ hopCount' = hopCount + 1 /\ hopCount < MaxHops
          /\ Origin[target] = Origin[url]
      BY <1>1, <2>3, <1>0 DEF Get!Redirect, Get!Stop, Get!TooMany, Get!SameOrigin
    <3>2. QED
      BY <1>0, <1>1, <2>1, <2>3, <3>1
      DEF DownloadInv, Get!TypeOK, Get!AsksOneHost, Get!Bounded, Get!Ends
  <2>4. QED
    BY <2>2, <2>3
<1>2. ASSUME Get!Answer
      PROVE  DownloadInv'
  BY <1>0, <1>2 DEF Get!Answer, Get!Ask, Get!Stop, DownloadInv, Get!TypeOK, Get!AsksOneHost,
                    Get!Bounded, Get!Ends
<1>3. ASSUME NEW n \in 1..ChunkBytes, Get!Chunk(n)
      PROVE  DownloadInv'
  <2>1. /\ reading = "body" /\ UNCHANGED <<url, current, hopCount, asked, requests>>
        /\ reading' \in {"large", "body"} /\ size' \in Nat /\ size' <= MaxBytes
    BY <1>0, <1>3 DEF Get!Chunk, Get!Stop
  <2>2. QED
    BY <1>0, <2>1 DEF DownloadInv, Get!TypeOK, Get!AsksOneHost, Get!Bounded, Get!Ends
<1>4. ASSUME Get!EndOfBody \/ Get!NetworkError
      PROVE  DownloadInv'
  <2>1. /\ reading' \in {"text", "network"} /\ reading \in {"asking", "body"}
        /\ UNCHANGED <<url, current, hopCount, asked, requests, size>>
    BY <1>4 DEF Get!EndOfBody, Get!NetworkError, Get!Stop
  <2>2. QED
    BY <1>0, <2>1 DEF DownloadInv, Get!TypeOK, Get!AsksOneHost, Get!Bounded, Get!Ends
<1>5. ASSUME UNCHANGED Get!vars
      PROVE  DownloadInv'
  BY <1>5 DEF Get!vars, DownloadInv, Get!TypeOK, Get!AsksOneHost, Get!Bounded
<1>6. QED
  BY <1>1, <1>2, <1>3, <1>4, <1>5 DEF Get!Next

\* A download keeps its types, asks one host and costs a bounded number of
\* requests and bytes, whatever the portal answers.
LEMMA DownloadHolds == Get!Spec => []DownloadInv
<1>1. Get!DownloadAssumption
  BY PortalAssumptions
<1>2. Get!Init => DownloadInv
  BY <1>1, DownloadInit
<1>3. DownloadInv /\ [Get!Next]_Get!vars => DownloadInv'
  BY <1>1, DownloadStep
<1>4. QED
  BY <1>2, <1>3, PTL DEF Get!Spec

-----------------------------------------------------------------------------
(* The walk along $refs *)

\* What the branch has followed up to a frame: every $ref in seen led to a
\* schema the branch is in.
Follows(f, places) ==
    \A t \in f.seen : \E p \in places :
        p[2] = t.name /\ (Walk!External(t) => p[1] = t.file)

\* A frame is where its $ref leads; its file is the specification or one of its
\* host's.
FrameIsRight(f, k) ==
    /\ f \in Walk!Frame
    /\ f.at = f.place /\ f.doc = f.place[1]
    /\ Host[f.doc] = Host[Main] /\ (f.doc # Main => k)
    /\ IsFiniteSet(f.seen)

PlacesTo(s, n) == {s[i].place : i \in 1..n}

RightStack(s, k) ==
    /\ s \in Seq(Walk!Frame)
    /\ \A i \in 1..Len(s) :
          /\ FrameIsRight(s[i], k)
          /\ Cardinality(s[i].seen) = i
          /\ Follows(s[i], PlacesTo(s, i))

StackIsRight == RightStack(stack, known)

\* A file that was downloaded is in the cache.
FetchesAreKept ==
    \A d \in Docs :
        /\ fetches[d] <= 1 /\ (cache[d] = "unknown" => fetches[d] = 0)
        /\ fetches[d] > 0 => known /\ Host[d] = Host[Main]

BodyIsRight == body \in Docs /\ Host[body] = Host[Main] /\ (body # Main => known)

WalkInv ==
    /\ Walk!TypeOK
    /\ BodyIsRight
    /\ StackIsRight
    /\ FetchesAreKept
    /\ Walk!CutsAreCycles

\* The walk's Cardinality is FiniteSets'.
LEMMA WalkCardinality == \A S : Walk!Cardinality(S) = Cardinality(S)
BY DEF Walk!Cardinality, Cardinality

\* No walk has begun.
LEMMA WalkInit ==
    ASSUME Walk!WalkAssumption, Walk!Init
    PROVE  WalkInv
<1>1. /\ stack = <<>> /\ <<>> \in Seq(Walk!Frame) /\ Len(<<>>) = 0
      /\ \A i \in DOMAIN <<>> : FALSE
  BY DEF Walk!Init
<1>2. StackIsRight
  BY <1>1 DEF StackIsRight, RightStack
<1>3. Walk!TypeOK
  BY <1>1 DEF Walk!Init, Walk!TypeOK, Walk!Nothing, Walk!Walks, Walk!WalkAssumption
<1>4. FetchesAreKept
  BY DEF Walk!Init, FetchesAreKept
<1>5. Walk!CutsAreCycles
  BY DEF Walk!Init, Walk!CutsAreCycles, Walk!Nothing
<1>6. BodyIsRight
  BY DEF Walk!Init, Walk!WalkAssumption, BodyIsRight
<1>7. QED
  BY <1>2, <1>3, <1>4, <1>5, <1>6 DEF WalkInv

\* The places of a branch, from its first frame to its last.
LEMMA AllPlaces ==
    ASSUME stack \in Seq(Walk!Frame)
    PROVE  Walk!Places = PlacesTo(stack, Len(stack))
BY DEF Walk!Places, PlacesTo

\* What _resolve_ref may download where f met t.
LEMMA FetchKeeps ==
    ASSUME Walk!WalkAssumption, FetchesAreKept, Walk!TypeOK,
           NEW f, Host[f.doc] = Host[Main], NEW t \in Walk!Refs,
           Walk!Fetch(f, t), known' = known
    PROVE  /\ FetchesAreKept'
           /\ cache' \in [Docs -> {"unknown", "good", "empty"}]
           /\ fetches' \in [Docs -> Nat]
<1>1. /\ cache \in [Docs -> {"unknown", "good", "empty"}]
      /\ fetches \in [Docs -> Nat]
  BY DEF Walk!TypeOK
<1>2. CASE ~Walk!Downloads(f, t)
  <2>1. cache' = cache /\ fetches' = fetches
    BY <1>2 DEF Walk!Fetch
  <2>2. QED
    BY <1>1, <2>1 DEF FetchesAreKept
<1>3. CASE Walk!Downloads(f, t)
  <2>1. /\ t.file \in Docs /\ known /\ Host[t.file] = Host[Main]
        /\ cache[t.file] = "unknown"
    BY <1>3 DEF Walk!Downloads, Walk!Allowed, Walk!SameOrigin, Walk!External, Walk!Refs
  <2>2. PICK c \in {"good", "empty"} : cache' = [cache EXCEPT ![t.file] = c]
    BY <1>3 DEF Walk!Fetch, Walk!Kept
  <2>3. fetches' = [fetches EXCEPT ![t.file] = @ + 1] /\ fetches[t.file] = 0
    BY <1>3, <2>1 DEF Walk!Fetch, FetchesAreKept
  <2>4. /\ cache'[t.file] = c /\ fetches'[t.file] = 1
        /\ \A d \in Docs : d # t.file => cache'[d] = cache[d] /\ fetches'[d] = fetches[d]
    BY <1>1, <2>1, <2>2, <2>3
  <2>5. FetchesAreKept'
    BY <2>1, <2>2, <2>4 DEF FetchesAreKept
  <2>6. QED
    BY <1>1, <2>1, <2>2, <2>3, <2>5
<1>4. QED
  BY <1>2, <1>3

\* Where the walk follows t from: an operation of the specification, or the
\* schema on top of the branch.
From(f) ==
    /\ f.doc \in Docs /\ f.doc = f.place[1]
    /\ Host[f.doc] = Host[Main] /\ (f.doc # Main => known)
    /\ f.seen \in SUBSET Walk!Refs /\ IsFiniteSet(f.seen)
    /\ Cardinality(f.seen) = Len(stack)
    /\ Follows(f, Walk!Places)

\* Following a $ref keeps what the walk keeps, whatever comes of it.
LEMMA CallKeeps ==
    ASSUME Walk!WalkAssumption, WalkInv, NEW f, From(f), NEW t \in Walk!Refs,
           NEW depth \in Nat, NEW via \in BOOLEAN,
           Walk!Call(f, t, depth, via), graph' = graph, known' = known, body' = body,
           walk' \in Walk!Walks
    PROVE  WalkInv'
<1>1. /\ FetchesAreKept'
      /\ cache' \in [Docs -> {"unknown", "good", "empty"}]
      /\ fetches' \in [Docs -> Nat]
  BY FetchKeeps DEF Walk!Call, WalkInv, From
<1>2. PICK o : o = Walk!Outcome(f, t)
  OBVIOUS
<1>3. /\ last' = [outcome |-> o, ref |-> t, means |-> Walk!Meaning(f, t)]
      /\ o # "found" => stack' = stack
      /\ o = "found" =>
            stack' = Append(stack, [at |-> Walk!Found(f, t), doc |-> Walk!Document(f, t),
                                    seen |-> Walk!Seen(f, t), depth |-> depth, via |-> via,
                                    place |-> Walk!Meaning(f, t)])
  BY <1>2 DEF Walk!Call
<1>4. /\ o \in {"cut", "refused", "unavailable", "absent", "found"}
      /\ o = "cut" <=> t \in f.seen
      /\ o = "found" => Walk!Allowed(f, t)
  BY <1>2 DEF Walk!Outcome
<1>5. last'.outcome = o /\ last'.means = Walk!Meaning(f, t)
  BY <1>3
<1>6. t.name \in Names /\ (Walk!External(t) => t.file \in Docs)
  BY DEF Walk!Refs, Walk!External
<1>7. stack \in Seq(Walk!Frame)
  BY DEF WalkInv, StackIsRight, RightStack
<1>8. Walk!Meaning(f, t) = <<IF Walk!External(t) THEN t.file ELSE f.doc, t.name>>
  BY DEF Walk!Meaning, From
<1>9. CASE o # "found"
  <2>1. stack' = stack
    BY <1>3, <1>9
  <2>2. StackIsRight'
    BY <2>1 DEF WalkInv, StackIsRight
  <2>3. Walk!CutsAreCycles'
    <3>1. SUFFICES ASSUME o = "cut"
                   PROVE  Walk!Meaning(f, t) \in Walk!Places
                          \/ \E p \in Walk!Places : p[1] # Walk!Meaning(f, t)[1]
      <4>1. Walk!Places' = Walk!Places
        BY <2>1 DEF Walk!Places
      <4>2. QED
        BY <1>5, <4>1 DEF Walk!CutsAreCycles
    <3>2. PICK p \in Walk!Places : p[2] = t.name /\ (Walk!External(t) => p[1] = t.file)
      BY <1>4, <3>1 DEF From, Follows
    <3>3. p \in Docs \X Names
      <4>1. PICK i \in DOMAIN stack : p = stack[i].place
        BY <3>2 DEF Walk!Places
      <4>2. stack[i] \in Walk!Frame
        BY <1>7, <4>1
      <4>3. QED
        BY <4>1, <4>2 DEF Walk!Frame
    <3>4. CASE p[1] = Walk!Meaning(f, t)[1]
      <4>1. p = <<p[1], p[2]>>
        BY <3>3
      <4>2. p = Walk!Meaning(f, t)
        BY <1>8, <3>2, <3>4, <4>1
      <4>3. QED
        BY <3>2, <4>2
    <3>5. QED
      BY <3>2, <3>4
  <2>4. Walk!TypeOK'
    <3>1. \A i \in DOMAIN stack' : stack'[i] \in Walk!Frame
      BY <2>1, <1>7
    <3>2. graph' \in Graphs /\ known' \in BOOLEAN /\ body' \in Docs
      BY DEF WalkInv, Walk!TypeOK
    <3>3. QED
      BY <1>1, <1>4, <1>5, <3>1, <3>2 DEF Walk!TypeOK
  <2>5. BodyIsRight'
    BY DEF WalkInv, BodyIsRight
  <2>6. QED
    BY <1>1, <2>2, <2>3, <2>4, <2>5 DEF WalkInv
<1>10. CASE o = "found"
  <2> DEFINE g == [at |-> Walk!Found(f, t), doc |-> Walk!Document(f, t),
                   seen |-> Walk!Seen(f, t), depth |-> depth, via |-> via,
                   place |-> Walk!Meaning(f, t)]
  <2>1. /\ g.at = Walk!Meaning(f, t) /\ g.place = Walk!Meaning(f, t)
        /\ g.doc = (IF Walk!External(t) THEN t.file ELSE f.doc)
        /\ g.seen = f.seen \cup {t} /\ g.depth = depth /\ g.via = via
    BY <1>8 DEF Walk!Found, Walk!Document, Walk!Seen
  <2>2. g.place = <<g.doc, t.name>> /\ g.doc \in Docs
    BY <1>6, <1>8, <2>1 DEF From
  <2>3. g \in Walk!Frame
    <3>1. g.place \in Docs \X Names /\ g.at \in Docs \X Names
      BY <1>6, <2>1, <2>2
    <3>2. g.seen \in SUBSET Walk!Refs
      BY <2>1 DEF From
    <3>3. QED
      BY <2>1, <2>2, <3>1, <3>2 DEF Walk!Frame
  <2>4. /\ g.at = g.place /\ g.doc = g.place[1]
    BY <2>1, <2>2
  <2>5. /\ Host[g.doc] = Host[Main] /\ (g.doc # Main => known)
    BY <1>4, <1>10, <2>1 DEF From, Walk!Allowed, Walk!SameOrigin
  <2>6. PICK n \in Nat : n = Len(stack)
    BY <1>7
  <2>7. IsFiniteSet(g.seen) /\ Cardinality(g.seen) = n + 1
    <3>1. t \notin f.seen /\ IsFiniteSet(f.seen) /\ Cardinality(f.seen) = n
      BY <1>4, <1>10, <2>6 DEF From
    <3>2. /\ IsFiniteSet(f.seen \cup {t})
          /\ Cardinality(f.seen \cup {t}) = IF t \in f.seen THEN Cardinality(f.seen) ELSE Cardinality(f.seen) + 1
      BY <3>1, FS_AddElement
    <3>3. QED
      BY <2>1, <3>1, <3>2
  <2>8. /\ stack' = Append(stack, g)
        /\ stack' \in Seq(Walk!Frame) /\ Len(stack') = n + 1 /\ stack'[n + 1] = g
        /\ \A i \in 1..n : stack'[i] = stack[i]
    <3>1. stack' = Append(stack, g)
      BY <1>3, <1>10
    <3> HIDE DEF g
    <3>2. QED
      BY <1>7, <2>3, <2>6, <3>1
  <2> HIDE DEF g
  <2>9. /\ \A i \in 1..n : PlacesTo(stack', i) = PlacesTo(stack, i)
        /\ PlacesTo(stack', n + 1) = Walk!Places \cup {g.place}
    <3>1. Walk!Places = PlacesTo(stack, n)
      BY <1>7, <2>6, AllPlaces
    <3>2. \A i \in 1..n : PlacesTo(stack', i) = PlacesTo(stack, i)
      <4> SUFFICES ASSUME NEW i \in 1..n
                   PROVE  PlacesTo(stack', i) = PlacesTo(stack, i)
        OBVIOUS
      <4>1. \A j \in 1..i : j \in 1..n
        OBVIOUS
      <4>2. QED
        BY <2>8, <4>1 DEF PlacesTo
    <3>3. PlacesTo(stack', n + 1) = PlacesTo(stack, n) \cup {g.place}
      <4>1. \A j \in 1..n + 1 : j \in 1..n \/ j = n + 1
        OBVIOUS
      <4>2. n + 1 \in 1..n + 1 /\ \A j \in 1..n : j \in 1..n + 1
        OBVIOUS
      <4>3. QED
        BY <2>8, <4>1, <4>2 DEF PlacesTo
    <3>4. QED
      BY <3>1, <3>2, <3>3
  <2>10. Follows(g, Walk!Places \cup {g.place})
    <3>1. ASSUME NEW u \in f.seen
          PROVE  \E p \in Walk!Places \cup {g.place} :
                    p[2] = u.name /\ (Walk!External(u) => p[1] = u.file)
      BY <3>1 DEF From, Follows
    <3>2. g.place[2] = t.name /\ (Walk!External(t) => g.place[1] = t.file)
      BY <2>1, <2>2
    <3>3. QED
      BY <2>1, <3>1, <3>2 DEF Follows
  <2>11. ASSUME NEW i \in 1..n + 1
         PROVE  /\ FrameIsRight(stack'[i], known)
                /\ Cardinality(stack'[i].seen) = i
                /\ Follows(stack'[i], PlacesTo(stack', i))
    <3>1. CASE i = n + 1
      <4>1. stack'[i] = g /\ PlacesTo(stack', i) = Walk!Places \cup {g.place}
        BY <2>8, <2>9, <3>1
      <4>2. FrameIsRight(g, known)
        BY <2>3, <2>4, <2>5, <2>7 DEF FrameIsRight
      <4>3. QED
        BY <2>7, <2>10, <3>1, <4>1, <4>2
    <3>2. CASE i # n + 1
      <4>1. i \in 1..n /\ stack'[i] = stack[i] /\ PlacesTo(stack', i) = PlacesTo(stack, i)
        BY <2>8, <2>9, <3>2
      <4>2. FrameIsRight(stack[i], known) /\ Cardinality(stack[i].seen) = i
            /\ Follows(stack[i], PlacesTo(stack, i))
        BY <2>6, <4>1 DEF WalkInv, StackIsRight, RightStack
      <4>3. QED
        BY <4>1, <4>2
    <3>3. QED
      BY <3>1, <3>2
  <2>12. StackIsRight'
    <3>1. RightStack(stack', known)
      BY <2>8, <2>11 DEF RightStack
    <3>2. QED
      BY <3>1 DEF StackIsRight
  <2>13. Walk!CutsAreCycles'
    BY <1>5, <1>10 DEF Walk!CutsAreCycles
  <2>14. Walk!TypeOK'
    <3>1. \A i \in DOMAIN stack' : stack'[i] \in Walk!Frame
      BY <2>8
    <3>2. graph' \in Graphs /\ known' \in BOOLEAN /\ body' \in Docs
      BY DEF WalkInv, Walk!TypeOK
    <3>3. QED
      BY <1>1, <1>4, <1>5, <3>1, <3>2 DEF Walk!TypeOK
  <2>15. BodyIsRight'
    BY DEF WalkInv, BodyIsRight
  <2>16. QED
    BY <1>1, <2>12, <2>13, <2>14, <2>15 DEF WalkInv
<1>11. QED
  BY <1>9, <1>10

\* The body a walk begins at, and the schema on top of the branch.
LEMMA BeginsFrom ==
    ASSUME BodyIsRight, stack = <<>>
    PROVE  From(Walk!Root(body))
<1> DEFINE r == Walk!Root(body)
<1>1. r.doc = body /\ r.seen = {} /\ r.place[1] = body
  BY DEF Walk!Root
<1>2. body \in Docs /\ Host[body] = Host[Main] /\ (body # Main => known)
  BY DEF BodyIsRight
<1>3. IsFiniteSet({}) /\ Cardinality({}) = 0
  BY FS_EmptySet
<1>4. Len(stack) = 0
  OBVIOUS
<1>5. QED
  BY <1>1, <1>2, <1>3, <1>4 DEF From, Follows

\* So is the schema on top of the branch.
LEMMA TopFrom ==
    ASSUME StackIsRight, stack # <<>>
    PROVE  From(Walk!Top) /\ Walk!Top \in Walk!Frame
<1>1. PICK n \in Nat : n = Len(stack) /\ n \in 1..Len(stack)
  <2>1. stack \in Seq(Walk!Frame)
    BY DEF StackIsRight, RightStack
  <2>2. PICK n \in Nat : n = Len(stack)
    BY <2>1
  <2>3. n # 0
    BY <2>1, <2>2, EmptySeq
  <2>4. QED
    BY <2>2, <2>3
<1>2. /\ FrameIsRight(stack[n], known) /\ Cardinality(stack[n].seen) = n
      /\ Follows(stack[n], Walk!Places)
  BY <1>1, AllPlaces DEF StackIsRight, RightStack
<1>3. stack[n].doc \in Docs /\ stack[n].seen \in SUBSET Walk!Refs
  BY <1>2 DEF FrameIsRight, Walk!Frame
<1>4. Walk!Top = stack[n]
  BY <1>1 DEF Walk!Top
<1>5. QED
  BY <1>1, <1>2, <1>3, <1>4 DEF From, FrameIsRight

\* Every step of the walk keeps it.
LEMMA WalkStep ==
    ASSUME Walk!WalkAssumption, WalkInv, [Walk!Next]_Walk!vars
    PROVE  WalkInv'
<1>0. /\ graph \in Graphs /\ known \in BOOLEAN /\ walk \in Walk!Walks
      /\ stack \in Seq(Walk!Frame) /\ body \in Docs
      /\ cache \in [Docs -> {"unknown", "good", "empty"}] /\ fetches \in [Docs -> Nat]
  BY DEF WalkInv, Walk!TypeOK, StackIsRight, RightStack
<1>1. ASSUME NEW t \in Walk!Refs, NEW w \in Walk!Walks, Walk!Begin(w, t)
      PROVE  WalkInv'
  <2>1. /\ From(Walk!Root(body)) /\ Walk!Call(Walk!Root(body), t, 0, FALSE)
        /\ graph' = graph /\ known' = known /\ body' = body /\ walk' \in Walk!Walks
    BY <1>1, BeginsFrom DEF Walk!Begin, WalkInv
  <2>2. 0 \in Nat /\ FALSE \in BOOLEAN
    OBVIOUS
  <2>3. QED
    BY <2>1, <2>2, CallKeeps
<1>2. ASSUME NEW t \in Walk!Refs, Walk!Descend(t)
      PROVE  WalkInv'
  <2>1. PICK depth, via : depth = Walk!Below(Walk!Top) /\ via = Walk!ResolvesFirst(Walk!Top)
    OBVIOUS
  <2>2. From(Walk!Top) /\ Walk!Top \in Walk!Frame
    BY <1>2, TopFrom DEF Walk!Descend, WalkInv
  <2>3. depth \in Nat
    BY <2>1, <2>2 DEF Walk!Below, Walk!Frame
  <2>4. via \in BOOLEAN
    BY <2>1 DEF Walk!ResolvesFirst
  <2>5. /\ Walk!Call(Walk!Top, t, depth, via)
        /\ graph' = graph /\ known' = known /\ body' = body /\ walk' \in Walk!Walks
    BY <1>0, <1>2, <2>1 DEF Walk!Descend
  <2>6. QED
    BY <2>2, <2>3, <2>4, <2>5, CallKeeps
<1>3. ASSUME NEW t \in Walk!Refs, Walk!TooDeep(t)
      PROVE  WalkInv'
  <2>1. /\ graph' = graph /\ known' = known /\ body' = body /\ walk' = walk /\ stack' = stack
        /\ last' = [outcome |-> "deep"]
        /\ Walk!Fetch(Walk!Top, t) \/ UNCHANGED <<cache, fetches>>
    BY <1>3 DEF Walk!TooDeep
  <2>2. Host[Walk!Top.doc] = Host[Main]
    BY <1>3, TopFrom DEF Walk!TooDeep, WalkInv, From
  <2>3. /\ FetchesAreKept'
        /\ cache' \in [Docs -> {"unknown", "good", "empty"}]
        /\ fetches' \in [Docs -> Nat]
    <3>1. CASE Walk!Fetch(Walk!Top, t)
      BY <2>1, <2>2, <3>1, FetchKeeps DEF WalkInv
    <3>2. CASE UNCHANGED <<cache, fetches>>
      BY <1>0, <2>1, <3>2 DEF WalkInv, FetchesAreKept
    <3>3. QED
      BY <2>1, <3>1, <3>2
  <2>4. StackIsRight'
    BY <2>1 DEF WalkInv, StackIsRight
  <2>5. last'.outcome = "deep"
    BY <2>1
  <2>6. QED
    BY <1>0, <2>1, <2>3, <2>4, <2>5 DEF WalkInv, Walk!TypeOK, Walk!CutsAreCycles, BodyIsRight
<1>4. ASSUME Walk!Return
      PROVE  WalkInv'
  <2>1. /\ stack # <<>> /\ stack' = SubSeq(stack, 1, Len(stack) - 1)
        /\ last' = [outcome |-> "none"]
        /\ UNCHANGED <<graph, known, body, walk, cache, fetches>>
    BY <1>4 DEF Walk!Return, Walk!Back, Walk!Nothing
  <2>2. PICK n \in Nat : Len(stack) = n + 1
    <3>1. PICK l \in Nat : l = Len(stack) /\ l # 0
      BY <1>0, <2>1, EmptySeq
    <3>2. l - 1 \in Nat /\ l = (l - 1) + 1
      BY <3>1
    <3>3. QED
      BY <3>1, <3>2
  <2>3. /\ stack' \in Seq(Walk!Frame) /\ Len(stack') = n
        /\ \A i \in 1..n : stack'[i] = stack[i]
    BY <1>0, <2>1, <2>2
  <2>4. ASSUME NEW i \in 1..n
        PROVE  /\ FrameIsRight(stack[i], known) /\ Cardinality(stack[i].seen) = i
               /\ Follows(stack[i], PlacesTo(stack, i))
               /\ PlacesTo(stack', i) = PlacesTo(stack, i)
    <3>1. i \in 1..Len(stack) /\ \A j \in 1..i : j \in 1..n
      BY <2>2
    <3>2. QED
      BY <2>3, <3>1 DEF WalkInv, StackIsRight, RightStack, PlacesTo
  <2>5. StackIsRight'
    <3>1. RightStack(stack', known)
      BY <2>3, <2>4 DEF RightStack
    <3>2. QED
      BY <2>1, <3>1 DEF StackIsRight
  <2>6. last'.outcome = "none"
    BY <2>1
  <2>7. \A i \in DOMAIN stack' : stack'[i] \in Walk!Frame
    BY <2>3
  <2>8. QED
    BY <1>0, <2>1, <2>5, <2>6, <2>7
    DEF WalkInv, Walk!TypeOK, Walk!CutsAreCycles, FetchesAreKept, BodyIsRight
<1>5. ASSUME UNCHANGED Walk!vars
      PROVE  WalkInv'
  <2>1. UNCHANGED <<graph, known, body, walk, stack, cache, last, fetches>>
    BY <1>5 DEF Walk!vars
  <2>2. StackIsRight'
    BY <2>1 DEF WalkInv, StackIsRight
  <2>3. QED
    BY <1>0, <2>1, <2>2
    DEF WalkInv, Walk!TypeOK, Walk!CutsAreCycles, FetchesAreKept, Walk!Places, BodyIsRight
<1>6. ASSUME NEW t \in Walk!Refs, Walk!Respond(t)
      PROVE  WalkInv'
  <2>1. PICK r : r = Walk!Root(Main)
    OBVIOUS
  <2>2. r.doc = Main
    BY <2>1 DEF Walk!Root
  <2>3. /\ Walk!Fetch(r, t) /\ last' = [outcome |-> "none"] /\ stack = <<>>
        /\ UNCHANGED <<graph, known, walk, stack>>
        /\ body' = Main \/ (body' = t.file /\ Walk!External(t) /\ Walk!Allowed(r, t))
    BY <1>6, <2>1 DEF Walk!Respond, Walk!Nothing
  <2>4. /\ FetchesAreKept'
        /\ cache' \in [Docs -> {"unknown", "good", "empty"}]
        /\ fetches' \in [Docs -> Nat]
    BY <2>2, <2>3, FetchKeeps DEF WalkInv
  <2>5. BodyIsRight'
    BY <2>2, <2>3
    DEF BodyIsRight, Walk!External, Walk!Allowed, Walk!SameOrigin, Walk!Refs, Walk!WalkAssumption
  <2>6. StackIsRight'
    BY <2>3 DEF WalkInv, StackIsRight
  <2>7. last'.outcome = "none" /\ body' \in Docs
    BY <2>3, <2>5 DEF BodyIsRight
  <2>8. QED
    BY <1>0, <2>3, <2>4, <2>5, <2>6, <2>7 DEF WalkInv, Walk!TypeOK, Walk!CutsAreCycles
<1>7. QED
  BY <1>1, <1>2, <1>3, <1>4, <1>5, <1>6 DEF Walk!Next

\* The properties of the walk, from what it keeps.
LEMMA WalkGoal ==
    ASSUME WalkInv
    PROVE  /\ Walk!TypeOK /\ Walk!RightDocument /\ Walk!StaysOnHost
           /\ Walk!FetchedOnce /\ Walk!NoRefTwice /\ Walk!CutsAreCycles
<1>1. \A i \in DOMAIN stack : i \in 1..Len(stack)
  BY DEF WalkInv, StackIsRight, RightStack
<1>2. \A i \in DOMAIN stack : FrameIsRight(stack[i], known) /\ Cardinality(stack[i].seen) = i
  BY <1>1 DEF WalkInv, StackIsRight, RightStack
<1>3. Walk!RightDocument
  BY <1>2 DEF Walk!RightDocument, FrameIsRight
<1>4. Walk!NoRefTwice
  BY <1>2, WalkCardinality DEF Walk!NoRefTwice
<1>5. Walk!StaysOnHost /\ Walk!FetchedOnce
  BY DEF WalkInv, FetchesAreKept, Walk!StaysOnHost, Walk!FetchedOnce
<1>6. QED
  BY <1>3, <1>4, <1>5 DEF WalkInv

\* The walk keeps its invariant, whatever the files say and whichever can be had.
LEMMA WalkHolds == Walk!Spec => []WalkInv
<1>1. Walk!WalkAssumption
  BY PortalAssumptions
<1>2. Walk!Init => WalkInv
  BY <1>1, WalkInit
<1>3. WalkInv /\ [Walk!Next]_Walk!vars => WalkInv'
  BY <1>1, WalkStep
<1>4. QED
  BY <1>2, <1>3, PTL DEF Walk!Spec

-----------------------------------------------------------------------------
(* The scan of Alfa's articles *)

Listed == {queue[k] : k \in DOMAIN queue}

Said == {"page", "missing"}

\* What the places of a pass hold: one that a thread took and left has the last
\* answer for its leaf; a leaf that is in no place has an answer that counts.
PassIsRight ==
    /\ \A k, l \in DOMAIN queue : queue[k] = queue[l] => k = l
    /\ \A k \in DOMAIN queue :
          k <= taken /\ (\A w \in Threads : busy[w] # k) =>
              got[k] \in Alfa!Answers /\ got[k] = answers[queue[k]]
    /\ \A i \in Alfa!Positions \ Listed : results[i] = answers[i] /\ answers[i] \in Said

ScanInv ==
    /\ Alfa!TypeOK
    /\ stage \notin {"first", "retry"} => Alfa!Idle
    /\ stage \in {"first", "retry"} => PassIsRight
    /\ stage = "first" => queue = [i \in Alfa!Positions |-> i]
    /\ Alfa!NoPartialSnapshot
    /\ snapshot = IF stage = "done" THEN Alfa!ArticleRows \cup Alfa!GhostRows ELSE {}

\* A list of leaves, or of positions, has each of them once.
LEMMA AlfaLists ==
    ASSUME NEW n \in Nat, NEW S \in SUBSET (1..n)
    PROVE  /\ Alfa!Ascending(S) \in Seq(S)
           /\ \A k, l \in DOMAIN Alfa!Ascending(S) :
                 Alfa!Ascending(S)[k] = Alfa!Ascending(S)[l] => k = l
           /\ {Alfa!Ascending(S)[k] : k \in DOMAIN Alfa!Ascending(S)} = S
<1>1. S \in SUBSET Int /\ IsFiniteSet(S)
  <2>1. IsFiniteSet(1..n) /\ \A i \in 1..n : i \in Int
    BY FS_Interval
  <2>2. IsFiniteSet(S)
    BY <2>1, FS_Subset
  <2>3. QED
    BY <2>1, <2>2
<1>2. PICK m \in Nat : m = Cardinality(S)
  BY <1>1, FS_CardinalityType
<1>3. /\ Ascending(S) \in [1..m -> S]
      /\ \A k, l \in 1..m : Ascending(S)[k] = Ascending(S)[l] => k = l
      /\ \A i \in S : \E k \in 1..m : Ascending(S)[k] = i
  BY <1>1, <1>2, AscendingLists
<1>4. PICK list : list = Ascending(S) /\ list = Alfa!Ascending(S)
  BY AlfaAscending
<1>5. list \in Seq(S) /\ DOMAIN list = 1..m
  BY <1>2, <1>3, <1>4
<1>6. {list[k] : k \in DOMAIN list} = S
  <2>1. \A k \in DOMAIN list : list[k] \in S
    BY <1>5
  <2>2. \A i \in S : \E k \in DOMAIN list : list[k] = i
    BY <1>3, <1>4, <1>5
  <2>3. QED
    BY <2>1, <2>2
<1>7. QED
  BY <1>3, <1>4, <1>5, <1>6

\* In the state in which the parse begins.
LEMMA ScanInit ==
    ASSUME Alfa!AlfaAssumption, Alfa!Init
    PROVE  ScanInv
<1>1. <<>> \in Seq(Alfa!Entries) /\ <<>> \in Seq({}) /\ Len(<<>>) = 0 /\ DOMAIN <<>> = {}
  OBVIOUS
<1>2. Alfa!Positions = {}
  BY <1>1 DEF Alfa!Init, Alfa!Positions
<1>3. <<>> \in [{} -> Alfa!Answers \cup {"pending"}]
  BY <1>1
<1>4. Alfa!TypeOK
  BY <1>1, <1>2, <1>3 DEF Alfa!Init, Alfa!TypeOK, Alfa!AlfaAssumption
<1>5. QED
  BY <1>4 DEF Alfa!Init, ScanInv, Alfa!Idle, Alfa!NoPartialSnapshot

\* What a pass starts from: the leaves of the queue, one place each, and answers
\* that count for the others.
LEMMA PassBegins ==
    ASSUME NEW name \in {"first", "retry"}, NEW q, Alfa!Pass(name, q),
           Alfa!TypeOK', Alfa!Idle, snapshot = {},
           \A k, l \in DOMAIN q : q[k] = q[l] => k = l,
           name = "first" => q = [i \in DOMAIN leaves' |-> i],
           \A i \in DOMAIN leaves' \ {q[k] : k \in DOMAIN q} :
              results'[i] = answers'[i] /\ answers'[i] \in Said
    PROVE  ScanInv'
<1>1. /\ stage' = name /\ queue' = q /\ taken' = 0
      /\ UNCHANGED <<busy, hops, snapshot>>
  BY DEF Alfa!Pass
<1>2. \A k \in DOMAIN q : ~(k <= 0)
  <2>1. q \in Seq(Alfa!Positions')
    BY <1>1 DEF Alfa!TypeOK
  <2>2. PICK n \in Nat : DOMAIN q = 1..n
    BY <2>1
  <2>3. QED
    BY <2>2
<1>3. PassIsRight'
  BY <1>1, <1>2 DEF PassIsRight, Listed, Alfa!Positions
<1>4. QED
  BY <1>1, <1>3 DEF ScanInv, Alfa!Idle, Alfa!NoPartialSnapshot, Alfa!Positions

\* The first pass has every leaf in its place.
LEMMA Discovers ==
    ASSUME Alfa!AlfaAssumption, ScanInv, Alfa!Discover
    PROVE  ScanInv'
<1>0. /\ stage = "start" /\ Alfa!Idle /\ snapshot = {} /\ Alfa!TypeOK
      /\ hops \in [Threads -> 0..MaxRedirects]
      /\ busy \in [Threads -> {0} \cup DOMAIN queue]
  BY DEF Alfa!Discover, ScanInv, Alfa!TypeOK
<1>1. CASE /\ leaves' = Alfa!Leaves
           /\ results' = [i \in DOMAIN Alfa!Leaves |-> "pending"]
           /\ answers' = [i \in DOMAIN Alfa!Leaves |-> "pending"]
           /\ Alfa!Pass("first", [i \in DOMAIN Alfa!Leaves |-> i])
  <2>1. Alfa!Leaves \in Seq(Alfa!Entries)
    <3>1. PICK S : S = {e \in Alfa!Entries : Alfa!IsLeaf(e)}
      OBVIOUS
    <3>2. PICK n \in Nat : n = Len(Tree)
      BY DEF Alfa!AlfaAssumption
    <3>3. S \in SUBSET (1..n)
      BY <3>1, <3>2 DEF Alfa!Entries
    <3>4. Alfa!Leaves \in Seq(S)
      BY <3>1, <3>3, AlfaLists DEF Alfa!Leaves
    <3>5. S \subseteq Alfa!Entries
      BY <3>1
    <3>6. QED
      BY <3>4, <3>5
  <2>2. PICK n \in Nat : DOMAIN Alfa!Leaves = 1..n
    BY <2>1
  <2>3. PICK q : q = [i \in 1..n |-> i]
    OBVIOUS
  <2>4. /\ q \in Seq(1..n) /\ DOMAIN q = 1..n /\ Len(q) = n
        /\ \A k \in 1..n : q[k] = k
    BY <2>3
  <2>5. /\ stage' = "first" /\ queue' = q /\ taken' = 0 /\ leaves' = Alfa!Leaves
        /\ got' = [k \in 1..n |-> "pending"]
        /\ results' = [i \in 1..n |-> "pending"] /\ answers' = [i \in 1..n |-> "pending"]
        /\ UNCHANGED <<busy, hops, snapshot>>
    BY <1>1, <2>2, <2>3, <2>4 DEF Alfa!Pass
  <2>6. \A w \in Threads : busy[w] = 0
    BY <1>0 DEF Alfa!Idle
  <2>7. busy' \in [Threads -> {0} \cup 1..n]
    BY <1>0, <2>5, <2>6
  <2>8. Alfa!TypeOK'
    BY <1>0, <2>1, <2>2, <2>4, <2>5, <2>7 DEF Alfa!TypeOK, Alfa!Positions
  <2>9. Alfa!Pass("first", q)
    BY <1>1, <2>2, <2>3
  <2>10. QED
    BY <1>0, <2>2, <2>3, <2>4, <2>5, <2>8, <2>9, PassBegins
<1>2. CASE Alfa!End("error") /\ UNCHANGED <<results, snapshot>>
  BY <1>0, <1>2 DEF Alfa!End, ScanInv, Alfa!TypeOK, Alfa!Idle, Alfa!Positions,
                    Alfa!NoPartialSnapshot
<1>3. QED
  BY <1>1, <1>2 DEF Alfa!Discover

\* A step within a pass.
LEMMA Scans ==
    ASSUME Alfa!AlfaAssumption, ScanInv, NEW w \in Threads,
           \/ Alfa!Take(w) \/ Alfa!Redirect(w)
           \/ \E a \in Alfa!Answers : Alfa!Answer(w, a)
    PROVE  ScanInv'
<1>0. /\ stage \in {"first", "retry"} /\ PassIsRight /\ snapshot = {} /\ Alfa!TypeOK
      /\ stage = "first" => queue = [i \in Alfa!Positions |-> i]
  BY DEF ScanInv, Alfa!Take, Alfa!Redirect, Alfa!Answer, Alfa!Idle
<1>1. PICK n \in Nat : n = Len(queue) /\ DOMAIN queue = 1..n
  BY <1>0 DEF Alfa!TypeOK
<1>2. /\ taken \in 0..n /\ got \in [1..n -> Alfa!Answers \cup {"pending"}]
      /\ busy \in [Threads -> {0} \cup 1..n]
      /\ hops \in [Threads -> 0..MaxRedirects] /\ MaxRedirects \in Nat
      /\ answers \in [Alfa!Positions -> Alfa!Answers \cup {"pending"}]
      /\ results \in [Alfa!Positions -> Alfa!Answers \cup {"pending"}]
      /\ queue \in Seq(Alfa!Positions) /\ leaves \in Seq(Alfa!Entries)
  BY <1>0, <1>1 DEF Alfa!TypeOK, Alfa!AlfaAssumption
<1>3. ASSUME Alfa!Take(w)
      PROVE  ScanInv'
  <2>1. /\ busy[w] = 0 /\ taken < n /\ taken' = taken + 1
        /\ busy' = [busy EXCEPT ![w] = taken + 1] /\ hops' = [hops EXCEPT ![w] = 0]
        /\ UNCHANGED <<stage, leaves, queue, got, results, snapshot, answers>>
    BY <1>1, <1>3 DEF Alfa!Take
  <2>2. taken' \in 0..n /\ taken + 1 \in 1..n
    BY <1>2, <2>1
  <2>3. busy' \in [Threads -> {0} \cup 1..n] /\ hops' \in [Threads -> 0..MaxRedirects]
    BY <1>2, <2>1, <2>2
  <2>4. Alfa!TypeOK'
    BY <1>0, <1>1, <1>2, <2>1, <2>2, <2>3 DEF Alfa!TypeOK, Alfa!Positions
  <2>5. ASSUME NEW k \in 1..n, k <= taken', \A v \in Threads : busy'[v] # k
        PROVE  k <= taken /\ \A v \in Threads : busy[v] # k
    <3>1. k # taken + 1
      BY <1>2, <2>1, <2>5
    <3>2. \A v \in Threads : v # w => busy'[v] = busy[v]
      BY <1>2, <2>1
    <3>3. QED
      BY <1>2, <2>1, <2>5, <3>1, <3>2
  <2>6. PassIsRight'
    BY <1>0, <1>1, <2>1, <2>5 DEF PassIsRight, Listed, Alfa!Positions
  <2>7. QED
    BY <1>0, <2>1, <2>4, <2>6 DEF ScanInv, Alfa!NoPartialSnapshot, Alfa!Positions
<1>4. ASSUME Alfa!Redirect(w)
      PROVE  ScanInv'
  <2>1. /\ hops[w] < MaxRedirects /\ hops' = [hops EXCEPT ![w] = @ + 1]
        /\ UNCHANGED <<stage, leaves, queue, taken, got, busy, results, snapshot, answers>>
    BY <1>4 DEF Alfa!Redirect
  <2>2. hops' \in [Threads -> 0..MaxRedirects]
    BY <1>2, <2>1
  <2>3. Alfa!TypeOK'
    BY <1>0, <2>1, <2>2 DEF Alfa!TypeOK, Alfa!Positions
  <2>4. PassIsRight'
    BY <1>0, <2>1 DEF PassIsRight, Listed, Alfa!Positions
  <2>5. QED
    BY <1>0, <2>1, <2>3, <2>4 DEF ScanInv, Alfa!NoPartialSnapshot, Alfa!Positions
<1>5. ASSUME NEW a \in Alfa!Answers, Alfa!Answer(w, a)
      PROVE  ScanInv'
  <2>1. PICK k \in 1..n : k = busy[w]
    BY <1>2, <1>5 DEF Alfa!Answer
  <2>2. PICK p \in Alfa!Positions : p = queue[k]
    BY <1>1, <1>2
  <2>3. /\ got' = [got EXCEPT ![k] = a] /\ answers' = [answers EXCEPT ![p] = a]
        /\ busy' = [busy EXCEPT ![w] = 0]
        /\ UNCHANGED <<stage, leaves, queue, taken, hops, results, snapshot>>
    BY <1>5, <2>1, <2>2 DEF Alfa!Answer
  <2>4. /\ got' \in [1..n -> Alfa!Answers \cup {"pending"}]
        /\ answers' \in [Alfa!Positions -> Alfa!Answers \cup {"pending"}]
        /\ busy' \in [Threads -> {0} \cup 1..n]
    BY <1>2, <2>3
  <2>5. Alfa!TypeOK'
    BY <1>0, <1>1, <2>3, <2>4 DEF Alfa!TypeOK, Alfa!Positions
  <2>6. ASSUME NEW l \in 1..n, l <= taken, \A v \in Threads : busy'[v] # l
        PROVE  got'[l] \in Alfa!Answers /\ got'[l] = answers'[queue[l]]
    <3>1. CASE l = k
      BY <1>2, <2>2, <2>3, <3>1
    <3>2. CASE l # k
      <4>1. \A v \in Threads : busy[v] # l
        BY <1>2, <2>1, <2>3, <2>6, <3>2
      <4>2. got[l] \in Alfa!Answers /\ got[l] = answers[queue[l]]
        BY <1>0, <1>1, <2>6, <4>1 DEF PassIsRight
      <4>3. queue[l] # p /\ queue[l] \in Alfa!Positions
        BY <1>0, <1>1, <1>2, <2>2, <3>2 DEF PassIsRight
      <4>4. QED
        BY <1>2, <2>3, <3>2, <4>2, <4>3
    <3>3. QED
      BY <3>1, <3>2
  <2>7. \A i \in Alfa!Positions \ Listed : answers'[i] = answers[i]
    BY <1>1, <1>2, <2>2, <2>3 DEF Listed
  <2>8. PassIsRight'
    BY <1>0, <1>1, <2>3, <2>6, <2>7 DEF PassIsRight, Listed, Alfa!Positions
  <2>9. QED
    BY <1>0, <2>3, <2>5, <2>8 DEF ScanInv, Alfa!NoPartialSnapshot, Alfa!Positions
<1>6. QED
  BY <1>3, <1>4, <1>5

\* At the end of a pass every place has the last answer for its leaf.
LEMMA PassEnds ==
    ASSUME ScanInv, NEW name \in {"first", "retry"}, Alfa!PassOver(name)
    PROVE  \A k \in DOMAIN queue :
              got[k] \in Said \cup {"failed"} /\ got[k] = answers[queue[k]]
<1>1. /\ stage = name /\ PassIsRight /\ Alfa!Idle /\ taken = Len(queue) /\ ~Alfa!Raised
      /\ queue \in Seq(Alfa!Positions) /\ DOMAIN got = DOMAIN queue
  BY DEF ScanInv, Alfa!PassOver, Alfa!TypeOK
<1>2. PICK n \in Nat : DOMAIN queue = 1..n /\ taken = n
  BY <1>1
<1>3. \A k \in 1..n : \A w \in Threads : busy[w] # k
  BY <1>1 DEF Alfa!Idle
<1>4. \A k \in 1..n : got[k] \in Alfa!Answers /\ got[k] = answers[queue[k]]
  BY <1>1, <1>2, <1>3 DEF PassIsRight
<1>5. \A k \in 1..n : got[k] # "raised"
  BY <1>1, <1>2 DEF Alfa!Raised
<1>6. QED
  BY <1>2, <1>4, <1>5 DEF Alfa!Answers, Said

\* The retry has the leaves that failed, the others have answers that count.
LEMMA FirstEnds ==
    ASSUME Alfa!AlfaAssumption, ScanInv, Alfa!EndFirst
    PROVE  ScanInv'
<1>0. /\ stage = "first" /\ Alfa!Idle /\ snapshot = {} /\ Alfa!TypeOK /\ results' = got
      /\ queue = [i \in Alfa!Positions |-> i] /\ Alfa!PassOver("first")
  BY DEF Alfa!EndFirst, Alfa!PassOver, ScanInv
<1>1. PICK n \in Nat : Alfa!Positions = 1..n
  BY <1>0 DEF Alfa!TypeOK, Alfa!Positions
<1>2. /\ DOMAIN queue = 1..n /\ \A i \in 1..n : queue[i] = i
      /\ leaves \in Seq(Alfa!Entries) /\ hops \in [Threads -> 0..MaxRedirects]
      /\ got \in [1..n -> Alfa!Answers \cup {"pending"}]
      /\ answers \in [1..n -> Alfa!Answers \cup {"pending"}]
      /\ busy \in [Threads -> {0} \cup DOMAIN queue]
  BY <1>0, <1>1 DEF Alfa!TypeOK
<1>3. \A i \in 1..n : got[i] \in Said \cup {"failed"} /\ got[i] = answers[i]
  BY <1>0, <1>2, PassEnds
<1>4. PICK S \in SUBSET (1..n) : S = {i \in 1..n : got[i] = "failed"}
  OBVIOUS
<1>5. PICK q \in Seq(S) :
         /\ q = Alfa!FailedOnes /\ {q[k] : k \in DOMAIN q} = S
         /\ \A k, l \in DOMAIN q : q[k] = q[l] => k = l
  BY <1>1, <1>4, AlfaLists DEF Alfa!FailedOnes
<1>6. CASE q = <<>>
  <2>1. S = {}
    BY <1>5, <1>6
  <2>2. \A i \in 1..n : got[i] \in Said
    BY <1>3, <1>4, <2>1
  <2>3. /\ stage' = "notes"
        /\ UNCHANGED <<leaves, queue, taken, got, busy, hops, answers, snapshot>>
    BY <1>5, <1>6 DEF Alfa!EndFirst, Alfa!End
  <2>4. Alfa!TypeOK'
    BY <1>0, <1>1, <1>2, <2>3 DEF Alfa!TypeOK, Alfa!Positions
  <2>5. Alfa!NoPartialSnapshot'
    BY <1>0, <1>1, <1>3, <2>2, <2>3 DEF Alfa!NoPartialSnapshot, Alfa!Positions, Said
  <2>6. QED
    BY <1>0, <2>3, <2>4, <2>5 DEF ScanInv, Alfa!Idle
<1>7. CASE q # <<>>
  <2>1. Alfa!Pass("retry", q) /\ UNCHANGED <<leaves, answers>>
    BY <1>5, <1>7 DEF Alfa!EndFirst
  <2>2. /\ stage' = "retry" /\ queue' = q /\ taken' = 0
        /\ got' = [k \in DOMAIN q |-> "pending"] /\ UNCHANGED <<busy, hops, snapshot>>
    BY <2>1 DEF Alfa!Pass
  <2>3. \A w \in Threads : busy[w] = 0
    BY <1>0 DEF Alfa!Idle
  <2>4. busy' \in [Threads -> {0} \cup DOMAIN q]
    BY <1>2, <2>2, <2>3
  <2>5. q \in Seq(1..n) /\ 0 \in 0..Len(q)
    <3>1. q \in Seq(S) /\ S \subseteq 1..n
      BY <1>4, <1>5
    <3>2. q \in Seq(1..n) /\ Len(q) \in Nat
      BY <3>1, SeqMonotonic, LenProperties
    <3>3. QED
      BY <3>1, <3>2
  <2>6. Alfa!TypeOK'
    BY <1>0, <1>1, <1>2, <2>1, <2>2, <2>4, <2>5 DEF Alfa!TypeOK, Alfa!Positions
  <2>7. \A i \in (1..n) \ S : got[i] = answers[i] /\ answers[i] \in Said
    BY <1>3, <1>4
  <2>8. QED
    BY <1>0, <1>1, <1>5, <2>1, <2>6, <2>7, PassBegins DEF Alfa!Positions
<1>8. QED
  BY <1>6, <1>7

\* After the retry every leaf has its last answer.
LEMMA RetryEnds ==
    ASSUME Alfa!AlfaAssumption, ScanInv, Alfa!EndRetry
    PROVE  ScanInv'
<1>0. /\ stage = "retry" /\ Alfa!Idle /\ snapshot = {} /\ Alfa!TypeOK
      /\ PassIsRight /\ Alfa!PassOver("retry") /\ results' = Alfa!Merged
      /\ stage' \in {"error", "notes"}
      /\ stage' = "notes" => \A i \in Alfa!Positions : Alfa!Merged[i] # "failed"
      /\ UNCHANGED <<leaves, queue, taken, got, busy, hops, answers, snapshot>>
  BY DEF Alfa!EndRetry, Alfa!PassOver, Alfa!End, ScanInv
<1>1. \A k \in DOMAIN queue : got[k] \in Said \cup {"failed"} /\ got[k] = answers[queue[k]]
  BY <1>0, PassEnds
<1>2. ASSUME NEW i \in Alfa!Positions
      PROVE  /\ Alfa!Merged[i] = answers[i]
             /\ Alfa!Merged[i] \in Said \cup {"failed"}
  <2>1. CASE \E k \in DOMAIN queue : queue[k] = i
    <3>1. PICK k \in DOMAIN queue :
             queue[k] = i /\ k = CHOOSE l \in DOMAIN queue : queue[l] = i
      BY <2>1
    <3>2. Alfa!Merged[i] = got[k]
      BY <2>1, <3>1 DEF Alfa!Merged
    <3>3. QED
      BY <1>1, <3>1, <3>2
  <2>2. CASE ~\E k \in DOMAIN queue : queue[k] = i
    <3>1. Alfa!Merged[i] = results[i] /\ i \in Alfa!Positions \ Listed
      BY <2>2 DEF Alfa!Merged, Listed
    <3>2. QED
      BY <1>0, <3>1 DEF PassIsRight
  <2>3. QED
    BY <2>1, <2>2
<1>3. Alfa!Merged \in [Alfa!Positions -> Alfa!Answers \cup {"pending"}]
  <2>1. Alfa!Merged = [i \in Alfa!Positions |-> Alfa!Merged[i]]
    BY DEF Alfa!Merged
  <2>2. QED
    BY <1>2, <2>1 DEF Said, Alfa!Answers
<1>4. Alfa!TypeOK'
  BY <1>0, <1>3 DEF Alfa!TypeOK, Alfa!Positions
<1>5. Alfa!NoPartialSnapshot'
  BY <1>0, <1>2 DEF Alfa!NoPartialSnapshot, Alfa!Positions, Said
<1>6. QED
  BY <1>0, <1>4, <1>5 DEF ScanInv, Alfa!Idle

\* Every step of the scan keeps it.
LEMMA ScanStep ==
    ASSUME Alfa!AlfaAssumption, ScanInv, [Alfa!Next]_Alfa!vars
    PROVE  ScanInv'
<1>1. CASE Alfa!Discover
  BY <1>1, Discovers
<1>2. ASSUME NEW w \in Threads, Alfa!Take(w) \/ Alfa!Redirect(w)
      PROVE  ScanInv'
  BY <1>2, Scans
<1>3. ASSUME NEW w \in Threads, NEW a \in Alfa!Answers, Alfa!Answer(w, a)
      PROVE  ScanInv'
  BY <1>3, Scans
<1>4. ASSUME NEW w \in Threads, Alfa!RedirectOnceTooOften(w)
      PROVE  ScanInv'
  BY <1>3, <1>4 DEF Alfa!RedirectOnceTooOften, Alfa!Answers
<1>5. CASE Alfa!EndFirst
  BY <1>5, FirstEnds
<1>6. CASE Alfa!EndRetry
  BY <1>6, RetryEnds
<1>7. CASE Alfa!Abort
  <2>1. /\ stage' = "error" /\ Alfa!Idle /\ snapshot = {}
        /\ UNCHANGED <<leaves, queue, taken, got, busy, hops, answers, results, snapshot>>
    BY <1>7 DEF Alfa!Abort, Alfa!End, ScanInv
  <2>2. QED
    BY <2>1 DEF ScanInv, Alfa!TypeOK, Alfa!Idle, Alfa!Positions, Alfa!NoPartialSnapshot
<1>8. CASE Alfa!Finish
  <2>1. /\ stage = "notes" /\ Alfa!Idle /\ snapshot = {}
        /\ UNCHANGED <<leaves, queue, taken, got, busy, hops, answers, results>>
        /\ \/ stage' = "done" /\ snapshot' = Alfa!ArticleRows \cup Alfa!GhostRows
           \/ stage' = "error" /\ snapshot' = snapshot
    BY <1>8 DEF Alfa!Finish, Alfa!End, ScanInv
  <2>2. /\ Alfa!ArticleRows' = Alfa!ArticleRows /\ Alfa!GhostRows' = Alfa!GhostRows
    BY <2>1 DEF Alfa!ArticleRows, Alfa!GhostRows, Alfa!ArticleKeys, Alfa!ArticleRow,
                Alfa!Describing, Alfa!Describes, Alfa!Positions
  <2>3. Alfa!TypeOK' /\ Alfa!Idle' /\ Alfa!NoPartialSnapshot'
    BY <2>1 DEF ScanInv, Alfa!TypeOK, Alfa!Idle, Alfa!Positions, Alfa!NoPartialSnapshot
  <2>4. QED
    BY <2>1, <2>2, <2>3 DEF ScanInv
<1>9. CASE UNCHANGED Alfa!vars
  <2>1. UNCHANGED <<stage, leaves, queue, taken, got, busy, hops, results, snapshot, answers>>
    BY <1>9 DEF Alfa!vars
  <2>2. /\ Alfa!ArticleRows' = Alfa!ArticleRows /\ Alfa!GhostRows' = Alfa!GhostRows
    BY <2>1 DEF Alfa!ArticleRows, Alfa!GhostRows, Alfa!ArticleKeys, Alfa!ArticleRow,
                Alfa!Describing, Alfa!Describes, Alfa!Positions
  <2>3. QED
    BY <2>1, <2>2 DEF ScanInv, Alfa!TypeOK, Alfa!Idle, Alfa!Positions,
                      Alfa!NoPartialSnapshot, PassIsRight, Listed
<1>10. QED
  BY <1>1, <1>2, <1>3, <1>4, <1>5, <1>6, <1>7, <1>8, <1>9 DEF Alfa!Next

\* The scan keeps its invariant, in any order of the answers among the threads.
LEMMA ScanHolds == Alfa!Spec => []ScanInv
<1>1. Alfa!AlfaAssumption
  BY PortalAssumptions
<1>2. Alfa!Init => ScanInv
  BY <1>1, ScanInit
<1>3. ScanInv /\ [Alfa!Next]_Alfa!vars => ScanInv'
  BY <1>1, ScanStep
<1>4. QED
  BY <1>2, <1>3, PTL DEF Alfa!Spec

\* A path without /api has none to drop.
LEMMA NormTwice == \A m : Alfa!Norm(Alfa!Norm(m)) = Alfa!Norm(m)
BY DEF Alfa!Norm

\* The leaf that decides about a method is one that describes it.
LEMMA FirstDescribes ==
    ASSUME ScanInv, NEW key \in Alfa!ArticleKeys
    PROVE  \E i \in Alfa!Positions :
              /\ results[i] = "page"
              /\ \E m \in Endpoints[Tree[leaves[i]].page] : Alfa!Norm(m) = key
              /\ Alfa!ArticleRow(key).key = key
              /\ Alfa!ArticleRow(key).hidden = Alfa!HiddenReason(leaves[i])
<1>1. PICK T : T = Alfa!Describing(key)
  OBVIOUS
<1>2. T # {} /\ T \subseteq Alfa!Positions
  BY <1>1 DEF Alfa!ArticleKeys, Alfa!Describing
<1>3. PICK n \in Nat : Alfa!Positions = 1..n
  BY DEF ScanInv, Alfa!TypeOK, Alfa!Positions
<1>4. T \in SUBSET Nat
  BY <1>2, <1>3
<1>5. PICK i : i = CHOOSE m \in T : \A k \in T : m <= k
  OBVIOUS
<1>6. i \in T
  BY <1>2, <1>4, <1>5, LeastNumber
<1>7. /\ Alfa!ArticleRow(key).key = key
      /\ Alfa!ArticleRow(key).hidden = Alfa!HiddenReason(leaves[i])
  BY <1>1, <1>5 DEF Alfa!ArticleRow, Alfa!Row
<1>8. Alfa!Describes(i, key)
  BY <1>1, <1>6 DEF Alfa!Describing
<1>9. QED
  BY <1>2, <1>6, <1>7, <1>8 DEF Alfa!Describes

\* The properties of the scan, from what it keeps.
LEMMA ScanGoal ==
    ASSUME ScanInv
    PROVE  Alfa!TypeOK /\ Alfa!NoPartialSnapshot /\ Alfa!OneRowPerMethod /\ Alfa!ShownIsPublic
<1>1. SUFFICES ASSUME stage = "done", snapshot = Alfa!ArticleRows \cup Alfa!GhostRows
               PROVE  Alfa!OneRowPerMethod /\ Alfa!ShownIsPublic
  BY DEF ScanInv, Alfa!OneRowPerMethod, Alfa!ShownIsPublic
<1>2. ASSUME NEW r \in Alfa!ArticleRows
      PROVE  /\ r.key \in Alfa!ArticleKeys /\ r = Alfa!ArticleRow(r.key)
             /\ Alfa!Method(r) = r.key
  <2>1. PICK key \in Alfa!ArticleKeys : r = Alfa!ArticleRow(key)
    BY <1>2 DEF Alfa!ArticleRows
  <2>2. r.key = key
    BY <2>1, FirstDescribes
  <2>3. PICK m : key = Alfa!Norm(m)
    BY <2>1, FirstDescribes
  <2>4. QED
    BY <2>1, <2>2, <2>3, NormTwice DEF Alfa!Method, Alfa!Norm
<1>3. ASSUME NEW r \in Alfa!GhostRows
      PROVE  /\ r.key \notin Alfa!ArticleKeys /\ r = Alfa!Row(r.key, 0, "ghost")
             /\ Alfa!Method(r) = r.key /\ r.hidden = "ghost"
  <2>1. PICK key \in {Alfa!Norm(m) : m \in Notes} \ Alfa!ArticleKeys :
           r = Alfa!Row(key, 0, "ghost")
    BY <1>3 DEF Alfa!GhostRows
  <2>2. r.key = key /\ r.hidden = "ghost"
    BY <2>1 DEF Alfa!Row
  <2>3. PICK m : key = Alfa!Norm(m)
    BY <2>1
  <2>4. QED
    BY <2>1, <2>2, <2>3, NormTwice DEF Alfa!Method, Alfa!Norm
<1>4. Alfa!OneRowPerMethod
  BY <1>1, <1>2, <1>3 DEF Alfa!OneRowPerMethod
<1>5. ASSUME NEW r \in snapshot, r.hidden = "none"
      PROVE  \E i \in Alfa!Positions :
                /\ answers[i] = "page"
                /\ \E m \in Endpoints[Tree[leaves[i]].page] :
                      Alfa!Method(r) = [m EXCEPT !.api = FALSE]
                /\ Tree[leaves[i]].visible
                /\ \A a \in Alfa!Chain[leaves[i]] : "private" \notin Tree[a].tags
  <2>1. r \in Alfa!ArticleRows
    BY <1>1, <1>3, <1>5
  <2>2. PICK i \in Alfa!Positions :
           /\ results[i] = "page"
           /\ \E m \in Endpoints[Tree[leaves[i]].page] : Alfa!Norm(m) = r.key
           /\ r.hidden = Alfa!HiddenReason(leaves[i])
    BY <1>2, <2>1, FirstDescribes
  <2>3. answers[i] = "page"
    BY <1>1, <2>2 DEF ScanInv, Alfa!NoPartialSnapshot
  <2>4. ~Alfa!IsPrivate(leaves[i]) /\ Tree[leaves[i]].visible
    BY <1>5, <2>2 DEF Alfa!HiddenReason
  <2>5. QED
    BY <1>2, <2>1, <2>2, <2>3, <2>4 DEF Alfa!IsPrivate, Alfa!Norm
<1>6. Alfa!ShownIsPublic
  BY <1>5 DEF Alfa!ShownIsPublic
<1>7. QED
  BY <1>4, <1>6

-----------------------------------------------------------------------------
(* The parsers of OpenAPI files *)

\* The parsers' operators on sets and sequences are the library's.
LEMMA PortOperators ==
    /\ \A f : Port!Range(f) = Range(f)
    /\ \A S : Port!Cardinality(S) = Cardinality(S)
    /\ \A S : Port!IsFiniteSet(S) <=> IsFiniteSet(S)
    /\ \A s : Port!Last(s) = s[Len(s)]
BY DEF Port!Range, Range, Port!Cardinality, Cardinality, Port!IsFiniteSet, IsFiniteSet,
       Port!Last

\* Their Among is InOrder's.
LEMMA PortAmong == \A list, set : Port!Among(list, set) = Among(list, set)
BY DEF Port!Among, Among, Port!Ascending, Ascending, Port!Cardinality, Cardinality

LastEntry == Entry[Len(Entry)]

Loops == [section : {""} \cup DOMAIN SpecsOf, docs : Seq(Port!Documents) \ {<<>>}]

LoopItems(loop) == {[section |-> loop.section, doc |-> d] : d \in Range(loop.docs)}

\* main.js is the last document before the pages.
PagesComeLast(loops) ==
    /\ Len(loops) <= 1
    /\ \A k \in DOMAIN loops : \A j \in 1..Len(loops[k].docs) - 1 :
          loops[k].docs[j] # LastEntry

\* What is in the loops of a bank.
RightLoops(b, loops) ==
    /\ loops \in Seq(Loops)
    /\ b # "sber" => \A k \in DOMAIN loops : loops[k].section = ""
    /\ b = "tochka" => PagesComeLast(loops)

PlanIsFollowed ==
    /\ Port!ItemsOf(todo) \subseteq plan
    /\ \A item \in plan \ (read \cup Port!ItemsOf(todo)) :
          bank = "tochka" /\ Port!IsPage(item.doc)

RowsTell ==
    /\ \A r \in rows : \E item \in read : r \in Port!RowsOf(item)
    /\ bank # "sber" => \A item \in read : Port!RowsOf(item) \subseteq rows
    /\ bank = "sber" => \A item \in read : \A op \in Described[item.doc] :
          \E r \in rows : r.key = op.key /\ r.section = item.section

PortInv ==
    /\ bank \in Port!Banks /\ parsing \in {"begin", "reading", "done", "error"}
    /\ RightLoops(bank, todo)
    /\ \A item \in plan : item.doc \in Port!Documents
    /\ bank # "sber" => \A item \in plan : item.section = ""
    /\ read \subseteq plan /\ dropped \subseteq plan
    /\ parsing = "begin" => todo = <<>> /\ plan = {}
    /\ parsing \in {"reading", "done"} => PlanIsFollowed
    /\ parsing = "done" => todo = <<>> /\ Port!Enough
    /\ RowsTell
    /\ Port!OnceInSection

\* The first document of a list and the others.
LEMMA HeadAndTail ==
    ASSUME NEW T, NEW s \in Seq(T), s # <<>>
    PROVE  /\ Head(s) \in T /\ Tail(s) \in Seq(T)
           /\ Head(s) = s[1] /\ 1 \in DOMAIN s
           /\ Len(s) \in Nat /\ Len(s) # 0 /\ Len(Tail(s)) = Len(s) - 1
           /\ \A i \in DOMAIN Tail(s) : i + 1 \in DOMAIN s /\ Tail(s)[i] = s[i + 1]
           /\ \A i \in DOMAIN s : i # 1 => i - 1 \in DOMAIN Tail(s) /\ Tail(s)[i - 1] = s[i]
<1>1. /\ Head(s) \in T /\ Tail(s) \in Seq(T) /\ Len(Tail(s)) = Len(s) - 1
      /\ \A i \in 1..Len(Tail(s)) : Tail(s)[i] = s[i + 1]
  BY HeadTailProperties
<1>2. PICK n \in Nat : Len(s) = n /\ n # 0
  BY EmptySeq
<1>3. DOMAIN s = 1..n /\ DOMAIN Tail(s) = 1..n - 1 /\ Len(Tail(s)) = n - 1
  <2>1. Len(Tail(s)) = n - 1
    BY <1>1, <1>2
  <2>2. DOMAIN Tail(s) = 1..Len(Tail(s)) /\ DOMAIN s = 1..Len(s)
    BY <1>1, LenProperties
  <2>3. QED
    BY <1>2, <2>1, <2>2
<1>4. Head(s) = s[1]
  BY <1>2
<1>5. \A i \in 1..n - 1 : i + 1 \in 1..n /\ Tail(s)[i] = s[i + 1]
  BY <1>1, <1>2, <1>3
<1>6. ASSUME NEW i \in 1..n, i # 1
      PROVE  i - 1 \in 1..n - 1 /\ Tail(s)[i - 1] = s[i]
  <2>1. i - 1 \in 1..n - 1 /\ (i - 1) + 1 = i
    BY <1>2, <1>6
  <2>2. QED
    BY <1>5, <2>1
<1>7. QED
  BY <1>1, <1>2, <1>3, <1>4, <1>5, <1>6

\* What is in a list is its first member or among the others.
LEMMA RangeOfHeadAndTail ==
    ASSUME NEW T, NEW s \in Seq(T), s # <<>>
    PROVE  Range(s) = {Head(s)} \cup Range(Tail(s))
<1>1. ASSUME NEW x \in Range(s)
      PROVE  x = Head(s) \/ x \in Range(Tail(s))
  <2>1. PICK i \in DOMAIN s : s[i] = x
    BY <1>1 DEF Range
  <2>2. QED
    BY <2>1, HeadAndTail DEF Range
<1>2. Head(s) \in Range(s)
  BY HeadAndTail DEF Range
<1>3. ASSUME NEW x \in Range(Tail(s))
      PROVE  x \in Range(s)
  <2>1. PICK i \in DOMAIN Tail(s) : Tail(s)[i] = x
    BY <1>3 DEF Range
  <2>2. QED
    BY <2>1, HeadAndTail DEF Range
<1>4. QED
  BY <1>1, <1>2, <1>3

\* The items of loops are those of each.
LEMMA ItemsOfAll ==
    ASSUME NEW loops
    PROVE  Port!ItemsOf(loops) = UNION {LoopItems(loop) : loop \in Range(loops)}
BY PortOperators DEF Port!ItemsOf, LoopItems

\* They are those of the first loop and of the others.
LEMMA ItemsOfHeadAndTail ==
    ASSUME NEW loops \in Seq(Loops), loops # <<>>
    PROVE  Port!ItemsOf(loops) = LoopItems(Head(loops)) \cup Port!ItemsOf(Tail(loops))
<1>1. Range(loops) = {Head(loops)} \cup Range(Tail(loops))
  BY RangeOfHeadAndTail
<1>2. QED
  BY <1>1, ItemsOfAll

\* Without loops there are none.
LEMMA ItemsOfNone == Port!ItemsOf(<<>>) = {}
<1>1. Range(<<>>) = {}
  BY DEF Range
<1>2. QED
  BY <1>1, ItemsOfAll

\* An item of loops is of one of their sections and documents.
LEMMA ItemsAreTyped ==
    ASSUME NEW b, NEW loops, RightLoops(b, loops), NEW item \in Port!ItemsOf(loops)
    PROVE  item.doc \in Port!Documents /\ (b # "sber" => item.section = "")
<1>1. PICK k \in DOMAIN loops : item \in LoopItems(loops[k])
  BY ItemsOfAll DEF Range
<1>2. PICK d \in Range(loops[k].docs) : item = [section |-> loops[k].section, doc |-> d]
  BY <1>1 DEF LoopItems
<1>3. loops[k] \in Loops /\ (b # "sber" => loops[k].section = "")
  <2>1. loops \in Seq(Loops)
    BY DEF RightLoops
  <2>2. loops[k] \in Loops
    BY <2>1, ElementOfSeq, LenProperties
  <2>3. QED
    BY <2>2 DEF RightLoops
<1>4. loops[k].docs \in Seq(Port!Documents)
  BY <1>3 DEF Loops
<1>5. d \in Port!Documents
  BY <1>2, <1>4 DEF Range
<1>6. QED
  BY <1>2, <1>3, <1>5

\* A step along the loops takes the item it is at, and no other.
LEMMA RestFollows ==
    ASSUME RightLoops(bank, todo), todo # <<>>
    PROVE  /\ RightLoops(bank, Port!Rest)
           /\ Port!ItemsOf(todo) = {Port!Item} \cup Port!ItemsOf(Port!Rest)
           /\ Port!Item.doc \in Port!Documents
           /\ Port!Item.section = Head(todo).section
           /\ bank = "tochka" /\ Port!Item.doc = LastEntry => Port!ItemsOf(Port!Rest) = {}
<1>1. PICK h : h = Head(todo)
  OBVIOUS
<1>2. PICK t : t = Tail(todo)
  OBVIOUS
<1>3. /\ todo \in Seq(Loops) /\ h \in Loops /\ t \in Seq(Loops)
      /\ h = todo[1] /\ 1 \in DOMAIN todo
      /\ Len(todo) \in Nat /\ Len(todo) # 0 /\ Len(t) = Len(todo) - 1
      /\ \A i \in DOMAIN t : i + 1 \in DOMAIN todo /\ t[i] = todo[i + 1]
  BY <1>1, <1>2, HeadAndTail DEF RightLoops
<1>4. h.docs \in Seq(Port!Documents) /\ h.docs # <<>> /\ h.section \in {""} \cup DOMAIN SpecsOf
  BY <1>3 DEF Loops
<1>5. PICK d : d = h.docs /\ d \in Seq(Port!Documents) /\ d # <<>>
  BY <1>4
<1>6. /\ Head(d) \in Port!Documents /\ Tail(d) \in Seq(Port!Documents)
      /\ Head(d) = d[1] /\ 1 \in DOMAIN d
      /\ Len(d) \in Nat /\ Len(d) # 0 /\ Len(Tail(d)) = Len(d) - 1
      /\ \A i \in DOMAIN Tail(d) : i + 1 \in DOMAIN d /\ Tail(d)[i] = d[i + 1]
      /\ Range(d) = {Head(d)} \cup Range(Tail(d))
  BY <1>5, HeadAndTail, RangeOfHeadAndTail
<1>7. Port!Item = [section |-> h.section, doc |-> Head(d)]
  BY <1>1, <1>5 DEF Port!Item
<1>8. /\ bank # "sber" => h.section = ""
      /\ bank # "sber" => \A k \in DOMAIN t : t[k].section = ""
  BY <1>3 DEF RightLoops
<1>9. CASE Len(d) = 1
  <2>1. Port!Rest = t
    BY <1>1, <1>2, <1>5, <1>9 DEF Port!Rest
  <2>2. Range(Tail(d)) = {}
    <3>1. Len(Tail(d)) = 0
      BY <1>6, <1>9
    <3>2. Tail(d) = <<>>
      BY <1>6, <3>1, EmptySeq
    <3>3. QED
      BY <3>2 DEF Range
  <2>3. LoopItems(h) = {Port!Item}
    BY <1>5, <1>6, <1>7, <2>2 DEF LoopItems
  <2>4. Port!ItemsOf(todo) = {Port!Item} \cup Port!ItemsOf(t)
    BY <1>1, <1>2, <1>3, <2>3, ItemsOfHeadAndTail
  <2>5. bank = "tochka" => t = <<>>
    <3>1. SUFFICES ASSUME bank = "tochka" PROVE t = <<>>
      OBVIOUS
    <3>2. Len(todo) <= 1
      BY <3>1 DEF RightLoops, PagesComeLast
    <3>3. Len(t) = 0
      BY <1>3, <3>2
    <3>4. QED
      BY <1>3, <3>3, EmptySeq
  <2>6. PagesComeLast(<<>>)
    BY DEF PagesComeLast
  <2>7. RightLoops(bank, t)
    BY <1>3, <1>8, <2>5, <2>6 DEF RightLoops
  <2>8. QED
    BY <1>1, <1>6, <1>7, <2>1, <2>4, <2>5, <2>7, ItemsOfNone
<1>10. CASE Len(d) # 1
  <2>0. PICK l : l = Port!Loop(h.section, Tail(d))
    OBVIOUS
  <2>1. l = Port!Loop(h.section, Tail(d)) /\ l.section = h.section /\ l.docs = Tail(d)
    BY <2>0 DEF Port!Loop
  <2>2. Port!Rest = <<l>> \o t
    BY <1>1, <1>2, <1>5, <1>10, <2>1 DEF Port!Rest
  <2>3. Len(Tail(d)) # 0 /\ Tail(d) # <<>>
    BY <1>6, <1>10
  <2>4. l \in Loops
    BY <1>4, <1>6, <2>1, <2>3 DEF Loops, Port!Loop
  <2>5. PICK m \in Nat : Len(t) = m /\ DOMAIN t = 1..m
    BY <1>3, LenProperties
  <2>6. PICK r : /\ r = <<l>> \o t /\ r \in Seq(Loops) /\ Len(r) = m + 1 /\ DOMAIN r = 1..m + 1
                 /\ r[1] = l /\ \A i \in 1..m : r[i + 1] = t[i]
    <3>1. <<l>> \in Seq(Loops) /\ Len(<<l>>) = 1
      BY <2>4
    <3>2. PICK r : r = <<l>> \o t
      OBVIOUS
    <3>3. /\ r \in Seq(Loops) /\ Len(r) = 1 + m
          /\ \A i \in 1..1 + m : r[i] = IF i <= 1 THEN <<l>>[i] ELSE t[i - 1]
      BY <1>3, <2>5, <3>1, <3>2, ConcatProperties
    <3>4. DOMAIN r = 1..m + 1 /\ Len(r) = m + 1
      BY <3>3, LenProperties
    <3>5. r[1] = l
      <4>1. 1 \in 1..1 + m
        OBVIOUS
      <4>2. QED
        BY <3>3, <4>1
    <3>6. ASSUME NEW i \in 1..m
          PROVE  r[i + 1] = t[i]
      <4>1. i + 1 \in 1..1 + m /\ ~(i + 1 <= 1) /\ (i + 1) - 1 = i
        OBVIOUS
      <4>2. QED
        BY <3>3, <4>1
    <3>7. QED
      BY <3>2, <3>3, <3>4, <3>5, <3>6
  <2>7. Range(r) = {l} \cup Range(t)
    <3>1. 1 \in 1..m + 1 /\ \A i \in 1..m : i + 1 \in 1..m + 1
      OBVIOUS
    <3>2. \A i \in 1..m + 1 : i = 1 \/ (i - 1 \in 1..m /\ (i - 1) + 1 = i)
      OBVIOUS
    <3>3. ASSUME NEW x \in Range(r)
          PROVE  x = l \/ x \in Range(t)
      <4>1. PICK i \in 1..m + 1 : x = r[i]
        BY <2>6, <3>3 DEF Range
      <4>2. QED
        BY <2>5, <2>6, <3>2, <4>1 DEF Range
    <3>4. l \in Range(r)
      BY <2>6, <3>1 DEF Range
    <3>5. ASSUME NEW x \in Range(t)
          PROVE  x \in Range(r)
      <4>1. PICK i \in 1..m : x = t[i]
        BY <2>5, <3>5 DEF Range
      <4>2. QED
        BY <2>6, <3>1, <4>1 DEF Range
    <3>6. QED
      BY <3>3, <3>4, <3>5
  <2>8. LoopItems(h) = {Port!Item} \cup LoopItems(l)
    <3>1. \A x : x \in LoopItems(h) <=>
             \E e \in Range(d) : x = [section |-> h.section, doc |-> e]
      BY <1>5 DEF LoopItems
    <3>2. \A x : x \in LoopItems(l) <=>
             \E e \in Range(Tail(d)) : x = [section |-> h.section, doc |-> e]
      BY <2>1 DEF LoopItems
    <3>3. QED
      BY <1>6, <1>7, <3>1, <3>2
  <2>9. Port!ItemsOf(todo) = {Port!Item} \cup Port!ItemsOf(r)
    <3>1. Port!ItemsOf(todo) = LoopItems(h) \cup Port!ItemsOf(t)
      BY <1>1, <1>2, <1>3, ItemsOfHeadAndTail
    <3>2. Port!ItemsOf(r) = LoopItems(l) \cup Port!ItemsOf(t)
      BY <2>7, ItemsOfAll
    <3>3. QED
      BY <2>8, <3>1, <3>2
  <2>10. bank = "tochka" => Len(r) <= 1 /\ m = 0 /\ Head(d) # LastEntry
         /\ \A j \in 1..Len(Tail(d)) - 1 : Tail(d)[j] # LastEntry
    <3>1. SUFFICES ASSUME bank = "tochka"
                   PROVE  Len(r) <= 1 /\ m = 0 /\ Head(d) # LastEntry
                          /\ \A j \in 1..Len(Tail(d)) - 1 : Tail(d)[j] # LastEntry
      OBVIOUS
    <3>2. Len(todo) <= 1 /\ \A j \in 1..Len(d) - 1 : d[j] # LastEntry
      BY <1>3, <1>5, <3>1 DEF RightLoops, PagesComeLast
    <3>3. m = 0 /\ Len(r) <= 1
      BY <1>3, <2>5, <2>6, <3>2
    <3>4. 1 \in 1..Len(d) - 1
      BY <1>6, <1>10
    <3>5. ASSUME NEW j \in 1..Len(Tail(d)) - 1
          PROVE  Tail(d)[j] # LastEntry
      <4>1. j \in 1..Len(Tail(d)) /\ j + 1 \in 1..Len(d) - 1
        BY <1>6
      <4>2. j \in DOMAIN Tail(d)
        BY <1>6, <4>1, LenProperties
      <4>3. QED
        BY <1>6, <3>2, <4>1, <4>2
    <3>6. QED
      BY <1>6, <3>2, <3>3, <3>4, <3>5
  <2>11. bank = "tochka" => PagesComeLast(r)
    <3>1. SUFFICES ASSUME bank = "tochka" PROVE PagesComeLast(r)
      OBVIOUS
    <3>2. \A k \in DOMAIN r : r[k] = l
      BY <2>6, <2>10, <3>1
    <3>3. QED
      BY <2>1, <2>10, <3>1, <3>2 DEF PagesComeLast
  <2>12. bank # "sber" => \A k \in DOMAIN r : r[k].section = ""
    <3>1. SUFFICES ASSUME bank # "sber", NEW k \in 1..m + 1 PROVE r[k].section = ""
      BY <2>6
    <3>2. CASE k = 1
      BY <1>8, <2>1, <2>6, <3>1, <3>2
    <3>3. CASE k # 1
      <4>1. k - 1 \in 1..m /\ (k - 1) + 1 = k
        BY <3>3
      <4>2. QED
        BY <1>8, <2>5, <2>6, <3>1, <4>1
    <3>4. QED
      BY <3>2, <3>3
  <2>13. RightLoops(bank, r)
    BY <2>6, <2>11, <2>12 DEF RightLoops
  <2>14. QED
    BY <1>1, <1>6, <1>7, <2>2, <2>6, <2>9, <2>10, <2>13
<1>11. QED
  BY <1>9, <1>10

\* The rows of a document are those of its bank.
LEMMA RowsStay ==
    ASSUME bank' = bank
    PROVE  \A item : Port!RowsOf(item)' = Port!RowsOf(item)
BY DEF Port!RowsOf, Port!Service, Port!Hidden, Port!Tags, Port!Prefixed, Port!IsPage

\* A row has an operation of its document.
LEMMA RowsAreOfDocument ==
    ASSUME NEW item, NEW r \in Port!RowsOf(item)
    PROVE  \E op \in Described[item.doc] : \E t \in Port!Tags(op) :
              /\ r.service = Port!Service(item, t)
              /\ r.key = op.key /\ r.doc = item.doc /\ r.section = item.section
              /\ r.hidden = Port!Hidden(item, op.key)
              /\ r = [service |-> Port!Service(item, t), key |-> op.key, doc |-> item.doc,
                      section |-> item.section, hidden |-> Port!Hidden(item, op.key)]
<1>1. PICK op \in Described[item.doc] : \E t \in Port!Tags(op) :
         r = [service |-> Port!Service(item, t), key |-> op.key, doc |-> item.doc,
              section |-> item.section, hidden |-> Port!Hidden(item, op.key)]
  BY DEF Port!RowsOf
<1>2. PICK t \in Port!Tags(op) :
         r = [service |-> Port!Service(item, t), key |-> op.key, doc |-> item.doc,
              section |-> item.section, hidden |-> Port!Hidden(item, op.key)]
  BY <1>1
<1>3. QED
  BY <1>2

\* An operation of a document has a row.
LEMMA OperationsHaveRows ==
    ASSUME NEW item, NEW op \in Described[item.doc]
    PROVE  \E r \in Port!RowsOf(item) : r.key = op.key /\ r.section = item.section
<1>1. PICK t : t \in Port!Tags(op)
  BY DEF Port!Tags
<1>2. PICK r : r = [service |-> Port!Service(item, t), key |-> op.key, doc |-> item.doc,
                    section |-> item.section, hidden |-> Port!Hidden(item, op.key)]
  OBVIOUS
<1>3. r \in Port!RowsOf(item)
  BY <1>1, <1>2 DEF Port!RowsOf
<1>4. QED
  BY <1>2, <1>3

\* What is to be read at the beginning is well formed for its bank.
LEMMA FirstLoopsAreRight ==
    ASSUME Port!PortalAssumption, bank \in Port!Banks, NEW loops \in Port!FirstLoops
    PROVE  RightLoops(bank, loops)
<1>1. /\ Spaces \in Seq(Port!Documents) /\ Products \in Seq(Port!Documents)
      /\ Entry \in Seq(Port!Documents) /\ Spaces # <<>> /\ Entry # <<>>
      /\ Slugs \in Seq(DOMAIN SpecsOf) /\ Extra \in Seq(DOMAIN SpecsOf)
      /\ \A s \in DOMAIN SpecsOf : SpecsOf[s] \in Seq(Port!Documents) \ {<<>>}
  BY DEF Port!PortalAssumption
<1>2. ASSUME NEW d \in Seq(Port!Documents), d # <<>>, loops = <<Port!Loop("", d)>>
      PROVE  /\ loops \in Seq(Loops) /\ Len(loops) = 1
             /\ \A k \in DOMAIN loops : loops[k].section = "" /\ loops[k].docs = d
  <2>1. PICK l : l = Port!Loop("", d)
    OBVIOUS
  <2>2. l \in Loops /\ l.section = "" /\ l.docs = d
    BY <1>2, <2>1 DEF Port!Loop, Loops
  <2>3. loops = <<l>>
    BY <1>2, <2>1
  <2>4. Len(loops) = 1 /\ \A k \in DOMAIN loops : loops[k] = l
    BY <2>3
  <2>5. loops \in Seq(Loops)
    <3>1. l \in Loops
      BY <2>2
    <3>2. <<l>> \in Seq(Loops)
      BY <3>1
    <3>3. QED
      BY <2>3, <3>2
  <2>6. QED
    BY <2>2, <2>4, <2>5
<1>3. CASE bank = "tbank"
  <2>1. loops = <<Port!Loop("", Spaces)>>
    BY <1>3 DEF Port!FirstLoops
  <2>2. QED
    BY <1>1, <1>2, <1>3, <2>1 DEF RightLoops
<1>4. CASE bank = "tochka"
  <2>1. loops = <<Port!Loop("", Products \o Entry)>>
    BY <1>4 DEF Port!FirstLoops
  <2>2. Products \o Entry \in Seq(Port!Documents) /\ Products \o Entry # <<>>
    BY <1>1, ConcatProperties, ConcatSimplifications
  <2>3. \A k \in 1..Len(Products \o Entry) - 1 : (Products \o Entry)[k] # LastEntry
    BY PortOperators DEF Port!PortalAssumption, LastEntry
  <2>4. PagesComeLast(loops)
    <3>1. PICK d : d = Products \o Entry
      OBVIOUS
    <3>2. Len(loops) = 1 /\ \A k \in DOMAIN loops : loops[k].docs = d
      BY <1>2, <2>1, <2>2, <3>1
    <3>3. \A k \in 1..Len(d) - 1 : d[k] # LastEntry
      BY <2>3, <3>1
    <3>4. QED
      BY <3>2, <3>3 DEF PagesComeLast
  <2>5. QED
    BY <1>2, <1>4, <2>1, <2>2, <2>4 DEF RightLoops
<1>5. CASE bank = "sber"
  <2>1. PICK linked \in SUBSET Port!Range(Slugs) : loops = Port!Sections(Port!Discovered(linked))
    BY <1>5 DEF Port!FirstLoops
  <2>2. PICK s : s = Port!Discovered(linked)
    OBVIOUS
  <2>3. s \in Seq(DOMAIN SpecsOf)
    <3>1. /\ Port!Among(Slugs, linked) \in Seq(DOMAIN SpecsOf)
          /\ Port!Among(Extra, Port!Range(Extra) \ linked) \in Seq(DOMAIN SpecsOf)
      BY <1>1, AmongKeeps, PortAmong
    <3>2. QED
      BY <2>2, <3>1, ConcatProperties DEF Port!Discovered
  <2>4. PICK n \in Nat : Len(s) = n /\ DOMAIN s = 1..n
    BY <2>3, LenProperties
  <2>5. loops = [k \in 1..n |-> Port!Loop(s[k], SpecsOf[s[k]])]
    BY <2>1, <2>2, <2>4 DEF Port!Sections
  <2>6. ASSUME NEW k \in 1..n
        PROVE  Port!Loop(s[k], SpecsOf[s[k]]) \in Loops
    <3>1. s[k] \in DOMAIN SpecsOf
      BY <2>3, <2>4, ElementOfSeq
    <3>2. QED
      BY <1>1, <3>1 DEF Port!Loop, Loops
  <2>7. loops \in [1..n -> Loops]
    BY <2>5, <2>6
  <2>8. loops \in Seq(Loops)
    BY <2>7, SeqDef
  <2>9. QED
    BY <1>5, <2>8 DEF RightLoops
<1>6. QED
  BY <1>3, <1>4, <1>5 DEF Port!Banks

\* Nothing was read yet.
LEMMA PortInit ==
    ASSUME Port!PortalAssumption, Port!Init
    PROVE  PortInv
<1>1. <<>> \in Seq(Loops) /\ Len(<<>>) = 0 /\ DOMAIN <<>> = {}
  OBVIOUS
<1>2. RightLoops(bank, todo)
  BY <1>1 DEF Port!Init, RightLoops, PagesComeLast
<1>3. RowsTell /\ Port!OnceInSection
  BY DEF Port!Init, RowsTell, Port!OnceInSection
<1>4. QED
  BY <1>2, <1>3 DEF Port!Init, PortInv

\* All that is to be read is in the loops.
LEMMA PortBegins ==
    ASSUME Port!PortalAssumption, PortInv, Port!Begin
    PROVE  PortInv'
<1>1. /\ parsing = "begin" /\ parsing' = "reading" /\ plan = {} /\ read = {}
      /\ todo' \in Port!FirstLoops /\ plan' = Port!ItemsOf(todo')
      /\ UNCHANGED <<bank, rows, read, dropped>> /\ dropped \subseteq plan'
      /\ bank \in Port!Banks
  BY DEF Port!Begin, PortInv
<1>2. RightLoops(bank, todo')
  BY <1>1, FirstLoopsAreRight
<1>3. \A item \in plan' : item.doc \in Port!Documents /\ (bank # "sber" => item.section = "")
  BY <1>1, <1>2, ItemsAreTyped
<1>4. PlanIsFollowed'
  BY <1>1 DEF PlanIsFollowed, Port!ItemsOf
<1>5. RowsTell' /\ Port!OnceInSection'
  BY <1>1, RowsStay DEF PortInv, RowsTell, Port!OnceInSection
<1>6. QED
  BY <1>1, <1>2, <1>3, <1>4, <1>5 DEF PortInv

\* What a document adds to the rows.
LEMMA ReadTells ==
    ASSUME Port!PortalAssumption, RowsTell, Port!OnceInSection, NEW item,
           item.doc \in Port!Documents, bank' = bank,
           rows' = rows \cup Port!Fresh(item), read' = read \cup {item}
    PROVE  RowsTell' /\ Port!OnceInSection'
<1>0. \A i : Port!RowsOf(i)' = Port!RowsOf(i)
  BY RowsStay
<1>1. /\ Port!Fresh(item) \subseteq Port!RowsOf(item)
      /\ bank # "sber" => Port!Fresh(item) = Port!RowsOf(item)
  BY DEF Port!Fresh
<1>2. \A r \in rows' : \E i \in read' : r \in Port!RowsOf(i)
  BY <1>1 DEF RowsTell
<1>3. bank # "sber" => \A i \in read' : Port!RowsOf(i) \subseteq rows'
  BY <1>1 DEF RowsTell
<1>4. ASSUME bank = "sber", NEW i \in read', NEW op \in Described[i.doc]
      PROVE  \E r \in rows' : r.key = op.key /\ r.section = i.section
  <2>1. CASE i \in read
    BY <1>4, <2>1 DEF RowsTell
  <2>2. CASE i = item
    <3>1. PICK r \in Port!RowsOf(item) : r.key = op.key /\ r.section = item.section
      BY <1>4, <2>2, OperationsHaveRows
    <3>2. r \in Port!Fresh(item) \/ \E q \in rows : q.section = r.section /\ q.key = r.key
      BY <1>4 DEF Port!Fresh
    <3>3. QED
      BY <2>2, <3>1, <3>2
  <2>3. QED
    BY <1>4, <2>1, <2>2
<1>5. RowsTell'
  BY <1>0, <1>2, <1>3, <1>4 DEF RowsTell
<1>6. ASSUME bank = "sber", NEW r \in rows', NEW q \in rows',
             r.section = q.section, r.key = q.key
      PROVE  r = q
  <2>1. CASE r \in rows /\ q \in rows
    BY <1>6, <2>1 DEF Port!OnceInSection
  <2>2. CASE r \in Port!Fresh(item) /\ q \in rows
    BY <1>6, <2>2 DEF Port!Fresh
  <2>3. CASE r \in rows /\ q \in Port!Fresh(item)
    BY <1>6, <2>3 DEF Port!Fresh
  <2>4. CASE r \in Port!RowsOf(item) /\ q \in Port!RowsOf(item)
    <3>1. PICK op \in Described[item.doc] : \E t \in Port!Tags(op) :
             /\ r.key = op.key
             /\ r = [service |-> Port!Service(item, t), key |-> op.key, doc |-> item.doc,
                     section |-> item.section, hidden |-> Port!Hidden(item, op.key)]
      BY <2>4, RowsAreOfDocument
    <3>2. PICK o \in Described[item.doc] : \E t \in Port!Tags(o) :
             /\ q.key = o.key
             /\ q = [service |-> Port!Service(item, t), key |-> o.key, doc |-> item.doc,
                     section |-> item.section, hidden |-> Port!Hidden(item, o.key)]
      BY <2>4, RowsAreOfDocument
    <3>3. \A t : Port!Service(item, t) = <<Title[item.section]>>
      BY <1>6 DEF Port!Service
    <3>4. op.key = o.key
      BY <1>6, <3>1, <3>2
    <3>5. QED
      BY <3>1, <3>2, <3>3, <3>4
  <2>5. QED
    BY <1>1, <1>6, <2>1, <2>2, <2>3, <2>4
<1>7. Port!OnceInSection'
  BY <1>6 DEF Port!OnceInSection
<1>8. QED
  BY <1>5, <1>7

\* A step that adds no row keeps what the rows tell.
LEMMA RowsTellStill ==
    ASSUME RowsTell, Port!OnceInSection, UNCHANGED <<bank, rows, read>>
    PROVE  RowsTell' /\ Port!OnceInSection'
<1>1. \A i : Port!RowsOf(i)' = Port!RowsOf(i)
  BY RowsStay
<1>2. \A r \in rows' : \E item \in read' : r \in Port!RowsOf(item)'
  BY <1>1 DEF RowsTell
<1>3. bank' # "sber" => \A item \in read' : Port!RowsOf(item)' \subseteq rows'
  BY <1>1 DEF RowsTell
<1>4. bank' = "sber" => \A item \in read' : \A op \in Described[item.doc] :
         \E r \in rows' : r.key = op.key /\ r.section = item.section
  BY DEF RowsTell
<1>5. RowsTell'
  BY <1>2, <1>3, <1>4 DEF RowsTell
<1>6. Port!OnceInSection'
  BY DEF Port!OnceInSection
<1>7. QED
  BY <1>5, <1>6

\* A document is read, and after main.js the pages it lists are planned.
LEMMA PortReads ==
    ASSUME Port!PortalAssumption, PortInv, Port!Read
    PROVE  PortInv'
<1>0. /\ parsing = "reading" /\ todo # <<>> /\ UNCHANGED <<bank, parsing, dropped>>
      /\ rows' = rows \cup Port!Fresh(Port!Item) /\ read' = read \cup {Port!Item}
  BY DEF Port!Read
<1>1. /\ RightLoops(bank, todo) /\ PlanIsFollowed /\ RowsTell /\ Port!OnceInSection
      /\ bank \in Port!Banks /\ read \subseteq plan /\ dropped \subseteq plan
      /\ \A item \in plan : item.doc \in Port!Documents
      /\ bank # "sber" => \A item \in plan : item.section = ""
  BY <1>0 DEF PortInv
<1>2. PICK item : item = Port!Item
  OBVIOUS
<1>3. PICK rest : rest = Port!Rest
  OBVIOUS
<1>4. /\ RightLoops(bank, rest)
      /\ Port!ItemsOf(todo) = {item} \cup Port!ItemsOf(rest)
      /\ item.doc \in Port!Documents
      /\ bank = "tochka" /\ item.doc = LastEntry => Port!ItemsOf(rest) = {}
  BY <1>0, <1>1, <1>2, <1>3, RestFollows
<1>5. RowsTell' /\ Port!OnceInSection'
  BY <1>0, <1>1, <1>2, <1>4, ReadTells
<1>6. item \in plan
  BY <1>1, <1>4 DEF PlanIsFollowed
<1>7. \A i : Port!IsPage(i)' = Port!IsPage(i)
  BY DEF Port!IsPage
<1>8. CASE ~Port!ListsPages
  <2>1. todo' = rest /\ plan' = plan
    BY <1>3, <1>8 DEF Port!Read
  <2>2. Port!ItemsOf(todo)' = Port!ItemsOf(rest)
    BY <2>1 DEF Port!ItemsOf
  <2>3. PlanIsFollowed'
    BY <1>0, <1>1, <1>2, <1>4, <1>7, <2>1, <2>2 DEF PlanIsFollowed
  <2>4. RightLoops(bank, todo')
    BY <1>4, <2>1
  <2>5. QED
    BY <1>0, <1>1, <1>2, <1>5, <1>6, <2>1, <2>3, <2>4 DEF PortInv
<1>9. CASE Port!ListsPages
  <2>1. bank = "tochka" /\ item.doc = LastEntry
    BY <1>2, <1>9, PortOperators DEF Port!ListsPages, LastEntry
  <2>2. PICK found :
           /\ found \subseteq Port!Range(Routes) /\ found # {}
           /\ todo' = <<Port!Loop("", Port!Among(Routes, found))>>
           /\ plan' = plan \cup Port!ItemsOf(todo')
    <3>1. \E found \in (SUBSET Port!Range(Routes)) \ {{}} :
             /\ todo' = <<Port!Loop("", Port!Among(Routes, found))>>
             /\ plan' = plan \cup Port!ItemsOf(todo')
      BY <1>9 DEF Port!Read
    <3>2. \A f \in (SUBSET Port!Range(Routes)) \ {{}} : f \subseteq Port!Range(Routes) /\ f # {}
      OBVIOUS
    <3>3. QED
      BY <3>1, <3>2
  <2>3. PICK d : d = Port!Among(Routes, found)
    OBVIOUS
  <2>4. d \in Seq(Port!Documents) /\ Range(d) = Range(Routes) \cap found
    <3>1. Routes \in Seq(Port!Documents)
      BY DEF Port!PortalAssumption
    <3>2. QED
      BY <2>3, <3>1, AmongKeeps, PortAmong
  <2>5. d # <<>>
    <3>1. PICK x : x \in found
      BY <2>2
    <3>2. x \in Range(Routes)
      BY <2>2, <3>1, PortOperators
    <3>3. Range(d) # {}
      BY <2>4, <3>1, <3>2
    <3>4. QED
      BY <3>3 DEF Range
  <2>6. PICK l : l = Port!Loop("", d)
    OBVIOUS
  <2>7. l \in Loops /\ l.section = "" /\ l.docs = d
    BY <2>4, <2>5, <2>6 DEF Port!Loop, Loops
  <2>8. todo' = <<l>>
    BY <2>2, <2>3, <2>6
  <2>9. todo' \in Seq(Loops) /\ Len(todo') = 1 /\ \A k \in DOMAIN todo' : todo'[k] = l
    <3>1. l \in Loops
      BY <2>7
    <3>2. <<l>> \in Seq(Loops)
      BY <3>1
    <3>3. QED
      BY <2>8, <3>2
  <2>10. PagesComeLast(todo')
    <3>1. LastEntry \notin Range(d)
      BY <2>4, PortOperators DEF Port!PortalAssumption, LastEntry
    <3>2. \A j \in 1..Len(d) - 1 : d[j] # LastEntry
      <4>1. PICK n \in Nat : Len(d) = n /\ DOMAIN d = 1..n
        BY <2>4, LenProperties
      <4>2. \A j \in 1..n - 1 : j \in 1..n
        OBVIOUS
      <4>3. QED
        BY <3>1, <4>1, <4>2 DEF Range
    <3>3. \A k \in DOMAIN todo' : todo'[k].docs = d
      BY <2>7, <2>9
    <3>4. Len(todo') <= 1
      BY <2>9
    <3>5. QED
      BY <3>2, <3>3, <3>4 DEF PagesComeLast
  <2>11. RightLoops(bank, todo')
    BY <2>1, <2>7, <2>9, <2>10 DEF RightLoops
  <2>12. \A i \in Port!ItemsOf(todo') : i.doc \in Port!Documents /\ i.section = ""
    <3>1. ASSUME NEW i \in Port!ItemsOf(todo')
          PROVE  i.doc \in Port!Documents /\ (bank # "sber" => i.section = "")
      BY <2>11, ItemsAreTyped
    <3>2. QED
      BY <2>1, <3>1
  <2>13. Port!ItemsOf(todo) = {item}
    BY <1>4, <2>1
  <2>14. Port!ItemsOf(todo)' = Port!ItemsOf(todo')
    BY DEF Port!ItemsOf
  <2>15. PlanIsFollowed'
    BY <1>0, <1>1, <1>2, <1>7, <2>2, <2>13, <2>14 DEF PlanIsFollowed
  <2>16. QED
    BY <1>0, <1>1, <1>2, <1>5, <1>6, <2>2, <2>11, <2>12, <2>15 DEF PortInv
<1>10. QED
  BY <1>8, <1>9

\* Every step of a parser keeps it.
LEMMA PortStep ==
    ASSUME Port!PortalAssumption, PortInv, [Port!Next]_Port!vars
    PROVE  PortInv'
<1>1. CASE Port!Begin
  BY <1>1, PortBegins
<1>2. CASE Port!Read
  BY <1>2, PortReads
<1>3. CASE Port!Skip \/ Port!Drop
  <2>0. /\ parsing = "reading" /\ todo # <<>> /\ UNCHANGED <<bank, rows, parsing, plan, read>>
        /\ bank = "tochka" /\ Port!IsPage(Port!Item.doc)
        /\ dropped' \subseteq dropped \cup {Port!Item}
    BY <1>3 DEF Port!Skip, Port!Drop, Port!GoOnWithout
  <2>1. PICK rest : rest = Port!Rest
    OBVIOUS
  <2>2. todo' = rest
    BY <1>3, <2>1 DEF Port!Skip, Port!Drop, Port!GoOnWithout
  <2>3. /\ RightLoops(bank, rest)
        /\ Port!ItemsOf(todo) = {Port!Item} \cup Port!ItemsOf(rest)
    BY <2>0, <2>1, RestFollows DEF PortInv
  <2>4. Port!ItemsOf(todo)' = Port!ItemsOf(rest)
    BY <2>2 DEF Port!ItemsOf
  <2>5. \A i : Port!IsPage(i)' = Port!IsPage(i)
    BY DEF Port!IsPage
  <2>6. PlanIsFollowed'
    BY <2>0, <2>3, <2>4, <2>5 DEF PlanIsFollowed, PortInv
  <2>7. RowsTell' /\ Port!OnceInSection'
    BY <2>0, RowsTellStill DEF PortInv
  <2>8. dropped' \subseteq plan
    BY <2>0, <2>3 DEF PortInv, PlanIsFollowed
  <2>9. QED
    BY <2>0, <2>2, <2>3, <2>6, <2>7, <2>8 DEF PortInv
<1>4. CASE Port!Fail \/ Port!Finish \/ UNCHANGED Port!vars
  <2>1. /\ UNCHANGED <<bank, todo, rows, plan, read, dropped>>
        /\ \/ parsing' = "error"
           \/ parsing = "reading" /\ todo = <<>> /\ parsing' = "done" /\ Port!Enough
           \/ parsing' = parsing
    BY <1>4 DEF Port!Fail, Port!Finish, Port!vars
  <2>2. Port!ItemsOf(todo)' = Port!ItemsOf(todo) /\ \A i : Port!IsPage(i)' = Port!IsPage(i)
    BY <2>1 DEF Port!ItemsOf, Port!IsPage
  <2>3. RowsTell' /\ Port!OnceInSection'
    BY <2>1, RowsTellStill DEF PortInv
  <2>4. PlanIsFollowed => PlanIsFollowed'
    BY <2>1, <2>2 DEF PlanIsFollowed
  <2>5. Port!Enough => Port!Enough'
    BY <2>1 DEF Port!Enough, Port!IsPage
  <2>6. QED
    BY <2>1, <2>3, <2>4, <2>5 DEF PortInv
<1>5. QED
  BY <1>1, <1>2, <1>3, <1>4 DEF Port!Next

\* A parser keeps its invariant, whichever documents can be had.
LEMMA PortHolds == Port!Spec => []PortInv
<1>1. Port!PortalAssumption
  BY PortalAssumptions
<1>2. Port!Init => PortInv
  BY <1>1, PortInit
<1>3. PortInv /\ [Port!Next]_Port!vars => PortInv'
  BY <1>1, PortStep
<1>4. QED
  BY <1>2, <1>3, PTL DEF Port!Spec

\* The services of a method of T-Bank or Tochka are its tags, one each.
LEMMA ServicesDiffer ==
    ASSUME bank \in {"tbank", "tochka"}, NEW item, NEW t, NEW u,
           Port!Service(item, t) = Port!Service(item, u)
    PROVE  t = u
<1>1. CASE bank = "tochka"
  <2>1. /\ Port!Service(item, t)[2] = t /\ Port!Service(item, u)[2] = u
    BY <1>1 DEF Port!Service, Port!Prefixed
  <2>2. QED
    BY <2>1
<1>2. CASE bank = "tbank"
  <2>1. PICK s : s = Port!Service(item, t) /\ s = Port!Service(item, u)
    OBVIOUS
  <2>2. \A v : s = Port!Service(item, v) => Len(s) \in 1..2 /\ s[Len(s)] = v
    <3>1. SUFFICES ASSUME NEW v, s = Port!Service(item, v)
                   PROVE  Len(s) \in 1..2 /\ s[Len(s)] = v
      OBVIOUS
    <3>2. CASE v \in DOMAIN Parent[item.doc]
      <4>1. s = <<Parent[item.doc][v], v>>
        BY <1>2, <3>1, <3>2 DEF Port!Service
      <4>2. QED
        BY <4>1
    <3>3. CASE v \notin DOMAIN Parent[item.doc]
      <4>1. s = <<v>>
        BY <1>2, <3>1, <3>3 DEF Port!Service
      <4>2. QED
        BY <4>1
    <3>4. QED
      BY <3>2, <3>3
  <2>3. QED
    BY <2>1, <2>2
<1>3. QED
  BY <1>1, <1>2

\* A method that was read has a row in each of its services.
LEMMA RowOfEachTag ==
    ASSUME Port!PortalAssumption, PortInv, bank # "sber", NEW item \in read,
           NEW op \in Described[item.doc]
    PROVE  Cardinality({r \in rows : r.key = op.key /\ r.doc = item.doc})
              = Cardinality(Port!Tags(op))
<1>1. PICK R : R = {r \in rows : r.key = op.key /\ r.doc = item.doc}
  OBVIOUS
<1>2. /\ bank \in {"tbank", "tochka"} /\ item \in plan /\ item.section = ""
      /\ item.doc \in Port!Documents
  BY DEF PortInv, Port!Banks
<1>3. PICK row : row = [t \in Port!Tags(op) |->
                          [service |-> Port!Service(item, t), key |-> op.key, doc |-> item.doc,
                           section |-> item.section, hidden |-> Port!Hidden(item, op.key)]]
  OBVIOUS
<1>4. \A t \in Port!Tags(op) : row[t] \in R
  <2>1. ASSUME NEW t \in Port!Tags(op)
        PROVE  row[t] \in Port!RowsOf(item) /\ row[t].key = op.key /\ row[t].doc = item.doc
    BY <1>3 DEF Port!RowsOf
  <2>2. Port!RowsOf(item) \subseteq rows
    BY DEF PortInv, RowsTell
  <2>3. QED
    BY <1>1, <2>1, <2>2
<1>5. \A t, u \in Port!Tags(op) : row[t] = row[u] => t = u
  <2> SUFFICES ASSUME NEW t \in Port!Tags(op), NEW u \in Port!Tags(op), row[t] = row[u]
               PROVE  t = u
    OBVIOUS
  <2>1. row[t].service = Port!Service(item, t) /\ row[u].service = Port!Service(item, u)
    BY <1>3
  <2>2. QED
    BY <1>2, <2>1, ServicesDiffer
<1>6. ASSUME NEW r \in R
      PROVE  \E t \in Port!Tags(op) : row[t] = r
  <2>1. PICK i \in read : r \in Port!RowsOf(i)
    BY <1>1 DEF PortInv, RowsTell
  <2>2. PICK o \in Described[i.doc] : \E t \in Port!Tags(o) :
           /\ r.key = o.key /\ r.doc = i.doc
           /\ r = [service |-> Port!Service(i, t), key |-> o.key, doc |-> i.doc,
                   section |-> i.section, hidden |-> Port!Hidden(i, o.key)]
    BY <2>1, RowsAreOfDocument
  <2>3. r.key = op.key /\ r.doc = item.doc
    BY <1>1
  <2>4. i.doc = item.doc /\ i.section = item.section
    BY <1>2, <2>2, <2>3 DEF PortInv
  <2>5. o = op
    BY <1>2, <2>2, <2>3, <2>4 DEF Port!PortalAssumption
  <2>6. \A t : Port!Service(i, t) = Port!Service(item, t)
    BY <2>4 DEF Port!Service, Port!Prefixed
  <2>7. Port!Hidden(i, op.key) = Port!Hidden(item, op.key)
    BY <2>4 DEF Port!Hidden
  <2>8. QED
    BY <1>3, <2>2, <2>4, <2>5, <2>6, <2>7
<1>7. IsFiniteSet(Port!Tags(op))
  <2>1. Port!IsFiniteSet(op.tags)
    BY <1>2 DEF Port!PortalAssumption
  <2>2. IsFiniteSet(op.tags) /\ IsFiniteSet({NoTag})
    BY <2>1, PortOperators, FS_Singleton
  <2>3. QED
    BY <2>2 DEF Port!Tags
<1>8. row \in Bijection(Port!Tags(op), R)
  <2>1. row \in [Port!Tags(op) -> R]
    BY <1>3, <1>4
  <2>2. QED
    BY <1>5, <1>6, <2>1 DEF Bijection, Injection, Surjection, IsInjective
<1>9. ExistsBijection(Port!Tags(op), R)
  BY <1>8 DEF ExistsBijection
<1>10. QED
  BY <1>1, <1>7, <1>9, FS_Bijection

\* The properties of the parsers, from what they keep.
LEMMA PortGoal ==
    ASSUME Port!PortalAssumption, PortInv
    PROVE  /\ Port!TypeOK /\ Port!WholeOrNothing /\ Port!ShownHasPage
           /\ Port!OnceInSection /\ Port!ProductsApart
<1>1. ASSUME NEW r \in rows
      PROVE  \E item \in read : \E op \in Described[item.doc] : \E t \in Port!Tags(op) :
                /\ item.doc \in Port!Documents
                /\ r.service = Port!Service(item, t) /\ r.key = op.key /\ r.doc = item.doc
                /\ r.section = item.section /\ r.hidden = Port!Hidden(item, op.key)
  <2>1. PICK item \in read : r \in Port!RowsOf(item)
    BY DEF PortInv, RowsTell
  <2>2. item.doc \in Port!Documents
    BY DEF PortInv
  <2>3. QED
    BY <2>1, <2>2, RowsAreOfDocument
<1>2. Port!TypeOK
  <2>1. \A k \in DOMAIN todo : todo[k].docs \in Seq(Port!Documents) \ {<<>>}
    <3>1. todo \in Seq(Loops)
      BY DEF PortInv, RightLoops
    <3>2. \A k \in DOMAIN todo : todo[k] \in Loops
      BY <3>1, ElementOfSeq, LenProperties
    <3>3. QED
      BY <3>2 DEF Loops
  <2>2. \A r \in rows : r.doc \in Port!Documents /\ r.hidden \in BOOLEAN
    BY <1>1 DEF Port!Hidden
  <2>3. QED
    BY <2>1, <2>2 DEF PortInv, Port!TypeOK
<1>3. Port!ShownHasPage
  <2>1. ASSUME NEW r \in rows, ~r.hidden
        PROVE  /\ bank = "tbank" => r.doc \notin Private
               /\ bank = "sber" => <<r.doc, r.key>> \notin NotInMenu
    BY <1>1, <2>1 DEF Port!Hidden
  <2>2. QED
    BY <2>1 DEF Port!ShownHasPage
<1>4. Port!ProductsApart
  <2>1. SUFFICES ASSUME bank = "tochka", NEW r \in rows, NEW q \in rows,
                        r.service = q.service
                 PROVE  r.doc = q.doc \/ (Port!IsPage(r.doc) /\ Port!IsPage(q.doc))
    BY DEF Port!ProductsApart
  <2>2. \A x \in rows : x.doc \in Port!Documents /\ \E t : x.service = Port!Prefixed(x.doc, t)
    BY <1>1, <2>1 DEF Port!Service
  <2>3. PICK t, u : Port!Prefixed(r.doc, t) = Port!Prefixed(q.doc, u)
    BY <2>1, <2>2
  <2>4. (IF Port!IsPage(r.doc) THEN "account" ELSE r.doc)
           = (IF Port!IsPage(q.doc) THEN "account" ELSE q.doc)
    BY <2>3 DEF Port!Prefixed
  <2>5. "account" \notin Port!Documents
    BY DEF Port!PortalAssumption
  <2>6. QED
    BY <2>2, <2>4, <2>5
<1>5. Port!WholeOrNothing
  <2>1. SUFFICES ASSUME parsing = "done"
                 PROVE  /\ \A item \in plan \ read : bank = "tochka" /\ Port!IsPage(item.doc)
                        /\ \A item \in read : \A op \in Described[item.doc] :
                              IF bank = "sber"
                              THEN \E r \in rows : r.key = op.key
                                                   /\ r.service = <<Title[item.section]>>
                              ELSE Port!Cardinality({r \in rows : r.key = op.key /\ r.doc = item.doc})
                                      = Port!Cardinality(Port!Tags(op))
                        /\ bank = "tochka" => \E r \in rows : Port!IsPage(r.doc)
    BY DEF Port!WholeOrNothing
  <2>2. \A item \in plan \ read : bank = "tochka" /\ Port!IsPage(item.doc)
    BY <2>1, ItemsOfNone DEF PortInv, PlanIsFollowed
  <2>3. ASSUME bank = "sber", NEW item \in read, NEW op \in Described[item.doc]
        PROVE  \E r \in rows : r.key = op.key /\ r.service = <<Title[item.section]>>
    <3>1. PICK r \in rows : r.key = op.key /\ r.section = item.section
      BY <2>3 DEF PortInv, RowsTell
    <3>2. r.service = <<Title[r.section]>>
      BY <1>1, <2>3 DEF Port!Service
    <3>3. QED
      BY <3>1, <3>2
  <2>4. ASSUME bank # "sber", NEW item \in read, NEW op \in Described[item.doc]
        PROVE  Port!Cardinality({r \in rows : r.key = op.key /\ r.doc = item.doc})
                  = Port!Cardinality(Port!Tags(op))
    BY <2>4, RowOfEachTag, PortOperators
  <2>5. bank = "tochka" => \E r \in rows : Port!IsPage(r.doc)
    BY <2>1 DEF PortInv, Port!Enough
  <2>6. QED
    BY <2>2, <2>3, <2>4, <2>5
<1>6. QED
  BY <1>2, <1>3, <1>4, <1>5 DEF PortInv

-----------------------------------------------------------------------------
(* The theorems *)

\* Every component's state has its type: the indices of the scan stay within
\* its lists, redirects and chunks within their limits, what was read within
\* what was to be read.
THEOREM ReadingTypesTheorem ==
    Alfa!Spec /\ Walk!Spec /\ Get!Spec /\ Port!Spec => []ReadingTypes
<1>1. ScanInv /\ WalkInv /\ DownloadInv /\ PortInv => ReadingTypes
  BY PortalAssumptions, ScanGoal, WalkGoal, PortGoal DEF DownloadInv, ReadingTypes
<1>2. QED
  BY <1>1, ScanHolds, WalkHolds, DownloadHolds, PortHolds, PTL

\* "A snapshot as a whole or not at all" (README.md:17): whatever the order of
\* the threads and of the retry, Alfa's snapshot is made of the last answer for
\* each leaf; the other parsers end well only with every document of the plan
\* read, but for pages of Tochka's nominal account, and every operation a row.
THEOREM WholeOrNothingTheorem == Alfa!Spec /\ Port!Spec => []WholeOrNothing
<1>1. ScanInv /\ PortInv => WholeOrNothing
  BY PortalAssumptions, ScanGoal, PortGoal DEF WholeOrNothing
<1>2. QED
  BY <1>1, ScanHolds, PortHolds, PTL

\* A method of Alfa's has one row however its path is written, a section of
\* Sber's counts one once, a service of Tochka's is of one product
\* (tochka_parser.py:99).
THEOREM MethodsCountOnceTheorem == Alfa!Spec /\ Port!Spec => []MethodsCountOnce
<1>1. ScanInv /\ PortInv => MethodsCountOnce
  BY PortalAssumptions, ScanGoal, PortGoal DEF MethodsCountOnce
<1>2. QED
  BY <1>1, ScanHolds, PortHolds, PTL

\* What the dashboard may show is public: an article outside every private
\* folder describes it, a document of an open space, one that has a page for it
\* (tbank_parser.py:104).
THEOREM ShownIsPublicTheorem == Alfa!Spec /\ Port!Spec => []ShownIsPublic
<1>1. ScanInv /\ PortInv => ShownIsPublic
  BY PortalAssumptions, ScanGoal, PortGoal DEF ShownIsPublic
<1>2. QED
  BY <1>1, ScanHolds, PortHolds, PTL

\* A $ref means a pointer into the file it is written in, however many files the
\* branch went through before (_resolve_ref).
THEOREM RightDocumentTheorem == Walk!Spec => []RightDocument
<1>1. WalkInv => RightDocument
  BY WalkGoal DEF RightDocument
<1>2. QED
  BY <1>1, WalkHolds, PTL

\* A $ref that is cut as a cycle either leads to a schema the branch is in, or
\* the branch is in another file: within one file only real cycles are cut.
THEOREM CutsAreCyclesTheorem == Walk!Spec => []CutsAreCycles
<1>1. WalkInv => CutsAreCycles
  BY WalkGoal DEF CutsAreCycles
<1>2. QED
  BY <1>1, WalkHolds, PTL

\* Only the host of the specification is asked, along redirects and $refs,
\* wherever the portal sends the reader.
THEOREM StaysOnHostTheorem == Walk!Spec /\ Get!Spec => []StaysOnHost
<1>1. WalkInv /\ DownloadInv => StaysOnHost
  BY WalkGoal DEF DownloadInv, StaysOnHost
<1>2. QED
  BY <1>1, WalkHolds, DownloadHolds, PTL

\* A parse costs a bounded number of requests: of hops and bytes in a download,
\* one download of each sibling file, no $ref twice on a branch.
THEOREM BoundedReadingTheorem == Walk!Spec /\ Get!Spec => []BoundedReading
<1>1. WalkInv /\ DownloadInv => BoundedReading
  BY WalkGoal DEF DownloadInv, BoundedReading
<1>2. QED
  BY <1>1, WalkHolds, DownloadHolds, PTL

=============================================================================
