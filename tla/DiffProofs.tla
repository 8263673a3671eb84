----------------------------- MODULE DiffProofs -----------------------------
(***************************************************************************)
(* Facts about the comparison of snapshots that hold for every list of     *)
(* methods: its type, and how the changes it reports relate the public     *)
(* surfaces of the two snapshots.                                          *)
(***************************************************************************)
EXTENDS Diff, WellFoundedInduction, TLAPS

\* A non-empty set of naturals has a least element.
LEMMA LeastOfNat ==
    ASSUME NEW T \in SUBSET Nat, T # {}
    PROVE  \E x \in T : \A y \in T : x <= y
<1>1. PICK x \in T : \A y \in T : <<y, x>> \notin OpToRel(<, Nat)
  BY WFMin, NatLessThanWellFounded, Zenon
<1>2. \A y \in T : ~(y < x)
  BY <1>1, Zenon DEF OpToRel
<1> HIDE <1>1
<1>3. \A y \in T : x <= y
  BY <1>2, SMT
<1>4. QED
  BY <1>3, Zenon


-----------------------------------------------------------------------------
(* Indexes *)

\* Indexing a parsed list gives one of the indexes its stored rows can give.
LEMMA FirstIndexIsStored ==
    ASSUME NEW ms \in Seq(Method)
    PROVE  FirstIndex(ms) \in StoredIndexes(ms)
<1> DEFINE occ(k) == {i \in DOMAIN ms : ms[i].key = k}
           first(k) == CHOOSE i \in DOMAIN ms :
                          /\ ms[i].key = k
                          /\ \A j \in DOMAIN ms : ms[j].key = k => i <= j
<1>1. ASSUME NEW k \in KeysOf(ms)
      PROVE  first(k) \in DOMAIN ms /\ ms[first(k)].key = k
  <2>1. occ(k) \in SUBSET Nat /\ occ(k) # {}
    BY <1>1 DEF KeysOf
  <2>2. PICK i \in occ(k) : \A j \in occ(k) : i <= j
    BY <2>1, LeastOfNat
  <2>3. \E i1 \in DOMAIN ms : ms[i1].key = k /\ \A j \in DOMAIN ms : ms[j].key = k => i1 <= j
    BY <2>2
  <2>4. QED
    BY <2>3
<1>2. FirstIndex(ms) = [k \in KeysOf(ms) |-> ms[first(k)]]
  BY DEF FirstIndex
<1> HIDE DEF first
<1>3. FirstIndex(ms) \in [KeysOf(ms) -> Records(ms)]
  BY <1>1, <1>2 DEF Records
<1>4. \A k \in KeysOf(ms) : FirstIndex(ms)[k].key = k
  BY <1>1, <1>2
<1>5. QED
  BY <1>3, <1>4 DEF StoredIndexes

\* An index maps every key of the list to a method of the list with that key.
LEMMA IndexType ==
    ASSUME NEW ms \in Seq(Method), NEW idx \in StoredIndexes(ms)
    PROVE  /\ DOMAIN idx = KeysOf(ms)
           /\ KeysOf(ms) \subseteq Keys
           /\ \A k \in KeysOf(ms) : /\ idx[k] \in Method
                                    /\ idx[k] \in Records(ms)
                                    /\ idx[k].key = k
<1>0. \A i \in DOMAIN ms : ms[i] \in Method
  OBVIOUS
<1>1. Records(ms) \subseteq Method
  BY <1>0 DEF Records
<1>2. KeysOf(ms) \subseteq Keys
  BY <1>0 DEF KeysOf, Method
<1>3. idx \in [KeysOf(ms) -> Records(ms)] /\ \A k \in KeysOf(ms) : idx[k].key = k
  BY DEF StoredIndexes
<1>4. QED
  BY <1>1, <1>2, <1>3

\* Every entry the comparison produces is a change.
LEMMA ComputeChangesType ==
    ASSUME NEW prev \in Snapshot, NEW new \in Snapshot,
           NEW idx \in StoredIndexes(prev.methods)
    PROVE  ComputeChanges(prev, idx, new) \in SUBSET Change
<1> DEFINE newIdx == FirstIndex(new.methods)
<1>0. prev.methods \in Seq(Method) /\ new.methods \in Seq(Method)
      /\ prev.services \in SUBSET Services /\ new.services \in SUBSET Services
  BY DEF Snapshot
<1>1. newIdx \in StoredIndexes(new.methods)
  BY <1>0, FirstIndexIsStored
<1>2. /\ DOMAIN idx \subseteq Keys
      /\ \A k \in DOMAIN idx : idx[k] \in Method
  BY <1>0, IndexType
<1>3. /\ DOMAIN newIdx \subseteq Keys
      /\ \A k \in DOMAIN newIdx : newIdx[k] \in Method
  BY <1>0, <1>1, IndexType
<1> HIDE DEF newIdx
<1>a. \A act \in {"added", "removed"}, h \in BOOLEAN :
         /\ \A k \in Keys : MethodChange(act, k, h) \in Change
         /\ \A svc \in Services : ServiceChange(act, svc, h) \in Change
  BY DEF MethodChange, ServiceChange, Change
<1>b. \A svc, ms : (svc \in HiddenServices(ms)) \in BOOLEAN
  OBVIOUS
<1>4. ServiceChanges(prev, new) \in SUBSET Change
  BY <1>0, <1>a, <1>b DEF ServiceChanges
<1>c. \A k \in DOMAIN idx : idx[k].hidden \in BOOLEAN /\ idx[k].fields \in SUBSET Fields
  BY <1>2 DEF Method
<1>d. \A k \in DOMAIN newIdx : newIdx[k].hidden \in BOOLEAN /\ newIdx[k].fields \in SUBSET Fields
  BY <1>3 DEF Method
<1>5. MethodChanges(idx, newIdx) \in SUBSET Change
  BY <1>2, <1>3, <1>a, <1>c, <1>d DEF MethodChanges
<1>6. FlipChanges(idx, newIdx) \in SUBSET Change
  <2> SUFFICES ASSUME NEW k \in {x \in DOMAIN idx \cap DOMAIN newIdx :
                                    idx[x].hidden # newIdx[x].hidden}
               PROVE  MethodChange(IF newIdx[k].hidden THEN "removed" ELSE "added", k, FALSE)
                        \in Change
    BY Zenon DEF FlipChanges
  <2>1. k \in Keys
    BY <1>2
  <2>2. QED
    BY <2>1, <1>a
<1>7. FieldChanges(idx, newIdx) \in SUBSET Change
  <2>1. ASSUME NEW k \in DOMAIN idx \cap DOMAIN newIdx
        PROVE  FieldChange(k, idx[k], newIdx[k]) \in Change
    BY <1>2, <1>c, <1>d DEF FieldChange, Change
  <2>2. QED
    BY <2>1, Zenon DEF FieldChanges
<1>8. QED
  BY <1>4, <1>5, <1>6, <1>7 DEF ComputeChanges, newIdx

-----------------------------------------------------------------------------
(* What the changes say about the public surfaces *)

\* Whichever row the index picked, its visibility is that of its key.
LEMMA SurfaceByIndex ==
    ASSUME NEW ms \in Seq(Method), NEW idx \in StoredIndexes(ms), NEW k, AgreeOnHidden(ms, k)
    PROVE  k \in Surface(ms) <=> k \in DOMAIN idx /\ ~idx[k].hidden
<1>1. DOMAIN idx = KeysOf(ms)
  BY IndexType
<1>2. ASSUME k \in Surface(ms)
      PROVE  k \in DOMAIN idx /\ ~idx[k].hidden
  <2>1. PICK i \in DOMAIN ms : ms[i].key = k /\ ~ms[i].hidden
    BY <1>2 DEF Surface, Records
  <2>2. k \in KeysOf(ms)
    BY <2>1 DEF KeysOf
  <2>3. PICK j \in DOMAIN ms : idx[k] = ms[j] /\ ms[j].key = k
    BY <2>2, IndexType DEF Records
  <2>4. ms[i].hidden = ms[j].hidden
    BY <2>1, <2>3 DEF AgreeOnHidden, Records
  <2>5. QED
    BY <1>1, <2>1, <2>2, <2>3, <2>4
<1>3. ASSUME k \in DOMAIN idx, ~idx[k].hidden
      PROVE  k \in Surface(ms)
  <2>1. idx[k] \in Records(ms) /\ idx[k].key = k
    BY <1>1, <1>3, IndexType
  <2>2. QED
    BY <1>3, <2>1 DEF Surface
<1>4. QED
  BY <1>2, <1>3

\* A public "added" or "removed" of a method comes from nowhere but the
\* comparison of its two indexed entries.
LEMMA AnnouncedByIndex ==
    ASSUME NEW prev \in Snapshot, NEW new \in Snapshot,
           NEW idx \in StoredIndexes(prev.methods),
           NEW newIdx, newIdx = FirstIndex(new.methods),
           NEW k, NEW act \in {"added", "removed"}
    PROVE  Announces(ComputeChanges(prev, idx, new), act, k) <=>
             \/ act = "added" /\ k \in DOMAIN newIdx \ DOMAIN idx /\ ~newIdx[k].hidden
             \/ act = "removed" /\ k \in DOMAIN idx \ DOMAIN newIdx /\ ~idx[k].hidden
             \/ /\ k \in DOMAIN idx \cap DOMAIN newIdx
                /\ idx[k].hidden # newIdx[k].hidden
                /\ act = IF newIdx[k].hidden THEN "removed" ELSE "added"
<1> DEFINE delta == ComputeChanges(prev, idx, new)
           plain == MethodChanges(idx, newIdx)
           flips == FlipChanges(idx, newIdx)
<1>1. delta = ServiceChanges(prev, new) \cup plain \cup flips \cup FieldChanges(idx, newIdx)
  BY DEF ComputeChanges
<1>2. \A c \in ServiceChanges(prev, new) : c.type = "service"
  BY DEF ServiceChanges, ServiceChange
<1>3. \A c \in FieldChanges(idx, newIdx) : c.type = "field"
  BY DEF FieldChanges, FieldChange
<1> DEFINE Says(c) == c.type = "method" /\ c.action = act /\ c.name = k /\ ~c.hidden
<1>4. Announces(delta, act, k) <=> (\E c \in plain : Says(c)) \/ (\E c \in flips : Says(c))
  BY <1>1, <1>2, <1>3 DEF Announces
<1>5. (\E c \in plain : Says(c)) <=>
        \/ act = "added" /\ k \in DOMAIN newIdx \ DOMAIN idx /\ ~newIdx[k].hidden
        \/ act = "removed" /\ k \in DOMAIN idx \ DOMAIN newIdx /\ ~idx[k].hidden
  <2>1. ASSUME NEW c \in plain, Says(c)
        PROVE  \/ act = "added" /\ k \in DOMAIN newIdx \ DOMAIN idx /\ ~newIdx[k].hidden
               \/ act = "removed" /\ k \in DOMAIN idx \ DOMAIN newIdx /\ ~idx[k].hidden
    BY <2>1 DEF MethodChanges, MethodChange
  <2>2. ASSUME act = "added", k \in DOMAIN newIdx \ DOMAIN idx, ~newIdx[k].hidden
        PROVE  \E c \in plain : Says(c)
    <3>1. MethodChange("added", k, newIdx[k].hidden) \in plain
      BY <2>2 DEF MethodChanges
    <3>2. Says(MethodChange("added", k, newIdx[k].hidden))
      BY <2>2 DEF MethodChange
    <3>3. QED
      BY <3>1, <3>2
  <2>3. ASSUME act = "removed", k \in DOMAIN idx \ DOMAIN newIdx, ~idx[k].hidden
        PROVE  \E c \in plain : Says(c)
    <3>1. MethodChange("removed", k, idx[k].hidden) \in plain
      BY <2>3 DEF MethodChanges
    <3>2. Says(MethodChange("removed", k, idx[k].hidden))
      BY <2>3 DEF MethodChange
    <3>3. QED
      BY <3>1, <3>2
  <2>4. QED
    BY <2>1, <2>2, <2>3
<1>6. (\E c \in flips : Says(c)) <=>
        /\ k \in DOMAIN idx \cap DOMAIN newIdx
        /\ idx[k].hidden # newIdx[k].hidden
        /\ act = IF newIdx[k].hidden THEN "removed" ELSE "added"
  <2> DEFINE Verdict(x) == IF newIdx[x].hidden THEN "removed" ELSE "added"
             Flipped == {x \in DOMAIN idx \cap DOMAIN newIdx : idx[x].hidden # newIdx[x].hidden}
  <2>1. flips = {MethodChange(Verdict(x), x, FALSE) : x \in Flipped}
    BY Zenon DEF FlipChanges
  <2>2. \A x : Says(MethodChange(Verdict(x), x, FALSE)) <=> act = Verdict(x) /\ x = k
    BY DEF MethodChange
  <2> HIDE DEF Verdict, Says
  <2>3. (\E c \in flips : Says(c)) <=> k \in Flipped /\ act = Verdict(k)
    BY <2>1, <2>2
  <2>4. QED
    BY <2>3 DEF Verdict
<1>7. QED
  BY <1>4, <1>5, <1>6

\* Of a method that is ambiguous in neither snapshot the public feed announces
\* exactly that it entered or left the public surface.
LEMMA DeltaTracksSurface ==
    ASSUME NEW prev \in Snapshot, NEW new \in Snapshot,
           NEW idx \in StoredIndexes(prev.methods), NEW k,
           AgreeOnHidden(prev.methods, k), AgreeOnHidden(new.methods, k)
    PROVE  LET delta == ComputeChanges(prev, idx, new)
               before == k \in Surface(prev.methods)
               after == k \in Surface(new.methods)
           IN  /\ Announces(delta, "added", k) <=> ~before /\ after
               /\ Announces(delta, "removed", k) <=> before /\ ~after
<1> DEFINE newIdx == FirstIndex(new.methods)
<1>0. prev.methods \in Seq(Method) /\ new.methods \in Seq(Method)
  BY DEF Snapshot
<1>1. newIdx \in StoredIndexes(new.methods)
  BY <1>0, FirstIndexIsStored
<1>2. k \in Surface(prev.methods) <=> k \in DOMAIN idx /\ ~idx[k].hidden
  BY <1>0, SurfaceByIndex
<1>3. k \in Surface(new.methods) <=> k \in DOMAIN newIdx /\ ~newIdx[k].hidden
  BY <1>0, <1>1, SurfaceByIndex
<1>a. ASSUME NEW ms \in Seq(Method), NEW x \in StoredIndexes(ms), k \in DOMAIN x
      PROVE  x[k].hidden \in BOOLEAN
  <2>1. x[k] \in Method
    BY <1>a, IndexType
  <2>2. QED
    BY <2>1 DEF Method
<1>4. /\ k \in DOMAIN idx => idx[k].hidden \in BOOLEAN
      /\ k \in DOMAIN newIdx => newIdx[k].hidden \in BOOLEAN
  BY <1>0, <1>1, <1>a
<1> DEFINE delta == ComputeChanges(prev, idx, new)
<1>5. ASSUME NEW act \in {"added", "removed"}
      PROVE  Announces(delta, act, k) <=>
               \/ act = "added" /\ k \in DOMAIN newIdx \ DOMAIN idx /\ ~newIdx[k].hidden
               \/ act = "removed" /\ k \in DOMAIN idx \ DOMAIN newIdx /\ ~idx[k].hidden
               \/ /\ k \in DOMAIN idx \cap DOMAIN newIdx
                  /\ idx[k].hidden # newIdx[k].hidden
                  /\ act = IF newIdx[k].hidden THEN "removed" ELSE "added"
  BY AnnouncedByIndex
<1> HIDE DEF newIdx, delta
<1>6. /\ Announces(delta, "added", k) <=> k \notin Surface(prev.methods) /\ k \in Surface(new.methods)
      /\ Announces(delta, "removed", k) <=> k \in Surface(prev.methods) /\ k \notin Surface(new.methods)
  BY <1>2, <1>3, <1>4, <1>5
<1>7. QED
  BY <1>6 DEF delta

\* A snapshot compared with itself reports at most methods whose entries are
\* not alike.
LEMMA SameSnapshotIsSilent ==
    ASSUME NEW s \in Snapshot, NEW idx \in StoredIndexes(s.methods),
           NEW c \in ComputeChanges(s, idx, s)
    PROVE  c.type # "service" /\ ~AreAlike(s.methods, c.name)
<1> DEFINE newIdx == FirstIndex(s.methods)
<1>0. s.methods \in Seq(Method)
  BY DEF Snapshot
<1>1. newIdx \in StoredIndexes(s.methods)
  BY <1>0, FirstIndexIsStored
<1>2. DOMAIN idx = KeysOf(s.methods) /\ DOMAIN newIdx = KeysOf(s.methods)
  BY <1>0, <1>1, IndexType
<1>3. \A k \in KeysOf(s.methods) : /\ idx[k] \in Records(s.methods)
                                   /\ newIdx[k] \in Records(s.methods)
                                   /\ idx[k].key = k /\ newIdx[k].key = k
  BY <1>0, <1>1, IndexType
<1> HIDE DEF newIdx
<1>4. ASSUME NEW k \in KeysOf(s.methods), AreAlike(s.methods, k)
      PROVE  idx[k].hidden = newIdx[k].hidden /\ idx[k].fields = newIdx[k].fields
  BY <1>3, <1>4 DEF AreAlike
<1>5. ServiceChanges(s, s) = {} /\ MethodChanges(idx, newIdx) = {}
  BY <1>2 DEF ServiceChanges, MethodChanges
<1>6. c \in FlipChanges(idx, newIdx) \/ c \in FieldChanges(idx, newIdx)
  BY <1>5 DEF ComputeChanges, newIdx
<1>7. PICK k \in KeysOf(s.methods) :
         /\ c.type # "service" /\ c.name = k
         /\ idx[k].hidden # newIdx[k].hidden \/ idx[k].fields # newIdx[k].fields
  BY <1>2, <1>6 DEF FlipChanges, MethodChange, FieldChanges, FieldChange
<1>8. QED
  BY <1>4, <1>7

\* The public entries of a comparison name what is public on one of its sides,
\* also when entries with one key disagree.
LEMMA DeltaNamesPublic ==
    ASSUME NEW prev \in Snapshot, NEW new \in Snapshot,
           NEW idx \in StoredIndexes(prev.methods),
           NEW c \in Public(ComputeChanges(prev, idx, new))
    PROVE  \E s \in {prev, new} :
              \/ c.type = "service" /\ c.name \in VisibleServices(s)
              \/ c.type # "service" /\ c.name \in Surface(s.methods)
<1> DEFINE newIdx == FirstIndex(new.methods)
<1>0. prev.methods \in Seq(Method) /\ new.methods \in Seq(Method)
  BY DEF Snapshot
<1>1. newIdx \in StoredIndexes(new.methods)
  BY <1>0, FirstIndexIsStored
<1>2. ASSUME NEW ms \in Seq(Method), NEW x \in StoredIndexes(ms), NEW k \in DOMAIN x
      PROVE  x[k].hidden \in BOOLEAN /\ (~x[k].hidden => k \in Surface(ms))
  <2>1. x[k] \in Method /\ x[k] \in Records(ms) /\ x[k].key = k
    BY <1>2, IndexType
  <2>2. QED
    BY <2>1 DEF Surface, Method
<1>3. /\ \A k \in DOMAIN idx : idx[k].hidden \in BOOLEAN
                              /\ (~idx[k].hidden => k \in Surface(prev.methods))
      /\ \A k \in DOMAIN newIdx : newIdx[k].hidden \in BOOLEAN
                                 /\ (~newIdx[k].hidden => k \in Surface(new.methods))
  BY <1>0, <1>1, <1>2
<1>4. /\ ~c.hidden
      /\ \/ c \in ServiceChanges(prev, new)
         \/ c \in MethodChanges(idx, newIdx)
         \/ c \in FlipChanges(idx, newIdx)
         \/ c \in FieldChanges(idx, newIdx)
  BY DEF Public, ComputeChanges
<1> HIDE DEF newIdx
<1>5. CASE c \in ServiceChanges(prev, new)
  <2>1. PICK svc \in Services :
           /\ c.type = "service" /\ c.name = svc
           /\ \/ svc \in new.services /\ c.hidden = (svc \in HiddenServices(new.methods))
              \/ svc \in prev.services /\ c.hidden = (svc \in HiddenServices(prev.methods))
    BY <1>5 DEF ServiceChanges, ServiceChange, Snapshot
  <2>2. QED
    BY <1>4, <2>1 DEF VisibleServices
<1>6. CASE c \in MethodChanges(idx, newIdx)
  BY <1>3, <1>4, <1>6 DEF MethodChanges, MethodChange
<1>7. CASE c \in FlipChanges(idx, newIdx)
  <2>1. PICK k \in DOMAIN idx \cap DOMAIN newIdx :
           /\ idx[k].hidden # newIdx[k].hidden
           /\ c.type = "method" /\ c.name = k
    BY <1>7 DEF FlipChanges, MethodChange
  <2>2. ~idx[k].hidden \/ ~newIdx[k].hidden
    BY <1>3, <2>1
  <2>3. QED
    BY <1>3, <2>1, <2>2
<1>8. CASE c \in FieldChanges(idx, newIdx)
  <2>1. PICK k \in DOMAIN idx \cap DOMAIN newIdx :
           c.type = "field" /\ c.name = k /\ c.hidden = newIdx[k].hidden
    BY <1>8 DEF FieldChanges, FieldChange
  <2>2. QED
    BY <1>3, <1>4, <2>1
<1>9. QED
  BY <1>4, <1>5, <1>6, <1>7, <1>8

=============================================================================
