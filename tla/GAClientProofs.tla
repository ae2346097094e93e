--------------------------- MODULE GAClientProofs ---------------------------
(***************************************************************************)
(* Proofs about GAClient for any tree of names and any bounds.             *)
(***************************************************************************)
EXTENDS GAClient, FiniteSetTheorems, TLAPS

-----------------------------------------------------------------------------
(* Trees of names                                                          *)

(* What holds of the root, and of a name if it holds of its parent, holds  *)
(* of all names.                                                           *)
LEMMA TreeInduction ==
  ASSUME NEW S \in SUBSET Names, Root \in S,
         \A p \in Names \ {Root} : Parent[p] \in S => p \in S
  PROVE  S = Names
<1>1. SUFFICES ASSUME Names \ S # {} PROVE FALSE
  OBVIOUS
<1>2. Names \ S \in SUBSET Names
  OBVIOUS
<1>3. PICK p \in Names \ S : p = Root \/ Parent[p] \notin Names \ S
  BY <1>1, <1>2, TreeAssumption
<1>4. Parent[p] \in Names
  BY TreeAssumption
<1>. QED
  BY <1>3, <1>4

LEMMA ParentIs ==
  ASSUME NEW p \in Names
  PROVE  Parent[p] \in Names /\ Root \in Names /\ Parent[Root] = Root
  BY TreeAssumption

LEMMA AboveIs ==
  ASSUME NEW p \in Names
  PROVE  /\ p \in Above[p] /\ Above[p] \subseteq Names
         /\ Above[p] = IF p = Root THEN {Root} ELSE {p} \cup Above[Parent[p]]
  BY TreeAssumption

(* The names above p are closed under Parent, up to the root.              *)
LEMMA AboveParent ==
  ASSUME NEW p \in Names
  PROVE  Root \in Above[p] /\ \A q \in Above[p] : Parent[q] \in Above[p]
<1> DEFINE S == {r \in Names : Root \in Above[r] /\ \A q \in Above[r] : Parent[q] \in Above[r]}
<1>1. Root \in S
  BY TreeAssumption
<1>2. ASSUME NEW r \in Names \ {Root}, Parent[r] \in S PROVE r \in S
  <2>1. Above[r] = {r} \cup Above[Parent[r]] /\ Parent[r] \in Above[Parent[r]]
    BY AboveIs, ParentIs
  <2>. QED
    BY <1>2, <2>1
<1>3. S = Names
  <2>. HIDE DEF S
  <2>1. S \in SUBSET Names
    BY DEF S
  <2>. QED
    BY <1>1, <1>2, <2>1, TreeInduction
<1>. QED
  BY <1>3

-----------------------------------------------------------------------------
(* Places.  The objects are an argument here, so that what follows can be  *)
(* said of the state before a step and of the one after it.                *)

(* The directory that get_directory finds at p, when its place is id.      *)
Found(t, o, p, id) ==
  IF p \in DOMAIN t.cache THEN t.cache[p]
  ELSE IF id \in DOMAIN o THEN o[id]
  ELSE NoDirectory

Place(t, o, p, id) ==
  LET subdirs == Found(t, o, Parent[p], id).subdirs
  IN  IF p \in DOMAIN subdirs THEN subdirs[p] ELSE NoId

(* A way down to p.                                                        *)
IsDescent(t, o, p, g) ==
  /\ DOMAIN g = Above[p]
  /\ \A q \in Above[p] : g[q] = IF q = Root THEN t.id ELSE Place(t, o, q, g[Parent[q]])

LEMMA DescentsAgree ==
  ASSUME NEW t, NEW o, NEW p \in Names, NEW q \in Names, NEW g, NEW h, NEW r \in Names,
         IsDescent(t, o, p, g), IsDescent(t, o, q, h), r \in Above[p], r \in Above[q]
  PROVE  g[r] = h[r]
<1> DEFINE S == {s \in Names : s \in Above[p] /\ s \in Above[q] => g[s] = h[s]}
<1>1. Root \in S
  BY ParentIs DEF IsDescent
<1>2. ASSUME NEW s \in Names \ {Root}, Parent[s] \in S PROVE s \in S
  <2>1. ASSUME s \in Above[p], s \in Above[q] PROVE g[s] = h[s]
    <3>1. Parent[s] \in Above[p] /\ Parent[s] \in Above[q]
      BY <2>1, AboveParent
    <3>2. g[Parent[s]] = h[Parent[s]]
      BY <1>2, <3>1
    <3>. QED
      BY <2>1, <3>2 DEF IsDescent
  <2>. QED
    BY <2>1
<1>3. S = Names
  <2>. HIDE DEF S
  <2>1. S \in SUBSET Names
    BY DEF S
  <2>. QED
    BY <1>1, <1>2, <2>1, TreeInduction
<1>. QED
  BY <1>3

LEMMA DescentExists ==
  ASSUME NEW t, NEW o, NEW p \in Names
  PROVE  \E g : IsDescent(t, o, p, g)
<1> DEFINE S == {s \in Names : \E g : IsDescent(t, o, s, g)}
<1>1. Root \in S
  <2>1. Above[Root] = {Root} /\ Root \in Names
    BY TreeAssumption
  <2>2. IsDescent(t, o, Root, [q \in {Root} |-> t.id])
    BY <2>1 DEF IsDescent
  <2>. QED
    BY <2>1, <2>2
<1>2. ASSUME NEW s \in Names \ {Root}, Parent[s] \in S PROVE s \in S
  <2>1. PICK g : IsDescent(t, o, Parent[s], g)
    BY <1>2
  <2>2. Above[s] = {s} \cup Above[Parent[s]]
    BY AboveIs
  <2>3. Parent[s] \in Names /\ Parent[s] \in Above[Parent[s]]
    BY ParentIs, AboveIs
  <2> DEFINE h == [q \in Above[s] |-> IF q \in Above[Parent[s]] THEN g[q]
                                      ELSE Place(t, o, s, g[Parent[s]])]
  <2>4. ASSUME NEW q \in Above[s]
        PROVE  h[q] = IF q = Root THEN t.id ELSE Place(t, o, q, h[Parent[q]])
    <3>1. CASE q \in Above[Parent[s]]
      <4>1. Parent[q] \in Above[Parent[s]] /\ Parent[q] \in Above[s]
        BY <2>2, <2>3, <3>1, AboveParent
      <4>2. h[q] = g[q] /\ h[Parent[q]] = g[Parent[q]]
        BY <2>2, <3>1, <4>1
      <4>. HIDE DEF h
      <4>. QED
        BY <2>1, <3>1, <4>2 DEF IsDescent
    <3>2. CASE q \notin Above[Parent[s]]
      <4>1. q = s /\ q # Root
        BY <2>2, <3>2
      <4>2. h[q] = Place(t, o, s, g[Parent[s]]) /\ h[Parent[q]] = g[Parent[s]]
        BY <2>2, <2>3, <3>2, <4>1
      <4>. QED
        BY <4>1, <4>2
    <3>. QED
      BY <3>1, <3>2
  <2>5. IsDescent(t, o, s, h)
    <3>1. DOMAIN h = Above[s]
      OBVIOUS
    <3>. HIDE DEF h
    <3>. QED
      BY <2>4, <3>1 DEF IsDescent
  <2>. QED
    BY <2>5
<1>3. S = Names
  <2>. HIDE DEF S
  <2>1. S \in SUBSET Names
    BY DEF S
  <2>. QED
    BY <1>1, <1>2, <2>1, TreeInduction
<1>. QED
  BY <1>3

(* So the recursion has a solution.                                        *)
IsPlaces(t, o, at) ==
  at = [p \in Names |-> IF p = Root THEN t.id ELSE Place(t, o, p, at[Parent[p]])]

LEMMA PlacesExist ==
  ASSUME NEW t, NEW o
  PROVE  \E at : IsPlaces(t, o, at)
<1> DEFINE way(p) == CHOOSE g : IsDescent(t, o, p, g)
           at == [p \in Names |-> way(p)[p]]
<1>1. \A p \in Names : IsDescent(t, o, p, way(p))
  BY DescentExists
<1> HIDE DEF way
<1>2. ASSUME NEW p \in Names
      PROVE  at[p] = IF p = Root THEN t.id ELSE Place(t, o, p, at[Parent[p]])
  <2>1. way(p)[p] = IF p = Root THEN t.id ELSE Place(t, o, p, way(p)[Parent[p]])
    BY <1>1, AboveIs DEF IsDescent
  <2>2. Parent[p] \in Names /\ Parent[p] \in Above[p] /\ Parent[p] \in Above[Parent[p]]
    BY ParentIs, AboveIs, AboveParent
  <2>3. way(p)[Parent[p]] = way(Parent[p])[Parent[p]]
    BY <1>1, <2>2, DescentsAgree
  <2>. QED
    BY <2>1, <2>2, <2>3
<1>3. at = [p \in Names |-> at[p]]
  OBVIOUS
<1> HIDE DEF at
<1>4. at = [p \in Names |-> IF p = Root THEN t.id ELSE Place(t, o, p, at[Parent[p]])]
  BY <1>2, <1>3
<1>. QED
  BY <1>4 DEF IsPlaces

(* The objects before a step, and those after it.                          *)
Store == [i \in Blobs |-> Object(i)]

LEMMA PlacesAre ==
  ASSUME NEW t
  PROVE  Places(t) = [p \in Names |-> IF p = Root THEN t.id
                                      ELSE Place(t, Store, p, Places(t)[Parent[p]])]
<1> DEFINE Body(at) ==
      [p \in Names |->
         IF p = Root THEN t.id
         ELSE LET above == Parent[p]
                  subdirs == IF above \in DOMAIN t.cache THEN t.cache[above].subdirs
                             ELSE IF at[above] \in Blobs THEN Object(at[above]).subdirs
                             ELSE <<>>
              IN  IF p \in DOMAIN subdirs THEN subdirs[p] ELSE NoId]
<1>1. Places(t) = CHOOSE at : at = Body(at)
  BY DEF Places
<1>2. ASSUME NEW at
      PROVE  Body(at) = [p \in Names |-> IF p = Root THEN t.id
                                         ELSE Place(t, Store, p, at[Parent[p]])]
  BY DEF Place, Found, Store, NoDirectory
<1>3. \E at : at = Body(at)
  <2>1. PICK at : IsPlaces(t, Store, at)
    BY PlacesExist
  <2>2. at = Body(at)
    BY <1>2, <2>1 DEF IsPlaces
  <2>. QED
    BY <2>2
<1>4. Places(t) = Body(Places(t))
  <2>. HIDE DEF Body
  <2>. QED
    BY <1>1, <1>3
<1>. QED
  BY <1>2, <1>4

LEMMA DirectoryIs ==
  ASSUME NEW t, NEW p
  PROVE  /\ Directory(t, p) = Found(t, Store, p, Places(t)[p])
         /\ HasDirectory(t, p) <=> p \in DOMAIN t.cache \/ Places(t)[p] \in DOMAIN Store
  BY DEF Directory, HasDirectory, Found, Store

(* The solution, and it is the only one.                                   *)
PlacesOf(t, o) ==
  CHOOSE at : at = [p \in Names |-> IF p = Root THEN t.id ELSE Place(t, o, p, at[Parent[p]])]

LEMMA PlacesOfIs ==
  ASSUME NEW t, NEW o
  PROVE  /\ PlacesOf(t, o) = [p \in Names |-> PlacesOf(t, o)[p]]
         /\ PlacesOf(t, o)[Root] = t.id
         /\ \A p \in Names \ {Root} :
              PlacesOf(t, o)[p] = Place(t, o, p, PlacesOf(t, o)[Parent[p]])
<1>1. PlacesOf(t, o) = [p \in Names |-> IF p = Root THEN t.id
                              ELSE Place(t, o, p, PlacesOf(t, o)[Parent[p]])]
  <2>1. PICK at : IsPlaces(t, o, at)
    BY PlacesExist
  <2>2. at = [p \in Names |-> IF p = Root THEN t.id ELSE Place(t, o, p, at[Parent[p]])]
    BY <2>1 DEF IsPlaces
  <2>. QED
    BY <2>2 DEF PlacesOf
<1>. QED
  BY <1>1, ParentIs, TreeAssumption

LEMMA PlacesUnique ==
  ASSUME NEW t, NEW o, NEW at,
         at = [p \in Names |-> IF p = Root THEN t.id ELSE Place(t, o, p, at[Parent[p]])]
  PROVE  at = PlacesOf(t, o)
<1> DEFINE S == {p \in Names : at[p] = PlacesOf(t, o)[p]}
<1>1. Root \in S
  BY PlacesOfIs, TreeAssumption
<1>2. ASSUME NEW p \in Names \ {Root}, Parent[p] \in S PROVE p \in S
  <2>1. at[p] = Place(t, o, p, at[Parent[p]])
    OBVIOUS
  <2>. QED
    BY <1>2, <2>1, PlacesOfIs
<1>3. S = Names
  <2>. HIDE DEF S
  <2>1. S \in SUBSET Names
    BY DEF S
  <2>. QED
    BY <1>1, <1>2, <2>1, TreeInduction
<1>4. at = [p \in Names |-> at[p]]
  OBVIOUS
<1>. QED
  BY <1>3, <1>4, PlacesOfIs

(* What the queries answer, of the objects o.                              *)
DirectoryOf(t, o, p) == Found(t, o, p, PlacesOf(t, o)[p])
HasOf(t, o, p) == p \in DOMAIN t.cache \/ PlacesOf(t, o)[p] \in DOMAIN o
HolderOf(t, o, p) == IF HasOf(t, o, p) THEN p ELSE Parent[p]
ExistsOf(t, o, p) == p \in DOMAIN DirectoryOf(t, o, HolderOf(t, o, p)).files
EntryOf(t, o, p) ==
  IF ExistsOf(t, o, p) THEN DirectoryOf(t, o, HolderOf(t, o, p)).files[p] ELSE NoKeys
FilesOf(t, o) ==
  [p \in {q \in Names : EntryOf(t, o, q).kind # "none"} |-> EntryOf(t, o, p)]
ReachOf(id, o) == {PlacesOf(Tree(id), o)[p] : p \in Names} \ {NoId}

LEMMA QueriesAre ==
  ASSUME NEW t
  PROVE  /\ Places(t) = PlacesOf(t, Store)
         /\ \A p : /\ Directory(t, p) = DirectoryOf(t, Store, p)
                   /\ HasDirectory(t, p) <=> HasOf(t, Store, p)
                   /\ Holder(t, p) = HolderOf(t, Store, p)
                   /\ FileExists(t, p) <=> ExistsOf(t, Store, p)
                   /\ Entry(t, p) = EntryOf(t, Store, p)
<1>1. Places(t) = PlacesOf(t, Store)
  BY PlacesAre, PlacesUnique
<1>2. ASSUME NEW p
      PROVE  /\ Directory(t, p) = DirectoryOf(t, Store, p)
             /\ HasDirectory(t, p) <=> HasOf(t, Store, p)
  BY <1>1, DirectoryIs DEF DirectoryOf, HasOf
<1>3. ASSUME NEW p
      PROVE  Holder(t, p) = HolderOf(t, Store, p)
  BY <1>2 DEF Holder, HolderOf
<1>4. ASSUME NEW p
      PROVE  /\ FileExists(t, p) <=> ExistsOf(t, Store, p)
             /\ Entry(t, p) = EntryOf(t, Store, p)
  BY <1>2, <1>3 DEF FileExists, ExistsOf, Entry, EntryOf
<1>. QED
  BY <1>1, <1>2, <1>3, <1>4

LEMMA FilesAre == \A t : Files(t) = FilesOf(t, Store)
  BY QueriesAre DEF Files, FilesOf

LEMMA RefersIs == \A id : Refers(id) = ReachOf(id, Store)
  BY QueriesAre DEF Refers, ReachOf

-----------------------------------------------------------------------------
(* Changes of a tree: what they leave of it, and what they put there.      *)

OrNew(t, o, p) == IF HasOf(t, o, p) THEN DirectoryOf(t, o, p) ELSE NewDirectory(p)
IsTree(t) == t = [id |-> t.id, cache |-> t.cache]
Kids(p) == {q \in Names \ {Root} : Parent[q] = p}

(* Where the entry e of p goes.                                            *)
Home(t, o, p, e) == IF ~ExistsOf(t, o, p) /\ e.kind = "dir" THEN p ELSE HolderOf(t, o, p)
Homes(t, o, w) == {Home(t, o, p, w[p]) : p \in DOMAIN w}

(* From t to u the directories of C were changed, the paths of S removed   *)
(* and the entries w written.                                              *)
Becomes(t, u, o, C, S, w) ==
  /\ u = [id |-> t.id, cache |-> u.cache]
  /\ DOMAIN u.cache = DOMAIN t.cache \cup C
  /\ \A q \in DOMAIN t.cache \ C : u.cache[q] = t.cache[q]
  /\ \A q \in C :
       /\ u.cache[q] = [files |-> u.cache[q].files, subdirs |-> u.cache[q].subdirs]
       /\ DOMAIN u.cache[q].subdirs =
            (DOMAIN OrNew(t, o, q).subdirs \ S) \cup (C \cap Kids(q))
       /\ \A r \in DOMAIN u.cache[q].subdirs :
            u.cache[q].subdirs[r] = IF r \in C THEN NoId ELSE OrNew(t, o, q).subdirs[r]
       /\ DOMAIN u.cache[q].files =
            (DOMAIN OrNew(t, o, q).files \ S)
              \cup {p \in DOMAIN w : Home(t, o, p, w[p]) = q}
       /\ \A p \in DOMAIN u.cache[q].files :
            u.cache[q].files[p] = IF p \in DOMAIN w /\ Home(t, o, p, w[p]) = q THEN w[p]
                                  ELSE OrNew(t, o, q).files[p]

(* Directories are changed together with all those above them.             *)
LEMMA ChangedIs ==
  ASSUME NEW S \in SUBSET Names
  PROVE  /\ S \subseteq Changed(S) /\ Changed(S) \subseteq Names
         /\ \A p \in Changed(S) : Parent[p] \in Changed(S) /\ Root \in Changed(S)
         /\ \A p \in Changed(S) : \E q \in S : p \in Above[q]
<1>1. \A p \in S : p \in Above[p] /\ Above[p] \subseteq Names
  BY AboveIs
<1>2. \A p \in S : Root \in Above[p] /\ \A q \in Above[p] : Parent[q] \in Above[p]
  BY AboveParent
<1>. QED
  BY <1>1, <1>2 DEF Changed

LEMMA OrNewIs == \A t, p : DirectoryOrNew(t, p) = OrNew(t, Store, p)
  BY QueriesAre DEF DirectoryOrNew, OrNew

(* SetEntries with the entries w.                                          *)
LEMMA SetEntriesIs ==
  ASSUME NEW t, IsTree(t), NEW w, DOMAIN w \subseteq Names
  PROVE  Becomes(t, SetEntries(t, w), Store, Changed(Homes(t, Store, w)), {}, w)
<1> DEFINE home(p) == IF ~FileExists(t, p) /\ w[p].kind = "dir" THEN p ELSE Holder(t, p)
           H == {home(p) : p \in DOMAIN w}
           C == Changed(H)
           new(q) == DirectoryOrNew(t, q)
           files(q) == [p \in DOMAIN new(q).files \cup {r \in DOMAIN w : home(r) = q} |->
                          IF p \in DOMAIN w /\ home(p) = q THEN w[p] ELSE new(q).files[p]]
           object(q) == [files |-> files(q), subdirs |-> new(q).subdirs]
           changed(q) == IF q \in H THEN object(q) ELSE new(q)
           below(q) == {r \in C \ {Root} : Parent[r] = q}
           subdirs(q) == [r \in DOMAIN changed(q).subdirs \cup below(q) |->
                            IF r \in C THEN NoId ELSE changed(q).subdirs[r]]
           u == SetEntries(t, w)
<1>1. u = [t EXCEPT !.cache = [q \in DOMAIN t.cache \cup C |->
                                 IF q \in C THEN [files |-> changed(q).files, subdirs |-> subdirs(q)]
                                 ELSE t.cache[q]]]
  <2> DEFINE g == [h \in H |-> object(h)]
  <2>1. u = SetDirectories(t, g)
    BY DEF SetEntries
  <2>2. DOMAIN g = H /\ \A q \in H : g[q] = object(q)
    OBVIOUS
  <2>. HIDE DEF g, H, object, new, u
  <2>3. \A q : changed(q) = IF q \in DOMAIN g THEN g[q] ELSE new(q)
    BY <2>2
  <2>. QED
    BY <2>1, <2>2, <2>3 DEF SetDirectories, new
<1>2. \A p : home(p) = Home(t, Store, p, w[p])
  BY QueriesAre DEF Home
<1>3. H = Homes(t, Store, w)
  BY <1>2 DEF Homes
<1>4. \A q : new(q) = OrNew(t, Store, q)
  BY OrNewIs
<1>5. C \subseteq Names
  <2>1. H \subseteq Names
    <3>1. \A p \in DOMAIN w : home(p) \in Names
      BY ParentIs DEF Holder
    <3>. QED
      BY <3>1
  <2>. QED
    BY <2>1, AboveIs DEF Changed
<1> HIDE DEF C, H, home
<1>6. \A q : below(q) = C \cap Kids(q)
  BY <1>5 DEF Kids
<1> HIDE DEF u, new
<1>7. /\ u = [id |-> t.id, cache |-> u.cache]
      /\ DOMAIN u.cache = DOMAIN t.cache \cup C
      /\ \A q \in DOMAIN t.cache \ C : u.cache[q] = t.cache[q]
      /\ \A q \in C : u.cache[q] = [files |-> changed(q).files, subdirs |-> subdirs(q)]
  <2>. HIDE DEF changed, subdirs
  <2>. QED
    BY <1>1 DEF IsTree
<1>8. ASSUME NEW q \in C
      PROVE  /\ DOMAIN subdirs(q) = DOMAIN new(q).subdirs \cup (C \cap Kids(q))
             /\ \A r \in DOMAIN subdirs(q) :
                  subdirs(q)[r] = IF r \in C THEN NoId ELSE new(q).subdirs[r]
             /\ DOMAIN changed(q).files = DOMAIN new(q).files \cup {p \in DOMAIN w : home(p) = q}
             /\ \A p \in DOMAIN changed(q).files :
                  changed(q).files[p] = IF p \in DOMAIN w /\ home(p) = q THEN w[p]
                                        ELSE new(q).files[p]
  <2>1. q \notin H => {p \in DOMAIN w : home(p) = q} = {}
    BY DEF H
  <2>2. changed(q).subdirs = new(q).subdirs
    OBVIOUS
  <2>3. /\ DOMAIN changed(q).files = DOMAIN new(q).files \cup {p \in DOMAIN w : home(p) = q}
        /\ \A p \in DOMAIN changed(q).files :
             changed(q).files[p] = IF p \in DOMAIN w /\ home(p) = q THEN w[p] ELSE new(q).files[p]
    BY <2>1
  <2>. HIDE DEF changed
  <2>. QED
    BY <2>2, <2>3, <1>6
<1> HIDE DEF subdirs, changed
<1>9. ASSUME NEW q \in C
      PROVE  /\ u.cache[q] = [files |-> u.cache[q].files, subdirs |-> u.cache[q].subdirs]
             /\ DOMAIN u.cache[q].subdirs =
                  (DOMAIN OrNew(t, Store, q).subdirs \ {}) \cup (C \cap Kids(q))
             /\ \A r \in DOMAIN u.cache[q].subdirs :
                  u.cache[q].subdirs[r] = IF r \in C THEN NoId ELSE OrNew(t, Store, q).subdirs[r]
             /\ DOMAIN u.cache[q].files =
                  (DOMAIN OrNew(t, Store, q).files \ {})
                    \cup {p \in DOMAIN w : Home(t, Store, p, w[p]) = q}
             /\ \A p \in DOMAIN u.cache[q].files :
                  u.cache[q].files[p] = IF p \in DOMAIN w /\ Home(t, Store, p, w[p]) = q THEN w[p]
                                        ELSE OrNew(t, Store, q).files[p]
  <2>0. u.cache[q] = [files |-> changed(q).files, subdirs |-> subdirs(q)]
    BY <1>7
  <2>1. /\ u.cache[q].files = changed(q).files /\ u.cache[q].subdirs = subdirs(q)
        /\ u.cache[q] = [files |-> u.cache[q].files, subdirs |-> u.cache[q].subdirs]
    BY <2>0
  <2>2. new(q) = OrNew(t, Store, q)
    BY <1>4
  <2>3. {p \in DOMAIN w : home(p) = q} = {p \in DOMAIN w : Home(t, Store, p, w[p]) = q}
    BY <1>2
  <2>4. DOMAIN u.cache[q].files =
          (DOMAIN OrNew(t, Store, q).files \ {})
            \cup {p \in DOMAIN w : Home(t, Store, p, w[p]) = q}
    <3>1. DOMAIN u.cache[q].files = DOMAIN new(q).files \cup {p \in DOMAIN w : home(p) = q}
      BY <1>8, <2>1
    <3>. QED
      BY <2>2, <2>3, <3>1
  <2>. QED
    <3>1. DOMAIN u.cache[q].subdirs =
            (DOMAIN OrNew(t, Store, q).subdirs \ {}) \cup (C \cap Kids(q))
      <4>1. DOMAIN u.cache[q].subdirs = DOMAIN new(q).subdirs \cup (C \cap Kids(q))
        BY <1>8, <2>1
      <4>. QED
        BY <2>2, <4>1
    <3>2. \A r \in DOMAIN u.cache[q].subdirs :
            u.cache[q].subdirs[r] = IF r \in C THEN NoId ELSE OrNew(t, Store, q).subdirs[r]
      <4>1. \A r \in DOMAIN subdirs(q) :
              subdirs(q)[r] = IF r \in C THEN NoId ELSE new(q).subdirs[r]
        BY <1>8
      <4>. QED
        BY <2>1, <2>2, <4>1
    <3>3. \A p \in DOMAIN u.cache[q].files :
            u.cache[q].files[p] = IF p \in DOMAIN w /\ Home(t, Store, p, w[p]) = q THEN w[p]
                                  ELSE OrNew(t, Store, q).files[p]
      <4>1. \A p \in DOMAIN changed(q).files :
              changed(q).files[p] = IF p \in DOMAIN w /\ home(p) = q THEN w[p]
                                    ELSE new(q).files[p]
        BY <1>8
      <4>. QED
        BY <1>2, <2>1, <2>2, <4>1
    <3>. QED
      BY <2>1, <2>4, <3>1, <3>2, <3>3
<1>10. Becomes(t, u, Store, C, {}, w)
  BY <1>7, <1>9 DEF Becomes
<1>. QED
  BY <1>3, <1>10 DEF C, u

(* The entries that SetKeys and SetChunks write.                           *)
KeysOf(t, o, S, k, v) ==
  LET entry(p) == [kind |-> k, version |-> v, chunks |-> EntryOf(t, o, p).chunks]
  IN  [p \in {q \in S : EntryOf(t, o, q) # entry(q)} |-> entry(p)]
ChunksOf(t, o, p, chunks) == [q \in {p} |-> [EntryOf(t, o, p) EXCEPT !.chunks = chunks]]

LEMMA SetKeysIs ==
  ASSUME NEW t, IsTree(t), NEW S \in SUBSET Names, NEW k, NEW v
  PROVE  LET w == KeysOf(t, Store, S, k, v)
         IN  Becomes(t, SetKeys(t, S, k, v), Store, Changed(Homes(t, Store, w)), {}, w)
<1>1. SetKeys(t, S, k, v) = SetEntries(t, KeysOf(t, Store, S, k, v))
  BY QueriesAre DEF SetKeys, KeysOf
<1>2. DOMAIN KeysOf(t, Store, S, k, v) \subseteq Names
  BY DEF KeysOf
<1>. QED
  BY <1>1, <1>2, SetEntriesIs

LEMMA SetChunksIs ==
  ASSUME NEW t, IsTree(t), NEW p \in Names, NEW chunks
  PROVE  LET w == ChunksOf(t, Store, p, chunks)
         IN  Becomes(t, SetChunks(t, p, chunks), Store, Changed(Homes(t, Store, w)), {}, w)
<1>1. SetChunks(t, p, chunks) = SetEntries(t, ChunksOf(t, Store, p, chunks))
  BY QueriesAre DEF SetChunks, ChunksOf
<1>2. DOMAIN ChunksOf(t, Store, p, chunks) \subseteq Names
  BY DEF ChunksOf
<1>. QED
  BY <1>1, <1>2, SetEntriesIs

(* RemoveFiles, where what is removed is not among the directories that    *)
(* are changed, and a directory object has entries for what is in it.      *)
Fits(d, p) == DOMAIN d.files \subseteq {p} \cup Kids(p) /\ DOMAIN d.subdirs \subseteq Kids(p)
ParentsOf(t, o, S) == {q \in {Parent[p] : p \in S} : HasOf(t, o, q)}

LEMMA RemoveFilesIs ==
  ASSUME NEW t, IsTree(t), NEW S \in SUBSET (Names \ {Root}),
         Changed(ParentsOf(t, Store, S)) \cap S = {},
         \A q \in Changed(ParentsOf(t, Store, S)) : Fits(OrNew(t, Store, q), q)
  PROVE  Becomes(t, RemoveFiles(t, S), Store, Changed(ParentsOf(t, Store, S)), S, <<>>)
<1> DEFINE H == {q \in {Parent[p] : p \in S} : HasDirectory(t, q)}
           new(q) == DirectoryOrNew(t, q)
           object(q) == [files |-> Except(Directory(t, q).files, S),
                         subdirs |-> Subdirs(Directory(t, q), S)]
           objects == [q \in H |-> object(q)]
           C == Changed(DOMAIN objects)
           changed(q) == IF q \in DOMAIN objects THEN objects[q] ELSE new(q)
           below(q) == {r \in C \ {Root} : Parent[r] = q}
           subdirs(q) == [r \in DOMAIN changed(q).subdirs \cup below(q) |->
                            IF r \in C THEN NoId ELSE changed(q).subdirs[r]]
           u == RemoveFiles(t, S)
<1>1. u = [t EXCEPT !.cache = [q \in DOMAIN t.cache \cup C |->
                                 IF q \in C THEN [files |-> changed(q).files, subdirs |-> subdirs(q)]
                                 ELSE t.cache[q]]]
  BY Zenon DEF RemoveFiles, SetDirectories
<1>0. DOMAIN objects = H /\ \A q \in H : objects[q] = object(q)
  OBVIOUS
<1> HIDE DEF objects
<1>2. H = ParentsOf(t, Store, S) /\ C = Changed(H)
  BY <1>0, QueriesAre DEF ParentsOf
<1>3. C \subseteq Names
  <2>1. H \subseteq Names
    BY ParentIs
  <2>. HIDE DEF H, C
  <2>. QED
    BY <1>2, <2>1, ChangedIs
<1>4. \A q : new(q) = OrNew(t, Store, q)
  BY OrNewIs
<1>5. ASSUME NEW q \in H PROVE Directory(t, q) = new(q)
  BY DEF DirectoryOrNew
<1>6. ASSUME NEW q \in C
      PROVE  /\ q \notin S /\ Fits(new(q), q)
             /\ q \notin H => \A p \in S : p \notin DOMAIN new(q).files /\ p \notin DOMAIN new(q).subdirs
  <2>1. q \notin S /\ Fits(new(q), q)
    BY <1>2, <1>4
  <2>2. ASSUME q \notin H, NEW p \in S, p \in DOMAIN new(q).files \/ p \in DOMAIN new(q).subdirs
        PROVE  FALSE
    <3>1. p \in Kids(q)
      BY <2>1, <2>2 DEF Fits
    <3>2. q \in {Parent[r] : r \in S}
      BY <3>1 DEF Kids
    <3>3. new(q) = NewDirectory(q)
      BY <2>2, <3>2 DEF DirectoryOrNew
    <3>. QED
      BY <2>1, <2>2, <3>3 DEF NewDirectory
  <2>. QED
    BY <2>1, <2>2
<1> HIDE DEF C, H
<1>7. \A q : below(q) = C \cap Kids(q)
  BY <1>3 DEF Kids
<1> HIDE DEF u, new
<1>8. ASSUME NEW q \in C
      PROVE  /\ DOMAIN changed(q).subdirs = DOMAIN new(q).subdirs \ S
             /\ \A r \in DOMAIN changed(q).subdirs : changed(q).subdirs[r] = new(q).subdirs[r]
             /\ DOMAIN changed(q).files = DOMAIN new(q).files \ S
             /\ \A r \in DOMAIN changed(q).files : changed(q).files[r] = new(q).files[r]
  <2>1. CASE q \in H
    <3>1. changed(q) = object(q) /\ Directory(t, q) = new(q)
      BY <1>0, <1>5, <2>1
    <3>2. /\ changed(q).files = Except(new(q).files, S)
          /\ changed(q).subdirs = Except(new(q).subdirs, S)
      <4>. HIDE DEF changed
      <4>. QED
        BY <3>1 DEF Subdirs
    <3>. HIDE DEF changed
    <3>. QED
      BY <3>2 DEF Except
  <2>2. CASE q \notin H
    BY <1>0, <1>6, <2>2
  <2>. QED
    BY <2>1, <2>2
<1> HIDE DEF changed
<1>9. ASSUME NEW q \in C
      PROVE  /\ DOMAIN subdirs(q) = (DOMAIN new(q).subdirs \ S) \cup (C \cap Kids(q))
             /\ \A r \in DOMAIN subdirs(q) :
                  subdirs(q)[r] = IF r \in C THEN NoId ELSE new(q).subdirs[r]
  BY <1>7, <1>8
<1> HIDE DEF subdirs
<1>10. /\ u = [id |-> t.id, cache |-> u.cache]
       /\ DOMAIN u.cache = DOMAIN t.cache \cup C
       /\ \A q \in DOMAIN t.cache \ C : u.cache[q] = t.cache[q]
       /\ \A q \in C : u.cache[q] = [files |-> changed(q).files, subdirs |-> subdirs(q)]
  BY <1>1 DEF IsTree
<1>11. ASSUME NEW q \in C
       PROVE  /\ u.cache[q] = [files |-> u.cache[q].files, subdirs |-> u.cache[q].subdirs]
              /\ DOMAIN u.cache[q].subdirs = (DOMAIN new(q).subdirs \ S) \cup (C \cap Kids(q))
              /\ \A r \in DOMAIN u.cache[q].subdirs :
                   u.cache[q].subdirs[r] = IF r \in C THEN NoId ELSE new(q).subdirs[r]
              /\ DOMAIN u.cache[q].files = DOMAIN new(q).files \ S
              /\ \A p \in DOMAIN u.cache[q].files : u.cache[q].files[p] = new(q).files[p]
  <2>1. u.cache[q] = [files |-> changed(q).files, subdirs |-> subdirs(q)]
    BY <1>10
  <2>2. /\ u.cache[q].files = changed(q).files /\ u.cache[q].subdirs = subdirs(q)
        /\ u.cache[q] = [files |-> u.cache[q].files, subdirs |-> u.cache[q].subdirs]
    BY <2>1
  <2>3. /\ DOMAIN u.cache[q].files = DOMAIN new(q).files \ S
        /\ \A p \in DOMAIN u.cache[q].files : u.cache[q].files[p] = new(q).files[p]
    <3>1. /\ DOMAIN changed(q).files = DOMAIN new(q).files \ S
          /\ \A r \in DOMAIN changed(q).files : changed(q).files[r] = new(q).files[r]
      BY <1>8
    <3>. QED
      BY <2>2, <3>1
  <2>4. /\ DOMAIN u.cache[q].subdirs = (DOMAIN new(q).subdirs \ S) \cup (C \cap Kids(q))
        /\ \A r \in DOMAIN u.cache[q].subdirs :
             u.cache[q].subdirs[r] = IF r \in C THEN NoId ELSE new(q).subdirs[r]
    <3>1. /\ DOMAIN subdirs(q) = (DOMAIN new(q).subdirs \ S) \cup (C \cap Kids(q))
          /\ \A r \in DOMAIN subdirs(q) :
               subdirs(q)[r] = IF r \in C THEN NoId ELSE new(q).subdirs[r]
      BY <1>9
    <3>. QED
      BY <2>2, <3>1
  <2>. QED
    BY <2>2, <2>3, <2>4
<1>12. ASSUME NEW q \in C
       PROVE  /\ u.cache[q] = [files |-> u.cache[q].files, subdirs |-> u.cache[q].subdirs]
              /\ DOMAIN u.cache[q].subdirs =
                   (DOMAIN OrNew(t, Store, q).subdirs \ S) \cup (C \cap Kids(q))
              /\ \A r \in DOMAIN u.cache[q].subdirs :
                   u.cache[q].subdirs[r] = IF r \in C THEN NoId ELSE OrNew(t, Store, q).subdirs[r]
              /\ DOMAIN u.cache[q].files =
                   (DOMAIN OrNew(t, Store, q).files \ S)
                     \cup {p \in DOMAIN <<>> : Home(t, Store, p, <<>>[p]) = q}
              /\ \A p \in DOMAIN u.cache[q].files :
                   u.cache[q].files[p] = IF p \in DOMAIN <<>> /\ Home(t, Store, p, <<>>[p]) = q
                                         THEN <<>>[p] ELSE OrNew(t, Store, q).files[p]
  <2>1. new(q) = OrNew(t, Store, q)
    BY <1>4
  <2>2. DOMAIN <<>> = {}
    OBVIOUS
  <2>. QED
    BY <1>11, <2>1, <2>2
<1>13. Becomes(t, u, Store, C, S, <<>>)
  BY <1>10, <1>12 DEF Becomes
<1>. QED
  BY <1>2, <1>13 DEF u

-----------------------------------------------------------------------------
(* Objects, stores and trees that hang together                            *)

EntrySet == Walk!Entries \cup {NoKeys}

(* The object of the directory p, which refers to identifiers of ids.      *)
IsObject(p, d, ids) ==
  /\ d = [files |-> d.files, subdirs |-> d.subdirs]
  /\ Fits(d, p)
  /\ \A q \in DOMAIN d.files : /\ d.files[q] \in EntrySet
                               /\ q # p => d.files[q].kind # "none"
  /\ \A q \in DOMAIN d.subdirs : /\ d.subdirs[q] \in ids
                                 /\ d.subdirs[q] # NoId => d.subdirs[q] \in {q} \X Nat

(* Stored objects refer to stored objects.                                 *)
IsStore(o) ==
  /\ DOMAIN o \subseteq Names \X Nat
  /\ \A i \in DOMAIN o : IsObject(i[1], o[i], DOMAIN o)

Roots(ids) == {NoId} \cup {i \in ids : i[1] = Root}

(* What is in the cache is referred to from there, up to the root, and     *)
(* what is referred to as being in the cache is there.                     *)
CacheUp(t) ==
  \A p \in DOMAIN t.cache \ {Root} :
    /\ Parent[p] \in DOMAIN t.cache
    /\ p \in DOMAIN t.cache[Parent[p]].subdirs
    /\ t.cache[Parent[p]].subdirs[p] = NoId
CacheDown(t) ==
  \A p \in DOMAIN t.cache : \A q \in DOMAIN t.cache[p].subdirs :
    t.cache[p].subdirs[q] = NoId => q \in DOMAIN t.cache

Hangs(t, o) ==
  /\ IsTree(t)
  /\ t.id \in Roots(DOMAIN o)
  /\ DOMAIN t.cache \subseteq Names
  /\ \A p \in DOMAIN t.cache : IsObject(p, t.cache[p], {NoId} \cup DOMAIN o)
  /\ CacheUp(t) /\ CacheDown(t)

LEMMA NoIdIs == NoId \notin Names \X Nat
  BY DEF NoId

LEMMA PlacesFit ==
  ASSUME NEW o, NEW t, IsStore(o), Hangs(t, o), NEW p \in Names
  PROVE  PlacesOf(t, o)[p] \in {NoId} \cup {i \in DOMAIN o : i[1] = p}
<1> DEFINE at == PlacesOf(t, o)
           S == {q \in Names : at[q] \in {NoId} \cup {i \in DOMAIN o : i[1] = q}}
<1>1. Root \in S
  BY PlacesOfIs, ParentIs DEF Hangs, Roots
<1>2. ASSUME NEW q \in Names \ {Root}, Parent[q] \in S PROVE q \in S
  <2>1. at[q] = Place(t, o, q, at[Parent[q]])
    BY PlacesOfIs
  <2> DEFINE d == Found(t, o, Parent[q], at[Parent[q]])
  <2>2. d = NoDirectory \/ IsObject(Parent[q], d, {NoId} \cup DOMAIN o)
    <3>1. CASE Parent[q] \in DOMAIN t.cache
      BY <3>1 DEF Hangs, Found
    <3>2. CASE Parent[q] \notin DOMAIN t.cache /\ at[Parent[q]] \in DOMAIN o
      <4>1. d = o[at[Parent[q]]]
        BY <3>2 DEF Found
      <4>2. IsObject(at[Parent[q]][1], d, DOMAIN o)
        BY <3>2, <4>1 DEF IsStore
      <4>3. at[Parent[q]][1] = Parent[q]
        BY <1>2, <3>2, NoIdIs DEF IsStore
      <4>. QED
        BY <4>2, <4>3 DEF IsObject
    <3>. QED
      BY <3>1, <3>2 DEF Found
  <2>3. CASE q \in DOMAIN d.subdirs
    <3>1. at[q] = d.subdirs[q]
      BY <2>1, <2>3 DEF Place
    <3>3. IsObject(Parent[q], d, {NoId} \cup DOMAIN o)
      <4>1. d # NoDirectory
        <5>. HIDE DEF d
        <5>. QED
          BY <2>3 DEF NoDirectory
      <4>. QED
        BY <2>2, <4>1
    <3>2. d.subdirs[q] \in {NoId} \cup DOMAIN o /\ (d.subdirs[q] # NoId => d.subdirs[q] \in {q} \X Nat)
      <4>. HIDE DEF d
      <4>. QED
        BY <2>3, <3>3 DEF IsObject
    <3>. QED
      BY <3>1, <3>2
  <2>4. CASE q \notin DOMAIN d.subdirs
    BY <2>1, <2>4 DEF Place
  <2>. QED
    BY <2>3, <2>4
<1>3. S = Names
  <2>. HIDE DEF S
  <2>1. S \in SUBSET Names
    BY DEF S
  <2>. QED
    BY <1>1, <1>2, <2>1, TreeInduction
<1>. QED
  BY <1>3

(* So each directory that is found is an object.                           *)
LEMMA FoundIs ==
  ASSUME NEW o, NEW t, IsStore(o), Hangs(t, o), NEW p \in Names
  PROVE  /\ IsObject(p, DirectoryOf(t, o, p), {NoId} \cup DOMAIN o)
         /\ IsObject(p, OrNew(t, o, p), {NoId} \cup DOMAIN o)
         /\ p \notin DOMAIN t.cache =>
              /\ IsObject(p, DirectoryOf(t, o, p), DOMAIN o)
              /\ IsObject(p, OrNew(t, o, p), DOMAIN o)
         /\ ~HasOf(t, o, p) => DirectoryOf(t, o, p) = NoDirectory
<1> DEFINE at == PlacesOf(t, o)
<1>1. at[p] \in DOMAIN o => IsObject(p, o[at[p]], DOMAIN o)
  BY PlacesFit, NoIdIs DEF IsStore
<1>2. IsObject(p, NoDirectory, DOMAIN o) /\ IsObject(p, NewDirectory(p), DOMAIN o)
  BY DEF IsObject, NoDirectory, NewDirectory, Fits, EntrySet
<1>3. \A d : IsObject(p, d, DOMAIN o) => IsObject(p, d, {NoId} \cup DOMAIN o)
  BY DEF IsObject
<1>4. p \in DOMAIN t.cache => IsObject(p, t.cache[p], {NoId} \cup DOMAIN o)
  BY DEF Hangs
<1>. HIDE DEF at
<1>. QED
  BY <1>1, <1>2, <1>3, <1>4 DEF DirectoryOf, OrNew, HasOf, Found, at

(* There is a directory at p if its parent has it.                         *)
LEMMA HasIs ==
  ASSUME NEW o, NEW t, IsStore(o), Hangs(t, o), NEW p \in Names \ {Root}
  PROVE  HasOf(t, o, p) <=> p \in DOMAIN DirectoryOf(t, o, Parent[p]).subdirs
<1> DEFINE at == PlacesOf(t, o)
           d == DirectoryOf(t, o, Parent[p])
<1>1. at[p] = IF p \in DOMAIN d.subdirs THEN d.subdirs[p] ELSE NoId
  BY PlacesOfIs DEF Place, DirectoryOf
<1>2. Parent[p] \in Names
  BY ParentIs
<1>3. IsObject(Parent[p], d, {NoId} \cup DOMAIN o)
  BY <1>2, FoundIs
<1>4. ASSUME p \in DOMAIN d.subdirs PROVE HasOf(t, o, p)
  <2>1. CASE d.subdirs[p] = NoId
    <3>1. Parent[p] \in DOMAIN t.cache
      <4>1. SUFFICES ASSUME Parent[p] \notin DOMAIN t.cache PROVE FALSE
        OBVIOUS
      <4>2. IsObject(Parent[p], d, DOMAIN o)
        BY <1>2, <4>1, FoundIs
      <4>. QED
        BY <1>4, <2>1, <4>2, NoIdIs DEF IsObject, IsStore
    <3>2. d = t.cache[Parent[p]]
      BY <3>1 DEF DirectoryOf, Found
    <3>. QED
      BY <1>4, <2>1, <3>1, <3>2 DEF Hangs, CacheDown, HasOf
  <2>2. CASE d.subdirs[p] # NoId
    BY <1>1, <1>3, <1>4, <2>2 DEF IsObject, HasOf
  <2>. QED
    BY <2>1, <2>2
<1>5. ASSUME HasOf(t, o, p) PROVE p \in DOMAIN d.subdirs
  <2>1. CASE p \in DOMAIN t.cache
    BY <2>1 DEF Hangs, CacheUp, DirectoryOf, Found
  <2>2. CASE at[p] \in DOMAIN o
    BY <1>1, <2>2, NoIdIs DEF IsStore
  <2>. QED
    BY <1>5, <2>1, <2>2 DEF HasOf
<1>. QED
  BY <1>4, <1>5

(* A change of a tree that hangs together.                                 *)
Allowed(t, C, S, w) ==
  /\ C \subseteq Names /\ \A p \in C : Parent[p] \in C
  /\ S \subseteq Names \ {Root} /\ S \cap (DOMAIN t.cache \cup C) = {}
  /\ DOMAIN w \subseteq Names
  /\ \A p \in DOMAIN w : w[p] \in EntrySet /\ w[p].kind # "none"

LEMMA HomeIs ==
  ASSUME NEW t, NEW o, NEW p \in Names, NEW e
  PROVE  /\ Home(t, o, p, e) \in {p, Parent[p]}
         /\ Home(t, o, p, e) \in Names
         /\ p \in {Home(t, o, p, e)} \cup Kids(Home(t, o, p, e))
  BY ParentIs DEF Home, HolderOf, Kids

LEMMA CachedIs ==
  ASSUME NEW t, NEW o, NEW p \in DOMAIN t.cache
  PROVE  /\ OrNew(t, o, p) = t.cache[p] /\ DirectoryOf(t, o, p) = t.cache[p]
         /\ HasOf(t, o, p)
  BY DEF OrNew, HasOf, DirectoryOf, Found

LEMMA HangsStill ==
  ASSUME NEW o, NEW t, NEW u, NEW C, NEW S, NEW w,
         IsStore(o), Hangs(t, o), Becomes(t, u, o, C, S, w), Allowed(t, C, S, w)
  PROVE  Hangs(u, o)
<1>1. /\ u = [id |-> t.id, cache |-> u.cache] /\ DOMAIN u.cache = DOMAIN t.cache \cup C
      /\ \A q \in DOMAIN t.cache \ C : u.cache[q] = t.cache[q]
  BY DEF Becomes
<1>2. IsTree(u) /\ u.id \in Roots(DOMAIN o) /\ DOMAIN u.cache \subseteq Names
  BY <1>1 DEF IsTree, Hangs, Allowed
<1>3. ASSUME NEW q \in C
      PROVE  /\ DOMAIN u.cache[q].subdirs =
                  (DOMAIN OrNew(t, o, q).subdirs \ S) \cup (C \cap Kids(q))
             /\ \A r \in DOMAIN u.cache[q].subdirs :
                  u.cache[q].subdirs[r] = IF r \in C THEN NoId ELSE OrNew(t, o, q).subdirs[r]
  BY DEF Becomes
<1>4. ASSUME NEW q \in C
      PROVE  IsObject(q, u.cache[q], {NoId} \cup DOMAIN o)
  <2>1. IsObject(q, OrNew(t, o, q), {NoId} \cup DOMAIN o)
    BY FoundIs DEF Allowed
  <2>2. u.cache[q] = [files |-> u.cache[q].files, subdirs |-> u.cache[q].subdirs]
    BY DEF Becomes
  <2>3. /\ DOMAIN u.cache[q].files =
             (DOMAIN OrNew(t, o, q).files \ S) \cup {p \in DOMAIN w : Home(t, o, p, w[p]) = q}
        /\ \A p \in DOMAIN u.cache[q].files :
             u.cache[q].files[p] = IF p \in DOMAIN w /\ Home(t, o, p, w[p]) = q THEN w[p]
                                   ELSE OrNew(t, o, q).files[p]
    BY DEF Becomes
  <2>4. DOMAIN u.cache[q].files \subseteq {q} \cup Kids(q)
    BY <2>1, <2>3, HomeIs DEF IsObject, Fits, Allowed
  <2>5. \A p \in DOMAIN u.cache[q].files : /\ u.cache[q].files[p] \in EntrySet
                                           /\ p # q => u.cache[q].files[p].kind # "none"
    BY <2>1, <2>3 DEF IsObject, Allowed
  <2>6. DOMAIN u.cache[q].subdirs \subseteq Kids(q)
    BY <1>3, <2>1 DEF IsObject, Fits
  <2>7. \A r \in DOMAIN u.cache[q].subdirs :
          /\ u.cache[q].subdirs[r] \in {NoId} \cup DOMAIN o
          /\ u.cache[q].subdirs[r] # NoId => u.cache[q].subdirs[r] \in {r} \X Nat
    BY <1>3, <2>1 DEF IsObject
  <2>. QED
    BY <2>2, <2>4, <2>5, <2>6, <2>7 DEF IsObject, Fits
<1>5. \A p \in DOMAIN u.cache : IsObject(p, u.cache[p], {NoId} \cup DOMAIN o)
  BY <1>1, <1>4 DEF Hangs
<1>6. ASSUME NEW p \in DOMAIN u.cache \ {Root}
      PROVE  /\ Parent[p] \in DOMAIN u.cache
             /\ p \in DOMAIN u.cache[Parent[p]].subdirs
             /\ u.cache[Parent[p]].subdirs[p] = NoId
  <2>1. CASE p \in C
    <3>1. Parent[p] \in C /\ p \in C \cap Kids(Parent[p])
      BY <2>1 DEF Allowed, Kids
    <3>. QED
      BY <1>1, <1>3, <2>1, <3>1
  <2>2. CASE p \notin C
    <3>1. /\ p \in DOMAIN t.cache /\ Parent[p] \in DOMAIN t.cache
          /\ p \in DOMAIN t.cache[Parent[p]].subdirs
          /\ t.cache[Parent[p]].subdirs[p] = NoId
      BY <1>1, <2>2 DEF Hangs, CacheUp
    <3>2. CASE Parent[p] \in C
      <4>1. OrNew(t, o, Parent[p]) = t.cache[Parent[p]] /\ p \notin S
        BY <3>1, CachedIs DEF Allowed
      <4>. QED
        BY <1>1, <1>3, <2>2, <3>1, <3>2, <4>1
    <3>3. CASE Parent[p] \notin C
      BY <1>1, <3>1, <3>3
    <3>. QED
      BY <3>2, <3>3
  <2>. QED
    BY <2>1, <2>2
<1>7. ASSUME NEW p \in DOMAIN u.cache, NEW q \in DOMAIN u.cache[p].subdirs,
             u.cache[p].subdirs[q] = NoId
      PROVE  q \in DOMAIN u.cache
  <2>1. CASE p \in C
    <3>1. SUFFICES ASSUME q \notin C PROVE q \in DOMAIN t.cache
      BY <1>1
    <3>2. q \in DOMAIN OrNew(t, o, p).subdirs /\ OrNew(t, o, p).subdirs[q] = NoId
      BY <1>3, <1>7, <2>1, <3>1
    <3>3. p \in DOMAIN t.cache
      <4>1. SUFFICES ASSUME p \notin DOMAIN t.cache PROVE FALSE
        OBVIOUS
      <4>2. IsObject(p, OrNew(t, o, p), DOMAIN o)
        BY <2>1, <4>1, FoundIs DEF Allowed
      <4>. QED
        BY <3>2, <4>2, NoIdIs DEF IsObject, IsStore
    <3>. QED
      BY <3>2, <3>3, CachedIs DEF Hangs, CacheDown
  <2>2. CASE p \notin C
    BY <1>1, <1>7, <2>2 DEF Hangs, CacheDown
  <2>. QED
    BY <2>1, <2>2
<1>8. CacheUp(u) /\ CacheDown(u)
  BY <1>6, <1>7 DEF CacheUp, CacheDown
<1>. QED
  BY <1>2, <1>5, <1>8 DEF Hangs

(* Away from what was changed or removed the places stay.                  *)
LEMMA PlacesStay ==
  ASSUME NEW o, NEW t, NEW u, NEW C, NEW S, NEW w,
         IsStore(o), Hangs(t, o), Becomes(t, u, o, C, S, w), Allowed(t, C, S, w),
         NEW p \in Names
  PROVE  p \notin C /\ Above[p] \cap S = {} => PlacesOf(u, o)[p] = PlacesOf(t, o)[p]
<1> DEFINE SamePlace(q) == q \notin C /\ Above[q] \cap S = {} => PlacesOf(u, o)[q] = PlacesOf(t, o)[q]
           T == {q \in Names : SamePlace(q)}
<1>1. Root \in T
  <2>1. u.id = t.id
    BY DEF Becomes
  <2>. QED
    BY <2>1, PlacesOfIs, ParentIs
<1>2. ASSUME NEW q \in Names \ {Root}, Parent[q] \in T PROVE q \in T
  <2>1. SUFFICES ASSUME q \notin C, Above[q] \cap S = {}
                 PROVE  PlacesOf(u, o)[q] = PlacesOf(t, o)[q]
    OBVIOUS
  <2> DEFINE r == Parent[q]
             d == Found(u, o, r, PlacesOf(u, o)[r])
             e == Found(t, o, r, PlacesOf(t, o)[r])
  <2>2. Above[r] \cap S = {} /\ q \notin S /\ r \in Names
    BY <2>1, AboveIs, ParentIs
  <2>3. /\ PlacesOf(u, o)[q] = IF q \in DOMAIN d.subdirs THEN d.subdirs[q] ELSE NoId
        /\ PlacesOf(t, o)[q] = IF q \in DOMAIN e.subdirs THEN e.subdirs[q] ELSE NoId
    BY PlacesOfIs DEF Place
  <2>4. CASE r \in C
    <3>1. d = u.cache[r]
      BY <2>4 DEF Found, Becomes
    <3>2. /\ DOMAIN d.subdirs = (DOMAIN OrNew(t, o, r).subdirs \ S) \cup (C \cap Kids(r))
          /\ \A s \in DOMAIN d.subdirs :
               d.subdirs[s] = IF s \in C THEN NoId ELSE OrNew(t, o, r).subdirs[s]
      <4>. HIDE DEF d, r
      <4>. QED
        BY <2>4, <3>1 DEF Becomes
    <3>3. OrNew(t, o, r).subdirs = e.subdirs
      <4>1. CASE HasOf(t, o, r)
        BY <4>1 DEF OrNew, DirectoryOf
      <4>2. CASE ~HasOf(t, o, r)
        <5>1. e = NoDirectory
          BY <2>2, <4>2, FoundIs DEF DirectoryOf
        <5>. HIDE DEF e
        <5>. QED
          BY <4>2, <5>1 DEF OrNew, NoDirectory, NewDirectory
      <4>. QED
        BY <4>1, <4>2
    <3>. HIDE DEF d, e
    <3>. QED
      BY <2>1, <2>2, <2>3, <3>2, <3>3
  <2>5. CASE r \notin C
    <3>1. PlacesOf(u, o)[r] = PlacesOf(t, o)[r]
      BY <1>2, <2>2, <2>5
    <3>2. d = e
      BY <2>5, <3>1 DEF Found, Becomes
    <3>. HIDE DEF d, e
    <3>. QED
      BY <2>3, <3>2
  <2>. QED
    BY <2>4, <2>5
<1>3. T = Names
  <2>. HIDE DEF T
  <2>1. T \in SUBSET Names
    BY DEF T
  <2>. QED
    BY <1>1, <1>2, <2>1, TreeInduction
<1>. QED
  BY <1>3

-----------------------------------------------------------------------------
(* What a change does to the entries                                       *)

LEMMA NotOwnParent ==
  ASSUME NEW p \in Names \ {Root}
  PROVE  Parent[p] # p
<1>1. {p} \in SUBSET Names /\ {p} # {}
  OBVIOUS
<1>2. PICK q \in {p} : q = Root \/ Parent[q] \notin {p}
  BY <1>1, TreeAssumption
<1>. QED
  BY <1>2

(* A path has an entry in its own directory, or in that of its parent.     *)
Clear(t, o, p) == p # Root /\ ~HasOf(t, o, p) => p \notin DOMAIN DirectoryOf(t, o, Parent[p]).files

LEMMA EntryStays ==
  ASSUME NEW o, NEW t, NEW u, NEW C, NEW S, NEW w,
         IsStore(o), Hangs(t, o), Becomes(t, u, o, C, S, w), Allowed(t, C, S, w),
         Homes(t, o, w) \subseteq C,
         NEW p \in Names, Above[p] \cap S = {},
         p \in C => Clear(t, o, p) /\ (p \in DOMAIN w => w[p].kind = "dir")
  PROVE  /\ EntryOf(u, o, p) = IF p \in DOMAIN w THEN w[p] ELSE EntryOf(t, o, p)
         /\ p \notin C => (HasOf(u, o, p) <=> HasOf(t, o, p))
<1>1. /\ DOMAIN u.cache = DOMAIN t.cache \cup C
      /\ \A q \in DOMAIN t.cache \ C : u.cache[q] = t.cache[q]
  BY DEF Becomes
<1>2. ASSUME NEW q \in C
      PROVE  /\ DirectoryOf(u, o, q) = u.cache[q] /\ HasOf(u, o, q)
             /\ DOMAIN u.cache[q].files =
                  (DOMAIN OrNew(t, o, q).files \ S)
                    \cup {r \in DOMAIN w : Home(t, o, r, w[r]) = q}
             /\ \A r \in DOMAIN u.cache[q].files :
                  u.cache[q].files[r] = IF r \in DOMAIN w /\ Home(t, o, r, w[r]) = q THEN w[r]
                                        ELSE OrNew(t, o, q).files[r]
  <2>1. DirectoryOf(u, o, q) = u.cache[q] /\ HasOf(u, o, q)
    <3>1. q \in DOMAIN u.cache
      BY <1>1
    <3>. QED
      BY <3>1, CachedIs
  <2>. QED
    BY <2>1 DEF Becomes
<1>3. ASSUME NEW q \in Names \ C, Above[q] \cap S = {}
      PROVE  /\ DirectoryOf(u, o, q) = DirectoryOf(t, o, q)
             /\ HasOf(u, o, q) <=> HasOf(t, o, q)
  <2>1. PlacesOf(u, o)[q] = PlacesOf(t, o)[q]
    BY <1>3, PlacesStay
  <2>2. q \in DOMAIN u.cache <=> q \in DOMAIN t.cache
    BY <1>1
  <2>. QED
    BY <1>1, <2>1, <2>2 DEF DirectoryOf, Found, HasOf
<1>4. p \notin S /\ Parent[p] \in Names /\ Above[Parent[p]] \cap S = {}
  BY AboveIs, ParentIs
<1>5. p \in DOMAIN w => Home(t, o, p, w[p]) \in C
  BY DEF Homes
<1>6. ASSUME NEW q \in Names, ~HasOf(t, o, q)
      PROVE  DirectoryOf(t, o, q) = NoDirectory /\ OrNew(t, o, q) = NewDirectory(q)
  BY <1>6, FoundIs DEF OrNew
<1>7. CASE p \in C
  <2>1. EntryOf(u, o, p) = IF p \in DOMAIN u.cache[p].files THEN u.cache[p].files[p] ELSE NoKeys
    BY <1>2, <1>7 DEF EntryOf, ExistsOf, HolderOf
  <2>2. CASE p \in DOMAIN w
    <3>1. Home(t, o, p, w[p]) = p
      <4>1. CASE HasOf(t, o, p)
        BY <4>1 DEF Home, HolderOf
      <4>2. CASE ~HasOf(t, o, p) /\ p = Root
        BY <4>2, ParentIs DEF Home, HolderOf
      <4>3. CASE ~HasOf(t, o, p) /\ p # Root
        BY <1>7, <2>2, <4>3 DEF Home, HolderOf, ExistsOf, Clear
      <4>. QED
        BY <4>1, <4>2, <4>3
    <3>2. p \in DOMAIN u.cache[p].files /\ u.cache[p].files[p] = w[p]
      BY <1>2, <1>7, <2>2, <3>1
    <3>. QED
      BY <1>7, <2>1, <2>2, <3>2
  <2>3. CASE p \notin DOMAIN w /\ HasOf(t, o, p)
    <3>1. OrNew(t, o, p) = DirectoryOf(t, o, p)
      BY <2>3 DEF OrNew
    <3>2. /\ p \in DOMAIN u.cache[p].files <=> p \in DOMAIN DirectoryOf(t, o, p).files
          /\ p \in DOMAIN u.cache[p].files
               => u.cache[p].files[p] = DirectoryOf(t, o, p).files[p]
      BY <1>2, <1>4, <1>7, <2>3, <3>1
    <3>. QED
      BY <1>7, <2>1, <2>3, <3>2 DEF EntryOf, ExistsOf, HolderOf
  <2>4. CASE p \notin DOMAIN w /\ ~HasOf(t, o, p)
    <3>1. OrNew(t, o, p) = NewDirectory(p) /\ DirectoryOf(t, o, p) = NoDirectory
      BY <1>6, <2>4
    <3>2. p \in DOMAIN u.cache[p].files /\ u.cache[p].files[p] = NoKeys
      BY <1>2, <1>4, <1>7, <2>4, <3>1 DEF NewDirectory
    <3>3. EntryOf(t, o, p) = NoKeys
      <4>1. CASE p = Root
        BY <2>4, <3>1, <4>1, ParentIs DEF EntryOf, ExistsOf, HolderOf, NoDirectory
      <4>2. CASE p # Root
        BY <1>7, <2>4, <4>2 DEF EntryOf, ExistsOf, HolderOf, Clear
      <4>. QED
        BY <4>1, <4>2
    <3>. QED
      BY <1>7, <2>1, <2>4, <3>2, <3>3
  <2>. QED
    BY <2>2, <2>3, <2>4
<1>8. CASE p \notin C /\ HasOf(t, o, p)
  <2>1. p \notin DOMAIN w
    BY <1>5, <1>8 DEF Home, HolderOf
  <2>. QED
    BY <1>3, <1>8, <2>1 DEF EntryOf, ExistsOf, HolderOf
<1>9. CASE p \notin C /\ ~HasOf(t, o, p)
  <2>1. ~HasOf(u, o, p)
    BY <1>3, <1>9
  <2>2. /\ HolderOf(u, o, p) = Parent[p] /\ HolderOf(t, o, p) = Parent[p]
    BY <1>9, <2>1 DEF HolderOf
  <2>3. p \in DOMAIN w => Home(t, o, p, w[p]) = Parent[p]
    BY <1>5, <1>9, <2>2 DEF Home
  <2>4. CASE Parent[p] \in C
    <3>1. p # Root /\ Parent[p] # p
      BY <1>9, <2>4, NotOwnParent, ParentIs
    <3>2. CASE p \in DOMAIN w
      <4>1. p \in DOMAIN u.cache[Parent[p]].files /\ u.cache[Parent[p]].files[p] = w[p]
        BY <1>2, <2>3, <2>4, <3>2
      <4>. QED
        BY <1>2, <1>9, <2>1, <2>2, <2>4, <3>2, <4>1 DEF EntryOf, ExistsOf
    <3>3. CASE p \notin DOMAIN w
      <4>1. /\ p \in DOMAIN OrNew(t, o, Parent[p]).files
                 <=> p \in DOMAIN DirectoryOf(t, o, Parent[p]).files
            /\ p \in DOMAIN OrNew(t, o, Parent[p]).files
                 => OrNew(t, o, Parent[p]).files[p] = DirectoryOf(t, o, Parent[p]).files[p]
        <5>1. CASE HasOf(t, o, Parent[p])
          BY <5>1 DEF OrNew
        <5>2. CASE ~HasOf(t, o, Parent[p])
          <6>1. /\ OrNew(t, o, Parent[p]) = NewDirectory(Parent[p])
                /\ DirectoryOf(t, o, Parent[p]) = NoDirectory
            BY <1>4, <1>6, <5>2
          <6>2. p \notin DOMAIN NewDirectory(Parent[p]).files /\ p \notin DOMAIN NoDirectory.files
            BY <3>1 DEF NewDirectory, NoDirectory
          <6>. QED
            BY <6>1, <6>2
        <5>. QED
          BY <5>1, <5>2
      <4>2. /\ p \in DOMAIN u.cache[Parent[p]].files
                 <=> p \in DOMAIN OrNew(t, o, Parent[p]).files
            /\ p \in DOMAIN u.cache[Parent[p]].files
                 => u.cache[Parent[p]].files[p] = OrNew(t, o, Parent[p]).files[p]
        BY <1>2, <1>4, <2>4, <3>3
      <4>. QED
        BY <1>2, <1>9, <2>1, <2>2, <2>4, <3>3, <4>1, <4>2 DEF EntryOf, ExistsOf
    <3>. QED
      BY <3>2, <3>3
  <2>5. CASE Parent[p] \notin C
    <3>1. p \notin DOMAIN w
      BY <1>5, <2>3, <2>5
    <3>2. DirectoryOf(u, o, Parent[p]) = DirectoryOf(t, o, Parent[p])
      BY <1>3, <1>4, <2>5
    <3>. QED
      BY <1>9, <2>1, <2>2, <3>1, <3>2 DEF EntryOf, ExistsOf
  <2>. QED
    BY <2>4, <2>5
<1>. QED
  BY <1>7, <1>8, <1>9

-----------------------------------------------------------------------------
(* Storing a tree: its cached objects get the identifiers f, and refer to  *)
(* each other by them.  The store o becomes x.                             *)

Fix(d, f) ==
  [d EXCEPT !.subdirs = [q \in DOMAIN @ |-> IF @[q] = NoId THEN f[q] ELSE @[q]]]
Cached(t, p) == t.cache[p]
Fresh(o, f) == \A p \in Names : f[p] \in ({p} \X Nat) \ DOMAIN o
IsStored(t, o, f, x) ==
  /\ DOMAIN x = DOMAIN o \cup {f[p] : p \in DOMAIN t.cache}
  /\ \A i \in DOMAIN o : x[i] = o[i]
  /\ \A p \in DOMAIN t.cache : \A i : i = f[p] => x[i] = Fix(Cached(t, p), f)

LEMMA TreeIs ==
  ASSUME NEW id
  PROVE  IsTree(Tree(id)) /\ Tree(id).id = id /\ Tree(id).cache = <<>> /\ DOMAIN Tree(id).cache = {}
  BY DEF IsTree, Tree

LEMMA RootTreeHangs ==
  ASSUME NEW o, NEW id \in Roots(DOMAIN o)
  PROVE  Hangs(Tree(id), o)
  BY TreeIs DEF Hangs, CacheUp, CacheDown

LEMMA FixIs ==
  ASSUME NEW d, d = [files |-> d.files, subdirs |-> d.subdirs], NEW f, NEW e, e = Fix(d, f)
  PROVE  /\ e = [files |-> e.files, subdirs |-> e.subdirs]
         /\ e.files = d.files
         /\ DOMAIN e.subdirs = DOMAIN d.subdirs
         /\ \A q \in DOMAIN d.subdirs :
              e.subdirs[q] = IF d.subdirs[q] = NoId THEN f[q] ELSE d.subdirs[q]
<1>1. e = [files |-> d.files,
           subdirs |-> [q \in DOMAIN d.subdirs |->
                          IF d.subdirs[q] = NoId THEN f[q] ELSE d.subdirs[q]]]
  BY DEF Fix
<1>. QED
  BY <1>1

(* What the cache has for p: it refers to the cache for what is there.     *)
RefersTo(d, S) == \A q \in DOMAIN d.subdirs : d.subdirs[q] = NoId <=> q \in S

LEMMA CachedHangs ==
  ASSUME NEW t, NEW o, IsStore(o), Hangs(t, o), NEW p \in DOMAIN t.cache, NEW d, d = Cached(t, p)
  PROVE  /\ IsObject(p, d, {NoId} \cup DOMAIN o) /\ p \in Names
         /\ \A q \in DOMAIN d.subdirs : q \in Names \ {Root}
         /\ RefersTo(d, DOMAIN t.cache)
         /\ \A q \in DOMAIN t.cache \cap Kids(p) : q \in DOMAIN d.subdirs
<1>1. d = t.cache[p]
  BY DEF Cached
<1>2. IsObject(p, d, {NoId} \cup DOMAIN o) /\ p \in Names
  BY <1>1 DEF Hangs
<1>3. \A q \in DOMAIN d.subdirs : q \in Kids(p)
  BY <1>2 DEF IsObject, Fits
<1>4. ASSUME NEW q \in DOMAIN t.cache \cap Kids(p)
      PROVE  q \in DOMAIN d.subdirs /\ d.subdirs[q] = NoId
  <2>1. Parent[q] = p /\ q # Root
    BY DEF Kids
  <2>. QED
    BY <1>1, <2>1 DEF Hangs, CacheUp
<1>5. ASSUME NEW q \in DOMAIN d.subdirs, d.subdirs[q] = NoId
      PROVE  q \in DOMAIN t.cache
  BY <1>1, <1>5 DEF Hangs, CacheDown
<1>. QED
  BY <1>2, <1>3, <1>4, <1>5 DEF Kids, RefersTo

LEMMA StoredHas ==
  ASSUME NEW t, NEW o, NEW f, NEW x, IsStored(t, o, f, x), NEW p \in DOMAIN t.cache,
         NEW i, i = f[p]
  PROVE  i \in DOMAIN x /\ x[i] = Fix(Cached(t, p), f)
  BY DEF IsStored

LEMMA StoredKeeps ==
  ASSUME NEW t, NEW o, NEW f, NEW x, IsStored(t, o, f, x)
  PROVE  \A i \in DOMAIN o : i \in DOMAIN x /\ x[i] = o[i]
  BY DEF IsStored

LEMMA StoredIsStore ==
  ASSUME NEW t, NEW o, NEW f, NEW x, IsStore(o), Hangs(t, o), Fresh(o, f), IsStored(t, o, f, x)
  PROVE  IsStore(x)
<1>1. DOMAIN x \subseteq Names \X Nat
  <2>1. \A p \in DOMAIN t.cache : f[p] \in Names \X Nat
    BY DEF Hangs, Fresh
  <2>. QED
    BY <2>1 DEF IsStore, IsStored
<1>2. ASSUME NEW i \in DOMAIN x PROVE IsObject(i[1], x[i], DOMAIN x)
  <2>1. CASE i \in DOMAIN o
    <3>1. IsObject(i[1], o[i], DOMAIN o) /\ DOMAIN o \subseteq DOMAIN x /\ x[i] = o[i]
      BY <2>1, StoredKeeps DEF IsStore
    <3>. QED
      BY <3>1 DEF IsObject
  <2>2. ASSUME NEW p \in DOMAIN t.cache, i = f[p]
        PROVE  IsObject(i[1], x[i], DOMAIN x)
    <3> DEFINE d == Cached(t, p)
               e == Fix(d, f)
    <3>1. p \in Names /\ i[1] = p /\ x[i] = e
      BY <2>2, StoredHas DEF Hangs, Fresh
    <3> HIDE DEF d
    <3>2. IsObject(p, d, {NoId} \cup DOMAIN o)
      BY CachedHangs DEF d
    <3>3. \A q \in DOMAIN d.subdirs :
            q \in Names /\ (d.subdirs[q] = NoId => q \in DOMAIN t.cache)
      BY CachedHangs DEF d, RefersTo
    <3> HIDE DEF e
    <3>4. /\ e = [files |-> e.files, subdirs |-> e.subdirs]
          /\ e.files = d.files
          /\ DOMAIN e.subdirs = DOMAIN d.subdirs
          /\ \A q \in DOMAIN d.subdirs :
               e.subdirs[q] = IF d.subdirs[q] = NoId THEN f[q] ELSE d.subdirs[q]
      BY <3>2, FixIs DEF IsObject, e
    <3>5. ASSUME NEW q \in DOMAIN e.subdirs
          PROVE  e.subdirs[q] \in DOMAIN x /\ e.subdirs[q] \in {q} \X Nat
      <4>1. CASE d.subdirs[q] = NoId
        <5>1. e.subdirs[q] = f[q] /\ q \in DOMAIN t.cache /\ q \in Names
          BY <3>3, <3>4, <4>1
        <5>2. f[q] \in DOMAIN x
          BY <5>1, StoredHas
        <5>. QED
          BY <5>1, <5>2 DEF Fresh
      <4>2. CASE d.subdirs[q] # NoId
        <5>1. e.subdirs[q] = d.subdirs[q]
          BY <3>4, <4>2
        <5>2. d.subdirs[q] \in DOMAIN o /\ d.subdirs[q] \in {q} \X Nat
          BY <3>2, <3>4, <4>2 DEF IsObject
        <5>. QED
          BY <5>1, <5>2, StoredKeeps
      <4>. QED
        BY <4>1, <4>2
    <3>6. /\ Fits(e, p)
          /\ \A q \in DOMAIN e.files : /\ e.files[q] \in EntrySet
                                       /\ q # p => e.files[q].kind # "none"
      BY <3>2, <3>4 DEF IsObject, Fits
    <3>7. IsObject(p, e, DOMAIN x)
      BY <3>4, <3>5, <3>6 DEF IsObject
    <3>. QED
      BY <3>1, <3>7
  <2>3. i \in DOMAIN o \/ \E p \in DOMAIN t.cache : i = f[p]
    BY DEF IsStored
  <2>. QED
    BY <2>1, <2>2, <2>3
<1>. QED
  BY <1>1, <1>2 DEF IsStore

(* The new tree has the same directories at new places.                    *)
LEMMA StoredPlaces ==
  ASSUME NEW t, NEW o, NEW f, NEW x, IsStore(o), Hangs(t, o), Fresh(o, f), IsStored(t, o, f, x),
         Root \in DOMAIN t.cache, NEW p \in Names
  PROVE  PlacesOf(Tree(f[Root]), x)[p] =
           IF p \in DOMAIN t.cache THEN f[p] ELSE PlacesOf(t, o)[p]
<1> DEFINE u == Tree(f[Root])
           Is(q) == PlacesOf(u, x)[q] = IF q \in DOMAIN t.cache THEN f[q] ELSE PlacesOf(t, o)[q]
           T == {q \in Names : Is(q)}
<1>1. Root \in T
  BY PlacesOfIs, TreeIs, ParentIs
<1>2. ASSUME NEW q \in Names \ {Root}, Parent[q] \in T PROVE q \in T
  <2> DEFINE r == Parent[q]
             d == Found(u, x, r, PlacesOf(u, x)[r])
             e == Found(t, o, r, PlacesOf(t, o)[r])
  <2>1. /\ PlacesOf(u, x)[q] = IF q \in DOMAIN d.subdirs THEN d.subdirs[q] ELSE NoId
        /\ PlacesOf(t, o)[q] = IF q \in DOMAIN e.subdirs THEN e.subdirs[q] ELSE NoId
    BY PlacesOfIs DEF Place
  <2>2. CASE r \in DOMAIN t.cache
    <3>1. d = Fix(Cached(t, r), f) /\ e = Cached(t, r)
      <4>1. PlacesOf(u, x)[r] = f[r]
        BY <1>2, <2>2
      <4>2. f[r] \in DOMAIN x /\ x[f[r]] = Fix(Cached(t, r), f)
        BY <2>2, StoredHas
      <4>. QED
        BY <2>2, <4>1, <4>2, TreeIs DEF Found, Cached
    <3>2. /\ IsObject(r, e, {NoId} \cup DOMAIN o)
          /\ \A s \in DOMAIN e.subdirs : e.subdirs[s] = NoId <=> s \in DOMAIN t.cache
          /\ \A s \in DOMAIN t.cache \cap Kids(r) : s \in DOMAIN e.subdirs
      <4>. HIDE DEF d, e, r
      <4>1. e = Cached(t, r)
        BY <3>1
      <4>. QED
        <5>1. IsObject(r, e, {NoId} \cup DOMAIN o)
          BY <2>2, <4>1, CachedHangs
        <5>2. \A s \in DOMAIN e.subdirs : e.subdirs[s] = NoId <=> s \in DOMAIN t.cache
          <6>1. RefersTo(e, DOMAIN t.cache)
            BY <2>2, <4>1, CachedHangs
          <6>. QED
            BY <6>1 DEF RefersTo
        <5>3. \A s \in DOMAIN t.cache \cap Kids(r) : s \in DOMAIN e.subdirs
          BY <2>2, <4>1, CachedHangs
        <5>. QED
          BY <5>1, <5>2, <5>3
    <3>3. q \in Kids(r)
      BY DEF Kids
    <3>. HIDE DEF d, e
    <3>4. /\ DOMAIN d.subdirs = DOMAIN e.subdirs
          /\ \A s \in DOMAIN e.subdirs :
               d.subdirs[s] = IF e.subdirs[s] = NoId THEN f[s] ELSE e.subdirs[s]
      BY <3>1, <3>2, FixIs DEF IsObject
    <3>. HIDE DEF u, r
    <3>5. CASE q \in DOMAIN t.cache
      BY <2>1, <3>2, <3>3, <3>4, <3>5
    <3>6. CASE q \notin DOMAIN t.cache
      BY <2>1, <3>2, <3>4, <3>6
    <3>. QED
      BY <3>5, <3>6 DEF u
  <2>3. CASE r \notin DOMAIN t.cache
    <3>1. PlacesOf(u, x)[r] = PlacesOf(t, o)[r]
      BY <1>2, <2>3
    <3>2. PlacesOf(t, o)[r] \in {NoId} \cup DOMAIN o
      BY PlacesFit, ParentIs
    <3>3. NoId \notin DOMAIN x /\ NoId \notin DOMAIN o
      BY StoredIsStore, NoIdIs DEF IsStore
    <3>4. d = e
      BY <2>3, <3>1, <3>2, <3>3, StoredKeeps, TreeIs DEF Found
    <3>5. q \notin DOMAIN t.cache
      BY <2>3 DEF Hangs, CacheUp
    <3>. HIDE DEF d, e
    <3>. QED
      BY <2>1, <3>4, <3>5
  <2>. QED
    BY <2>2, <2>3
<1>3. T = Names
  <2>. HIDE DEF T
  <2>1. T \in SUBSET Names
    BY DEF T
  <2>. QED
    BY <1>1, <1>2, <2>1, TreeInduction
<1>. QED
  BY <1>3

LEMMA StoredHangs ==
  ASSUME NEW t, NEW o, NEW f, NEW x, IsStore(o), Hangs(t, o), Fresh(o, f), IsStored(t, o, f, x),
         Root \in DOMAIN t.cache
  PROVE  Hangs(Tree(f[Root]), x)
<1>1. f[Root] \in DOMAIN x /\ f[Root][1] = Root
  <2>1. f[Root] \in {Root} \X Nat
    BY TreeAssumption DEF Fresh
  <2>2. f[Root] \in DOMAIN x
    BY StoredHas
  <2>. QED
    BY <2>1, <2>2
<1>. QED
  BY <1>1, RootTreeHangs DEF Roots

(* So it has the same entries.                                             *)
LEMMA StoredSame ==
  ASSUME NEW t, NEW o, NEW f, NEW x, IsStore(o), Hangs(t, o), Fresh(o, f), IsStored(t, o, f, x),
         Root \in DOMAIN t.cache, NEW p \in Names
  PROVE  LET u == Tree(f[Root])
         IN  /\ HasOf(u, x, p) <=> HasOf(t, o, p)
             /\ EntryOf(u, x, p) = EntryOf(t, o, p)
<1> DEFINE u == Tree(f[Root])
<1>1. ASSUME NEW q \in Names
      PROVE  /\ HasOf(u, x, q) <=> HasOf(t, o, q)
             /\ DirectoryOf(u, x, q).files = DirectoryOf(t, o, q).files
  <2>1. CASE q \in DOMAIN t.cache
    <3>1. PlacesOf(u, x)[q] = f[q] /\ f[q] \in DOMAIN x /\ x[f[q]] = Fix(Cached(t, q), f)
      BY <2>1, StoredPlaces, StoredHas
    <3>2. HasOf(u, x, q) /\ DirectoryOf(u, x, q) = Fix(Cached(t, q), f)
      BY <3>1, TreeIs DEF HasOf, DirectoryOf, Found
    <3>3. HasOf(t, o, q) /\ DirectoryOf(t, o, q) = Cached(t, q)
      BY <2>1, CachedIs DEF Cached
    <3> DEFINE d == Cached(t, q)
    <3>4. IsObject(q, d, {NoId} \cup DOMAIN o)
      BY <2>1, CachedHangs
    <3>5. Fix(d, f).files = d.files
      <4>. HIDE DEF d
      <4>. QED
        BY <3>4, FixIs DEF IsObject
    <3>. QED
      BY <3>2, <3>3, <3>5
  <2>2. CASE q \notin DOMAIN t.cache
    <3>1. PlacesOf(u, x)[q] = PlacesOf(t, o)[q]
      BY <2>2, StoredPlaces
    <3>2. PlacesOf(t, o)[q] \in {NoId} \cup DOMAIN o
      BY PlacesFit
    <3>3. NoId \notin DOMAIN x /\ NoId \notin DOMAIN o
      BY StoredIsStore, NoIdIs DEF IsStore
    <3>4. PlacesOf(t, o)[q] \in DOMAIN x <=> PlacesOf(t, o)[q] \in DOMAIN o
      BY <3>2, <3>3, StoredKeeps
    <3>5. PlacesOf(t, o)[q] \in DOMAIN o => x[PlacesOf(t, o)[q]] = o[PlacesOf(t, o)[q]]
      BY StoredKeeps
    <3>. QED
      BY <2>2, <3>1, <3>4, <3>5, TreeIs DEF HasOf, DirectoryOf, Found
  <2>. QED
    BY <2>1, <2>2
<1>. QED
  BY <1>1, ParentIs DEF EntryOf, ExistsOf, HolderOf

-----------------------------------------------------------------------------
(* Parts of a store                                                        *)

PartOf(x, o) == DOMAIN x \subseteq DOMAIN o /\ \A i \in DOMAIN x : x[i] = o[i]

(* A part that is a store has the same of its trees.                       *)
LEMMA PartPlaces ==
  ASSUME NEW o, NEW x, IsStore(o), IsStore(x), PartOf(x, o), NEW id \in Roots(DOMAIN x),
         NEW p \in Names
  PROVE  PlacesOf(Tree(id), x)[p] = PlacesOf(Tree(id), o)[p]
<1> DEFINE u == Tree(id)
           T == {q \in Names : PlacesOf(u, x)[q] = PlacesOf(u, o)[q]}
<1>1. Root \in T
  BY PlacesOfIs, ParentIs
<1>2. ASSUME NEW q \in Names \ {Root}, Parent[q] \in T PROVE q \in T
  <2> DEFINE r == Parent[q]
             v == PlacesOf(u, x)[r]
             d == Found(u, x, r, v)
             e == Found(u, o, r, v)
  <2>1. /\ PlacesOf(u, x)[q] = IF q \in DOMAIN d.subdirs THEN d.subdirs[q] ELSE NoId
        /\ PlacesOf(u, o)[q] = IF q \in DOMAIN e.subdirs THEN e.subdirs[q] ELSE NoId
    BY <1>2, PlacesOfIs DEF Place
  <2>2. v \in {NoId} \cup DOMAIN x
    BY PlacesFit, ParentIs, RootTreeHangs
  <2>3. NoId \notin DOMAIN x /\ NoId \notin DOMAIN o
    BY NoIdIs DEF IsStore
  <2>. HIDE DEF v
  <2>4. d = e
    BY <2>2, <2>3, TreeIs DEF Found, PartOf
  <2>. HIDE DEF d, e
  <2>. QED
    BY <2>1, <2>4
<1>3. T = Names
  <2>. HIDE DEF T
  <2>1. T \in SUBSET Names
    BY DEF T
  <2>. QED
    BY <1>1, <1>2, <2>1, TreeInduction
<1>. QED
  BY <1>3

LEMMA PartSame ==
  ASSUME NEW o, NEW x, IsStore(o), IsStore(x), PartOf(x, o), NEW id \in Roots(DOMAIN x)
  PROVE  /\ \A p \in Names : /\ HasOf(Tree(id), x, p) <=> HasOf(Tree(id), o, p)
                             /\ EntryOf(Tree(id), x, p) = EntryOf(Tree(id), o, p)
         /\ ReachOf(id, x) = ReachOf(id, o)
<1> DEFINE u == Tree(id)
<1>1. ASSUME NEW p \in Names
      PROVE  /\ HasOf(u, x, p) <=> HasOf(u, o, p)
             /\ DirectoryOf(u, x, p) = DirectoryOf(u, o, p)
  <2> DEFINE v == PlacesOf(u, x)[p]
  <2>1. v = PlacesOf(u, o)[p]
    BY PartPlaces
  <2>2. v \in {NoId} \cup DOMAIN x
    BY PlacesFit, RootTreeHangs
  <2>3. NoId \notin DOMAIN x /\ NoId \notin DOMAIN o
    BY NoIdIs DEF IsStore
  <2>. HIDE DEF v
  <2>4. (v \in DOMAIN x <=> v \in DOMAIN o) /\ (v \in DOMAIN x => x[v] = o[v])
    BY <2>2, <2>3 DEF PartOf
  <2>. QED
    BY <2>1, <2>4, TreeIs DEF HasOf, DirectoryOf, Found, v
<1>2. \A p \in Names : EntryOf(u, x, p) = EntryOf(u, o, p)
  BY <1>1, ParentIs DEF EntryOf, ExistsOf, HolderOf
<1>3. ReachOf(id, x) = ReachOf(id, o)
  BY PartPlaces DEF ReachOf
<1>. QED
  BY <1>1, <1>2, <1>3

(* What is reached from roots is stored, and a store.                      *)
LEMMA ReachIs ==
  ASSUME NEW o, IsStore(o), NEW id \in Roots(DOMAIN o), NEW i \in ReachOf(id, o)
  PROVE  /\ i \in DOMAIN o
         /\ IsObject(i[1], o[i], ReachOf(id, o))
<1> DEFINE u == Tree(id)
<1>1. PICK p \in Names : i = PlacesOf(u, o)[p] /\ i # NoId
  BY DEF ReachOf
<1>2. i \in DOMAIN o /\ i[1] = p
  BY <1>1, PlacesFit, RootTreeHangs
<1>3. IsObject(p, o[i], DOMAIN o)
  BY <1>2 DEF IsStore
<1> DEFINE d == o[i]
<1>4. d = Found(u, o, p, i)
  BY <1>2, TreeIs DEF Found
<1> HIDE DEF d
<1>5. ASSUME NEW q \in DOMAIN d.subdirs
      PROVE  d.subdirs[q] \in ReachOf(id, o)
  <2>1. q \in Names \ {Root} /\ Parent[q] = p /\ d.subdirs[q] \in DOMAIN o
    BY <1>3 DEF IsObject, Fits, Kids, d
  <2>2. PlacesOf(u, o)[q] = d.subdirs[q]
    BY <1>1, <1>4, <2>1, PlacesOfIs DEF Place
  <2>3. NoId \notin DOMAIN o
    BY NoIdIs DEF IsStore
  <2>. QED
    BY <2>1, <2>2, <2>3 DEF ReachOf
<1>6. IsObject(p, d, ReachOf(id, o))
  BY <1>3, <1>5 DEF IsObject, d
<1>. QED
  BY <1>2, <1>6 DEF d

ReachSet(X, o) == UNION {ReachOf(id, o) : id \in X}

LEMMA ReachSetIsStore ==
  ASSUME NEW o, IsStore(o), NEW X \in SUBSET Roots(DOMAIN o), NEW x,
         DOMAIN x = ReachSet(X, o), \A i \in DOMAIN x : x[i] = o[i]
  PROVE  IsStore(x) /\ PartOf(x, o) /\ X \subseteq Roots(DOMAIN x)
<1>1. ASSUME NEW i \in DOMAIN x
      PROVE  i \in DOMAIN o /\ IsObject(i[1], x[i], DOMAIN x)
  <2>1. PICK id \in X : i \in ReachOf(id, o)
    BY DEF ReachSet
  <2>2. i \in DOMAIN o /\ IsObject(i[1], o[i], ReachOf(id, o))
    BY <2>1, ReachIs
  <2>3. ReachOf(id, o) \subseteq DOMAIN x
    BY DEF ReachSet
  <2>. QED
    BY <2>2, <2>3 DEF IsObject
<1>2. ASSUME NEW id \in X PROVE id \in Roots(DOMAIN x)
  <2>1. id # NoId => id \in ReachOf(id, o)
    BY PlacesOfIs, TreeIs, TreeAssumption DEF ReachOf
  <2>. QED
    BY <2>1 DEF ReachSet, Roots
<1>. QED
  BY <1>1, <1>2 DEF IsStore, PartOf

-----------------------------------------------------------------------------
(* The invariant: stored objects                                           *)

BagsInv ==
  /\ bags = [i \in DOMAIN bags |-> bags[i]]
  /\ IsFiniteSet(DOMAIN bags)
  /\ IsStore(bags)

(* What is to be written refers to what is there and to itself; only a     *)
(* tree that has been flushed refers to it.                                *)
PutInv ==
  /\ IsFiniteSet(DOMAIN put)
  /\ DOMAIN put \cap DOMAIN bags = {}
  /\ IsStore(Store)
  /\ put # <<>> => mem = Tree(mem.id)

DataInv == clientData \in Seq(Roots(DOMAIN bags))

StoreInv == BagsInv /\ PutInv /\ DataInv /\ Hangs(mem, Store)

LEMMA StoreIs ==
  /\ DOMAIN Store = DOMAIN bags \cup DOMAIN put
  /\ \A i \in DOMAIN Store : Store[i] = Object(i)
  BY DEF Store, Blobs

LEMMA EmptyStore ==
  ASSUME BagsInv, put = <<>>
  PROVE  Store = bags
<1>1. DOMAIN put = {}
  OBVIOUS
<1>. QED
  BY <1>1 DEF Store, Blobs, Object, BagsInv

LEMMA BagsArePart ==
  ASSUME PutInv
  PROVE  PartOf(bags, Store)
  BY StoreIs DEF PartOf, Object, PutInv

LEMMA FreshIs ==
  ASSUME IsFiniteSet(DOMAIN bags), NEW p
  PROVE  FreshId(p) \in ({p} \X Nat) \ DOMAIN bags
<1> DEFINE n == Cardinality(DOMAIN bags)
           S == 1..(n + 1)
<1>1. n \in Nat
  BY FS_CardinalityType
<1>2. \E k \in S : <<p, k>> \notin DOMAIN bags
  <2>1. SUFFICES ASSUME \A k \in S : <<p, k>> \in DOMAIN bags PROVE FALSE
    OBVIOUS
  <2> DEFINE f == [k \in S |-> <<p, k>>]
  <2>2. f \in [S -> DOMAIN bags]
    BY <2>1
  <2>3. IsFiniteSet(S) /\ Cardinality(S) = n + 1
    <3>. HIDE DEF n
    <3>1. 1 \in Int /\ n + 1 \in Int /\ ~(1 > n + 1) /\ (n + 1) - 1 + 1 = n + 1
      BY <1>1
    <3>. QED
      BY <3>1, FS_Interval
  <2>4. n < Cardinality(S)
    <3>. HIDE DEF n, S
    <3>. QED
      BY <1>1, <2>3
  <2>5. \E x, y \in S : x # y /\ f[x] = f[y]
    <3>. HIDE DEF f, S
    <3>. QED
      BY <2>2, <2>3, <2>4, FS_PigeonHole
  <2>. QED
    BY <2>5
<1> DEFINE k == CHOOSE k \in S : <<p, k>> \notin DOMAIN bags
<1>3. FreshId(p) = <<p, k>>
  BY DEF FreshId
<1>4. k \in S /\ <<p, k>> \notin DOMAIN bags
  BY <1>2
<1>5. k \in Nat
  <2>. HIDE DEF k, n
  <2>. QED
    BY <1>1, <1>4
<1>. HIDE DEF k
<1>. QED
  BY <1>3, <1>4, <1>5

(* A flush finds what is in the cache.                                     *)
LEMMA InCacheIs ==
  ASSUME NEW t, NEW o, Hangs(t, o)
  PROVE  InCache(t) = DOMAIN t.cache
<1> DEFINE Up(p) == p \in DOMAIN t.cache =>
                      /\ Above[p] \subseteq DOMAIN t.cache
                      /\ \A q \in Above[p] \ {Root} : t.cache[Parent[q]].subdirs[q] = NoId
           T == {p \in Names : Up(p)}
<1>1. Root \in T
  BY TreeAssumption
<1>2. ASSUME NEW p \in Names \ {Root}, Parent[p] \in T PROVE p \in T
  <2>1. Above[p] = {p} \cup Above[Parent[p]]
    BY AboveIs
  <2>2. p \in DOMAIN t.cache => /\ Parent[p] \in DOMAIN t.cache
                                /\ t.cache[Parent[p]].subdirs[p] = NoId
    BY DEF Hangs, CacheUp
  <2>. QED
    BY <1>2, <2>1, <2>2
<1>3. T = Names
  <2>. HIDE DEF T
  <2>1. T \in SUBSET Names
    BY DEF T
  <2>. QED
    BY <1>1, <1>2, <2>1, TreeInduction
<1>. QED
  BY <1>3 DEF InCache, Hangs

LEMMA RootIsCached ==
  ASSUME NEW t, NEW o, Hangs(t, o), Root \notin DOMAIN t.cache
  PROVE  DOMAIN t.cache = {}
<1>1. InCache(t) = DOMAIN t.cache
  BY InCacheIs
<1>2. \A p \in DOMAIN t.cache : p \in Names /\ Above[p] \subseteq DOMAIN t.cache
  BY <1>1 DEF InCache, Hangs
<1>3. \A p \in DOMAIN t.cache : Root \in Above[p]
  BY <1>2, AboveParent
<1>. QED
  BY <1>2, <1>3

LEMMA EmptyTree ==
  ASSUME NEW t, NEW o, DOMAIN t.cache = {}
  PROVE  \A p \in Names : /\ HasOf(Tree(t.id), o, p) <=> HasOf(t, o, p)
                          /\ EntryOf(Tree(t.id), o, p) = EntryOf(t, o, p)
<1> DEFINE u == Tree(t.id)
<1>1. \A p, id : Found(u, o, p, id) = Found(t, o, p, id)
  BY TreeIs DEF Found
<1>2. PlacesOf(u, o) = PlacesOf(t, o)
  <2>1. \A p, id : Place(u, o, p, id) = Place(t, o, p, id)
    BY <1>1 DEF Place
  <2> DEFINE at == PlacesOf(u, o)
  <2>2. at = [p \in Names |-> at[p]] /\ at[Root] = t.id
        /\ \A p \in Names \ {Root} : at[p] = Place(t, o, p, at[Parent[p]])
    BY <2>1, PlacesOfIs, TreeIs
  <2> HIDE DEF at
  <2>3. at = [p \in Names |-> IF p = Root THEN t.id ELSE Place(t, o, p, at[Parent[p]])]
    BY <2>2
  <2>. QED
    BY <2>3, PlacesUnique DEF at
<1>3. \A p : /\ HasOf(u, o, p) <=> HasOf(t, o, p)
             /\ DirectoryOf(u, o, p) = DirectoryOf(t, o, p)
  BY <1>1, <1>2, TreeIs DEF HasOf, DirectoryOf
<1>. QED
  BY <1>3 DEF EntryOf, ExistsOf, HolderOf

LEMMA ImageIsFinite ==
  ASSUME NEW S, IsFiniteSet(S), NEW f
  PROVE  IsFiniteSet({f[p] : p \in S})
<1> DEFINE T == {f[p] : p \in S}
           g == [p \in S |-> f[p]]
<1>1. g \in Surjection(S, T)
  BY DEF Surjection
<1>. HIDE DEF g, T
<1>2. IsFiniteSet(T)
  BY <1>1, FS_Surjection
<1>. QED
  BY <1>2 DEF T

(* GATree.flush of a tree t: the new tree has the same entries.            *)
LEMMA FlushTreeIs ==
  ASSUME BagsInv, PutInv, DataInv, put = <<>>, NEW t, Hangs(t, Store),
         FlushTree(t), UNCHANGED <<bags, clientData>>
  PROVE  /\ BagsInv' /\ PutInv' /\ DataInv' /\ Hangs(mem', Store')
         /\ DOMAIN mem'.cache = {}
         /\ \A p \in Names : /\ HasOf(mem', Store', p) <=> HasOf(t, Store, p)
                             /\ EntryOf(mem', Store', p) = EntryOf(t, Store, p)
<1>1. BagsInv' /\ DataInv'
  BY DEF BagsInv, DataInv
<1>2. Store = bags /\ IsStore(Store)
  BY EmptyStore DEF PutInv
<1>3. CASE Root \in DOMAIN t.cache
  <2> DEFINE f == [p \in Names |-> FreshId(p)]
  <2>1. Fresh(Store, f)
    BY <1>2, FreshIs DEF Fresh, BagsInv
  <2>2. put' = [i \in {FreshId(p) : p \in DOMAIN t.cache} |-> Fixed(t.cache[i[1]])]
        /\ mem' = Tree(FreshId(Root))
    BY <1>3, InCacheIs DEF FlushTree
  <2>3. DOMAIN t.cache \subseteq Names
    BY DEF Hangs
  <2>4. DOMAIN put' = {f[p] : p \in DOMAIN t.cache}
    BY <2>2, <2>3
  <2>5. IsFiniteSet(DOMAIN put')
    <3>1. IsFiniteSet(DOMAIN t.cache)
      BY <2>3, FS_Subset, TreeAssumption
    <3>. HIDE DEF f
    <3>. QED
      BY <2>4, <3>1, ImageIsFinite
  <2>6. DOMAIN put' \cap DOMAIN bags = {}
    <3>. HIDE DEF f
    <3>. QED
      BY <1>2, <2>1, <2>3, <2>4 DEF Fresh
  <2>7. ASSUME NEW p \in DOMAIN t.cache, NEW i, i = f[p]
        PROVE  i \in DOMAIN put' /\ put'[i] = Fix(Cached(t, p), f)
    <3>1. i \in {p} \X Nat /\ i \in DOMAIN put'
      <4>. HIDE DEF f
      <4>. QED
        BY <2>1, <2>3, <2>4, <2>7 DEF Fresh
    <3>2. put'[i] = Fixed(Cached(t, p))
      <4>1. i[1] = p
        BY <3>1
      <4>2. put'[i] = Fixed(t.cache[i[1]])
        BY <2>2, <3>1
      <4>. QED
        BY <4>1, <4>2 DEF Cached
    <3> DEFINE d == Cached(t, p)
    <3>3. d = [files |-> d.files, subdirs |-> d.subdirs] /\ \A q \in DOMAIN d.subdirs : q \in Names
      <4>1. IsObject(p, d, {NoId} \cup DOMAIN Store)
        BY <1>2, CachedHangs
      <4>. HIDE DEF d
      <4>. QED
        BY <4>1 DEF IsObject, Fits, Kids
    <3>4. Fixed(d) = Fix(d, f)
      <4>. HIDE DEF d
      <4>. QED
        BY <3>3 DEF Fixed, Fix
    <3>. QED
      BY <3>1, <3>2, <3>4
  <2> HIDE DEF f
  <2>8. /\ DOMAIN Store' = DOMAIN bags \cup DOMAIN put'
        /\ \A i \in DOMAIN Store' : Store'[i] = IF i \in DOMAIN put' THEN put'[i] ELSE bags[i]
    BY DEF Store, Blobs, Object
  <2>9. IsStored(t, Store, f, Store')
    <3>1. DOMAIN Store' = DOMAIN Store \cup {f[p] : p \in DOMAIN t.cache}
      BY <1>2, <2>4, <2>8
    <3>2. \A i \in DOMAIN Store : Store'[i] = Store[i]
      BY <1>2, <2>6, <2>8
    <3>3. ASSUME NEW p \in DOMAIN t.cache, NEW i, i = f[p]
          PROVE  Store'[i] = Fix(Cached(t, p), f)
      BY <2>7, <2>8, <3>3
    <3>. QED
      BY <3>1, <3>2, <3>3 DEF IsStored
  <2>10. mem' = Tree(f[Root])
    BY <2>2, TreeAssumption DEF f
  <2>11. /\ IsStore(Store') /\ Hangs(mem', Store')
         /\ \A p \in Names : /\ HasOf(mem', Store', p) <=> HasOf(t, Store, p)
                             /\ EntryOf(mem', Store', p) = EntryOf(t, Store, p)
    BY <1>2, <1>3, <2>1, <2>9, <2>10, StoredIsStore, StoredHangs, StoredSame
  <2>12. PutInv' /\ DOMAIN mem'.cache = {}
    BY <2>5, <2>6, <2>10, <2>11, TreeIs DEF PutInv
  <2>. QED
    BY <1>1, <2>11, <2>12
<1>4. CASE Root \notin DOMAIN t.cache
  <2>1. DOMAIN t.cache = {}
    BY <1>4, RootIsCached
  <2>2. mem' = Tree(t.id) /\ put' = put
    BY <1>4 DEF FlushTree
  <2>3. Store' = Store
    BY <2>2 DEF Store, Blobs, Object
  <2>4. Hangs(mem', Store')
    BY <2>2, <2>3, RootTreeHangs DEF Hangs
  <2>5. PutInv' /\ DOMAIN mem'.cache = {}
    BY <2>2, <2>3, TreeIs DEF PutInv
  <2>. QED
    BY <1>1, <2>1, <2>2, <2>3, <2>4, <2>5, EmptyTree
<1>. QED
  BY <1>3, <1>4

LEMMA UsedIs == \A X : Used(X) = ReachSet(X, Store)
  BY RefersIs DEF Used, ReachSet

LEMMA RootsIn ==
  ASSUME BagsInv, PutInv
  PROVE  Roots(DOMAIN bags) \subseteq Roots(DOMAIN Store)
  BY StoreIs DEF Roots

(* What is kept of the objects for the roots X: a part of them in which    *)
(* the trees of these roots are as before.                                 *)
KeptFor(X, x, o) ==
  /\ IsStore(o) /\ IsStore(x) /\ PartOf(x, o) /\ X \subseteq Roots(DOMAIN x)

LEMMA KeptIs ==
  ASSUME BagsInv, PutInv, NEW X \in SUBSET Roots(DOMAIN bags), bags' = Kept(X)
  PROVE  BagsInv' /\ KeptFor(X, bags', bags) /\ KeptFor(X, bags', Store)
<1>1. IsStore(bags) /\ IsStore(Store) /\ PartOf(bags, Store)
  BY BagsArePart DEF BagsInv, PutInv
<1>2. Used(X) = ReachSet(X, bags)
  <2>1. \A id \in X : ReachOf(id, bags) = ReachOf(id, Store)
    BY <1>1, PartSame
  <2>2. Used(X) = ReachSet(X, Store)
    BY UsedIs
  <2>. QED
    BY <2>1, <2>2 DEF ReachSet
<1>3. Used(X) \subseteq DOMAIN bags
  <2>1. \A id \in X : ReachOf(id, bags) \subseteq DOMAIN bags
    BY <1>1, ReachIs
  <2>. QED
    BY <1>2, <2>1 DEF ReachSet
<1>4. bags' = [i \in DOMAIN bags' |-> bags'[i]] /\ DOMAIN bags' = ReachSet(X, bags)
      /\ \A i \in DOMAIN bags' : bags'[i] = bags[i]
  BY <1>2, <1>3 DEF Kept
<1>5. IsStore(bags') /\ PartOf(bags', bags) /\ X \subseteq Roots(DOMAIN bags')
  BY <1>1, <1>4, ReachSetIsStore
<1>6. PartOf(bags', Store)
  BY <1>1, <1>5 DEF PartOf
<1>7. BagsInv'
  BY <1>4, <1>5, FS_Subset DEF BagsInv, PartOf
<1>. QED
  BY <1>1, <1>5, <1>6, <1>7 DEF KeptFor

(* Trees whose roots were kept have the same entries.                      *)
LEMMA KeptSame ==
  ASSUME NEW X, NEW x, NEW o, KeptFor(X, x, o), NEW id \in X, NEW p \in Names
  PROVE  /\ HasOf(Tree(id), x, p) <=> HasOf(Tree(id), o, p)
         /\ EntryOf(Tree(id), x, p) = EntryOf(Tree(id), o, p)
  BY PartSame DEF KeptFor

LEMMA RangeIs ==
  ASSUME DataInv
  PROVE  /\ Range(clientData) \subseteq Roots(DOMAIN bags)
         /\ \A i \in DOMAIN clientData : clientData[i] \in Range(clientData)
         /\ \A X : Range(clientData) \subseteq X => clientData \in Seq(X)
  BY DEF DataInv, Range

(* BlobStore.flush.                                                        *)
LEMMA FlushBagIs ==
  ASSUME StoreInv, FlushBag
  PROVE  /\ StoreInv'
         /\ KeptFor({mem.id} \cup Range(clientData), Store', Store)
         /\ mem' = mem /\ mem = Tree(mem.id) /\ clientData' = clientData
<1> DEFINE X == {mem.id} \cup Range(clientData)
<1>1. X \subseteq Roots(DOMAIN Store)
  <2>1. mem.id \in Roots(DOMAIN Store)
    BY DEF StoreInv, Hangs
  <2>2. Range(clientData) \subseteq Roots(DOMAIN Store)
    BY RangeIs, RootsIn DEF StoreInv
  <2>. QED
    BY <2>1, <2>2
<1>2. bags' = [i \in ReachSet(X, Store) |-> Object(i)] /\ put' = <<>> /\ mem' = mem
      /\ clientData' = clientData /\ mem = Tree(mem.id)
  BY UsedIs DEF FlushBag, StoreInv, PutInv
<1> HIDE DEF X
<1>3. ReachSet(X, Store) \subseteq DOMAIN Store
  <2>1. \A id \in X : ReachOf(id, Store) \subseteq DOMAIN Store
    BY <1>1, ReachIs DEF StoreInv, PutInv
  <2>. QED
    BY <2>1 DEF ReachSet
<1>4. bags' = [i \in DOMAIN bags' |-> bags'[i]] /\ DOMAIN bags' = ReachSet(X, Store)
      /\ \A i \in DOMAIN bags' : bags'[i] = Store[i]
  BY <1>2, <1>3, StoreIs
<1>5. IsStore(bags') /\ PartOf(bags', Store) /\ X \subseteq Roots(DOMAIN bags')
  BY <1>1, <1>4, ReachSetIsStore DEF StoreInv, PutInv
<1>6. BagsInv'
  <2>1. IsFiniteSet(DOMAIN Store)
    <3>1. IsFiniteSet(DOMAIN bags) /\ IsFiniteSet(DOMAIN put)
      BY DEF StoreInv, BagsInv, PutInv
    <3>2. IsFiniteSet(DOMAIN bags \cup DOMAIN put)
      BY <3>1, FS_Union
    <3>. QED
      BY <3>2, StoreIs
  <2>2. IsFiniteSet(DOMAIN bags')
    BY <1>3, <1>4, <2>1, FS_Subset
  <2>. QED
    BY <1>4, <1>5, <2>2 DEF BagsInv
<1>7. Store' = bags'
  <2>1. DOMAIN put' = {}
    BY <1>2
  <2>. QED
    BY <1>4, <2>1 DEF Store, Blobs, Object
<1>8. PutInv'
  <2>1. DOMAIN put' = {}
    BY <1>2
  <2>2. IsFiniteSet(DOMAIN put')
    BY <2>1, FS_EmptySet
  <2>. QED
    BY <1>2, <1>5, <1>7, <2>1, <2>2 DEF PutInv
<1>9. DataInv'
  <2>1. clientData \in Seq(Roots(DOMAIN bags'))
    BY <1>5, RangeIs DEF X, StoreInv
  <2>. QED
    BY <1>2, <2>1 DEF DataInv
<1>10. Hangs(mem', Store')
  <2>1. mem.id \in Roots(DOMAIN bags')
    BY <1>5 DEF X
  <2>. QED
    BY <1>2, <1>7, <2>1, RootTreeHangs
<1>11. KeptFor(X, Store', Store)
  BY <1>5, <1>7 DEF KeptFor, StoreInv, PutInv
<1>. QED
  BY <1>2, <1>6, <1>8, <1>9, <1>10, <1>11 DEF StoreInv, X

(* Where only what the client's data refer to is kept.                     *)
LEMMA DropIs ==
  ASSUME StoreInv, mem' = NoTree, put' = <<>>,
         Range(clientData') \subseteq Range(clientData), clientData' \in Seq(Range(clientData')),
         bags' = Kept(Range(clientData'))
  PROVE  /\ StoreInv'
         /\ KeptFor(Range(clientData'), Store', Store)
<1> DEFINE X == Range(clientData')
<1>1. X \subseteq Roots(DOMAIN bags)
  BY RangeIs DEF StoreInv
<1>2. BagsInv' /\ KeptFor(X, bags', bags) /\ KeptFor(X, bags', Store)
  BY <1>1, KeptIs DEF StoreInv
<1>3. Store' = bags' /\ DOMAIN put' = {}
  <2>1. DOMAIN put' = {}
    OBVIOUS
  <2>2. bags' = [i \in DOMAIN bags' |-> bags'[i]]
    BY <1>2 DEF BagsInv
  <2>. QED
    BY <2>1, <2>2 DEF Store, Blobs, Object
<1>4. PutInv'
  <2>1. IsFiniteSet(DOMAIN put')
    BY <1>3, FS_EmptySet
  <2>. QED
    BY <1>2, <1>3, <2>1 DEF PutInv, KeptFor
<1>5. DataInv'
  BY <1>2 DEF DataInv, KeptFor
<1>6. Hangs(mem', Store')
  <2>1. NoTree = Tree(NoId)
    BY DEF NoTree, Tree
  <2>2. NoId \in Roots(DOMAIN Store')
    BY DEF Roots
  <2>. QED
    BY <2>1, <2>2, RootTreeHangs
<1>. QED
  BY <1>2, <1>3, <1>4, <1>5, <1>6 DEF StoreInv

LEMMA SeqRange ==
  ASSUME NEW S, NEW s \in Seq(S)
  PROVE  s \in Seq(Range(s)) /\ Range(s) \subseteq S
  BY DEF Range

LEMMA ConcatSeq ==
  ASSUME NEW S, NEW a \in Seq(S), NEW b \in Seq(S)
  PROVE  a \o b \in Seq(S) /\ Len(a \o b) = Len(a) + Len(b)
  OBVIOUS

-----------------------------------------------------------------------------
(* The invariant: the walk                                                 *)

(* The types of everything but the generations and their objects.          *)
WalkTypes ==
  /\ kind \in [Names -> {"none", "dir", "file"}]
  /\ version \in [Names -> 0..MaxVersion]
  /\ since \in [Names -> 0..MaxVersion]
  /\ pc \in {"idle", "walk", "file", "commit", "cleanup"}
  /\ after \in {"walk", "file", "cleanup"}
  /\ root \in Names /\ file \in Names /\ todo \subseteq Names
  /\ existed \in BOOLEAN /\ errors \in BOOLEAN
  /\ made \in 0..MaxGens /\ backups \in 0..MaxBackups /\ faults \in 0..MaxFaults

(* A backup has made no more checkpoints than there are generations.       *)
MadeFits ==
  /\ pc # "idle" => made <= Len(clientData)
  /\ pc = "cleanup" => made < Len(clientData)

(* What there is is in a directory.                                        *)
LiveTree ==
  /\ kind[Root] = "dir"
  /\ \A p \in Names \ {Root} : kind[p] # "none" => kind[Parent[p]] = "dir"

(* The root of a running backup is a directory; without one there is       *)
(* nothing in memory.                                                      *)
BackupFits ==
  /\ pc # "idle" => kind[root] = "dir"
  /\ pc = "idle" => mem = NoTree /\ put = <<>>

DirsOnly(S) == \A p \in S : kind[p] = "dir"

(* A file that is being read is no directory in the new generation, and    *)
(* has an entry as a file.                                                 *)
IsFileIn(t, p) == ~HasOf(t, Store, p) /\ EntryOf(t, Store, p).kind = "file"
Reading == pc = "file" \/ (pc = "commit" /\ after = "file")
ReadingFits == Reading => kind[file] = "file" /\ IsFileIn(mem, file)

WalkInv ==
  /\ WalkTypes /\ MadeFits /\ LiveTree /\ BackupFits
  /\ DirsOnly(DOMAIN mem.cache) /\ ReadingFits

Inv == StoreInv /\ WalkInv

LEMMA LiveAbove ==
  ASSUME LiveTree, NEW p \in Names, kind[p] = "dir"
  PROVE  DirsOnly(Above[p])
<1> DEFINE T == {q \in Names : kind[q] = "dir" => DirsOnly(Above[q])}
<1>1. Root \in T
  BY TreeAssumption DEF LiveTree, DirsOnly
<1>2. ASSUME NEW q \in Names \ {Root}, Parent[q] \in T PROVE q \in T
  BY <1>2, AboveIs DEF LiveTree, DirsOnly
<1>3. T = Names
  <2>. HIDE DEF T
  <2>1. T \in SUBSET Names
    BY DEF T
  <2>. QED
    BY <1>1, <1>2, <2>1, TreeInduction
<1>. QED
  BY <1>3

LEMMA LiveChanged ==
  ASSUME LiveTree, NEW S \in SUBSET Names, DirsOnly(S)
  PROVE  DirsOnly(Changed(S))
<1>1. \A p \in S : DirsOnly(Above[p])
  BY LiveAbove DEF DirsOnly
<1>. QED
  BY <1>1, ChangedIs DEF DirsOnly

LEMMA HomesAre ==
  ASSUME NEW t, NEW o, NEW w, DOMAIN w \subseteq Names
  PROVE  /\ Homes(t, o, w) \in SUBSET Names
         /\ \A h \in Homes(t, o, w) : \E p \in DOMAIN w : h = Home(t, o, p, w[p])
  BY HomeIs DEF Homes

(* Entries for directories are written.                                    *)
LEMMA DirsWritten ==
  ASSUME LiveTree, kind \in [Names -> {"none", "dir", "file"}], IsStore(Store),
         NEW t, Hangs(t, Store), DirsOnly(DOMAIN t.cache),
         NEW w, DOMAIN w \subseteq Names, DirsOnly(DOMAIN w),
         \A p \in DOMAIN w : w[p] \in EntrySet /\ w[p].kind # "none",
         NEW u, Becomes(t, u, Store, Changed(Homes(t, Store, w)), {}, w)
  PROVE  /\ Hangs(u, Store) /\ DirsOnly(DOMAIN u.cache)
         /\ \A f \in Names : kind[f] = "file" /\ IsFileIn(t, f) => IsFileIn(u, f)
<1> DEFINE H == Homes(t, Store, w)
           C == Changed(H)
<1>1. H \in SUBSET Names /\ \A h \in H : \E p \in DOMAIN w : h = Home(t, Store, p, w[p])
  BY HomesAre
<1>2. DirsOnly(H)
  <2>1. ASSUME NEW p \in DOMAIN w PROVE kind[p] = "dir" /\ kind[Parent[p]] = "dir"
    BY ParentIs DEF DirsOnly, LiveTree
  <2>2. ASSUME NEW h \in H PROVE kind[h] = "dir"
    <3>1. PICK p \in DOMAIN w : h = Home(t, Store, p, w[p])
      BY <1>1
    <3>2. h \in {p, Parent[p]}
      BY <3>1, HomeIs
    <3>. QED
      BY <2>1, <3>2
  <2>. QED
    BY <2>2 DEF DirsOnly
<1> HIDE DEF H
<1>3. DirsOnly(C)
  BY <1>1, <1>2, LiveChanged
<1>4. H \subseteq C /\ C \subseteq Names /\ \A p \in C : Parent[p] \in C
  BY <1>1, ChangedIs
<1>5. Allowed(t, C, {}, w)
  BY <1>4 DEF Allowed
<1>6. Becomes(t, u, Store, C, {}, w) /\ H = Homes(t, Store, w)
  BY DEF H
<1> HIDE DEF C
<1>7. Hangs(u, Store)
  BY <1>5, <1>6, HangsStill
<1>8. DirsOnly(DOMAIN u.cache)
  BY <1>3, <1>6 DEF Becomes, DirsOnly
<1>9. ASSUME NEW f \in Names, kind[f] = "file", IsFileIn(t, f) PROVE IsFileIn(u, f)
  <2>1. f \notin C /\ f \notin DOMAIN w
    BY <1>3, <1>9 DEF DirsOnly
  <2>2. /\ EntryOf(u, Store, f) = EntryOf(t, Store, f)
        /\ HasOf(u, Store, f) <=> HasOf(t, Store, f)
    BY <1>4, <1>5, <1>6, <2>1, EntryStays
  <2>. QED
    BY <1>9, <2>2 DEF IsFileIn
<1>. QED
  BY <1>7, <1>8, <1>9

(* An entry for the file p is written.                                     *)
LEMMA FileWritten ==
  ASSUME LiveTree, kind \in [Names -> {"none", "dir", "file"}], IsStore(Store),
         NEW t, Hangs(t, Store), DirsOnly(DOMAIN t.cache),
         NEW p \in Names, kind[p] = "file", ~HasOf(t, Store, p),
         NEW w, DOMAIN w \subseteq {p},
         p \in DOMAIN w => w[p] \in EntrySet /\ w[p].kind = "file",
         NEW u, Becomes(t, u, Store, Changed(Homes(t, Store, w)), {}, w)
  PROVE  /\ Hangs(u, Store) /\ DirsOnly(DOMAIN u.cache)
         /\ ~HasOf(u, Store, p)
         /\ EntryOf(u, Store, p) = IF p \in DOMAIN w THEN w[p] ELSE EntryOf(t, Store, p)
<1> DEFINE H == Homes(t, Store, w)
           C == Changed(H)
<1>1. H \in SUBSET Names /\ \A h \in H : \E q \in DOMAIN w : h = Home(t, Store, q, w[q])
  BY HomesAre
<1>2. DirsOnly(H)
  <2>1. kind[Parent[p]] = "dir"
    BY ParentIs DEF LiveTree
  <2>2. ASSUME NEW h \in H PROVE h = Parent[p]
    <3>1. h = Home(t, Store, p, w[p]) /\ p \in DOMAIN w
      BY <1>1
    <3>. QED
      BY <3>1 DEF Home, HolderOf
  <2>. QED
    BY <2>1, <2>2 DEF DirsOnly
<1> HIDE DEF H
<1>3. DirsOnly(C)
  BY <1>1, <1>2, LiveChanged
<1>4. H \subseteq C /\ C \subseteq Names /\ \A q \in C : Parent[q] \in C
  BY <1>1, ChangedIs
<1>5. Allowed(t, C, {}, w)
  BY <1>4 DEF Allowed
<1>6. Becomes(t, u, Store, C, {}, w) /\ H = Homes(t, Store, w)
  BY DEF H
<1> HIDE DEF C
<1>7. Hangs(u, Store)
  BY <1>5, <1>6, HangsStill
<1>8. DirsOnly(DOMAIN u.cache)
  BY <1>3, <1>6 DEF Becomes, DirsOnly
<1>9. p \notin C
  BY <1>3 DEF DirsOnly
<1>10. /\ EntryOf(u, Store, p) = IF p \in DOMAIN w THEN w[p] ELSE EntryOf(t, Store, p)
       /\ HasOf(u, Store, p) <=> HasOf(t, Store, p)
  BY <1>4, <1>5, <1>6, <1>9, EntryStays
<1>. QED
  BY <1>7, <1>8, <1>10

(* Paths that are not in the cache are removed.                            *)
LEMMA PathsRemoved ==
  ASSUME IsStore(Store), NEW t, Hangs(t, Store), DirsOnly(DOMAIN t.cache),
         NEW S \in SUBSET (Names \ {Root}), S \cap DOMAIN t.cache = {},
         S \cap Changed(ParentsOf(t, Store, S)) = {},
         DirsOnly(Changed(ParentsOf(t, Store, S))),
         NEW u, u = RemoveFiles(t, S)
  PROVE  /\ Hangs(u, Store) /\ DirsOnly(DOMAIN u.cache)
         /\ Becomes(t, u, Store, Changed(ParentsOf(t, Store, S)), S, <<>>)
         /\ Allowed(t, Changed(ParentsOf(t, Store, S)), S, <<>>)
<1> DEFINE H == ParentsOf(t, Store, S)
           C == Changed(H)
<1>1. H \in SUBSET Names
  BY ParentIs DEF ParentsOf
<1>2. C \subseteq Names /\ \A q \in C : Parent[q] \in C
  BY <1>1, ChangedIs
<1>3. \A q \in C : Fits(OrNew(t, Store, q), q)
  <2>. HIDE DEF C
  <2>. QED
    BY <1>2, FoundIs DEF IsObject
<1>4. IsTree(t)
  BY DEF Hangs
<1>5. Becomes(t, u, Store, C, S, <<>>)
  BY <1>3, <1>4, RemoveFilesIs
<1>6. Allowed(t, C, S, <<>>)
  <2>1. DOMAIN <<>> = {}
    OBVIOUS
  <2>. QED
    BY <1>2, <2>1 DEF Allowed
<1>7. DirsOnly(C)
  OBVIOUS
<1> HIDE DEF C, H
<1>8. Hangs(u, Store)
  BY <1>5, <1>6, HangsStill
<1>9. DirsOnly(DOMAIN u.cache)
  BY <1>5, <1>7 DEF Becomes, DirsOnly
<1>. QED
  BY <1>5, <1>6, <1>8, <1>9 DEF C, H

-----------------------------------------------------------------------------
(* Steps: the tree in memory                                               *)

LEMMA EntrySetIs ==
  /\ \A e \in EntrySet : /\ e.chunks \in Seq(Walk!Chunks) /\ e.version \in 0..MaxVersion
                         /\ e = [kind |-> e.kind, version |-> e.version, chunks |-> e.chunks]
                         /\ e.kind # "none" => e \in Walk!Entries
  /\ \A k \in {"dir", "file"}, v \in 0..MaxVersion, c \in Seq(Walk!Chunks) :
       [kind |-> k, version |-> v, chunks |-> c] \in EntrySet
  /\ NoKeys \in EntrySet
<1>1. /\ \A e \in Walk!Entries :
           /\ e.chunks \in Seq(Walk!Chunks) /\ e.version \in 0..MaxVersion
           /\ e = [kind |-> e.kind, version |-> e.version, chunks |-> e.chunks]
      /\ \A k \in {"dir", "file"}, v \in 0..MaxVersion, c \in Seq(Walk!Chunks) :
           [kind |-> k, version |-> v, chunks |-> c] \in Walk!Entries
  BY DEF Walk!Entries
<1>2. /\ NoKeys.chunks \in Seq(Walk!Chunks) /\ NoKeys.version \in 0..MaxVersion
      /\ NoKeys.kind = "none"
      /\ NoKeys = [kind |-> NoKeys.kind, version |-> NoKeys.version, chunks |-> NoKeys.chunks]
  <2>1. <<>> \in Seq(Walk!Chunks) /\ 0 \in 0..MaxVersion
    BY BoundsAssumption
  <2>. QED
    BY <2>1 DEF NoKeys
<1>. QED
  BY <1>1, <1>2 DEF EntrySet

LEMMA EntryIs ==
  ASSUME NEW o, NEW t, IsStore(o), Hangs(t, o), NEW p \in Names
  PROVE  EntryOf(t, o, p) \in EntrySet
<1>1. HolderOf(t, o, p) \in Names
  BY ParentIs DEF HolderOf
<1>2. IsObject(HolderOf(t, o, p), DirectoryOf(t, o, HolderOf(t, o, p)), {NoId} \cup DOMAIN o)
  BY <1>1, FoundIs
<1>. QED
  BY <1>2, EntrySetIs DEF EntryOf, ExistsOf, IsObject

KeysFit(w, t, o, S, k, v) ==
  /\ DOMAIN w \subseteq S
  /\ \A p \in DOMAIN w : /\ w[p] \in EntrySet /\ w[p].kind = k
                         /\ w[p] = [kind |-> k, version |-> v, chunks |-> EntryOf(t, o, p).chunks]
  /\ \A p \in S \ DOMAIN w :
       EntryOf(t, o, p) = [kind |-> k, version |-> v, chunks |-> EntryOf(t, o, p).chunks]

LEMMA KeysAre ==
  ASSUME NEW o, NEW t, IsStore(o), Hangs(t, o), NEW S \in SUBSET Names,
         NEW k \in {"dir", "file"}, NEW v \in 0..MaxVersion
  PROVE  KeysFit(KeysOf(t, o, S, k, v), t, o, S, k, v)
<1>1. \A p \in S : EntryOf(t, o, p).chunks \in Seq(Walk!Chunks)
  BY EntryIs, EntrySetIs
<1>. QED
  BY <1>1, EntrySetIs DEF KeysOf, KeysFit

LEMMA AboveTransitive ==
  ASSUME NEW p \in Names, NEW q \in Above[p]
  PROVE  Above[q] \subseteq Above[p]
<1> DEFINE T == {r \in Names : \A s \in Above[r] : Above[s] \subseteq Above[r]}
<1>1. Root \in T
  BY TreeAssumption
<1>2. ASSUME NEW r \in Names \ {Root}, Parent[r] \in T PROVE r \in T
  BY <1>2, AboveIs
<1>3. T = Names
  <2>. HIDE DEF T
  <2>1. T \in SUBSET Names
    BY DEF T
  <2>. QED
    BY <1>1, <1>2, <2>1, TreeInduction
<1>. QED
  BY <1>3

LEMMA LatestIs ==
  ASSUME StoreInv, NEW i \in DOMAIN clientData
  PROVE  Hangs(Tree(clientData[i]), Store)
  BY RangeIs, RootsIn, RootTreeHangs DEF StoreInv

LEMMA NoTreeIs ==
  /\ NoTree = Tree(NoId) /\ Hangs(NoTree, Store)
  /\ DOMAIN NoTree.cache = {} /\ NoTree.cache = <<>>
<1>1. NoTree = Tree(NoId)
  BY DEF NoTree, Tree
<1>. QED
  BY <1>1, RootTreeHangs, TreeIs DEF Roots

(* create_generation removes what is next to the directories above the     *)
(* root, from the latest generation.                                       *)
Latest == IF clientData = <<>> THEN NoTree ELSE Tree(clientData[Len(clientData)])
Extra(r) ==
  {p \in Names \ Above[r] : /\ Parent[p] \in Above[r] \ {r}
                            /\ p \in Children(Latest, Parent[p])}

LEMMA StartTree ==
  ASSUME Inv, NEW r \in BackupRoots, StartBackup(r)
  PROVE  LET C == Changed(ParentsOf(Latest, Store, Extra(r)))
         IN  /\ mem' = RemoveFiles(Latest, Extra(r))
             /\ Hangs(Latest, Store) /\ DOMAIN Latest.cache = {}
             /\ Hangs(mem', Store) /\ DirsOnly(DOMAIN mem'.cache)
             /\ Extra(r) \in SUBSET (Names \ {Root})
             /\ Becomes(Latest, mem', Store, C, Extra(r), <<>>)
             /\ Allowed(Latest, C, Extra(r), <<>>)
             /\ C \subseteq Above[r]
<1> DEFINE S == Extra(r)
           C == Changed(ParentsOf(Latest, Store, S))
<1>1. mem' = RemoveFiles(Latest, S)
  BY DEF StartBackup, Latest, Extra
<1>2. Hangs(Latest, Store) /\ DOMAIN Latest.cache = {}
  <2>1. clientData # <<>> => Len(clientData) \in DOMAIN clientData
    BY DEF Inv, StoreInv, DataInv
  <2>. QED
    BY <2>1, LatestIs, NoTreeIs, TreeIs DEF Latest, Inv
<1>3. r \in Names /\ kind[r] = "dir"
  BY BoundsAssumption DEF StartBackup, Walk!WalkStarts
<1>4. S \in SUBSET (Names \ {Root}) /\ S \cap Above[r] = {}
  BY <1>3, AboveParent DEF Extra
<1>5. ParentsOf(Latest, Store, S) \subseteq Above[r]
  BY DEF ParentsOf, Extra
<1>6. C \subseteq Above[r]
  <2>1. Above[r] \subseteq Names
    BY <1>3, AboveIs
  <2>2. \A p \in C : \E q \in ParentsOf(Latest, Store, S) : p \in Above[q]
    BY <1>5, <2>1, ChangedIs
  <2>. QED
    BY <1>3, <1>5, <2>2, AboveTransitive
<1>7. DirsOnly(C)
  BY <1>3, <1>6, LiveAbove DEF Inv, WalkInv, DirsOnly
<1>8. DirsOnly(DOMAIN Latest.cache) /\ S \cap DOMAIN Latest.cache = {}
  BY <1>2 DEF DirsOnly
<1>9. S \cap C = {}
  BY <1>4, <1>6
<1>10. IsStore(Store)
  BY DEF Inv, StoreInv, PutInv
<1> HIDE DEF S
<1>11. /\ Hangs(mem', Store) /\ DirsOnly(DOMAIN mem'.cache)
       /\ Becomes(Latest, mem', Store, C, S, <<>>) /\ Allowed(Latest, C, S, <<>>)
  BY <1>1, <1>2, <1>4, <1>7, <1>8, <1>9, <1>10, PathsRemoved
<1>. QED
  BY <1>1, <1>2, <1>4, <1>6, <1>11 DEF S, C

(* backup_dir_contents: what is gone is removed from the directory p, and  *)
(* p gets its entry.                                                       *)
GoneFrom(p) == {q \in Children(mem, p) : kind[q] = "none"}
WithoutGone(p) == RemoveFiles(mem, GoneFrom(p))
AfterDirectory(p) == SetKeys(WithoutGone(p), {p}, "dir", 0)
DirectoryKeys(p) == KeysOf(WithoutGone(p), Store, {p}, "dir", 0)

LEMMA DirectoryTree ==
  ASSUME Inv, NEW p \in Names, kind[p] = "dir"
  PROVE  LET C == Changed(ParentsOf(mem, Store, GoneFrom(p)))
             D == Changed(Homes(WithoutGone(p), Store, DirectoryKeys(p)))
         IN  /\ GoneFrom(p) \in SUBSET Kids(p)
             /\ C \subseteq Above[p]
             /\ Hangs(WithoutGone(p), Store) /\ DirsOnly(DOMAIN WithoutGone(p).cache)
             /\ Becomes(mem, WithoutGone(p), Store, C, GoneFrom(p), <<>>)
             /\ Allowed(mem, C, GoneFrom(p), <<>>)
             /\ Hangs(AfterDirectory(p), Store) /\ DirsOnly(DOMAIN AfterDirectory(p).cache)
             /\ Becomes(WithoutGone(p), AfterDirectory(p), Store, D, {}, DirectoryKeys(p))
<1> DEFINE S == GoneFrom(p)
           H == ParentsOf(mem, Store, S)
           C == Changed(H)
           t == WithoutGone(p)
           w == DirectoryKeys(p)
           D == Changed(Homes(t, Store, w))
           u == AfterDirectory(p)
<1>1. /\ Hangs(mem, Store) /\ IsStore(Store) /\ LiveTree /\ DirsOnly(DOMAIN mem.cache)
      /\ kind \in [Names -> {"none", "dir", "file"}]
  BY DEF Inv, StoreInv, PutInv, WalkInv, WalkTypes
<1>2. S \in SUBSET Kids(p) /\ \A q \in S : kind[q] = "none"
  <2>1. Fits(DirectoryOf(mem, Store, p), p)
    BY <1>1, FoundIs DEF IsObject
  <2>2. Directory(mem, p) = DirectoryOf(mem, Store, p)
    BY QueriesAre
  <2>. QED
    BY <2>1, <2>2 DEF GoneFrom, Children, Fits
<1>3. S \in SUBSET (Names \ {Root}) /\ S \cap DOMAIN mem.cache = {}
  BY <1>1, <1>2 DEF Kids, DirsOnly
<1>4. H \subseteq {p}
  BY <1>2 DEF ParentsOf, Kids
<1>5. C \subseteq Above[p] /\ DirsOnly(C)
  <2>1. H \in SUBSET Names
    BY <1>4
  <2>2. \A q \in C : \E r \in H : q \in Above[r]
    BY <2>1, ChangedIs
  <2>3. C \subseteq Above[p]
    BY <1>4, <2>2
  <2>. QED
    BY <1>1, <2>3, LiveAbove DEF DirsOnly
<1>6. S \cap C = {}
  BY <1>2, <1>5 DEF DirsOnly
<1>7. t = RemoveFiles(mem, S)
  BY DEF WithoutGone
<1> HIDE DEF S, t
<1>8. /\ Hangs(t, Store) /\ DirsOnly(DOMAIN t.cache)
      /\ Becomes(mem, t, Store, C, S, <<>>) /\ Allowed(mem, C, S, <<>>)
  BY <1>1, <1>3, <1>5, <1>6, <1>7, PathsRemoved
<1> HIDE DEF C, H
<1>9. 0 \in 0..MaxVersion
  BY BoundsAssumption
<1>10. u = SetKeys(t, {p}, "dir", 0) /\ w = KeysOf(t, Store, {p}, "dir", 0)
  BY DEF AfterDirectory, DirectoryKeys, t
<1>11. DOMAIN w \subseteq {p} /\ \A q \in DOMAIN w : w[q] \in EntrySet /\ w[q].kind # "none"
  <2>1. {p} \in SUBSET Names /\ "dir" \in {"dir", "file"}
    OBVIOUS
  <2>. HIDE DEF w
  <2>2. KeysFit(w, t, Store, {p}, "dir", 0)
    BY <1>1, <1>8, <1>9, <1>10, <2>1, KeysAre
  <2>. QED
    BY <2>2 DEF KeysFit
<1> HIDE DEF w, u
<1>12. Becomes(t, u, Store, D, {}, w)
  BY <1>8, <1>10, SetKeysIs DEF Hangs
<1>13. DirsOnly(DOMAIN w)
  BY <1>11 DEF DirsOnly
<1>14. Hangs(u, Store) /\ DirsOnly(DOMAIN u.cache)
  BY <1>1, <1>8, <1>11, <1>12, <1>13, DirsWritten
<1>. QED
  BY <1>2, <1>5, <1>8, <1>12, <1>14 DEF C, H, S, t, u, w

(* backup_parents.                                                         *)
ParentsKeys == KeysOf(mem, Store, Above[root], "dir", 0)

LEMMA ParentsTree ==
  ASSUME Inv, pc # "idle", NEW u, u = SetKeys(mem, Above[root], "dir", 0)
  PROVE  /\ Hangs(u, Store) /\ DirsOnly(DOMAIN u.cache)
         /\ \A f \in Names : kind[f] = "file" /\ IsFileIn(mem, f) => IsFileIn(u, f)
         /\ Becomes(mem, u, Store, Changed(Homes(mem, Store, ParentsKeys)), {}, ParentsKeys)
<1> DEFINE w == ParentsKeys
<1>1. /\ Hangs(mem, Store) /\ IsStore(Store) /\ LiveTree /\ DirsOnly(DOMAIN mem.cache)
      /\ kind \in [Names -> {"none", "dir", "file"}]
      /\ root \in Names /\ kind[root] = "dir"
  BY DEF Inv, StoreInv, PutInv, WalkInv, WalkTypes, BackupFits
<1>2. 0 \in 0..MaxVersion /\ Above[root] \in SUBSET Names
  <2>1. 0 \in 0..MaxVersion
    BY BoundsAssumption
  <2>2. Above[root] \in SUBSET Names
    BY <1>1, AboveIs
  <2>. QED
    BY <2>1, <2>2
<1>3. w = KeysOf(mem, Store, Above[root], "dir", 0)
  BY DEF ParentsKeys
<1> HIDE DEF w
<1>4. /\ DOMAIN w \subseteq Above[root]
      /\ \A q \in DOMAIN w : w[q] \in EntrySet /\ w[q].kind # "none"
  <2>1. KeysFit(w, mem, Store, Above[root], "dir", 0)
    BY <1>1, <1>2, <1>3, KeysAre
  <2>. QED
    BY <2>1 DEF KeysFit
<1>5. Becomes(mem, u, Store, Changed(Homes(mem, Store, w)), {}, w)
  BY <1>1, <1>2, <1>3, SetKeysIs DEF Hangs
<1>6. DirsOnly(DOMAIN w)
  BY <1>1, <1>4, LiveAbove DEF DirsOnly
<1>7. DOMAIN w \subseteq Names
  BY <1>2, <1>4
<1>8. /\ Hangs(u, Store) /\ DirsOnly(DOMAIN u.cache)
      /\ \A f \in Names : kind[f] = "file" /\ IsFileIn(mem, f) => IsFileIn(u, f)
  BY <1>1, <1>4, <1>5, <1>6, <1>7, DirsWritten
<1>. QED
  BY <1>5, <1>8 DEF w

(* The metadata of a file are written, then its chunks.                    *)
KeysWritten(t, u, p, v) ==
  LET w == KeysOf(t, Store, {p}, "file", v)
  IN  /\ Hangs(u, Store) /\ DirsOnly(DOMAIN u.cache)
      /\ Becomes(t, u, Store, Changed(Homes(t, Store, w)), {}, w)
      /\ IsFileIn(u, p)
      /\ EntryOf(u, Store, p) = [kind |-> "file", version |-> v,
                                 chunks |-> EntryOf(t, Store, p).chunks]

LEMMA KeysTree ==
  ASSUME Inv, NEW t, Hangs(t, Store), DirsOnly(DOMAIN t.cache),
         NEW p \in Names, kind[p] = "file", ~HasOf(t, Store, p), NEW v \in 0..MaxVersion,
         NEW u, u = SetKeys(t, {p}, "file", v)
  PROVE  KeysWritten(t, u, p, v)
<1> DEFINE w == KeysOf(t, Store, {p}, "file", v)
<1>1. /\ IsStore(Store) /\ LiveTree /\ kind \in [Names -> {"none", "dir", "file"}]
  BY DEF Inv, StoreInv, PutInv, WalkInv, WalkTypes
<1>2. /\ DOMAIN w \subseteq {p}
      /\ p \in DOMAIN w => /\ w[p] \in EntrySet /\ w[p].kind = "file"
                           /\ w[p] = [kind |-> "file", version |-> v,
                                      chunks |-> EntryOf(t, Store, p).chunks]
      /\ p \notin DOMAIN w => EntryOf(t, Store, p) = [kind |-> "file", version |-> v,
                                                      chunks |-> EntryOf(t, Store, p).chunks]
  <2>1. w = KeysOf(t, Store, {p}, "file", v)
    OBVIOUS
  <2>2. {p} \in SUBSET Names /\ "file" \in {"dir", "file"}
    OBVIOUS
  <2>3. /\ DOMAIN w \subseteq {p}
        /\ \A q \in DOMAIN w : /\ w[q] \in EntrySet /\ w[q].kind = "file"
                               /\ w[q] = [kind |-> "file", version |-> v,
                                          chunks |-> EntryOf(t, Store, q).chunks]
        /\ \A q \in {p} \ DOMAIN w :
             EntryOf(t, Store, q) = [kind |-> "file", version |-> v,
                                     chunks |-> EntryOf(t, Store, q).chunks]
    <3>. HIDE DEF w
    <3>1. KeysFit(w, t, Store, {p}, "file", v)
      BY <1>1, <2>1, <2>2, KeysAre
    <3>. QED
      BY <3>1 DEF KeysFit
  <2>. HIDE DEF w
  <2>. QED
    BY <2>3
<1>3. Becomes(t, u, Store, Changed(Homes(t, Store, w)), {}, w)
  BY SetKeysIs DEF Hangs
<1> HIDE DEF w
<1>4. /\ Hangs(u, Store) /\ DirsOnly(DOMAIN u.cache)
      /\ ~HasOf(u, Store, p)
      /\ EntryOf(u, Store, p) = IF p \in DOMAIN w THEN w[p] ELSE EntryOf(t, Store, p)
  BY <1>1, <1>2, <1>3, FileWritten
<1>5. EntryOf(u, Store, p) = [kind |-> "file", version |-> v,
                              chunks |-> EntryOf(t, Store, p).chunks]
  BY <1>2, <1>4
<1>6. IsFileIn(u, p)
  BY <1>4, <1>5 DEF IsFileIn
<1>. QED
  BY <1>3, <1>4, <1>5, <1>6 DEF KeysWritten, w

LEMMA ChunksTree ==
  ASSUME Inv, NEW t, Hangs(t, Store), DirsOnly(DOMAIN t.cache),
         NEW p \in Names, kind[p] = "file", IsFileIn(t, p), NEW c \in Seq(Walk!Chunks),
         NEW u, u = SetChunks(t, p, c)
  PROVE  LET w == ChunksOf(t, Store, p, c)
         IN  /\ Hangs(u, Store) /\ DirsOnly(DOMAIN u.cache)
             /\ Becomes(t, u, Store, Changed(Homes(t, Store, w)), {}, w)
             /\ IsFileIn(u, p)
             /\ EntryOf(u, Store, p) = [kind |-> "file", version |-> EntryOf(t, Store, p).version,
                                        chunks |-> c]
<1> DEFINE w == ChunksOf(t, Store, p, c)
           e == EntryOf(t, Store, p)
<1>1. /\ IsStore(Store) /\ LiveTree /\ kind \in [Names -> {"none", "dir", "file"}]
  BY DEF Inv, StoreInv, PutInv, WalkInv, WalkTypes
<1>2. e \in EntrySet /\ e.kind = "file" /\ ~HasOf(t, Store, p)
  BY <1>1, EntryIs DEF IsFileIn
<1>3. w = [q \in {p} |-> [e EXCEPT !.chunks = c]]
  BY DEF ChunksOf
<1>4. Becomes(t, u, Store, Changed(Homes(t, Store, w)), {}, w)
  BY SetChunksIs DEF Hangs
<1> HIDE DEF w, e
<1>5. /\ DOMAIN w = {p} /\ w[p] = [kind |-> "file", version |-> e.version, chunks |-> c]
      /\ w[p] \in EntrySet /\ w[p].kind = "file"
  BY <1>2, <1>3, EntrySetIs
<1>6. /\ Hangs(u, Store) /\ DirsOnly(DOMAIN u.cache)
      /\ ~HasOf(u, Store, p) /\ EntryOf(u, Store, p) = w[p]
  BY <1>1, <1>2, <1>4, <1>5, FileWritten
<1>7. IsFileIn(u, p)
  BY <1>5, <1>6 DEF IsFileIn
<1>. QED
  BY <1>4, <1>5, <1>6, <1>7 DEF w, e

-----------------------------------------------------------------------------
(* Steps: the objects                                                      *)

TreeInv == StoreInv /\ DirsOnly(DOMAIN mem.cache) /\ ReadingFits

LEMMA SameStore ==
  ASSUME UNCHANGED <<bags, put>>
  PROVE  Store' = Store
  BY DEF Store, Blobs, Object

(* Only the tree in memory changes.                                        *)
LEMMA MemChanges ==
  ASSUME Inv, put = <<>>, UNCHANGED <<kind, stored>>, Hangs(mem', Store),
         DirsOnly(DOMAIN mem'.cache),
         Reading' => kind[file'] = "file" /\ IsFileIn(mem', file')
  PROVE  TreeInv'
<1>1. Store' = Store
  BY SameStore DEF stored
<1>2. BagsInv' /\ PutInv' /\ DataInv'
  <2>1. BagsInv /\ PutInv /\ DataInv
    BY DEF Inv, StoreInv
  <2>. QED
    BY <1>1, <2>1 DEF BagsInv, PutInv, DataInv, stored
<1>3. Hangs(mem', Store')
  BY <1>1
<1>4. DirsOnly(DOMAIN mem.cache)'
  BY DEF DirsOnly
<1>5. ReadingFits'
  BY <1>1 DEF ReadingFits, IsFileIn
<1>. QED
  BY <1>2, <1>3, <1>4, <1>5 DEF TreeInv, StoreInv

(* The tree t is flushed.                                                  *)
LEMMA TreeFlushed ==
  ASSUME Inv, put = <<>>, UNCHANGED <<kind, bags, clientData>>, NEW t, Hangs(t, Store),
         FlushTree(t),
         file' \in Names, Reading' => kind[file'] = "file" /\ IsFileIn(t, file')
  PROVE  TreeInv'
<1>1. /\ BagsInv' /\ PutInv' /\ DataInv' /\ Hangs(mem', Store')
      /\ DOMAIN mem'.cache = {}
      /\ \A p \in Names : /\ HasOf(mem', Store', p) <=> HasOf(t, Store, p)
                          /\ EntryOf(mem', Store', p) = EntryOf(t, Store, p)
  BY FlushTreeIs DEF Inv, StoreInv
<1>2. DirsOnly(DOMAIN mem.cache)'
  BY <1>1 DEF DirsOnly
<1>3. ReadingFits'
  BY <1>1 DEF ReadingFits, IsFileIn
<1>. QED
  BY <1>1, <1>2, <1>3 DEF TreeInv, StoreInv

LEMMA InvParts ==
  ASSUME Inv
  PROVE  /\ Hangs(mem, Store) /\ IsStore(Store) /\ DirsOnly(DOMAIN mem.cache)
         /\ WalkTypes /\ LiveTree /\ ReadingFits
         /\ kind \in [Names -> {"none", "dir", "file"}]
         /\ pc = "idle" => mem = NoTree /\ put = <<>>
  BY DEF Inv, StoreInv, PutInv, WalkInv, WalkTypes, BackupFits

LEMMA StartBackupStep ==
  ASSUME Inv, put = <<>>, NEW r \in BackupRoots, StartBackup(r)
  PROVE  TreeInv'
<1>1. Hangs(mem', Store) /\ DirsOnly(DOMAIN mem'.cache)
  BY StartTree
<1>2. UNCHANGED <<kind, stored>> /\ ~Reading'
  BY DEF StartBackup, Walk!WalkStarts, Walk!live, Reading
<1>. QED
  BY <1>1, <1>2, MemChanges

LEMMA BackupDirectoryStep ==
  ASSUME Inv, put = <<>>, NEW p \in Names, BackupDirectory(p)
  PROVE  TreeInv'
<1>1. /\ kind[p] = "dir" /\ UNCHANGED kind /\ ~Reading' /\ file' = file
      /\ UNCHANGED <<bags, clientData>>
      /\ (mem' = AfterDirectory(p) /\ UNCHANGED put) \/ FlushTree(AfterDirectory(p))
  BY DEF BackupDirectory, Walk!WalkDir, Walk!live, Reading, AfterDirectory, WithoutGone, GoneFrom
<1>2. Hangs(AfterDirectory(p), Store) /\ DirsOnly(DOMAIN AfterDirectory(p).cache)
  BY <1>1, DirectoryTree
<1>3. CASE mem' = AfterDirectory(p) /\ UNCHANGED put
  BY <1>1, <1>2, <1>3, MemChanges DEF stored
<1>4. CASE FlushTree(AfterDirectory(p))
  <2>1. file' \in Names
    BY <1>1, InvParts DEF WalkTypes
  <2>. QED
    BY <1>1, <1>2, <1>4, <2>1, TreeFlushed
<1>. QED
  BY <1>1, <1>3, <1>4

LEMMA SkipFileStep ==
  ASSUME Inv, put = <<>>, NEW p \in Names, SkipFile(p)
  PROVE  TreeInv'
<1>1. UNCHANGED <<kind, stored, mem>> /\ ~Reading'
  BY DEF SkipFile, Walk!WalkSkips, Walk!live, Reading
<1>. QED
  BY <1>1, InvParts, MemChanges

LEMMA ListedIs ==
  ASSUME WalkTypes, NEW p \in Names, NEW v \in Walk!Listed(p)
  PROVE  v \in 0..MaxVersion
<1>1. since[p] \in 0..MaxVersion /\ version[p] \in 0..MaxVersion
  BY DEF WalkTypes
<1>2. v \in since[p]..version[p]
  BY DEF Walk!Listed
<1>. QED
  BY <1>1, <1>2, BoundsAssumption

LEMMA StartFileStep ==
  ASSUME Inv, put = <<>>, NEW p \in Names, StartFile(p)
  PROVE  TreeInv'
<1>1. /\ kind[p] = "file" /\ UNCHANGED <<kind, stored>> /\ file' = p /\ ~HasDirectory(mem, p)
  BY DEF StartFile, Walk!WalkOpens, Walk!live
<1>2. PICK v \in Walk!Listed(p) : mem' = SetChunks(SetKeys(mem, {p}, "file", v), p, <<>>)
  BY DEF StartFile
<1>3. v \in 0..MaxVersion /\ ~HasOf(mem, Store, p)
  BY <1>1, InvParts, ListedIs, QueriesAre
<1> DEFINE t == SetKeys(mem, {p}, "file", v)
<1>4. Hangs(t, Store) /\ DirsOnly(DOMAIN t.cache) /\ IsFileIn(t, p)
  <2>1. KeysWritten(mem, t, p, v)
    BY <1>1, <1>3, InvParts, KeysTree
  <2>. QED
    BY <2>1 DEF KeysWritten
<1>5. mem' = SetChunks(t, p, <<>>)
  BY <1>2
<1> HIDE DEF t
<1>6. <<>> \in Seq(Walk!Chunks)
  OBVIOUS
<1>7. Hangs(mem', Store) /\ DirsOnly(DOMAIN mem'.cache) /\ IsFileIn(mem', p)
  BY <1>1, <1>4, <1>5, <1>6, ChunksTree
<1>. QED
  BY <1>1, <1>7, MemChanges

LEMMA ReadChunkStep ==
  ASSUME Inv, put = <<>>, ReadChunk
  PROVE  TreeInv'
<1> DEFINE old == EntryOf(mem, Store, file).chunks
           c == Append(old, <<version[file], Len(old) + 1>>)
<1>1. /\ pc = "file" /\ Len(old) < NumChunks
      /\ UNCHANGED <<kind, stored, file>> /\ mem' = SetChunks(mem, file, c)
  BY QueriesAre DEF ReadChunk, Walk!WalkReads, Walk!live
<1>2. file \in Names /\ kind[file] = "file" /\ IsFileIn(mem, file)
  BY <1>1, InvParts DEF ReadingFits, Reading, WalkTypes
<1>3. c \in Seq(Walk!Chunks)
  <2>1. old \in Seq(Walk!Chunks)
    BY <1>2, InvParts, EntryIs, EntrySetIs
  <2>2. version[file] \in 0..MaxVersion
    BY <1>2, InvParts DEF WalkTypes
  <2>. HIDE DEF old
  <2>3. <<version[file], Len(old) + 1>> \in Walk!Chunks
    BY <1>1, <2>1, <2>2, BoundsAssumption DEF Walk!Chunks
  <2>. QED
    BY <2>1, <2>3
<1> HIDE DEF c
<1>4. Hangs(mem', Store) /\ DirsOnly(DOMAIN mem'.cache) /\ IsFileIn(mem', file)
  BY <1>1, <1>2, <1>3, InvParts, ChunksTree
<1>. QED
  BY <1>1, <1>2, <1>4, MemChanges

LEMMA EndFileStep ==
  ASSUME Inv, put = <<>>, EndFile
  PROVE  TreeInv'
<1> DEFINE e == EntryOf(mem, Store, file)
<1>1. /\ pc = "file" /\ ~Reading'
      /\ UNCHANGED <<kind, stored, file>> /\ mem' = SetKeys(mem, {file}, "file", e.version)
  BY QueriesAre DEF EndFile, Walk!WalkCloses, Walk!live, Reading
<1>2. file \in Names /\ kind[file] = "file" /\ ~HasOf(mem, Store, file)
  BY <1>1, InvParts DEF ReadingFits, Reading, WalkTypes, IsFileIn
<1>3. e.version \in 0..MaxVersion
  BY <1>2, InvParts, EntryIs, EntrySetIs
<1> HIDE DEF e
<1>4. Hangs(mem', Store) /\ DirsOnly(DOMAIN mem'.cache)
  <2>1. KeysWritten(mem, mem', file, e.version)
    BY <1>1, <1>2, <1>3, InvParts, KeysTree
  <2>. QED
    BY <2>1 DEF KeysWritten
<1>. QED
  BY <1>1, <1>4, MemChanges

LEMMA FileRemoved ==
  ASSUME Inv, NEW p \in Names, kind[p] = "file", NEW u, u = RemoveFiles(mem, {p})
  PROVE  LET C == Changed(ParentsOf(mem, Store, {p}))
         IN  /\ Hangs(u, Store) /\ DirsOnly(DOMAIN u.cache) /\ DirsOnly(C)
             /\ p # Root
             /\ Becomes(mem, u, Store, C, {p}, <<>>) /\ Allowed(mem, C, {p}, <<>>)
<1> DEFINE H == ParentsOf(mem, Store, {p})
           C == Changed(H)
<1>1. p # Root /\ kind[Parent[p]] = "dir" /\ Parent[p] \in Names
  BY InvParts, ParentIs DEF LiveTree
<1>2. H \in SUBSET Names /\ DirsOnly(H)
  BY <1>1 DEF ParentsOf, DirsOnly
<1>3. DirsOnly(C)
  BY <1>2, InvParts, LiveChanged
<1>4. {p} \in SUBSET (Names \ {Root}) /\ {p} \cap DOMAIN mem.cache = {} /\ {p} \cap C = {}
  BY <1>1, <1>3, InvParts DEF DirsOnly
<1>5. /\ Hangs(u, Store) /\ DirsOnly(DOMAIN u.cache)
      /\ Becomes(mem, u, Store, C, {p}, <<>>) /\ Allowed(mem, C, {p}, <<>>)
  BY <1>3, <1>4, InvParts, PathsRemoved
<1>. QED
  BY <1>1, <1>3, <1>5

LEMMA ReadErrorStep ==
  ASSUME Inv, put = <<>>, ReadError
  PROVE  TreeInv'
<1>1. /\ pc = "file" /\ ~Reading' /\ UNCHANGED <<kind, stored>>
      /\ mem' = IF existed THEN mem ELSE RemoveFiles(mem, {file})
  BY DEF ReadError, Walk!WalkFails, Walk!live, Reading
<1>2. file \in Names /\ kind[file] = "file"
  BY <1>1, InvParts DEF ReadingFits, Reading, WalkTypes
<1>3. Hangs(mem', Store) /\ DirsOnly(DOMAIN mem'.cache)
  BY <1>1, <1>2, InvParts, FileRemoved
<1>. QED
  BY <1>1, <1>3, MemChanges

LEMMA BackupParentsStep ==
  ASSUME Inv, put = <<>>, NEW next \in {"walk", "file", "cleanup"}, BackupParents(next)
  PROVE  TreeInv'
<1>1. /\ pc # "idle" /\ UNCHANGED <<kind, stored, file>>
      /\ mem' = SetKeys(mem, Above[root], "dir", 0)
      /\ Reading' => Reading
  BY DEF BackupParents, Walk!WalkPauses, Walk!live, Reading
<1>2. /\ Hangs(mem', Store) /\ DirsOnly(DOMAIN mem'.cache)
      /\ \A f \in Names : kind[f] = "file" /\ IsFileIn(mem, f) => IsFileIn(mem', f)
  BY <1>1, ParentsTree
<1>3. Reading' => kind[file'] = "file" /\ IsFileIn(mem', file')
  BY <1>1, <1>2, InvParts DEF ReadingFits, WalkTypes
<1>. QED
  BY <1>1, <1>2, <1>3, MemChanges

LEMMA FlushClientStep ==
  ASSUME Inv, put = <<>>, FlushClient
  PROVE  TreeInv'
<1>1. /\ UNCHANGED <<kind, bags, clientData, file, pc, after>> /\ FlushTree(mem)
  BY DEF FlushClient, walkVars
<1>2. file' \in Names /\ (Reading' => kind[file'] = "file" /\ IsFileIn(mem, file'))
  BY <1>1, InvParts DEF ReadingFits, Reading, WalkTypes
<1>. QED
  BY <1>1, <1>2, InvParts, TreeFlushed

LEMMA NothingInMemory ==
  ASSUME StoreInv', mem' = NoTree, pc' = "idle"
  PROVE  TreeInv'
  BY NoTreeIs DEF TreeInv, DirsOnly, ReadingFits, Reading

LEMMA RestRange ==
  ASSUME NEW S, NEW s \in Seq(S), NEW n \in Nat, n < Len(s)
  PROVE  Walk!Rest(s, n) \in Seq(S) /\ Len(Walk!Rest(s, n)) = Len(s) - n
<1>1. /\ SubSeq(s, 1, Len(s) - n - 1) \in Seq(S) /\ Len(SubSeq(s, 1, Len(s) - n - 1)) = Len(s) - n - 1
      /\ SubSeq(s, Len(s), Len(s)) \in Seq(S) /\ Len(SubSeq(s, Len(s), Len(s))) = 1
  OBVIOUS
<1> DEFINE a == SubSeq(s, 1, Len(s) - n - 1)
           b == SubSeq(s, Len(s), Len(s))
<1>2. Walk!Rest(s, n) = a \o b
  BY DEF Walk!Rest
<1> HIDE DEF a, b
<1>3. a \in Seq(S) /\ b \in Seq(S) /\ Len(a) = Len(s) - n - 1 /\ Len(b) = 1
  BY <1>1 DEF a, b
<1>4. a \o b \in Seq(S) /\ Len(a \o b) = Len(a) + Len(b)
  BY <1>3, ConcatSeq
<1>. QED
  BY <1>2, <1>3, <1>4

LEMMA ForgetRange ==
  ASSUME NEW S, NEW s \in Seq(S), NEW i \in 1..Len(s)
  PROVE  LET r == SubSeq(s, 1, i - 1) \o SubSeq(s, i + 1, Len(s))
         IN  r \in Seq(S) /\ Len(r) = Len(s) - 1
<1>1. /\ SubSeq(s, 1, i - 1) \in Seq(S) /\ Len(SubSeq(s, 1, i - 1)) = i - 1
      /\ SubSeq(s, i + 1, Len(s)) \in Seq(S) /\ Len(SubSeq(s, i + 1, Len(s))) = Len(s) - i
  OBVIOUS
<1> DEFINE a == SubSeq(s, 1, i - 1)
           b == SubSeq(s, i + 1, Len(s))
<1> HIDE DEF a, b
<1>2. a \in Seq(S) /\ b \in Seq(S) /\ Len(a) = i - 1 /\ Len(b) = Len(s) - i
  BY <1>1 DEF a, b
<1>3. a \o b \in Seq(S) /\ Len(a \o b) = Len(a) + Len(b)
  BY <1>2, ConcatSeq
<1>4. a \o b \in Seq(S) /\ Len(a \o b) = Len(s) - 1
  BY <1>2, <1>3
<1>. QED
  BY <1>4 DEF a, b

LEMMA DataIs ==
  ASSUME Inv
  PROVE  clientData \in Seq(Range(clientData)) /\ clientData \in Seq(Roots(DOMAIN bags))
  BY SeqRange DEF Inv, StoreInv, DataInv

(* Generations are dropped, and the objects only they refer to.            *)
LEMMA Dropped ==
  ASSUME Inv, mem' = NoTree, put' = <<>>, clientData' \in Seq(Range(clientData)),
         bags' = Kept(Range(clientData'))
  PROVE  StoreInv' /\ KeptFor(Range(clientData'), Store', Store)
<1>1. clientData' \in Seq(Range(clientData')) /\ Range(clientData') \subseteq Range(clientData)
  BY SeqRange
<1>. QED
  BY <1>1, DropIs DEF Inv

LEMMA RemoveCheckpointsStep ==
  ASSUME Inv, put = <<>>, RemoveCheckpoints
  PROVE  TreeInv' /\ KeptFor(Range(clientData'), Store', Store)
<1>1. /\ pc = "cleanup" /\ pc' = "idle" /\ mem' = NoTree /\ put' = <<>>
      /\ clientData' = Walk!Rest(clientData, made) /\ bags' = Kept(Range(clientData'))
  BY DEF RemoveCheckpoints, Walk!WalkEnds
<1>2. made \in Nat /\ made < Len(clientData)
  <2>1. made \in 0..MaxGens /\ made < Len(clientData)
    BY <1>1 DEF Inv, WalkInv, WalkTypes, MadeFits
  <2>. QED
    BY <2>1, BoundsAssumption
<1>3. clientData' \in Seq(Range(clientData))
  BY <1>1, <1>2, DataIs, RestRange
<1>4. StoreInv' /\ KeptFor(Range(clientData'), Store', Store)
  BY <1>1, <1>3, Dropped
<1>. QED
  BY <1>1, <1>4, NothingInMemory

LEMMA LeaveCheckpointsStep ==
  ASSUME Inv, put = <<>>, LeaveCheckpoints
  PROVE  TreeInv'
<1>1. UNCHANGED <<kind, stored>> /\ mem' = NoTree /\ ~Reading'
  BY DEF LeaveCheckpoints, Walk!WalkEnds, Walk!live, Reading
<1>. QED
  BY <1>1, NoTreeIs, MemChanges DEF DirsOnly

LEMMA CrashStep ==
  ASSUME Inv, Crash
  PROVE  TreeInv' /\ KeptFor(Range(clientData'), Store', Store)
<1>1. /\ pc' = "idle" /\ mem' = NoTree /\ put' = <<>>
      /\ clientData' = clientData /\ bags' = Kept(Range(clientData'))
  BY DEF Crash, Walk!WalkDies
<1>2. clientData' \in Seq(Range(clientData))
  BY <1>1, DataIs
<1>3. StoreInv' /\ KeptFor(Range(clientData'), Store', Store)
  BY <1>1, <1>2, Dropped
<1>. QED
  BY <1>1, <1>3, NothingInMemory

LEMMA ForgetStep ==
  ASSUME Inv, NEW i \in 1..MaxGens, Forget(i)
  PROVE  TreeInv' /\ KeptFor(Range(clientData'), Store', Store)
<1>1. /\ pc = "idle" /\ pc' = "idle" /\ mem' = mem /\ put' = put
      /\ i \in 1..Len(clientData)
      /\ clientData' = SubSeq(clientData, 1, i - 1) \o SubSeq(clientData, i + 1, Len(clientData))
      /\ bags' = Kept(Range(clientData'))
  BY DataIs DEF Forget, walkVars
<1>2. mem' = NoTree /\ put' = <<>>
  BY <1>1, InvParts
<1>3. clientData' \in Seq(Range(clientData))
  BY <1>1, DataIs, ForgetRange
<1>4. StoreInv' /\ KeptFor(Range(clientData'), Store', Store)
  BY <1>1, <1>2, <1>3, Dropped
<1>. QED
  BY <1>1, <1>2, <1>4, NothingInMemory

LEMMA FlushBagStep ==
  ASSUME Inv, FlushBag
  PROVE  TreeInv'
<1>1. /\ StoreInv' /\ KeptFor({mem.id} \cup Range(clientData), Store', Store)
      /\ mem' = mem /\ mem = Tree(mem.id) /\ clientData' = clientData
  BY FlushBagIs DEF Inv
<1>2. UNCHANGED <<kind, pc, after, file>>
  BY DEF FlushBag, walkVars
<1>3. \A p \in Names : /\ HasOf(mem, Store', p) <=> HasOf(mem, Store, p)
                       /\ EntryOf(mem, Store', p) = EntryOf(mem, Store, p)
  BY <1>1, KeptSame
<1>4. DirsOnly(DOMAIN mem.cache)'
  BY <1>1, <1>2, InvParts DEF DirsOnly
<1>5. ReadingFits'
  BY <1>1, <1>2, <1>3, InvParts DEF ReadingFits, Reading, IsFileIn, WalkTypes
<1>. QED
  BY <1>1, <1>4, <1>5 DEF TreeInv

LEMMA SaveStep ==
  ASSUME Inv, SaveClientData
  PROVE  TreeInv'
<1>1. /\ mem.cache = <<>> /\ put = <<>> /\ UNCHANGED <<bags, put, mem, kind, file>>
      /\ clientData' = Append(clientData, mem.id)
      /\ Reading' => Reading
  BY DEF SaveClientData, Flushed, Walk!WalkGoesOn, Walk!live, Reading
<1>2. Store' = Store
  BY <1>1, SameStore
<1>3. mem.id \in Roots(DOMAIN bags)
  BY <1>1, EmptyStore, InvParts DEF Inv, StoreInv, Hangs
<1>4. DataInv'
  <2>1. clientData' \in Seq(Roots(DOMAIN bags))
    BY <1>1, <1>3, DataIs
  <2>. QED
    BY <1>1, <2>1 DEF DataInv
<1>5. BagsInv' /\ PutInv' /\ Hangs(mem', Store')
  <2>1. BagsInv /\ PutInv /\ Hangs(mem, Store)
    BY DEF Inv, StoreInv
  <2>. QED
    BY <1>1, <1>2, <2>1 DEF BagsInv, PutInv
<1>6. DirsOnly(DOMAIN mem.cache)' /\ ReadingFits'
  BY <1>1, <1>2, InvParts DEF DirsOnly, ReadingFits, IsFileIn
<1>. QED
  BY <1>4, <1>5, <1>6 DEF TreeInv, StoreInv

(* What is created or deleted is not in the cache: no backup runs.         *)
LEMMA LiveStep ==
  ASSUME Inv, Live
  PROVE  TreeInv'
<1>1. PICK p \in Names : /\ UNCHANGED <<stored, mem>>
                         /\ Walk!Edit(p) \/ Walk!Delete(p) \/ \E k \in Kinds[p] : Walk!Create(p, k)
  BY DEF Live
<1>2. /\ UNCHANGED <<pc, after, file, mem, bags, put, clientData>>
      /\ UNCHANGED kind \/ pc = "idle"
  BY <1>1 DEF Walk!Edit, Walk!Delete, Walk!Create, Walk!walk, stored
<1>3. Store' = Store
  BY <1>2, SameStore
<1>4. StoreInv'
  <2>1. BagsInv /\ PutInv /\ DataInv /\ Hangs(mem, Store)
    BY DEF Inv, StoreInv
  <2>. QED
    BY <1>2, <1>3, <2>1 DEF StoreInv, BagsInv, PutInv, DataInv
<1>5. CASE pc = "idle"
  <2>1. mem' = NoTree /\ pc' = "idle"
    BY <1>2, <1>5, InvParts
  <2>. QED
    BY <1>4, <2>1, NothingInMemory
<1>6. CASE UNCHANGED kind
  BY <1>2, <1>3, <1>4, <1>6, InvParts DEF TreeInv, DirsOnly, ReadingFits, Reading, IsFileIn
<1>. QED
  BY <1>2, <1>5, <1>6

-----------------------------------------------------------------------------
(* Steps: the walk                                                         *)

LEMMA StartFileTypes ==
  ASSUME WalkTypes, NEW p \in Names, StartFile(p)
  PROVE  WalkTypes'
<1>1. existed' = FileExists(mem, p)
  BY DEF StartFile, Walk!WalkOpens
<1>2. existed' \in BOOLEAN
  BY <1>1 DEF FileExists
<1>. QED
  BY <1>2 DEF StartFile, Walk!WalkOpens, Walk!live, Walk!counts, WalkTypes

LEMMA WalkTypeStep ==
  ASSUME WalkTypes, MadeFits, DataInv, [Next]_vars
  PROVE  WalkTypes'
<1> USE BoundsAssumption DEF WalkTypes, vars, walkVars, Walk!live, Walk!walk, Walk!counts
<1>1. ASSUME NEW p \in Names, Walk!Edit(p) PROVE WalkTypes'
  BY <1>1 DEF Walk!Edit
<1>2. ASSUME NEW p \in Names, NEW k \in Kinds[p], Walk!Create(p, k) PROVE WalkTypes'
  <2>1. k \in {"dir", "file"}
    BY KindsAssumption
  <2>. QED
    BY <1>2, <2>1 DEF Walk!Create
<1>3. ASSUME NEW p \in Names, Walk!Delete(p) PROVE WalkTypes'
  BY <1>3 DEF Walk!Delete
<1>4. ASSUME NEW r \in BackupRoots, Walk!WalkStarts(r) PROVE WalkTypes'
  <2>1. r \in Names /\ todo' \subseteq Names
    BY <1>4 DEF Walk!WalkStarts, Walk!Under
  <2>2. backups' \in 0..MaxBackups /\ made' \in 0..MaxGens
    BY <1>4 DEF Walk!WalkStarts
  <2>. QED
    BY <1>4, <2>1, <2>2 DEF Walk!WalkStarts
<1>5. ASSUME NEW p \in Names, Walk!WalkDir(p) \/ Walk!WalkSkips(p) PROVE WalkTypes'
  BY <1>5 DEF Walk!WalkDir, Walk!WalkSkips
<1>6. ASSUME NEW n, Walk!WalkReads(n) \/ Walk!WalkCloses(n) PROVE WalkTypes'
  BY <1>6 DEF Walk!WalkReads, Walk!WalkCloses
<1>7. CASE Walk!WalkFails
  BY <1>7 DEF Walk!WalkFails
<1>8. ASSUME NEW next \in {"walk", "file", "cleanup"}, Walk!WalkPauses(next) PROVE WalkTypes'
  BY <1>8 DEF Walk!WalkPauses
<1>9. CASE Walk!WalkGoesOn(Len(clientData))
  <2>1. Len(clientData) \in Nat
    BY DEF DataInv
  <2>2. made \in 0..MaxGens /\ made <= Len(clientData) /\ Len(clientData) < MaxGens
    BY <1>9 DEF Walk!WalkGoesOn, MadeFits
  <2>3. made' = made \/ made' = made + 1
    BY <1>9 DEF Walk!WalkGoesOn
  <2>4. made' \in 0..MaxGens
    BY <2>1, <2>2, <2>3
  <2>. QED
    BY <1>9, <2>4 DEF Walk!WalkGoesOn
<1>10. CASE Walk!WalkEnds
  BY <1>10 DEF Walk!WalkEnds
<1>11. CASE Walk!WalkDies
  BY <1>11 DEF Walk!WalkDies
<1>12. CASE UNCHANGED <<kind, version, walkVars>>
  BY <1>12
<1>13. ASSUME NEW p \in Names, StartFile(p) PROVE WalkTypes'
  BY <1>13, StartFileTypes
<1>. QED
  BY <1>1, <1>2, <1>3, <1>4, <1>5, <1>6, <1>7, <1>8, <1>9, <1>10, <1>11, <1>12, <1>13
  DEF Next, Live, Backup, StartBackup, BackupDirectory, SkipFile, ReadChunk, EndFile,
      ReadError, BackupParents, SaveClientData, RemoveCheckpoints, LeaveCheckpoints, Crash,
      Forget, FlushClient, FlushBag

LEMMA LiveTreeStep ==
  ASSUME WalkTypes, LiveTree, [Next]_vars
  PROVE  LiveTree'
<1> USE DEF LiveTree
<1>1. ASSUME NEW p \in Names, NEW k \in Kinds[p], Walk!Create(p, k) PROVE LiveTree'
  <2>1. kind' = [kind EXCEPT ![p] = k] /\ kind[p] = "none" /\ kind[Parent[p]] = "dir"
    BY <1>1 DEF Walk!Create
  <2>2. kind \in [Names -> {"none", "dir", "file"}] /\ p # Root
    BY <2>1 DEF WalkTypes
  <2>3. ASSUME NEW q \in Names \ {Root}, kind'[q] # "none" PROVE kind'[Parent[q]] = "dir"
    <3>1. Parent[q] \in Names /\ kind[Parent[q]] = "dir"
      BY <2>1, <2>2, <2>3, ParentIs
    <3>. QED
      BY <2>1, <2>2, <3>1
  <2>. QED
    BY <2>1, <2>2, <2>3, TreeAssumption
<1>2. ASSUME NEW p \in Names, Walk!Delete(p) PROVE LiveTree'
  <2>1. /\ kind' = [kind EXCEPT ![p] = "none"] /\ p # Root
        /\ \A q \in Names \ {Root} : Parent[q] = p => kind[q] = "none"
    BY <1>2 DEF Walk!Delete
  <2>2. kind \in [Names -> {"none", "dir", "file"}]
    BY DEF WalkTypes
  <2>3. ASSUME NEW q \in Names \ {Root}, kind'[q] # "none" PROVE kind'[Parent[q]] = "dir"
    BY <2>1, <2>2, <2>3, ParentIs
  <2>. QED
    BY <2>1, <2>2, <2>3, TreeAssumption
<1>3. CASE kind' = kind
  BY <1>3
<1>. QED
  BY <1>1, <1>2, <1>3
  DEF Next, Live, Backup, StartBackup, BackupDirectory, SkipFile, StartFile, ReadChunk,
      EndFile, ReadError, BackupParents, SaveClientData, RemoveCheckpoints,
      LeaveCheckpoints, Crash, Forget, FlushClient, FlushBag, Walk!Edit, Walk!WalkStarts,
      Walk!WalkDir, Walk!WalkSkips, Walk!WalkOpens, Walk!WalkReads, Walk!WalkCloses,
      Walk!WalkFails, Walk!WalkPauses, Walk!WalkGoesOn, Walk!WalkEnds, Walk!WalkDies,
      Walk!live, vars

LEMMA MadeStep ==
  ASSUME WalkTypes, MadeFits, DataInv, [Next]_vars
  PROVE  MadeFits'
<1> USE DEF MadeFits
<1>1. Len(clientData) \in Nat /\ made \in Nat
  BY BoundsAssumption DEF WalkTypes, DataInv
<1>2. CASE SaveClientData
  <2>1. Len(clientData') = Len(clientData) + 1 /\ pc = "commit" /\ pc' = after
    BY <1>2 DEF SaveClientData, Walk!WalkGoesOn, DataInv
  <2>2. made' = IF after = "cleanup" THEN made ELSE made + 1
    BY <1>2 DEF SaveClientData, Walk!WalkGoesOn
  <2>. QED
    BY <1>1, <2>1, <2>2
<1>3. ASSUME NEW r \in BackupRoots, StartBackup(r) PROVE MadeFits'
  BY <1>1, <1>3 DEF StartBackup, Walk!WalkStarts, stored
<1>4. CASE pc' = "idle"
  BY <1>4
<1>5. CASE /\ clientData' = clientData /\ made' = made /\ pc # "idle"
           /\ pc' = "cleanup" => pc = "cleanup"
  BY <1>5
<1>6. CASE UNCHANGED <<clientData, made, pc>>
  BY <1>6
<1>. QED
  BY <1>2, <1>3, <1>4, <1>5, <1>6
  DEF Next, Live, Backup, BackupDirectory, SkipFile, StartFile,
      ReadChunk, EndFile, ReadError, BackupParents, RemoveCheckpoints, LeaveCheckpoints,
      Crash, Forget, FlushClient, FlushBag, stored, walkVars, vars,
      Walk!Edit, Walk!Create, Walk!Delete, Walk!WalkDir, Walk!WalkSkips, Walk!WalkOpens,
      Walk!WalkReads, Walk!WalkCloses, Walk!WalkFails, Walk!WalkPauses, Walk!WalkEnds,
      Walk!WalkDies, Walk!live, Walk!walk, Walk!counts

LEMMA BackupFitsStep ==
  ASSUME WalkTypes, MadeFits, DataInv, BackupFits, [Next]_vars
  PROVE  BackupFits'
<1> USE DEF BackupFits
<1>1. CASE Live
  BY <1>1 DEF Live, stored, Walk!Edit, Walk!Create, Walk!Delete, Walk!live, Walk!walk
<1>2. ASSUME NEW r \in BackupRoots, StartBackup(r) PROVE BackupFits'
  BY <1>2 DEF StartBackup, Walk!WalkStarts, Walk!live
<1>3. CASE put = <<>> /\ (RemoveCheckpoints \/ LeaveCheckpoints)
  BY <1>3 DEF RemoveCheckpoints, LeaveCheckpoints, Walk!WalkEnds, stored
<1>4. CASE Crash
  BY <1>4 DEF Crash, Walk!WalkDies
<1>5. CASE pc # "idle" /\ pc' # "idle" /\ UNCHANGED <<kind, root>>
  BY <1>5
<1>6. CASE UNCHANGED <<kind, root, pc, mem, put>>
  BY <1>6
<1>7. CASE FlushBag
  BY <1>7 DEF FlushBag, walkVars
<1>8. after # "idle"
  BY DEF WalkTypes
<1>. QED
  BY <1>1, <1>2, <1>3, <1>4, <1>5, <1>6, <1>7, <1>8
  DEF Next, Backup, BackupDirectory, SkipFile, StartFile, ReadChunk, EndFile, ReadError,
      BackupParents, SaveClientData, Forget, FlushClient, stored, walkVars, vars,
      Walk!WalkDir, Walk!WalkSkips, Walk!WalkOpens, Walk!WalkReads, Walk!WalkCloses,
      Walk!WalkFails, Walk!WalkPauses, Walk!WalkGoesOn, Walk!live, Walk!walk, Walk!counts

-----------------------------------------------------------------------------
(* The invariant                                                           *)

LEMMA InitInv == Init => Inv
<1> SUFFICES ASSUME Init PROVE Inv
  OBVIOUS
<1>1. /\ bags = <<>> /\ put = <<>> /\ clientData = <<>> /\ mem = NoTree
      /\ kind = [p \in Names |-> IF p = Root THEN "dir" ELSE "none"]
      /\ version = [p \in Names |-> 0] /\ since = [p \in Names |-> 0]
      /\ pc = "idle" /\ after = "walk" /\ root = Root /\ file = Root /\ todo = {}
      /\ existed = FALSE /\ errors = FALSE /\ made = 0 /\ backups = 0 /\ faults = 0
  BY DEF Init, Walk!Init
<1>2. DOMAIN bags = {} /\ DOMAIN put = {}
  BY <1>1
<1>3. BagsInv
  <2>1. bags = [i \in DOMAIN bags |-> bags[i]]
    BY <1>1
  <2>2. IsFiniteSet(DOMAIN bags)
    BY <1>2, FS_EmptySet
  <2>. QED
    BY <1>2, <2>1, <2>2 DEF BagsInv, IsStore
<1>4. PutInv
  <2>1. DOMAIN Store = {}
    BY <1>2, StoreIs
  <2>. QED
    BY <1>1, <1>2, <2>1, FS_EmptySet DEF PutInv, IsStore
<1>5. DataInv /\ Hangs(mem, Store)
  BY <1>1, NoTreeIs DEF DataInv
<1>6. WalkTypes
  <2>1. Root \in Names /\ 0 \in 0..MaxVersion /\ 0 \in 0..MaxGens
        /\ 0 \in 0..MaxBackups /\ 0 \in 0..MaxFaults
    BY TreeAssumption, BoundsAssumption
  <2>. QED
    BY <1>1, <2>1 DEF WalkTypes
<1>7. LiveTree
  BY <1>1, TreeAssumption DEF LiveTree
<1>8. MadeFits /\ BackupFits
  BY <1>1 DEF MadeFits, BackupFits
<1>9. DirsOnly(DOMAIN mem.cache) /\ ReadingFits
  BY <1>1, NoTreeIs DEF DirsOnly, ReadingFits, Reading
<1>. QED
  BY <1>3, <1>4, <1>5, <1>6, <1>7, <1>8, <1>9 DEF Inv, StoreInv, WalkInv

LEMMA TreeStep ==
  ASSUME Inv, [Next]_vars
  PROVE  TreeInv'
<1>1. CASE Live
  BY <1>1, LiveStep
<1>2. CASE put = <<>> /\ Backup
  BY <1>2, StartBackupStep, BackupDirectoryStep, SkipFileStep, StartFileStep, ReadChunkStep,
     EndFileStep, ReadErrorStep, BackupParentsStep, RemoveCheckpointsStep,
     LeaveCheckpointsStep, FlushClientStep
  DEF Backup
<1>3. CASE FlushBag
  BY <1>3, FlushBagStep
<1>4. CASE SaveClientData
  BY <1>4, SaveStep
<1>5. CASE Crash
  BY <1>5, CrashStep
<1>6. ASSUME NEW i \in 1..MaxGens, Forget(i) PROVE TreeInv'
  BY <1>6, ForgetStep
<1>7. CASE UNCHANGED vars
  <2>1. UNCHANGED <<bags, put, clientData, mem, kind, pc, after, file>>
    BY <1>7 DEF vars, stored, walkVars
  <2>2. Store' = Store
    BY <2>1, SameStore
  <2>3. BagsInv /\ PutInv /\ DataInv /\ Hangs(mem, Store)
    BY DEF Inv, StoreInv
  <2>. QED
    BY <2>1, <2>2, <2>3, InvParts
    DEF TreeInv, StoreInv, BagsInv, PutInv, DataInv, DirsOnly, ReadingFits, Reading, IsFileIn
<1>. QED
  BY <1>1, <1>2, <1>3, <1>4, <1>5, <1>6, <1>7 DEF Next

LEMMA NextInv ==
  ASSUME Inv, [Next]_vars
  PROVE  Inv'
<1>1. WalkTypes /\ MadeFits /\ LiveTree /\ BackupFits /\ DataInv
  BY DEF Inv, StoreInv, WalkInv
<1>2. WalkTypes' /\ MadeFits' /\ LiveTree' /\ BackupFits'
  BY <1>1, WalkTypeStep, MadeStep, LiveTreeStep, BackupFitsStep
<1>3. TreeInv'
  BY TreeStep
<1>. QED
  BY <1>2, <1>3 DEF Inv, WalkInv, TreeInv

(* The invariant: stored objects refer to stored objects, each under its   *)
(* path; the cache is a tree of live directories, from the root; and what  *)
(* the walk keeps of the live data fits both.                              *)
THEOREM Invariance == Spec => []Inv
<1>. QED
  BY InitInv, NextInv, PTL DEF Spec

-----------------------------------------------------------------------------
(* What follows from it                                                    *)

LEMMA FilesFit ==
  ASSUME NEW o, NEW t, IsStore(o), Hangs(t, o)
  PROVE  /\ DOMAIN FilesOf(t, o) \subseteq Names
         /\ \A p \in DOMAIN FilesOf(t, o) : FilesOf(t, o)[p] \in Walk!Entries
  BY EntryIs, EntrySetIs DEF FilesOf

LEMMA ObjectIsDirectory ==
  ASSUME NEW p \in Names, NEW d, NEW ids, IsObject(p, d, ids), ids \subseteq {NoId} \cup (Names \X Nat)
  PROVE  IsDirectory(d)
<1>1. /\ d = [files |-> d.files, subdirs |-> d.subdirs]
      /\ DOMAIN d.subdirs \subseteq Names \ {Root}
      /\ DOMAIN d.files \subseteq Names
  BY DEF IsObject, Fits, Kids
<1>2. \A f, s : DOMAIN [files |-> f, subdirs |-> s] = {"files", "subdirs"}
  OBVIOUS
<1>3. DOMAIN d = {"files", "subdirs"}
  BY <1>1, <1>2
<1>4. /\ \A q \in DOMAIN d.files : d.files[q] \in Walk!Entries \cup {NoKeys}
      /\ \A q \in DOMAIN d.subdirs : d.subdirs[q] \in Ids
  BY DEF IsObject, Ids, EntrySet
<1>. QED
  BY <1>1, <1>3, <1>4 DEF IsDirectory

LEMMA GenerationsFit ==
  ASSUME Inv, NEW i \in DOMAIN clientData
  PROVE  /\ clientData[i] \in Roots(DOMAIN bags)
         /\ Hangs(Tree(clientData[i]), Store)
         /\ Generations[i] = FilesOf(Tree(clientData[i]), Store)
<1>1. BagsInv /\ PutInv /\ DataInv
  BY DEF Inv, StoreInv
<1>2. clientData[i] \in Roots(DOMAIN bags)
  BY <1>1, RangeIs
<1>3. Hangs(Tree(clientData[i]), Store)
  BY <1>1, <1>2, RootsIn, RootTreeHangs
<1>. QED
  BY <1>2, <1>3, FilesAre DEF Generations

LEMMA InvTypes == Inv => TypeOK
<1> SUFFICES ASSUME Inv PROVE TypeOK
  OBVIOUS
<1>1. /\ IsStore(Store) /\ Hangs(mem, Store) /\ WalkTypes
      /\ DOMAIN Store = DOMAIN bags \cup DOMAIN put
      /\ \A i \in DOMAIN Store : Store[i] = Object(i)
  BY InvParts, StoreIs
<1>2. \A i \in DOMAIN Generations :
        /\ DOMAIN Generations[i] \subseteq Names
        /\ \A p \in DOMAIN Generations[i] : Generations[i][p] \in Walk!Entries
  <2>1. ASSUME NEW i \in DOMAIN Generations
        PROVE  /\ DOMAIN Generations[i] \subseteq Names
               /\ \A p \in DOMAIN Generations[i] : Generations[i][p] \in Walk!Entries
    <3>1. i \in DOMAIN clientData
      BY DEF Generations
    <3>. QED
      BY <1>1, <3>1, GenerationsFit, FilesFit
  <2>. QED
    BY <2>1
<1>3. DOMAIN Files(mem) \subseteq Names /\ \A p \in DOMAIN Files(mem) : Files(mem)[p] \in Walk!Entries
  BY <1>1, FilesAre, FilesFit
<1>4. Walk!TypeOK
  BY <1>1, <1>2, <1>3 DEF Walk!TypeOK, WalkTypes
<1>5. DOMAIN bags \cup DOMAIN put \subseteq Ids \ {NoId}
  BY <1>1, NoIdIs DEF IsStore, Ids
<1>6. ASSUME NEW i \in DOMAIN bags \cup DOMAIN put
      PROVE  IsDirectory(Object(i)) /\ NoId \notin Range(Object(i).subdirs)
  <2>1. IsObject(i[1], Object(i), DOMAIN Store) /\ DOMAIN Store \subseteq Names \X Nat
    BY <1>1 DEF IsStore
  <2> DEFINE d == Object(i)
  <2>. HIDE DEF d
  <2>2. IsObject(i[1], d, DOMAIN Store)
    BY <2>1 DEF d
  <2>3. i \in Names \X Nat
    BY <1>1, <2>1
  <2>4. IsDirectory(d)
    BY <2>1, <2>2, <2>3, ObjectIsDirectory
  <2>5. \A q \in DOMAIN d.subdirs : d.subdirs[q] # NoId
    BY <2>1, <2>2, NoIdIs DEF IsObject
  <2>6. NoId \notin Range(d.subdirs)
    BY <2>5 DEF Range
  <2>. QED
    BY <2>4, <2>6 DEF d
<1>7. mem.id \in Ids /\ DOMAIN mem.cache \subseteq Names
  BY <1>1 DEF Hangs, Roots, IsStore, Ids
<1>8. \A p \in DOMAIN mem.cache : IsDirectory(mem.cache[p])
  <2>1. {NoId} \cup DOMAIN Store \subseteq {NoId} \cup (Names \X Nat)
    BY <1>1 DEF IsStore
  <2>. QED
    BY <1>1, <2>1, ObjectIsDirectory DEF Hangs
<1>. QED
  BY <1>4, <1>5, <1>6, <1>7, <1>8 DEF TypeOK

(* The variables have their types in every reachable state.                *)
THEOREM Typing == Spec => []TypeOK
<1>. QED
  BY Invariance, InvTypes, PTL

(* The client's data refer to directory objects on disk, and these to      *)
(* others on disk, whatever died between two writes: what is stored is     *)
(* closed under references, before and after objects are dropped.          *)
THEOREM NothingDangles == Spec => []NoDanglingDirectories
<1>1. Inv => NoDanglingDirectories
  <2>1. SUFFICES ASSUME Inv, NEW i \in DOMAIN clientData
                 PROVE  Refers(clientData[i]) \subseteq DOMAIN bags
    BY DEF NoDanglingDirectories
  <2>2. IsStore(bags) /\ IsStore(Store) /\ PartOf(bags, Store)
    BY <2>1, BagsArePart DEF Inv, StoreInv, BagsInv, PutInv
  <2>3. clientData[i] \in Roots(DOMAIN bags)
    BY <2>1, GenerationsFit
  <2>4. Refers(clientData[i]) = ReachOf(clientData[i], bags)
    BY <2>2, <2>3, PartSame, RefersIs
  <2>. QED
    BY <2>2, <2>3, <2>4, ReachIs
<1>. QED
  BY <1>1, Invariance, PTL

(* A flush finds all that was changed, and all that is referred to as      *)
(* being in the cache: the cache is a tree from the root.                  *)
THEOREM CacheIsWhole == Spec => []CacheHangsTogether
<1>1. Inv => CacheHangsTogether
  BY InvParts, InCacheIs DEF CacheHangsTogether, Hangs, CacheDown
<1>. QED
  BY <1>1, Invariance, PTL


-----------------------------------------------------------------------------
(* Kinds of names                                                          *)

(* Each path is a file or a directory, whenever it is there.  Otherwise    *)
(* the objects do not implement the maps: in MCReplaced a directory whose  *)
(* place a file has taken remains in the generation.                       *)
OneKind == \A p \in Names : \A k, l \in Kinds[p] : k = l

LiveKinds == \A p \in Names : kind[p] # "none" => kind[p] \in Kinds[p]

(* Directories have objects and no chunks, files have neither object nor   *)
(* metadata of another kind.                                               *)
KindFits(t, o, p) ==
  /\ HasOf(t, o, p) => /\ "dir" \in Kinds[p]
                       /\ EntryOf(t, o, p).kind # "file"
                       /\ EntryOf(t, o, p).chunks = <<>>
  /\ ~HasOf(t, o, p) /\ EntryOf(t, o, p).kind # "none" =>
       "file" \in Kinds[p] /\ EntryOf(t, o, p).kind = "file"
TreeKinds(t, o) == \A p \in Names : KindFits(t, o, p)

LEMMA NotBoth ==
  ASSUME OneKind, NEW p \in Names, "dir" \in Kinds[p]
  PROVE  "file" \notin Kinds[p]
  BY DEF OneKind

LEMMA NoKeysIs ==
  ASSUME NEW e \in EntrySet, e.kind = "none"
  PROVE  e = NoKeys
  BY DEF EntrySet, Walk!Entries

LEMMA NoKeysFit == NoKeys.kind = "none" /\ NoKeys.chunks = <<>>
  BY DEF NoKeys

(* Without a directory object there is an entry exactly if it has a kind.  *)
LEMMA ExistsIs ==
  ASSUME NEW o, NEW t, IsStore(o), Hangs(t, o), NEW p \in Names, ~HasOf(t, o, p)
  PROVE  ExistsOf(t, o, p) <=> EntryOf(t, o, p).kind # "none"
<1>1. CASE p = Root
  <2>1. DirectoryOf(t, o, p) = NoDirectory /\ HolderOf(t, o, p) = p
    BY <1>1, FoundIs, ParentIs DEF HolderOf
  <2>2. ~ExistsOf(t, o, p)
    BY <2>1 DEF ExistsOf, NoDirectory
  <2>. QED
    BY <2>2, NoKeysFit DEF EntryOf
<1>2. CASE p # Root
  <2> DEFINE d == DirectoryOf(t, o, Parent[p])
  <2>1. HolderOf(t, o, p) = Parent[p] /\ Parent[p] # p
    BY <1>2, NotOwnParent DEF HolderOf
  <2>2. IsObject(Parent[p], d, {NoId} \cup DOMAIN o)
    BY FoundIs, ParentIs
  <2>3. ExistsOf(t, o, p) <=> p \in DOMAIN d.files
    BY <2>1 DEF ExistsOf
  <2>4. EntryOf(t, o, p) = IF p \in DOMAIN d.files THEN d.files[p] ELSE NoKeys
    BY <2>1, <2>3 DEF EntryOf
  <2> HIDE DEF d
  <2>5. p \in DOMAIN d.files => d.files[p].kind # "none"
    BY <2>1, <2>2 DEF IsObject
  <2>. QED
    BY <2>3, <2>4, <2>5, NoKeysFit
<1>. QED
  BY <1>1, <1>2

LEMMA DirEntry ==
  ASSUME OneKind, NEW o, NEW t, IsStore(o), Hangs(t, o), TreeKinds(t, o),
         NEW p \in Names, "dir" \in Kinds[p]
  PROVE  /\ Clear(t, o, p)
         /\ ~HasOf(t, o, p) => EntryOf(t, o, p) = NoKeys
         /\ EntryOf(t, o, p).chunks = <<>>
<1>1. KindFits(t, o, p) /\ "file" \notin Kinds[p]
  BY NotBoth DEF TreeKinds
<1>2. ~HasOf(t, o, p) => EntryOf(t, o, p).kind = "none" /\ ~ExistsOf(t, o, p)
  BY <1>1, ExistsIs DEF KindFits
<1>3. ~HasOf(t, o, p) => EntryOf(t, o, p) = NoKeys
  BY <1>2, EntryIs, NoKeysIs
<1>4. Clear(t, o, p)
  BY <1>2 DEF Clear, ExistsOf, HolderOf
<1>. QED
  BY <1>1, <1>3, <1>4, NoKeysFit DEF KindFits

(* There is nothing at q or below it if its directory does not have q.     *)
LEMMA GoneBelow ==
  ASSUME NEW o, NEW t, IsStore(o), Hangs(t, o), NEW q \in Names \ {Root},
         NEW d, d = DirectoryOf(t, o, Parent[q]),
         q \notin DOMAIN d.files, q \notin DOMAIN d.subdirs
  PROVE  \A p \in Names : q \in Above[p] => ~HasOf(t, o, p) /\ EntryOf(t, o, p) = NoKeys
<1> DEFINE Gone(p) == ~HasOf(t, o, p) /\ EntryOf(t, o, p) = NoKeys
           T == {p \in Names : q \in Above[p] => Gone(p)}
<1>1. Root \in T
  BY ParentIs, AboveIs
<1>2. ASSUME NEW p \in Names \ {Root}, NEW e, e = DirectoryOf(t, o, Parent[p]),
             p \notin DOMAIN e.files, p \notin DOMAIN e.subdirs
      PROVE  Gone(p)
  <2>1. ~HasOf(t, o, p)
    BY <1>2, HasIs
  <2>2. ~ExistsOf(t, o, p)
    BY <1>2, <2>1 DEF ExistsOf, HolderOf
  <2>. QED
    BY <2>1, <2>2 DEF EntryOf
<1>3. Gone(q)
  BY <1>2
<1>4. ASSUME NEW p \in Names \ {Root}, Parent[p] \in T, q \in Above[p], p # q
      PROVE  Gone(p)
  <2>1. q \in Above[Parent[p]] /\ Parent[p] \in Names
    BY <1>4, AboveIs, ParentIs
  <2>2. DirectoryOf(t, o, Parent[p]) = NoDirectory
    BY <1>4, <2>1, FoundIs
  <2>. QED
    BY <1>2, <2>2 DEF NoDirectory
<1> HIDE DEF Gone
<1>5. ASSUME NEW p \in Names \ {Root}, Parent[p] \in T PROVE p \in T
  BY <1>3, <1>4, <1>5
<1>6. T = Names
  <2> HIDE DEF T
  <2>. QED
    BY <1>1, <1>5, TreeInduction DEF T
<1>. QED
  BY <1>6 DEF Gone

(* Nothing that is removed is below something else that is.                *)
Flat(S) == \A q \in S : Above[Parent[q]] \cap S = {}

(* A change that keeps the kinds.                                          *)
Fitting(t, o, C, S, w) ==
  /\ Allowed(t, C, S, w) /\ Homes(t, o, w) \subseteq C
  /\ \A p \in C : "dir" \in Kinds[p]
  /\ \A p \in DOMAIN w : /\ w[p].kind \in Kinds[p]
                         /\ w[p].kind = "dir" => w[p].chunks = <<>>
  /\ S # {} => Flat(S) /\ DOMAIN w = {} /\ ParentsOf(t, o, S) \subseteq C

LEMMA RemovedGone ==
  ASSUME OneKind, NEW o, NEW t, NEW u, NEW C, NEW S, NEW w,
         IsStore(o), Hangs(t, o), Hangs(u, o), TreeKinds(t, o), Becomes(t, u, o, C, S, w),
         Fitting(t, o, C, S, w), NEW q \in S
  PROVE  \A p \in Names : q \in Above[p] => ~HasOf(u, o, p) /\ EntryOf(u, o, p) = NoKeys
<1> DEFINE r == Parent[q]
           d == DirectoryOf(u, o, Parent[q])
<1>1. /\ S \subseteq Names \ {Root} /\ S \cap C = {} /\ C \subseteq Names
      /\ Above[r] \cap S = {} /\ DOMAIN w = {} /\ ParentsOf(t, o, S) \subseteq C
  BY DEF Fitting, Allowed, Flat
<1>2. q \in Names \ {Root} /\ r \in Names
  BY <1>1, ParentIs
<1>3. CASE r \in C
  <2>1. d = u.cache[r]
    BY <1>3, CachedIs DEF Becomes
  <2>2. /\ DOMAIN u.cache[r].subdirs = (DOMAIN OrNew(t, o, r).subdirs \ S) \cup (C \cap Kids(r))
        /\ DOMAIN u.cache[r].files =
             (DOMAIN OrNew(t, o, r).files \ S) \cup {p \in DOMAIN w : Home(t, o, p, w[p]) = r}
    BY <1>3 DEF Becomes
  <2>3. q \notin DOMAIN d.subdirs /\ q \notin DOMAIN d.files
    BY <1>1, <2>1, <2>2
  <2>. QED
    BY <1>2, <2>3, GoneBelow
<1>4. CASE r \notin C
  <2>1. ~HasOf(t, o, r)
    BY <1>1, <1>4 DEF ParentsOf
  <2>2. HasOf(u, o, r) <=> HasOf(t, o, r)
    BY <1>1, <1>2, <1>4, EntryStays DEF Fitting
  <2>3. d = NoDirectory
    BY <1>2, <2>1, <2>2, FoundIs
  <2>. QED
    BY <1>2, <2>3, GoneBelow DEF NoDirectory
<1>. QED
  BY <1>3, <1>4

(* What there is after a change.                                           *)
Changes(t, u, o, S, w) ==
  \A p \in Names :
    EntryOf(u, o, p) = IF Above[p] \cap S # {} THEN NoKeys
                       ELSE IF p \in DOMAIN w THEN w[p] ELSE EntryOf(t, o, p)

LEMMA EntriesAfter ==
  ASSUME OneKind, NEW o, NEW t, NEW u, NEW C, NEW S, NEW w,
         IsStore(o), Hangs(t, o), TreeKinds(t, o), Becomes(t, u, o, C, S, w),
         Fitting(t, o, C, S, w)
  PROVE  Changes(t, u, o, S, w) /\ TreeKinds(u, o)
<1>1. /\ Allowed(t, C, S, w) /\ Homes(t, o, w) \subseteq C
      /\ \A p \in C : "dir" \in Kinds[p]
      /\ \A p \in DOMAIN w : /\ w[p].kind \in Kinds[p] /\ w[p] \in EntrySet
                             /\ w[p].kind = "dir" => w[p].chunks = <<>>
      /\ C \subseteq Names /\ DOMAIN w \subseteq Names
  BY DEF Fitting, Allowed
<1>2. Hangs(u, o)
  BY <1>1, HangsStill
<1>3. ASSUME NEW p \in Names, Above[p] \cap S # {}
      PROVE  ~HasOf(u, o, p) /\ EntryOf(u, o, p) = NoKeys
  <2>1. PICK q \in Above[p] \cap S : TRUE
    BY <1>3
  <2>. QED
    BY <1>2, <2>1, RemovedGone
<1>4. ASSUME NEW p \in C
      PROVE  Clear(t, o, p) /\ (p \in DOMAIN w => w[p].kind = "dir")
  <2>1. "dir" \in Kinds[p] /\ p \in Names
    BY <1>1, <1>4
  <2>. QED
    BY <1>1, <2>1, DirEntry DEF OneKind
<1>5. ASSUME NEW p \in Names, Above[p] \cap S = {}
      PROVE  /\ EntryOf(u, o, p) = IF p \in DOMAIN w THEN w[p] ELSE EntryOf(t, o, p)
             /\ p \notin C => (HasOf(u, o, p) <=> HasOf(t, o, p))
  BY <1>1, <1>4, <1>5, EntryStays
<1>6. Changes(t, u, o, S, w)
  BY <1>3, <1>5 DEF Changes
<1>7. ASSUME NEW p \in Names PROVE KindFits(u, o, p)
  <2>1. CASE Above[p] \cap S # {}
    BY <1>3, <2>1, NoKeysFit DEF KindFits
  <2>2. CASE Above[p] \cap S = {} /\ p \in C
    <3>1. HasOf(u, o, p) /\ "dir" \in Kinds[p]
      BY <1>1, <2>2, CachedIs DEF Becomes
    <3>2. EntryOf(t, o, p).kind # "file" /\ EntryOf(t, o, p).chunks = <<>>
      BY <3>1, DirEntry, NoKeysFit DEF TreeKinds, KindFits
    <3>3. p \in DOMAIN w => w[p].kind = "dir" /\ w[p].chunks = <<>>
      BY <1>1, <1>4, <2>2
    <3>. QED
      BY <1>5, <2>2, <3>1, <3>2, <3>3 DEF KindFits
  <2>3. CASE Above[p] \cap S = {} /\ p \notin C
    <3>1. KindFits(t, o, p) /\ (HasOf(u, o, p) <=> HasOf(t, o, p))
      BY <1>5, <2>3 DEF TreeKinds
    <3>2. CASE p \notin DOMAIN w
      BY <1>5, <2>3, <3>1, <3>2 DEF KindFits
    <3>3. CASE p \in DOMAIN w
      <4>1. EntryOf(u, o, p) = w[p] /\ w[p].kind \in Kinds[p]
        BY <1>1, <1>5, <2>3, <3>3
      <4>2. Home(t, o, p, w[p]) # p
        BY <1>1, <2>3, <3>3 DEF Homes
      <4>3. ~HasOf(t, o, p) /\ (w[p].kind = "dir" => ExistsOf(t, o, p))
        BY <4>2 DEF Home, HolderOf
      <4>4. w[p].kind = "dir" => EntryOf(t, o, p).kind # "none"
        BY <4>3, ExistsIs
      <4>5. w[p].kind # "dir"
        BY <3>1, <4>1, <4>3, <4>4, NotBoth DEF KindFits
      <4>6. w[p].kind = "file"
        BY <1>1, <3>3, <4>1, <4>5, KindsAssumption
      <4>. QED
        BY <3>1, <4>1, <4>3, <4>6 DEF KindFits
    <3>. QED
      BY <3>2, <3>3
  <2>. QED
    BY <2>1, <2>2, <2>3
<1>. QED
  BY <1>6, <1>7 DEF TreeKinds

-----------------------------------------------------------------------------
(* The maps                                                                *)

SameEntries(t, o, u, x) ==
  \A p \in Names : /\ HasOf(u, x, p) <=> HasOf(t, o, p)
                   /\ EntryOf(u, x, p) = EntryOf(t, o, p)

LEMMA SameFiles ==
  ASSUME NEW t, NEW o, NEW u, NEW x, SameEntries(t, o, u, x)
  PROVE  /\ FilesOf(u, x) = FilesOf(t, o)
         /\ TreeKinds(t, o) => TreeKinds(u, x)
  BY DEF SameEntries, FilesOf, TreeKinds, KindFits

LEMMA FilesHave ==
  ASSUME NEW t, NEW o
  PROVE  /\ DOMAIN FilesOf(t, o) = {p \in Names : EntryOf(t, o, p).kind # "none"}
         /\ \A p \in DOMAIN FilesOf(t, o) : FilesOf(t, o)[p] = EntryOf(t, o, p)
         /\ FilesOf(t, o) = [p \in DOMAIN FilesOf(t, o) |-> FilesOf(t, o)[p]]
  BY DEF FilesOf

(* Functions with the same domain and values.                              *)
LEMMA SameMap ==
  ASSUME NEW t, NEW o, NEW f, f = [p \in DOMAIN f |-> f[p]],
         DOMAIN f = {p \in Names : EntryOf(t, o, p).kind # "none"},
         \A p \in DOMAIN f : f[p] = EntryOf(t, o, p)
  PROVE  FilesOf(t, o) = f
  BY DEF FilesOf

LEMMA FilesWithout ==
  ASSUME NEW t, NEW o, NEW u, NEW x, NEW S,
         \A p \in Names : EntryOf(u, x, p) = IF Above[p] \cap S # {} THEN NoKeys
                                             ELSE EntryOf(t, o, p)
  PROVE  FilesOf(u, x) = Walk!Without(FilesOf(t, o), S)
<1> DEFINE f == FilesOf(t, o)
           g == Walk!Without(f, S)
<1>1. /\ DOMAIN f = {p \in Names : EntryOf(t, o, p).kind # "none"}
      /\ \A p \in DOMAIN f : f[p] = EntryOf(t, o, p)
  BY FilesHave
<1> HIDE DEF f
<1>2. /\ g = [p \in DOMAIN g |-> g[p]]
      /\ DOMAIN g = DOMAIN f \cap {p \in Names : Above[p] \cap S = {}}
      /\ \A p \in DOMAIN g : g[p] = f[p]
  BY DEF Walk!Without, Walk!Only
<1> HIDE DEF g
<1>3. DOMAIN g = {p \in Names : EntryOf(u, x, p).kind # "none"}
  BY <1>1, <1>2, NoKeysFit
<1>4. \A p \in DOMAIN g : g[p] = EntryOf(u, x, p)
  BY <1>1, <1>2
<1>5. FilesOf(u, x) = g
  BY <1>2, <1>3, <1>4, SameMap
<1>. QED
  BY <1>5 DEF g, f

LEMMA FilesWith ==
  ASSUME NEW t, NEW o, NEW u, NEW x, NEW p \in Names, NEW e, e.kind # "none",
         \A q \in Names : EntryOf(u, x, q) = IF q = p THEN e ELSE EntryOf(t, o, q)
  PROVE  FilesOf(u, x) = Walk!With(FilesOf(t, o), p, e)
<1> DEFINE f == FilesOf(t, o)
           g == Walk!With(f, p, e)
<1>1. /\ DOMAIN f = {q \in Names : EntryOf(t, o, q).kind # "none"}
      /\ \A q \in DOMAIN f : f[q] = EntryOf(t, o, q)
  BY FilesHave
<1> HIDE DEF f
<1>2. /\ g = [q \in DOMAIN g |-> g[q]]
      /\ DOMAIN g = DOMAIN f \cup {p}
      /\ \A q \in DOMAIN g : g[q] = IF q = p THEN e ELSE f[q]
  BY DEF Walk!With
<1> HIDE DEF g
<1>3. DOMAIN g = {q \in Names : EntryOf(u, x, q).kind # "none"}
  BY <1>1, <1>2
<1>4. \A q \in DOMAIN g : g[q] = EntryOf(u, x, q)
  BY <1>1, <1>2
<1>5. FilesOf(u, x) = g
  BY <1>2, <1>3, <1>4, SameMap
<1>. QED
  BY <1>5 DEF g, f

LEMMA NoFiles ==
  ASSUME NEW o, IsStore(o)
  PROVE  FilesOf(NoTree, o) = <<>> /\ TreeKinds(NoTree, o)
<1>1. \A p \in Names : ~HasOf(NoTree, o, p) /\ EntryOf(NoTree, o, p) = NoKeys
  <2> DEFINE T == {p \in Names : PlacesOf(NoTree, o)[p] = NoId}
  <2>1. DOMAIN NoTree.cache = {} /\ NoTree.id = NoId /\ NoId \notin DOMAIN o
    BY NoIdIs DEF NoTree, IsStore
  <2>6. PlacesOf(NoTree, o)[Root] = NoTree.id /\ Root \in Names
    BY PlacesOfIs, TreeAssumption
  <2>2. Root \in T
    BY <2>1, <2>6
  <2>3. ASSUME NEW p \in Names \ {Root}, Parent[p] \in T PROVE p \in T
    <3>1. Found(NoTree, o, Parent[p], PlacesOf(NoTree, o)[Parent[p]]) = NoDirectory
      BY <2>1, <2>3 DEF Found
    <3>2. PlacesOf(NoTree, o)[p] = NoId
      BY <3>1, PlacesOfIs DEF Place, NoDirectory
    <3>. QED
      BY <3>2
  <2>4. T = Names
    <3> HIDE DEF T
    <3>. QED
      BY <2>2, <2>3, TreeInduction DEF T
  <2>5. ASSUME NEW p \in Names PROVE ~HasOf(NoTree, o, p) /\ DirectoryOf(NoTree, o, p) = NoDirectory
    BY <2>1, <2>4 DEF HasOf, DirectoryOf, Found
  <2>7. ASSUME NEW p \in Names PROVE ~ExistsOf(NoTree, o, p)
    BY <2>5, ParentIs DEF ExistsOf, HolderOf, NoDirectory
  <2>. QED
    BY <2>5, <2>7 DEF EntryOf
<1>4. DOMAIN FilesOf(NoTree, o) = {p \in Names : EntryOf(NoTree, o, p).kind # "none"}
  BY FilesHave
<1>2. DOMAIN FilesOf(NoTree, o) = {}
  BY <1>1, <1>4, NoKeysFit
<1>3. FilesOf(NoTree, o) = <<>>
  BY <1>2, FilesHave
<1>. QED
  BY <1>1, <1>3, NoKeysFit DEF TreeKinds, KindFits

-----------------------------------------------------------------------------
(* What the steps do to the map of the generation in the making            *)

KindsOf(s, o) == \A i \in DOMAIN s : TreeKinds(Tree(s[i]), o)
GenKinds == KindsOf(clientData, Store)
MapInv == LiveKinds /\ TreeKinds(mem, Store) /\ GenKinds

LEMMA DirKinds ==
  ASSUME LiveKinds, NEW C \in SUBSET Names, DirsOnly(C)
  PROVE  \A p \in C : "dir" \in Kinds[p]
  BY DEF LiveKinds, DirsOnly

LEMMA Written ==
  ASSUME OneKind, LiveKinds, IsStore(Store), NEW t, Hangs(t, Store), TreeKinds(t, Store),
         NEW w, DOMAIN w \subseteq Names,
         \A p \in DOMAIN w : /\ w[p] \in EntrySet /\ w[p].kind \in Kinds[p]
                             /\ w[p].kind = "dir" => w[p].chunks = <<>>,
         NEW u, Becomes(t, u, Store, Changed(Homes(t, Store, w)), {}, w),
         Hangs(u, Store), DirsOnly(DOMAIN u.cache)
  PROVE  Changes(t, u, Store, {}, w) /\ TreeKinds(u, Store)
<1> DEFINE H == Homes(t, Store, w)
           C == Changed(H)
<1>1. H \in SUBSET Names
  BY HomesAre
<1>2. /\ H \subseteq C /\ C \subseteq Names
      /\ \A p \in C : Parent[p] \in C
  BY <1>1, ChangedIs
<1>3. DOMAIN u.cache = DOMAIN t.cache \cup C
  BY DEF Becomes
<1>4. \A p \in C : "dir" \in Kinds[p]
  BY <1>2, <1>3, DirKinds DEF DirsOnly
<1>5. \A p \in DOMAIN w : w[p].kind # "none"
  BY KindsAssumption
<1> HIDE DEF C, H
<1>6. Allowed(t, C, {}, w)
  BY <1>2, <1>5 DEF Allowed
<1>7. Fitting(t, Store, C, {}, w)
  BY <1>2, <1>4, <1>6 DEF Fitting, H
<1>8. Becomes(t, u, Store, C, {}, w)
  BY DEF C, H
<1>. QED
  BY <1>7, <1>8, EntriesAfter

(* Paths are removed.                                                      *)
PathsGone(t, u, S) ==
  /\ TreeKinds(u, Store)
  /\ \A p \in Names : EntryOf(u, Store, p) = IF Above[p] \cap S # {} THEN NoKeys
                                             ELSE EntryOf(t, Store, p)

LEMMA Removed ==
  ASSUME OneKind, LiveKinds, IsStore(Store), NEW t, Hangs(t, Store), TreeKinds(t, Store),
         NEW u, NEW C, NEW S, Becomes(t, u, Store, C, S, <<>>), Allowed(t, C, S, <<>>),
         DirsOnly(C), Flat(S), ParentsOf(t, Store, S) \subseteq C
  PROVE  PathsGone(t, u, S)
<1>1. C \subseteq Names
  BY DEF Allowed
<1>2. Homes(t, Store, <<>>) \subseteq C /\ DOMAIN <<>> = {}
  BY DEF Homes
<1>3. Fitting(t, Store, C, S, <<>>)
  BY <1>1, <1>2, DirKinds DEF Fitting
<1>4. Changes(t, u, Store, S, <<>>) /\ TreeKinds(u, Store)
  BY <1>3, EntriesAfter
<1>. QED
  BY <1>2, <1>4 DEF Changes, PathsGone

(* Of two names above a third, one is above the other.                     *)
LEMMA AboveChain ==
  ASSUME NEW q \in Names, NEW r \in Names
  PROVE  \A p \in Names : q \in Above[p] /\ r \in Above[p] => q \in Above[r] \/ r \in Above[q]
<1> DEFINE T == {p \in Names : q \in Above[p] /\ r \in Above[p] => q \in Above[r] \/ r \in Above[q]}
<1>1. Root \in T
  BY ParentIs, AboveIs
<1>2. ASSUME NEW p \in Names \ {Root}, Parent[p] \in T PROVE p \in T
  BY <1>2, AboveIs
<1>3. T = Names
  <2> HIDE DEF T
  <2>. QED
    BY <1>1, <1>2, TreeInduction DEF T
<1>. QED
  BY <1>3

(* No name is above its parent.                                            *)
LEMMA NotAboveParent ==
  ASSUME NEW p \in Names \ {Root}
  PROVE  p \notin Above[Parent[p]]
<1> DEFINE T == {q \in Names : q # Root => q \notin Above[Parent[q]]}
<1>1. Root \in T
  BY ParentIs
<1>2. ASSUME NEW q \in Names \ {Root}, Parent[q] \in T PROVE q \in T
  <2>1. Parent[q] \in Names /\ Parent[q] # q
    BY ParentIs, NotOwnParent
  <2>2. SUFFICES ASSUME q \in Above[Parent[q]] PROVE FALSE
    OBVIOUS
  <2>3. Parent[q] # Root
    BY <2>2, AboveIs, ParentIs
  <2>4. q \in Above[Parent[Parent[q]]] /\ Parent[Parent[q]] \in Names
    BY <2>1, <2>2, <2>3, AboveIs, ParentIs
  <2>5. Parent[q] \in Above[q]
    BY <2>1, AboveIs
  <2>6. Parent[q] \in Above[Parent[Parent[q]]]
    BY <2>4, <2>5, AboveTransitive
  <2>. QED
    BY <1>2, <2>1, <2>3, <2>6
<1>3. T = Names
  <2> HIDE DEF T
  <2>. QED
    BY <1>1, <1>2, TreeInduction DEF T
<1>. QED
  BY <1>3

LEMMA AboveAntisymmetric ==
  ASSUME NEW p \in Names, NEW q \in Names, p \in Above[q], q \in Above[p]
  PROVE  p = q
<1>1. SUFFICES ASSUME p # q PROVE FALSE
  OBVIOUS
<1>5. Above[q] = IF q = Root THEN {Root} ELSE {q} \cup Above[Parent[q]]
  BY AboveIs
<1>2. q # Root
  BY <1>1, <1>5
<1>3. p \in Above[Parent[q]] /\ Parent[q] \in Names
  BY <1>1, <1>2, AboveIs, ParentIs
<1>4. q \in Above[Parent[q]]
  BY <1>3, AboveTransitive
<1>. QED
  BY <1>2, <1>4, NotAboveParent

(* The directory of q lists q if there is anything at q or below it.       *)
LEMMA EntryBelow ==
  ASSUME IsStore(Store), NEW t, Hangs(t, Store), NEW p \in Names,
         EntryOf(t, Store, p).kind # "none", NEW q \in Above[p], q # Root
  PROVE  q \in Children(t, Parent[q])
<1> DEFINE d == DirectoryOf(t, Store, Parent[q])
<1>1. q \in Names \ {Root} /\ Parent[q] # q
  BY AboveIs, NotOwnParent
<1>2. Directory(t, Parent[q]) = d
  BY QueriesAre
<1> HIDE DEF d
<1>3. q \in DOMAIN d.files \/ q \in DOMAIN d.subdirs
  BY <1>1, GoneBelow, NoKeysFit DEF d
<1>. QED
  BY <1>1, <1>2, <1>3 DEF Children

(* Names next to the directories above r.                                  *)
Beside(r) == {q \in Names \ Above[r] : Parent[q] \in Above[r] \ {r}}

LEMMA BesideIs ==
  ASSUME NEW r \in Names, NEW p \in Names
  PROVE  p \in Walk!OldRoots(r) <=> Above[p] \cap Beside(r) = {}
<1>1. CASE p \in Above[r]
  <2>1. Above[p] \subseteq Above[r]
    BY <1>1, AboveTransitive
  <2>. QED
    BY <1>1, <2>1 DEF Beside, Walk!OldRoots
<1>2. CASE r \in Above[p]
  <2>1. p \in Walk!OldRoots(r)
    BY <1>2 DEF Walk!OldRoots, Walk!Under
  <2>2. SUFFICES ASSUME NEW q \in Above[p] \cap Beside(r) PROVE FALSE
    BY <2>1
  <2>3. q \in Names \ Above[r] /\ Parent[q] \in Above[r] \ {r} /\ q # r /\ q # Root
    BY AboveIs, AboveParent DEF Beside
  <2>4. r \in Above[q]
    BY <1>2, <2>3, AboveChain
  <2>5. r \in Above[Parent[q]] /\ Parent[q] \in Names
    BY <2>3, <2>4, AboveIs, ParentIs
  <2>. QED
    BY <2>3, <2>5, AboveAntisymmetric
<1>3. CASE p \notin Above[r] /\ r \notin Above[p]
  <2>1. p \notin Walk!OldRoots(r)
    BY <1>3 DEF Walk!OldRoots, Walk!Under
  <2> DEFINE U == {q \in Names : q \in Above[p] => q \in Above[r]}
  <2>2. SUFFICES ASSUME Above[p] \cap Beside(r) = {} PROVE FALSE
    BY <2>1
  <2>3. Root \in U
    BY AboveParent, ParentIs
  <2>4. ASSUME NEW q \in Names \ {Root}, Parent[q] \in U PROVE q \in U
    <3>1. SUFFICES ASSUME q \in Above[p], q \notin Above[r] PROVE FALSE
      OBVIOUS
    <3>2. Parent[q] \in Above[p]
      BY <3>1, AboveParent
    <3>3. Parent[q] \in Above[r] \ {r}
      BY <1>3, <2>4, <3>2
    <3>. QED
      BY <2>2, <3>1, <3>3 DEF Beside
  <2>5. U = Names
    <3> HIDE DEF U
    <3>. QED
      BY <2>3, <2>4, TreeInduction DEF U
  <2>. QED
    BY <1>3, <2>5, AboveIs
<1>. QED
  BY <1>1, <1>2, <1>3

LEMMA LatestKinds ==
  ASSUME Inv, MapInv
  PROVE  /\ IsStore(Store) /\ LiveKinds /\ LiveTree
         /\ Hangs(Latest, Store) /\ TreeKinds(Latest, Store)
         /\ clientData # <<>> => Len(clientData) \in DOMAIN clientData
<1>1. clientData # <<>> => Len(clientData) \in DOMAIN clientData
  BY DEF Inv, StoreInv, DataInv
<1>2. IsStore(Store) /\ LiveKinds /\ LiveTree
  BY InvParts DEF MapInv
<1>. QED
  BY <1>1, <1>2, LatestIs, NoTreeIs, NoFiles DEF Latest, MapInv, GenKinds, KindsOf, Inv

LEMMA StartMap ==
  ASSUME OneKind, Inv, MapInv, NEW r \in BackupRoots, StartBackup(r)
  PROVE  /\ TreeKinds(mem', Store)
         /\ FilesOf(mem', Store) = Walk!Only(FilesOf(Latest, Store), Walk!OldRoots(r))
<1> DEFINE S == Extra(r)
           C == Changed(ParentsOf(Latest, Store, S))
           f == FilesOf(Latest, Store)
           g == Walk!Only(f, Walk!OldRoots(r))
<1>1. r \in Names /\ kind[r] = "dir"
  BY BoundsAssumption DEF StartBackup, Walk!WalkStarts
<1>2. /\ Becomes(Latest, mem', Store, C, S, <<>>) /\ Allowed(Latest, C, S, <<>>)
      /\ C \subseteq Above[r] /\ S \subseteq Names \ {Root}
  BY StartTree
<1>3. DirsOnly(C)
  BY <1>1, <1>2, LatestKinds, LiveAbove DEF DirsOnly
<1>4. S \subseteq Beside(r) /\ ParentsOf(Latest, Store, S) \subseteq Names
  BY <1>1, AboveIs DEF Extra, Beside, ParentsOf
<1>5. ParentsOf(Latest, Store, S) \subseteq C
  BY <1>4, ChangedIs
<1>6. ASSUME NEW q \in S PROVE Above[Parent[q]] \cap S = {}
  <2>1. Above[Parent[q]] \subseteq Above[r]
    BY <1>1, <1>4, AboveTransitive DEF Beside
  <2>. QED
    BY <1>4, <2>1 DEF Beside
<1>7. Flat(S)
  BY <1>6 DEF Flat
<1> HIDE DEF S, C
<1>8. /\ TreeKinds(mem', Store)
      /\ \A p \in Names : EntryOf(mem', Store, p) = IF Above[p] \cap S # {} THEN NoKeys
                                                    ELSE EntryOf(Latest, Store, p)
  <2>1. PathsGone(Latest, mem', S)
    BY <1>2, <1>3, <1>5, <1>7, LatestKinds, Removed
  <2>. QED
    BY <2>1 DEF PathsGone
<1>9. ASSUME NEW p \in Names, EntryOf(Latest, Store, p).kind # "none"
      PROVE  Above[p] \cap S = {} <=> p \in Walk!OldRoots(r)
  <2>1. ASSUME NEW q \in Above[p], q \in Beside(r) PROVE q \in S
    <3>1. q # Root
      BY <1>1, <2>1, AboveParent DEF Beside
    <3>2. q \in Children(Latest, Parent[q])
      BY <1>9, <2>1, <3>1, LatestKinds, EntryBelow
    <3>. QED
      BY <2>1, <3>2 DEF S, Extra, Beside
  <2>2. Above[p] \cap S = {} <=> Above[p] \cap Beside(r) = {}
    BY <1>4, <2>1
  <2>. QED
    BY <1>1, <2>2, BesideIs
<1>10. /\ DOMAIN f = {p \in Names : EntryOf(Latest, Store, p).kind # "none"}
       /\ \A p \in DOMAIN f : f[p] = EntryOf(Latest, Store, p)
  BY FilesHave
<1> HIDE DEF f
<1>11. /\ g = [p \in DOMAIN g |-> g[p]]
       /\ DOMAIN g = DOMAIN f \cap Walk!OldRoots(r)
       /\ \A p \in DOMAIN g : g[p] = f[p]
  BY DEF Walk!Only
<1> HIDE DEF g
<1>12. DOMAIN g = {p \in Names : EntryOf(mem', Store, p).kind # "none"}
  BY <1>8, <1>9, <1>10, <1>11, NoKeysFit
<1>13. \A p \in DOMAIN g : g[p] = EntryOf(mem', Store, p)
  BY <1>8, <1>9, <1>10, <1>11
<1>14. FilesOf(mem', Store) = g
  BY <1>11, <1>12, <1>13, SameMap
<1>. QED
  BY <1>8, <1>14 DEF g, f

(* Directories get their entries.                                          *)
LEMMA DirsMap ==
  ASSUME OneKind, LiveKinds, IsStore(Store), NEW t, Hangs(t, Store), TreeKinds(t, Store),
         NEW S \in SUBSET Names, DirsOnly(S), NEW w, w = KeysOf(t, Store, S, "dir", 0),
         NEW u, Becomes(t, u, Store, Changed(Homes(t, Store, w)), {}, w),
         Hangs(u, Store), DirsOnly(DOMAIN u.cache)
  PROVE  /\ TreeKinds(u, Store)
         /\ \A p \in Names :
              EntryOf(u, Store, p) = IF p \in S THEN Walk!Directory ELSE EntryOf(t, Store, p)
<1>1. \A p \in S : "dir" \in Kinds[p] /\ EntryOf(t, Store, p).chunks = <<>>
  BY DirKinds, DirEntry
<1>2. 0 \in 0..MaxVersion /\ "dir" \in {"dir", "file"}
  BY BoundsAssumption
<1>3. KeysFit(w, t, Store, S, "dir", 0)
  BY <1>2, KeysAre
<1>4. /\ DOMAIN w \subseteq S
      /\ \A p \in DOMAIN w : w[p] \in EntrySet /\ w[p].kind = "dir" /\ w[p] = Walk!Directory
      /\ \A p \in S \ DOMAIN w : EntryOf(t, Store, p) = Walk!Directory
  BY <1>1, <1>3 DEF KeysFit, Walk!Directory
<1>5. Walk!Directory.chunks = <<>>
  BY DEF Walk!Directory
<1>6. \A p \in DOMAIN w : /\ w[p] \in EntrySet /\ w[p].kind \in Kinds[p]
                          /\ w[p].kind = "dir" => w[p].chunks = <<>>
  BY <1>1, <1>4, <1>5
<1>7. DOMAIN w \subseteq Names
  BY <1>4
<1>8. Changes(t, u, Store, {}, w) /\ TreeKinds(u, Store)
  BY <1>6, <1>7, Written
<1>. QED
  BY <1>4, <1>8 DEF Changes

LEMMA MapParts ==
  ASSUME Inv, MapInv
  PROVE  /\ IsStore(Store) /\ LiveKinds /\ LiveTree
         /\ Hangs(mem, Store) /\ TreeKinds(mem, Store)
  BY InvParts DEF MapInv

LEMMA DirectoryMap ==
  ASSUME OneKind, Inv, MapInv, NEW p \in Names, kind[p] = "dir"
  PROVE  /\ TreeKinds(AfterDirectory(p), Store)
         /\ FilesOf(AfterDirectory(p), Store) =
              Walk!With(Walk!Without(FilesOf(mem, Store), Walk!Gone(p)), p, Walk!Directory)
<1> DEFINE S == GoneFrom(p)
           C == Changed(ParentsOf(mem, Store, S))
           t == WithoutGone(p)
           w == DirectoryKeys(p)
           u == AfterDirectory(p)
<1>1. /\ S \in SUBSET Kids(p) /\ C \subseteq Above[p] /\ Hangs(t, Store)
      /\ Becomes(mem, t, Store, C, S, <<>>) /\ Allowed(mem, C, S, <<>>)
      /\ Hangs(u, Store) /\ DirsOnly(DOMAIN u.cache)
      /\ Becomes(t, u, Store, Changed(Homes(t, Store, w)), {}, w)
      /\ w = KeysOf(t, Store, {p}, "dir", 0)
  BY DirectoryTree DEF DirectoryKeys
<1>2. DirsOnly(Above[p])
  BY MapParts, LiveAbove
<1>3. DirsOnly(C) /\ DirsOnly({p}) /\ {p} \in SUBSET Names
  BY <1>1, <1>2 DEF DirsOnly
<1>4. ParentsOf(mem, Store, S) \subseteq {p} /\ S \cap Above[p] = {}
  BY <1>1, <1>2 DEF ParentsOf, Kids, GoneFrom, DirsOnly
<1>5. ParentsOf(mem, Store, S) \subseteq C
  BY <1>4, ChangedIs
<1>6. Flat(S)
  BY <1>1, <1>4 DEF Flat, Kids
<1>7. \A q \in Kids(p) : q \in Walk!Gone(p) <=> kind[q] = "none"
  BY DEF Walk!Gone, Kids
<1>8. Walk!Gone(p) \subseteq Kids(p)
  BY DEF Walk!Gone, Kids
<1>9. ASSUME NEW q \in Names, EntryOf(mem, Store, q).kind # "none"
      PROVE  Above[q] \cap S = {} <=> Above[q] \cap Walk!Gone(p) = {}
  <2>1. ASSUME NEW r \in Above[q] \cap Walk!Gone(p) PROVE r \in S
    <3>1. r # Root /\ Parent[r] = p /\ kind[r] = "none"
      BY <1>7, <1>8 DEF Kids
    <3>2. r \in Children(mem, p)
      BY <1>9, <3>1, MapParts, EntryBelow
    <3>. QED
      BY <3>1, <3>2 DEF GoneFrom
  <2>2. S \subseteq Walk!Gone(p)
    BY <1>1, <1>7 DEF GoneFrom
  <2>. QED
    BY <2>1, <2>2
<1> HIDE DEF S, C, t, w, u
<1>10. /\ TreeKinds(t, Store)
       /\ \A q \in Names : EntryOf(t, Store, q) = IF Above[q] \cap S # {} THEN NoKeys
                                                  ELSE EntryOf(mem, Store, q)
  <2>1. PathsGone(mem, t, S)
    BY <1>1, <1>3, <1>5, <1>6, MapParts, Removed
  <2>. QED
    BY <2>1 DEF PathsGone
<1>11. \A q \in Names : EntryOf(t, Store, q) =
                          IF Above[q] \cap Walk!Gone(p) # {} THEN NoKeys
                          ELSE EntryOf(mem, Store, q)
  <2>1. ASSUME NEW q \in Names, EntryOf(mem, Store, q).kind # "none"
        PROVE  EntryOf(t, Store, q) = IF Above[q] \cap Walk!Gone(p) # {} THEN NoKeys
                                      ELSE EntryOf(mem, Store, q)
    BY <1>9, <1>10, <2>1
  <2>2. ASSUME NEW q \in Names, EntryOf(mem, Store, q).kind = "none"
        PROVE  EntryOf(t, Store, q) = NoKeys /\ EntryOf(mem, Store, q) = NoKeys
    BY <1>10, <2>2, MapParts, EntryIs, NoKeysIs
  <2>. QED
    BY <2>1, <2>2
<1>12. FilesOf(t, Store) = Walk!Without(FilesOf(mem, Store), Walk!Gone(p))
  BY <1>11, FilesWithout
<1>13. /\ TreeKinds(u, Store)
       /\ \A q \in Names :
            EntryOf(u, Store, q) = IF q \in {p} THEN Walk!Directory ELSE EntryOf(t, Store, q)
  BY <1>1, <1>3, <1>10, MapParts, DirsMap
<1>14. Walk!Directory.kind # "none"
  BY DEF Walk!Directory
<1>15. FilesOf(u, Store) = Walk!With(FilesOf(t, Store), p, Walk!Directory)
  BY <1>13, <1>14, FilesWith
<1>. QED
  BY <1>12, <1>13, <1>15 DEF u

LEMMA ParentsMap ==
  ASSUME OneKind, Inv, MapInv, pc # "idle", NEW u, u = SetKeys(mem, Above[root], "dir", 0)
  PROVE  LET f == FilesOf(mem, Store)
         IN  /\ TreeKinds(u, Store)
             /\ FilesOf(u, Store) = [p \in DOMAIN f \cup Above[root] |->
                                       IF p \in Above[root] THEN Walk!Directory ELSE f[p]]
<1> DEFINE f == FilesOf(mem, Store)
           w == ParentsKeys
           A == Above[root]
           g == [p \in DOMAIN f \cup A |-> IF p \in A THEN Walk!Directory ELSE f[p]]
<1>1. /\ Hangs(u, Store) /\ DirsOnly(DOMAIN u.cache)
      /\ Becomes(mem, u, Store, Changed(Homes(mem, Store, w)), {}, w)
      /\ w = KeysOf(mem, Store, A, "dir", 0)
  BY ParentsTree DEF ParentsKeys
<1>2. root \in Names /\ kind[root] = "dir"
  BY DEF Inv, WalkInv, WalkTypes, BackupFits
<1>3. A \in SUBSET Names /\ DirsOnly(A)
  BY <1>2, AboveIs, LiveAbove, MapParts
<1> HIDE DEF w, A
<1>4. /\ TreeKinds(u, Store)
      /\ \A p \in Names :
           EntryOf(u, Store, p) = IF p \in A THEN Walk!Directory ELSE EntryOf(mem, Store, p)
  BY <1>1, <1>3, MapParts, DirsMap
<1>5. /\ DOMAIN f = {p \in Names : EntryOf(mem, Store, p).kind # "none"}
      /\ \A p \in DOMAIN f : f[p] = EntryOf(mem, Store, p)
  BY FilesHave
<1>6. Walk!Directory.kind # "none"
  BY DEF Walk!Directory
<1> HIDE DEF f
<1>7. /\ g = [p \in DOMAIN g |-> g[p]]
      /\ DOMAIN g = DOMAIN f \cup A
      /\ \A p \in DOMAIN g : g[p] = IF p \in A THEN Walk!Directory ELSE f[p]
  OBVIOUS
<1> HIDE DEF g
<1>8. DOMAIN g = {p \in Names : EntryOf(u, Store, p).kind # "none"}
  BY <1>3, <1>4, <1>5, <1>6, <1>7
<1>9. \A p \in DOMAIN g : g[p] = EntryOf(u, Store, p)
  BY <1>3, <1>4, <1>5, <1>7
<1>10. FilesOf(u, Store) = g
  BY <1>7, <1>8, <1>9, SameMap
<1>. QED
  BY <1>4, <1>10 DEF g, f, A

(* A file gets its metadata, then its chunks.                              *)
LEMMA KeysMap ==
  ASSUME OneKind, LiveKinds, Inv, NEW t, Hangs(t, Store), DirsOnly(DOMAIN t.cache),
         TreeKinds(t, Store),
         NEW p \in Names, kind[p] = "file", ~HasOf(t, Store, p), NEW v \in 0..MaxVersion,
         NEW u, u = SetKeys(t, {p}, "file", v)
  PROVE  /\ TreeKinds(u, Store)
         /\ \A q \in Names :
              EntryOf(u, Store, q) = IF q = p THEN Walk!File(v, EntryOf(t, Store, p).chunks)
                                     ELSE EntryOf(t, Store, q)
<1> DEFINE w == KeysOf(t, Store, {p}, "file", v)
<1>1. /\ Hangs(u, Store) /\ DirsOnly(DOMAIN u.cache)
      /\ Becomes(t, u, Store, Changed(Homes(t, Store, w)), {}, w)
      /\ EntryOf(u, Store, p) = [kind |-> "file", version |-> v,
                                 chunks |-> EntryOf(t, Store, p).chunks]
  <2>1. u = SetKeys(t, {p}, "file", v)
    OBVIOUS
  <2>. HIDE DEF w
  <2>2. KeysWritten(t, u, p, v)
    BY <2>1, KeysTree
  <2>. QED
    BY <2>2 DEF KeysWritten, w
<1>2. IsStore(Store) /\ {p} \in SUBSET Names /\ "file" \in {"dir", "file"} /\ "file" \in Kinds[p]
  BY InvParts DEF LiveKinds
<1>3. w = KeysOf(t, Store, {p}, "file", v)
  OBVIOUS
<1> HIDE DEF w
<1>4. KeysFit(w, t, Store, {p}, "file", v)
  BY <1>2, <1>3, KeysAre
<1>5. /\ DOMAIN w \subseteq {p}
      /\ \A q \in DOMAIN w : /\ w[q] \in EntrySet /\ w[q].kind \in Kinds[q]
                             /\ w[q].kind = "dir" => w[q].chunks = <<>>
  BY <1>2, <1>4 DEF KeysFit
<1>6. DOMAIN w \subseteq Names
  BY <1>5
<1>7. Changes(t, u, Store, {}, w) /\ TreeKinds(u, Store)
  BY <1>1, <1>2, <1>5, <1>6, Written
<1>. QED
  BY <1>1, <1>5, <1>7 DEF Changes, Walk!File

LEMMA ChunksMap ==
  ASSUME OneKind, LiveKinds, Inv, NEW t, Hangs(t, Store), DirsOnly(DOMAIN t.cache),
         TreeKinds(t, Store),
         NEW p \in Names, kind[p] = "file", IsFileIn(t, p), NEW c \in Seq(Walk!Chunks),
         NEW u, u = SetChunks(t, p, c)
  PROVE  /\ TreeKinds(u, Store)
         /\ \A q \in Names :
              EntryOf(u, Store, q) = IF q = p THEN Walk!File(EntryOf(t, Store, p).version, c)
                                     ELSE EntryOf(t, Store, q)
<1> DEFINE w == ChunksOf(t, Store, p, c)
           e == EntryOf(t, Store, p)
<1>1. /\ Hangs(u, Store) /\ DirsOnly(DOMAIN u.cache)
      /\ Becomes(t, u, Store, Changed(Homes(t, Store, w)), {}, w)
      /\ EntryOf(u, Store, p) = [kind |-> "file", version |-> e.version, chunks |-> c]
  BY ChunksTree
<1>2. IsStore(Store) /\ "file" \in Kinds[p]
  BY InvParts DEF LiveKinds
<1>3. e \in EntrySet /\ e.kind = "file"
  BY <1>2, EntryIs DEF IsFileIn
<1>4. w = [q \in {p} |-> [e EXCEPT !.chunks = c]]
  BY DEF ChunksOf
<1> HIDE DEF w, e
<1>5. /\ DOMAIN w = {p}
      /\ \A q \in DOMAIN w : /\ w[q] \in EntrySet /\ w[q].kind = "file"
  BY <1>3, <1>4, EntrySetIs
<1>6. /\ DOMAIN w \subseteq Names
      /\ \A q \in DOMAIN w : /\ w[q] \in EntrySet /\ w[q].kind \in Kinds[q]
                             /\ w[q].kind = "dir" => w[q].chunks = <<>>
  BY <1>2, <1>5
<1>7. Changes(t, u, Store, {}, w) /\ TreeKinds(u, Store)
  BY <1>1, <1>2, <1>6, Written
<1>. QED
  BY <1>1, <1>5, <1>7 DEF Changes, Walk!File, e

LEMMA RemovedMap ==
  ASSUME OneKind, Inv, MapInv, NEW p \in Names, kind[p] = "file",
         NEW u, u = RemoveFiles(mem, {p})
  PROVE  /\ TreeKinds(u, Store)
         /\ FilesOf(u, Store) = Walk!Without(FilesOf(mem, Store), {p})
<1> DEFINE S == {p}
           C == Changed(ParentsOf(mem, Store, S))
<1>1. /\ DirsOnly(C) /\ p # Root
      /\ Becomes(mem, u, Store, C, S, <<>>) /\ Allowed(mem, C, S, <<>>)
  BY FileRemoved
<1>2. Parent[p] \in Names /\ ParentsOf(mem, Store, S) \subseteq Names
  BY ParentIs DEF ParentsOf
<1>3. ParentsOf(mem, Store, S) \subseteq C
  BY <1>2, ChangedIs
<1>4. Flat(S)
  BY <1>1, NotAboveParent DEF Flat
<1> HIDE DEF C, S
<1>5. /\ TreeKinds(u, Store)
      /\ \A q \in Names : EntryOf(u, Store, q) = IF Above[q] \cap S # {} THEN NoKeys
                                                 ELSE EntryOf(mem, Store, q)
  <2>1. /\ IsStore(Store) /\ LiveKinds /\ Hangs(mem, Store) /\ TreeKinds(mem, Store)
    BY MapParts
  <2>. QED
    <3>1. PathsGone(mem, u, S)
      BY <1>1, <1>3, <1>4, <2>1, Removed
    <3>. QED
      BY <3>1 DEF PathsGone
<1>6. \A q \in Names : EntryOf(u, Store, q) = IF Above[q] \cap S # {} THEN NoKeys
                                             ELSE EntryOf(mem, Store, q)
  BY <1>5
<1>7. FilesOf(u, Store) = Walk!Without(FilesOf(mem, Store), S)
  BY <1>6, FilesWithout
<1>. QED
  BY <1>5, <1>7 DEF S

(* What a file that is being read has.                                     *)
LEMMA FileMap ==
  ASSUME NEW t, NEW o, NEW p \in Names, EntryOf(t, o, p).kind # "none"
  PROVE  p \in DOMAIN FilesOf(t, o) /\ FilesOf(t, o)[p] = EntryOf(t, o, p)
  BY FilesHave

-----------------------------------------------------------------------------
(* The generations                                                         *)

MapOver(g, s) == [i \in DOMAIN s |-> g[s[i]]]
IsMap(m, T, g, s) ==
  /\ m \in Seq(T) /\ Len(m) = Len(s)
  /\ \A i \in 1..Len(s) : m[i] = g[s[i]]

LEMMA MapOverIs ==
  ASSUME NEW S, NEW T, NEW g \in [S -> T], NEW s \in Seq(S)
  PROVE  IsMap(MapOver(g, s), T, g, s)
  BY DEF MapOver, IsMap

LEMMA SeqsAre ==
  ASSUME NEW T, NEW a \in Seq(T), NEW b \in Seq(T), Len(a) = Len(b),
         \A i \in 1..Len(a) : a[i] = b[i]
  PROVE  a = b
  OBVIOUS

LEMMA MapAppend ==
  ASSUME NEW S, NEW T, NEW g \in [S -> T], NEW s \in Seq(S), NEW x \in S
  PROVE  MapOver(g, Append(s, x)) = Append(MapOver(g, s), g[x])
<1> DEFINE m == MapOver(g, s)
           a == Append(s, x)
           l == MapOver(g, a)
           r == Append(m, g[x])
<1>1. IsMap(m, T, g, s)
  BY MapOverIs
<1>2. /\ a \in Seq(S) /\ Len(a) = Len(s) + 1
      /\ \A i \in 1..Len(a) : a[i] = IF i <= Len(s) THEN s[i] ELSE x
  OBVIOUS
<1> HIDE DEF m
<1>3. /\ r \in Seq(T) /\ Len(r) = Len(s) + 1
      /\ \A i \in 1..Len(r) : r[i] = IF i <= Len(s) THEN m[i] ELSE g[x]
  BY <1>1 DEF IsMap
<1> HIDE DEF a, r
<1>4. IsMap(l, T, g, a)
  BY <1>2, MapOverIs
<1> HIDE DEF l
<1>5. \A i \in 1..Len(l) : l[i] = r[i]
  BY <1>1, <1>2, <1>3, <1>4 DEF IsMap
<1>6. l = r
  BY <1>2, <1>3, <1>4, <1>5, SeqsAre DEF IsMap
<1>. QED
  BY <1>6 DEF l, a, r, m

LEMMA ConcatIs ==
  ASSUME NEW S, NEW a \in Seq(S), NEW b \in Seq(S)
  PROVE  \A i \in 1..(Len(a) + Len(b)) :
           (a \o b)[i] = IF i <= Len(a) THEN a[i] ELSE b[i - Len(a)]
  OBVIOUS

(* What is left of a sequence without the elements from a to b - 1.        *)
Cut(s, a, b) == SubSeq(s, 1, a - 1) \o SubSeq(s, b, Len(s))
IsCut(c, S, s, a, b) ==
  /\ c \in Seq(S) /\ Len(c) = Len(s) - (b - a)
  /\ \A i \in 1..Len(c) : c[i] = IF i < a THEN s[i] ELSE s[i + (b - a)]

LEMMA CutIs ==
  ASSUME NEW S, NEW s \in Seq(S), NEW a \in 1..Len(s), NEW b \in a..(Len(s) + 1)
  PROVE  IsCut(Cut(s, a, b), S, s, a, b)
<1> DEFINE c == SubSeq(s, 1, a - 1)
           d == SubSeq(s, b, Len(s))
           e == Cut(s, a, b)
<1>1. c \in Seq(S) /\ Len(c) = a - 1 /\ \A i \in 1..(a - 1) : c[i] = s[i]
  OBVIOUS
<1>2. /\ d \in Seq(S) /\ Len(d) = Len(s) + 1 - b
      /\ \A i \in 1..(Len(s) + 1 - b) : d[i] = s[i + b - 1]
  OBVIOUS
<1>3. e = c \o d
  BY DEF Cut
<1> HIDE DEF c, d, e
<1>4. /\ e \in Seq(S) /\ Len(e) = Len(c) + Len(d)
      /\ \A i \in 1..(Len(c) + Len(d)) : e[i] = IF i <= Len(c) THEN c[i] ELSE d[i - Len(c)]
  BY <1>1, <1>2, <1>3, ConcatSeq, ConcatIs
<1>5. Len(e) = Len(s) - (b - a)
  BY <1>1, <1>2, <1>4
<1>6. ASSUME NEW i \in 1..Len(e)
      PROVE  e[i] = IF i < a THEN s[i] ELSE s[i + (b - a)]
  <2>1. CASE i < a
    BY <1>1, <1>2, <1>4, <2>1
  <2>2. CASE ~(i < a)
    <3> DEFINE j == i - (a - 1)
    <3>1. e[i] = d[j] /\ j \in 1..(Len(s) + 1 - b) /\ j + b - 1 = i + (b - a)
      BY <1>1, <1>2, <1>4, <2>2
    <3> HIDE DEF j
    <3>2. d[j] = s[j + b - 1]
      BY <1>2, <3>1
    <3>. QED
      BY <2>2, <3>1, <3>2
  <2>. QED
    BY <2>1, <2>2
<1>. QED
  BY <1>4, <1>5, <1>6 DEF IsCut, e

Bounds(s, a, b) == a \in 1..Len(s) /\ b \in a..(Len(s) + 1)
CutsAlike(g, s, a, b) == MapOver(g, Cut(s, a, b)) = Cut(MapOver(g, s), a, b)

LEMMA MapCut ==
  ASSUME NEW S, NEW T, NEW g \in [S -> T], NEW s \in Seq(S), NEW a, NEW b, Bounds(s, a, b)
  PROVE  CutsAlike(g, s, a, b)
<1> DEFINE m == MapOver(g, s)
           c == Cut(s, a, b)
           l == MapOver(g, c)
           r == Cut(m, a, b)
<1>10. a \in 1..Len(s) /\ b \in a..(Len(s) + 1)
  BY DEF Bounds
<1>1. IsMap(m, T, g, s)
  BY MapOverIs
<1>2. IsCut(c, S, s, a, b)
  BY <1>10, CutIs
<1> HIDE DEF m
<1>3. m \in Seq(T) /\ Len(m) = Len(s)
  BY <1>1 DEF IsMap
<1>4. IsCut(r, T, m, a, b)
  BY <1>3, <1>10, CutIs
<1> HIDE DEF c, r
<1>5. c \in Seq(S)
  BY <1>2 DEF IsCut
<1>6. IsMap(l, T, g, c)
  BY <1>5, MapOverIs
<1> HIDE DEF l
<1>7. /\ l \in Seq(T) /\ r \in Seq(T) /\ Len(l) = Len(r) /\ Len(l) = Len(s) - (b - a)
      /\ Len(c) = Len(l)
  BY <1>2, <1>3, <1>4, <1>6, <1>10 DEF IsMap, IsCut
<1>8. ASSUME NEW i \in 1..Len(l) PROVE l[i] = r[i]
  <2>1. l[i] = g[c[i]]
    BY <1>6, <1>7 DEF IsMap
  <2>2. CASE i < a
    <3>1. c[i] = s[i] /\ r[i] = m[i] /\ i \in 1..Len(s)
      BY <1>2, <1>4, <1>7, <1>10, <2>2 DEF IsCut
    <3>. QED
      BY <1>1, <2>1, <3>1 DEF IsMap
  <2>3. CASE ~(i < a)
    <3>1. /\ c[i] = s[i + (b - a)] /\ r[i] = m[i + (b - a)]
          /\ i + (b - a) \in 1..Len(s)
      BY <1>2, <1>4, <1>7, <1>10, <2>3 DEF IsCut
    <3>. QED
      BY <1>1, <2>1, <3>1 DEF IsMap
  <2>. QED
    BY <2>2, <2>3
<1>9. l = r
  BY <1>7, <1>8, SeqsAre
<1>. QED
  BY <1>9 DEF l, c, r, m, CutsAlike

GensOf(s, o) == [i \in DOMAIN s |-> FilesOf(Tree(s[i]), o)]

LEMMA GensSame ==
  ASSUME NEW s, NEW o, NEW x,
         \A i \in DOMAIN s : SameEntries(Tree(s[i]), o, Tree(s[i]), x)
  PROVE  GensOf(s, x) = GensOf(s, o) /\ (KindsOf(s, o) => KindsOf(s, x))
<1>1. ASSUME NEW i \in DOMAIN s
      PROVE  /\ FilesOf(Tree(s[i]), x) = FilesOf(Tree(s[i]), o)
             /\ TreeKinds(Tree(s[i]), o) => TreeKinds(Tree(s[i]), x)
  BY SameFiles
<1>. QED
  BY <1>1 DEF GensOf, KindsOf

FilesBy(S, o) == [id \in S |-> FilesOf(Tree(id), o)]

LEMMA GensOver ==
  ASSUME NEW S, NEW s \in Seq(S), NEW o
  PROVE  /\ GensOf(s, o) = MapOver(FilesBy(S, o), s)
         /\ FilesBy(S, o) \in [S -> {FilesOf(Tree(id), o) : id \in S}]
  BY DEF GensOf, MapOver, FilesBy

LEMMA GensAppend ==
  ASSUME NEW S, NEW s \in Seq(S), NEW id \in S, NEW o
  PROVE  /\ GensOf(Append(s, id), o) = Append(GensOf(s, o), FilesOf(Tree(id), o))
         /\ KindsOf(s, o) /\ TreeKinds(Tree(id), o) => KindsOf(Append(s, id), o)
<1> DEFINE g == FilesBy(S, o)
           T == {FilesOf(Tree(i), o) : i \in S}
<1>1. /\ GensOf(s, o) = MapOver(g, s) /\ g \in [S -> T]
      /\ g[id] = FilesOf(Tree(id), o)
  BY GensOver DEF FilesBy
<1>2. Append(s, id) \in Seq(S)
  OBVIOUS
<1>3. GensOf(Append(s, id), o) = MapOver(g, Append(s, id))
  BY <1>2, GensOver
<1> HIDE DEF g, T
<1>4. MapOver(g, Append(s, id)) = Append(MapOver(g, s), g[id])
  BY <1>1, MapAppend
<1>5. \A i \in DOMAIN Append(s, id) : IF i \in DOMAIN s THEN Append(s, id)[i] = s[i]
                                      ELSE Append(s, id)[i] = id
  OBVIOUS
<1>. QED
  BY <1>1, <1>3, <1>4, <1>5 DEF KindsOf

LEMMA GensCut ==
  ASSUME NEW S, NEW s \in Seq(S), NEW a \in 1..Len(s), NEW b \in a..(Len(s) + 1), NEW o
  PROVE  /\ GensOf(Cut(s, a, b), o) = Cut(GensOf(s, o), a, b)
         /\ KindsOf(s, o) => KindsOf(Cut(s, a, b), o)
         /\ Cut(s, a, b) \in Seq(S)
         /\ \A i \in DOMAIN Cut(s, a, b) : \E j \in DOMAIN s : Cut(s, a, b)[i] = s[j]
<1> DEFINE g == FilesBy(S, o)
           T == {FilesOf(Tree(i), o) : i \in S}
           c == Cut(s, a, b)
<1>1. GensOf(s, o) = MapOver(g, s) /\ g \in [S -> T]
  BY GensOver
<1>2. IsCut(c, S, s, a, b)
  BY CutIs
<1>3. c \in Seq(S)
  BY <1>2 DEF IsCut
<1>4. GensOf(c, o) = MapOver(g, c)
  BY <1>3, GensOver
<1> HIDE DEF g, T
<1>5. MapOver(g, Cut(s, a, b)) = Cut(MapOver(g, s), a, b)
  <2>1. Bounds(s, a, b)
    BY DEF Bounds
  <2>2. CutsAlike(g, s, a, b)
    BY <1>1, <2>1, MapCut
  <2>. QED
    BY <2>2 DEF CutsAlike
<1> HIDE DEF c
<1>6. ASSUME NEW i \in DOMAIN c PROVE \E j \in DOMAIN s : c[i] = s[j]
  <2>1. i \in 1..Len(c) /\ Len(c) = Len(s) - (b - a)
    BY <1>2, <1>3 DEF IsCut
  <2>2. CASE i < a
    BY <1>2, <2>1, <2>2 DEF IsCut
  <2>3. CASE ~(i < a)
    <3>1. i + (b - a) \in DOMAIN s
      BY <2>1, <2>3
    <3>. QED
      BY <1>2, <2>1, <2>3, <3>1 DEF IsCut
  <2>. QED
    BY <2>2, <2>3
<1>7. KindsOf(s, o) => KindsOf(c, o)
  BY <1>6 DEF KindsOf
<1>. QED
  BY <1>1, <1>3, <1>4, <1>5, <1>6, <1>7 DEF c

LEMMA CutsAre ==
  ASSUME NEW S, NEW s \in Seq(S)
  PROVE  /\ \A n \in Nat : n < Len(s) => Walk!Rest(s, n) = Cut(s, Len(s) - n, Len(s))
         /\ \A i \in 1..Len(s) :
              SubSeq(s, 1, i - 1) \o SubSeq(s, i + 1, Len(s)) = Cut(s, i, i + 1)
  BY DEF Walk!Rest, Cut

-----------------------------------------------------------------------------
(* The maps of a state                                                     *)

CurIs == Files(mem) = FilesOf(mem, Store)
GensIs == Generations = GensOf(clientData, Store)
BagsGens == \A id \in Range(clientData) : SameEntries(Tree(id), Store, Tree(id), bags)
MapsAre == CurIs /\ GensIs /\ BagsGens

LEMMA InvMaps ==
  ASSUME Inv
  PROVE  MapsAre
<1>1. CurIs
  BY FilesAre DEF CurIs
<1>2. GensIs
  BY FilesAre DEF GensIs, Generations, GensOf
<1>3. ASSUME NEW id \in Range(clientData)
      PROVE  SameEntries(Tree(id), Store, Tree(id), bags)
  <2>1. id \in Roots(DOMAIN bags)
    BY RangeIs DEF Inv, StoreInv
  <2>2. IsStore(Store) /\ IsStore(bags) /\ PartOf(bags, Store)
    BY BagsArePart DEF Inv, StoreInv, PutInv, BagsInv
  <2>. QED
    BY <2>1, <2>2, PartSame DEF SameEntries
<1>. QED
  BY <1>1, <1>2, <1>3 DEF MapsAre, BagsGens

-----------------------------------------------------------------------------
(* Steps: the maps                                                         *)

MapHyps == OneKind /\ Inv /\ MapInv /\ MapsAre

LEMMA GensKeep ==
  ASSUME MapInv, MapsAre, MapsAre', clientData' = clientData,
         \A id \in Range(clientData) : SameEntries(Tree(id), Store, Tree(id), Store')
  PROVE  Generations' = Generations /\ GenKinds'
<1>1. \A i \in DOMAIN clientData :
        SameEntries(Tree(clientData[i]), Store, Tree(clientData[i]), Store')
  BY DEF Range
<1>2. /\ GensOf(clientData, Store') = GensOf(clientData, Store)
      /\ KindsOf(clientData, Store')
  BY <1>1, GensSame DEF MapInv, GenKinds
<1>. QED
  BY <1>2 DEF MapsAre, GensIs, GenKinds

(* Only the tree in memory changes.                                        *)
LEMMA MemStep ==
  ASSUME MapInv, MapsAre, MapsAre', UNCHANGED <<kind, stored>>, TreeKinds(mem', Store)
  PROVE  /\ MapInv' /\ Generations' = Generations
         /\ Files(mem)' = FilesOf(mem', Store)
<1>1. Store' = Store /\ clientData' = clientData
  BY SameStore DEF stored
<1>2. \A id \in Range(clientData) : SameEntries(Tree(id), Store, Tree(id), Store')
  BY <1>1 DEF SameEntries
<1>3. Generations' = Generations /\ GenKinds'
  BY <1>1, <1>2, GensKeep
<1>4. LiveKinds' /\ TreeKinds(mem', Store')
  BY <1>1 DEF MapInv, LiveKinds
<1>. QED
  BY <1>1, <1>3, <1>4 DEF MapInv, MapsAre, CurIs

LEMMA SkipFileMaps ==
  ASSUME MapHyps, MapsAre', NEW p \in Names, SkipFile(p)
  PROVE  MapInv' /\ Walk!SkipFile(p)
<1> DEFINE e == EntryOf(mem, Store, p)
           f == FilesOf(mem, Store)
<1>1. UNCHANGED <<kind, stored, mem>> /\ Walk!WalkSkips(p)
  BY DEF SkipFile, Walk!WalkSkips, Walk!live
<1>2. MapInv' /\ Generations' = Generations /\ Files(mem)' = f
  BY <1>1, MemStep DEF MapHyps, MapInv
<1>3. Files(mem) = f
  BY DEF MapHyps, MapsAre, CurIs
<1>4. PICK v \in Walk!Listed(p) : e.kind = "file" /\ e.version = v
  BY QueriesAre DEF SkipFile, Same
<1>5. p \in DOMAIN f /\ f[p] = e
  BY <1>4, FileMap
<1>6. Walk!Unchanged(f, p, v)
  BY <1>4, <1>5 DEF Walk!Unchanged
<1> HIDE DEF e, f
<1>. QED
  BY <1>1, <1>2, <1>3, <1>4, <1>6 DEF Walk!SkipFile

(* The tree t is flushed.                                                  *)
LEMMA FlushStep ==
  ASSUME MapHyps, MapsAre', put = <<>>, UNCHANGED <<kind, bags, clientData>>,
         NEW t, Hangs(t, Store), TreeKinds(t, Store), FlushTree(t)
  PROVE  /\ MapInv' /\ Generations' = Generations
         /\ Files(mem)' = FilesOf(t, Store)
<1>1. \A p \in Names : /\ HasOf(mem', Store', p) <=> HasOf(t, Store, p)
                       /\ EntryOf(mem', Store', p) = EntryOf(t, Store, p)
  BY FlushTreeIs DEF MapHyps, Inv, StoreInv
<1>2. SameEntries(t, Store, mem', Store')
  BY <1>1 DEF SameEntries
<1>3. FilesOf(mem', Store') = FilesOf(t, Store) /\ TreeKinds(mem', Store')
  BY <1>2, SameFiles
<1>4. ASSUME NEW id \in Range(clientData)
      PROVE  SameEntries(Tree(id), Store, Tree(id), Store')
  <2>1. SameEntries(Tree(id), Store, Tree(id), bags)
    BY DEF MapHyps, MapsAre, BagsGens
  <2>2. SameEntries(Tree(id), Store', Tree(id), bags)
    BY DEF MapsAre, BagsGens
  <2>. QED
    BY <2>1, <2>2 DEF SameEntries
<1>5. Generations' = Generations /\ GenKinds'
  BY <1>4, GensKeep DEF MapHyps
<1>6. LiveKinds'
  BY DEF MapHyps, MapInv, LiveKinds
<1>. QED
  BY <1>3, <1>5, <1>6 DEF MapInv, MapsAre, CurIs

LEMMA MapHypsAre ==
  ASSUME MapHyps
  PROVE  /\ OneKind /\ Inv /\ MapInv /\ MapsAre
         /\ IsStore(Store) /\ LiveKinds /\ LiveTree
         /\ Hangs(mem, Store) /\ TreeKinds(mem, Store) /\ DirsOnly(DOMAIN mem.cache)
         /\ WalkTypes /\ ReadingFits
         /\ kind \in [Names -> {"none", "dir", "file"}]
         /\ Files(mem) = FilesOf(mem, Store)
  BY MapParts, InvParts DEF MapHyps, MapsAre, CurIs

LEMMA StartBackupMaps ==
  ASSUME MapHyps, MapsAre', NEW r \in BackupRoots, StartBackup(r)
  PROVE  MapInv' /\ Walk!StartBackup(r)
<1> DEFINE f == FilesOf(Latest, Store)
<1>1. UNCHANGED <<kind, stored>> /\ Walk!WalkStarts(r)
  BY DEF StartBackup, Walk!WalkStarts, Walk!live
<1>2. TreeKinds(mem', Store) /\ FilesOf(mem', Store) = Walk!Only(f, Walk!OldRoots(r))
  BY MapHypsAre, StartMap
<1>3. MapInv' /\ Generations' = Generations /\ Files(mem)' = Walk!Only(f, Walk!OldRoots(r))
  BY <1>1, <1>2, MapHypsAre, MemStep
<1>4. Generations = GensOf(clientData, Store) /\ clientData \in Seq(Range(clientData))
  BY MapHypsAre, DataIs DEF MapsAre, GensIs
<1>5. Len(Generations) = Len(clientData) /\ (Generations = <<>> <=> clientData = <<>>)
  BY <1>4 DEF GensOf
<1>6. CASE clientData = <<>>
  <2>1. f = <<>>
    BY <1>6, MapHypsAre, NoFiles DEF Latest
  <2>2. Walk!Only(f, Walk!OldRoots(r)) = <<>>
    BY <2>1 DEF Walk!Only
  <2>. QED
    BY <1>1, <1>3, <1>5, <1>6, <2>2 DEF Walk!StartBackup
<1>7. CASE clientData # <<>>
  <2>1. Len(clientData) \in DOMAIN clientData
    BY <1>7, LatestKinds, MapHypsAre
  <2>2. Generations[Len(Generations)] = f
    BY <1>4, <1>5, <1>7, <2>1 DEF GensOf, Latest
  <2> HIDE DEF f
  <2>. QED
    BY <1>1, <1>3, <1>5, <1>7, <2>2 DEF Walk!StartBackup
<1>. QED
  BY <1>6, <1>7

LEMMA BackupDirectoryMaps ==
  ASSUME MapHyps, MapsAre', put = <<>>, NEW p \in Names, BackupDirectory(p)
  PROVE  MapInv' /\ Walk!BackupDirectory(p)
<1> DEFINE t == AfterDirectory(p)
           f == FilesOf(mem, Store)
           g == Walk!With(Walk!Without(f, Walk!Gone(p)), p, Walk!Directory)
<1>1. /\ Walk!WalkDir(p) /\ UNCHANGED <<kind, bags, clientData>> /\ kind[p] = "dir"
      /\ (mem' = t /\ UNCHANGED put) \/ FlushTree(t)
  BY DEF BackupDirectory, Walk!WalkDir, Walk!live, AfterDirectory, WithoutGone, GoneFrom
<1>2. Hangs(t, Store)
  BY <1>1, MapHypsAre, DirectoryTree
<1>3. TreeKinds(t, Store) /\ FilesOf(t, Store) = g
  BY <1>1, MapHypsAre, DirectoryMap
<1>4. MapInv' /\ Generations' = Generations /\ Files(mem)' = g
  <2>1. CASE mem' = t /\ UNCHANGED put
    BY <1>1, <1>3, <2>1, MapHypsAre, MemStep DEF stored
  <2>2. CASE FlushTree(t)
    BY <1>1, <1>2, <1>3, <2>2, FlushStep
  <2>. QED
    BY <1>1, <2>1, <2>2
<1>. QED
  BY <1>1, <1>4, MapHypsAre DEF Walk!BackupDirectory

LEMMA StartFileMaps ==
  ASSUME MapHyps, MapsAre', NEW p \in Names, StartFile(p)
  PROVE  MapInv' /\ Walk!StartFile(p)
<1> DEFINE f == FilesOf(mem, Store)
           e == EntryOf(mem, Store, p)
           old == FileExists(mem, p)
<1>1. /\ Walk!WalkOpens(p, old) /\ kind[p] = "file" /\ UNCHANGED <<kind, stored>>
      /\ ~HasOf(mem, Store, p)
  BY QueriesAre DEF StartFile, Walk!WalkOpens, Walk!live
<1>2. PICK v \in Walk!Listed(p) :
        ~Same(p, v) /\ mem' = SetChunks(SetKeys(mem, {p}, "file", v), p, <<>>)
  BY DEF StartFile
<1> DEFINE t == SetKeys(mem, {p}, "file", v)
<1>3. v \in 0..MaxVersion
  BY MapHypsAre, ListedIs
<1>4. Hangs(t, Store) /\ DirsOnly(DOMAIN t.cache) /\ IsFileIn(t, p)
  <2>1. KeysWritten(mem, t, p, v)
    BY <1>1, <1>3, MapHypsAre, KeysTree
  <2>. QED
    BY <2>1 DEF KeysWritten
<1>5. /\ TreeKinds(t, Store)
      /\ \A q \in Names : EntryOf(t, Store, q) = IF q = p THEN Walk!File(v, e.chunks)
                                                 ELSE EntryOf(mem, Store, q)
  BY <1>1, <1>3, MapHypsAre, KeysMap
<1> DEFINE c == <<>>
<1>6. mem' = SetChunks(t, p, c) /\ c \in Seq(Walk!Chunks)
  BY <1>2
<1> HIDE DEF t, c
<1>7. /\ TreeKinds(mem', Store)
      /\ \A q \in Names :
           EntryOf(mem', Store, q) = IF q = p THEN Walk!File(EntryOf(t, Store, p).version, c)
                                     ELSE EntryOf(t, Store, q)
  BY <1>1, <1>4, <1>5, <1>6, MapHypsAre, ChunksMap
<1>8. EntryOf(t, Store, p).version = v
  BY <1>5 DEF Walk!File
<1> DEFINE n == Walk!File(v, c)
<1>9. n.kind # "none"
  BY DEF Walk!File
<1>10. \A q \in Names : EntryOf(mem', Store, q) = IF q = p THEN n ELSE EntryOf(mem, Store, q)
  BY <1>5, <1>7, <1>8
<1> HIDE DEF n
<1>11. FilesOf(mem', Store) = Walk!With(f, p, n)
  BY <1>9, <1>10, FilesWith
<1>12. MapInv' /\ Generations' = Generations /\ Files(mem)' = Walk!With(f, p, n)
  BY <1>1, <1>7, <1>11, MapHypsAre, MemStep
<1>13. old <=> p \in DOMAIN f
  <2>1. old <=> ExistsOf(mem, Store, p)
    BY QueriesAre
  <2>2. ExistsOf(mem, Store, p) <=> e.kind # "none"
    BY <1>1, MapHypsAre, ExistsIs
  <2>4. DOMAIN f = {q \in Names : EntryOf(mem, Store, q).kind # "none"}
    BY FilesHave
  <2>3. p \in DOMAIN f <=> e.kind # "none"
    BY <2>4
  <2>. QED
    BY <2>1, <2>2, <2>3
<1>14. ~Walk!Unchanged(f, p, v)
  <2>1. e.kind = "file" /\ e.version = v <=> Same(p, v)
    BY QueriesAre DEF Same
  <2>2. p \in DOMAIN f => f[p] = e
    BY FilesHave
  <2>. QED
    BY <1>2, <2>1, <2>2 DEF Walk!Unchanged
<1>15. old = (p \in DOMAIN f)
  BY <1>13 DEF FileExists
<1> HIDE DEF f, old
<1>16. Walk!WalkOpens(p, p \in DOMAIN f)
  BY <1>1, <1>15
<1>. QED
  BY <1>2, <1>12, <1>14, <1>16, MapHypsAre DEF Walk!StartFile, f, n, c

(* The file that is being read.                                            *)
LEMMA FileIs ==
  ASSUME MapHyps, Reading
  PROVE  /\ file \in Names /\ kind[file] = "file" /\ IsFileIn(mem, file)
         /\ ~HasOf(mem, Store, file)
         /\ EntryOf(mem, Store, file) \in EntrySet /\ EntryOf(mem, Store, file).kind = "file"
         /\ EntryOf(mem, Store, file).chunks \in Seq(Walk!Chunks)
         /\ EntryOf(mem, Store, file).version \in 0..MaxVersion
         /\ Files(mem)[file] = EntryOf(mem, Store, file)
         /\ Entry(mem, file) = EntryOf(mem, Store, file)
<1> DEFINE e == EntryOf(mem, Store, file)
<1>1. file \in Names /\ kind[file] = "file" /\ IsFileIn(mem, file)
  BY MapHypsAre DEF ReadingFits, WalkTypes
<1>2. e \in EntrySet /\ e.kind = "file" /\ ~HasOf(mem, Store, file)
  BY <1>1, MapHypsAre, EntryIs DEF IsFileIn
<1>3. Files(mem)[file] = e /\ Entry(mem, file) = e
  BY <1>1, <1>2, MapHypsAre, FileMap, QueriesAre
<1> HIDE DEF e
<1>4. e.chunks \in Seq(Walk!Chunks) /\ e.version \in 0..MaxVersion
  BY <1>2, EntrySetIs
<1>. QED
  BY <1>1, <1>2, <1>3, <1>4 DEF e

LEMMA ReadChunkMaps ==
  ASSUME MapHyps, MapsAre', ReadChunk
  PROVE  MapInv' /\ Walk!ReadChunk
<1> DEFINE f == FilesOf(mem, Store)
           e == EntryOf(mem, Store, file)
           c == Append(e.chunks, <<version[file], Len(e.chunks) + 1>>)
<1>1. Reading
  BY DEF ReadChunk, Reading
<1>2. e = Entry(mem, file) /\ e = Files(mem)[file]
  BY <1>1, FileIs
<1>3. /\ Walk!WalkReads(Len(e.chunks)) /\ Len(e.chunks) < NumChunks
      /\ UNCHANGED <<kind, stored>> /\ mem' = SetChunks(mem, file, c)
  BY <1>2 DEF ReadChunk, Walk!WalkReads, Walk!live
<1>4. c \in Seq(Walk!Chunks)
  <2>1. e.chunks \in Seq(Walk!Chunks) /\ file \in Names
    BY <1>1, FileIs
  <2>2. version[file] \in 0..MaxVersion
    BY <2>1, MapHypsAre DEF WalkTypes
  <2>. HIDE DEF e
  <2>3. <<version[file], Len(e.chunks) + 1>> \in Walk!Chunks
    BY <1>3, <2>1, <2>2, BoundsAssumption DEF Walk!Chunks
  <2>. QED
    BY <2>1, <2>3
<1> DEFINE n == Walk!File(e.version, c)
<1> HIDE DEF c
<1>5. /\ TreeKinds(mem', Store)
      /\ \A q \in Names :
           EntryOf(mem', Store, q) = IF q = file THEN n ELSE EntryOf(mem, Store, q)
  BY <1>1, <1>3, <1>4, FileIs, MapHypsAre, ChunksMap
<1>6. n.kind # "none" /\ file \in Names
  BY <1>1, FileIs DEF Walk!File
<1> HIDE DEF n
<1>7. FilesOf(mem', Store) = Walk!With(f, file, n)
  BY <1>5, <1>6, FilesWith
<1>8. MapInv' /\ Generations' = Generations /\ Files(mem)' = Walk!With(f, file, n)
  BY <1>3, <1>5, <1>7, MapHypsAre, MemStep
<1> HIDE DEF e, f
<1>9. n = Walk!File(e.version, Append(e.chunks, <<version[file], Walk!NextChunk(e)>>))
  BY DEF n, c, Walk!NextChunk
<1>10. Files(mem) = f
  BY MapHypsAre DEF f
<1>. QED
  BY <1>2, <1>3, <1>8, <1>9, <1>10 DEF Walk!ReadChunk

LEMMA EndFileMaps ==
  ASSUME MapHyps, MapsAre', EndFile
  PROVE  MapInv' /\ Walk!EndFile
<1> DEFINE f == FilesOf(mem, Store)
           e == EntryOf(mem, Store, file)
           n == Walk!File(e.version, e.chunks)
<1>1. Reading
  BY DEF EndFile, Reading
<1>2. e = Entry(mem, file) /\ e = Files(mem)[file]
  BY <1>1, FileIs
<1>3. /\ Walk!WalkCloses(Len(e.chunks))
      /\ UNCHANGED <<kind, stored>> /\ mem' = SetKeys(mem, {file}, "file", e.version)
  BY <1>2 DEF EndFile, Walk!WalkCloses, Walk!live
<1> DEFINE v == e.version
<1>9. /\ file \in Names /\ kind[file] = "file" /\ ~HasOf(mem, Store, file)
      /\ v \in 0..MaxVersion /\ mem' = SetKeys(mem, {file}, "file", v)
      /\ n = Walk!File(v, EntryOf(mem, Store, file).chunks)
  BY <1>1, <1>3, FileIs
<1> HIDE DEF v, n
<1>4. /\ TreeKinds(mem', Store)
      /\ \A q \in Names :
           EntryOf(mem', Store, q) = IF q = file THEN n ELSE EntryOf(mem, Store, q)
  BY <1>9, MapHypsAre, KeysMap
<1>5. n.kind # "none" /\ file \in Names
  BY <1>9 DEF Walk!File, n
<1>6. FilesOf(mem', Store) = Walk!With(f, file, n)
  BY <1>4, <1>5, FilesWith
<1>7. MapInv' /\ Generations' = Generations /\ Files(mem)' = Walk!With(f, file, n)
  BY <1>3, <1>4, <1>6, MapHypsAre, MemStep
<1>8. Files(mem) = f
  BY MapHypsAre
<1> HIDE DEF e, f
<1>. QED
  BY <1>2, <1>3, <1>7, <1>8 DEF Walk!EndFile, Walk!MetadataThen, n

LEMMA ReadErrorMaps ==
  ASSUME MapHyps, MapsAre', ReadError
  PROVE  MapInv' /\ Walk!ReadError
<1> DEFINE f == FilesOf(mem, Store)
<1>1. Reading
  BY DEF ReadError, Walk!WalkFails, Reading
<1>2. /\ Walk!WalkFails /\ UNCHANGED <<kind, stored>>
      /\ mem' = IF existed THEN mem ELSE RemoveFiles(mem, {file})
  BY DEF ReadError, Walk!WalkFails, Walk!live
<1>3. Files(mem) = f
  BY MapHypsAre
<1>4. CASE existed
  <2>1. MapInv' /\ Generations' = Generations /\ Files(mem)' = f
    BY <1>2, <1>4, MapHypsAre, MemStep
  <2>. QED
    BY <1>2, <1>3, <1>4, <2>1 DEF Walk!ReadError, Walk!KeepPartial
<1>5. CASE ~existed
  <2>1. TreeKinds(mem', Store) /\ FilesOf(mem', Store) = Walk!Without(f, {file})
    BY <1>1, <1>2, <1>5, FileIs, MapHypsAre, RemovedMap
  <2>2. MapInv' /\ Generations' = Generations /\ Files(mem)' = Walk!Without(f, {file})
    BY <1>2, <2>1, MapHypsAre, MemStep
  <2>. QED
    BY <1>2, <1>3, <1>5, <2>2 DEF Walk!ReadError, Walk!KeepPartial
<1>. QED
  BY <1>4, <1>5

LEMMA BackupParentsMaps ==
  ASSUME MapHyps, MapsAre', NEW next \in {"walk", "file", "cleanup"}, BackupParents(next)
  PROVE  MapInv' /\ Walk!BackupParents(next)
<1> DEFINE f == FilesOf(mem, Store)
           g == [p \in DOMAIN f \cup Above[root] |->
                   IF p \in Above[root] THEN Walk!Directory ELSE f[p]]
<1>1. /\ Walk!WalkPauses(next) /\ UNCHANGED <<kind, stored>> /\ pc # "idle"
      /\ next = "file" => pc = "file" /\ Entry(mem, file).chunks # <<>>
      /\ mem' = SetKeys(mem, Above[root], "dir", 0)
  BY DEF BackupParents, Walk!WalkPauses, Walk!live
<1>2. TreeKinds(mem', Store) /\ FilesOf(mem', Store) = g
  BY <1>1, MapHypsAre, ParentsMap
<1>3. Files(mem) = f
  BY MapHypsAre
<1> HIDE DEF g
<1>4. MapInv' /\ Generations' = Generations /\ Files(mem)' = g
  BY <1>1, <1>2, MapHypsAre, MemStep
<1>5. next = "file" => Files(mem)[file].chunks # <<>>
  <2>1. SUFFICES ASSUME next = "file" PROVE Files(mem)[file].chunks # <<>>
    OBVIOUS
  <2>2. Files(mem)[file] = Entry(mem, file)
    BY <1>1, <2>1, FileIs DEF Reading
  <2>. QED
    BY <1>1, <2>1, <2>2
<1>6. Files(mem)' = [p \in DOMAIN Files(mem) \cup Above[root] |->
                       IF p \in Above[root] THEN Walk!Directory ELSE Files(mem)[p]]
  BY <1>3, <1>4 DEF g
<1>. QED
  BY <1>1, <1>4, <1>5, <1>6 DEF Walk!BackupParents

LEMMA FlushClientMaps ==
  ASSUME MapHyps, MapsAre', put = <<>>, FlushClient
  PROVE  MapInv' /\ UNCHANGED Walk!vars
<1>1. UNCHANGED <<kind, bags, clientData>> /\ FlushTree(mem) /\ UNCHANGED <<version, walkVars>>
  BY DEF FlushClient
<1>2. MapInv' /\ Generations' = Generations /\ Files(mem)' = FilesOf(mem, Store)
  BY <1>1, MapHypsAre, FlushStep
<1>. QED
  BY <1>1, <1>2, MapHypsAre DEF Walk!vars, Walk!live, Walk!walk, Walk!counts, walkVars

(* Objects that nothing refers to are dropped, and others added.           *)
LEMMA StoreStep ==
  ASSUME MapHyps, MapsAre', NEW X, KeptFor(X, Store', Store), Range(clientData) \subseteq X,
         UNCHANGED <<kind, clientData>>
  PROVE  Generations' = Generations /\ GenKinds' /\ LiveKinds'
<1>1. \A id \in Range(clientData) : SameEntries(Tree(id), Store, Tree(id), Store')
  BY KeptSame DEF SameEntries
<1>2. Generations' = Generations /\ GenKinds'
  BY <1>1, MapHypsAre, GensKeep
<1>. QED
  BY <1>2, MapHypsAre DEF LiveKinds

LEMMA FlushBagMaps ==
  ASSUME MapHyps, MapsAre', FlushBag
  PROVE  MapInv' /\ UNCHANGED Walk!vars
<1> DEFINE X == {mem.id} \cup Range(clientData)
           id == mem.id
<1>1. UNCHANGED <<kind, version, walkVars, clientData, mem>>
  BY DEF FlushBag
<1>2. KeptFor(X, Store', Store) /\ mem = Tree(id)
  BY FlushBagIs, MapHypsAre DEF Inv
<1>3. Range(clientData) \subseteq X /\ id \in X
  OBVIOUS
<1> HIDE DEF X, id
<1>4. Generations' = Generations /\ GenKinds' /\ LiveKinds'
  BY <1>1, <1>2, <1>3, StoreStep
<1>5. SameEntries(mem, Store, mem, Store')
  <2>1. SameEntries(Tree(id), Store, Tree(id), Store')
    BY <1>2, <1>3, KeptSame DEF SameEntries
  <2>. QED
    BY <1>2, <2>1
<1>6. TreeKinds(mem, Store') /\ FilesOf(mem, Store') = FilesOf(mem, Store)
  BY <1>5, MapHypsAre, SameFiles
<1>7. Files(mem)' = Files(mem) /\ TreeKinds(mem', Store')
  BY <1>1, <1>6, MapHypsAre DEF MapsAre, CurIs
<1>8. MapInv'
  BY <1>4, <1>7 DEF MapInv
<1>. QED
  BY <1>1, <1>4, <1>7, <1>8 DEF Walk!vars, Walk!live, Walk!walk, Walk!counts, walkVars

LEMMA SaveMaps ==
  ASSUME MapHyps, MapsAre', SaveClientData
  PROVE  MapInv' /\ Walk!Commit
<1> DEFINE id == mem.id
           S == Range(clientData) \cup {id}
           f == FilesOf(mem, Store)
<1>1. /\ mem.cache = <<>> /\ Walk!WalkGoesOn(Len(clientData))
      /\ UNCHANGED <<bags, put, mem, kind>> /\ clientData' = Append(clientData, id)
  BY DEF SaveClientData, Flushed, Walk!WalkGoesOn, Walk!live
<1>2. Store' = Store
  BY <1>1, SameStore
<1>3. clientData \in Seq(S) /\ id \in S
  BY MapHypsAre, DataIs
<1>4. mem = Tree(id)
  BY <1>1, MapHypsAre DEF Hangs, IsTree, Tree
<1> HIDE DEF id, S
<1>5. /\ GensOf(Append(clientData, id), Store) = Append(GensOf(clientData, Store), f)
      /\ KindsOf(Append(clientData, id), Store)
  BY <1>3, <1>4, MapHypsAre, GensAppend DEF MapInv, GenKinds
<1> HIDE DEF f
<1>6. Generations = GensOf(clientData, Store) /\ Generations' = GensOf(clientData', Store')
  BY MapHypsAre DEF MapsAre, GensIs
<1>7. Generations' = Append(Generations, f)
  BY <1>1, <1>2, <1>5, <1>6
<1>8. Files(mem) = f /\ Files(mem)' = f
  BY <1>1, <1>2, MapHypsAre DEF MapsAre, CurIs, f
<1>9. MapInv'
  BY <1>1, <1>2, <1>5, MapHypsAre DEF MapInv, GenKinds, LiveKinds
<1>10. Len(Generations) = Len(clientData)
  BY <1>3, <1>6 DEF GensOf
<1>. QED
  BY <1>1, <1>7, <1>8, <1>9, <1>10 DEF Walk!Commit

(* Generations are dropped.                                                *)
LEMMA DropStep ==
  ASSUME MapHyps, MapsAre', mem' = NoTree, UNCHANGED kind,
         NEW a \in 1..Len(clientData), NEW b \in a..(Len(clientData) + 1),
         clientData' = Cut(clientData, a, b), KeptFor(Range(clientData'), Store', Store)
  PROVE  MapInv' /\ Generations' = Cut(Generations, a, b) /\ Files(mem)' = <<>>
<1> DEFINE S == Range(clientData)
           c == Cut(clientData, a, b)
<1>1. clientData \in Seq(S)
  BY MapHypsAre, DataIs
<1> HIDE DEF S
<1>2. /\ GensOf(c, Store) = Cut(GensOf(clientData, Store), a, b)
      /\ KindsOf(c, Store)
  BY <1>1, MapHypsAre, GensCut DEF MapInv, GenKinds
<1> HIDE DEF c
<1>3. clientData' = c
  BY DEF c
<1>4. ASSUME NEW i \in DOMAIN c PROVE SameEntries(Tree(c[i]), Store, Tree(c[i]), Store')
  <2> DEFINE id == c[i]
  <2>1. id \in Range(clientData')
    BY <1>3 DEF Range
  <2> HIDE DEF id
  <2>2. SameEntries(Tree(id), Store, Tree(id), Store')
    BY <2>1, KeptSame DEF SameEntries
  <2>. QED
    BY <2>2 DEF id
<1>5. GensOf(c, Store') = GensOf(c, Store) /\ KindsOf(c, Store')
  BY <1>2, <1>4, GensSame
<1>6. Generations = GensOf(clientData, Store) /\ Generations' = GensOf(clientData', Store')
  BY MapHypsAre DEF MapsAre, GensIs
<1>7. Generations' = Cut(Generations, a, b)
  BY <1>2, <1>3, <1>5, <1>6
<1>8. FilesOf(mem', Store') = <<>> /\ TreeKinds(mem', Store')
  BY NoFiles DEF KeptFor
<1>. QED
  BY <1>3, <1>5, <1>7, <1>8, MapHypsAre DEF MapInv, GenKinds, LiveKinds, MapsAre, CurIs

LEMMA GensAre ==
  ASSUME MapHyps
  PROVE  \E T : Generations \in Seq(T) /\ Len(Generations) = Len(clientData)
<1> DEFINE S == Range(clientData)
           T == {FilesOf(Tree(id), Store) : id \in S}
           g == FilesBy(S, Store)
<1>1. clientData \in Seq(S)
  BY MapHypsAre, DataIs
<1> HIDE DEF S
<1>2. Generations = MapOver(g, clientData) /\ g \in [S -> T]
  BY <1>1, MapHypsAre, GensOver DEF MapsAre, GensIs
<1> HIDE DEF g, T
<1>3. IsMap(MapOver(g, clientData), T, g, clientData)
  BY <1>1, <1>2, MapOverIs
<1>. QED
  BY <1>2, <1>3 DEF IsMap

LEMMA RemoveCheckpointsMaps ==
  ASSUME MapHyps, MapsAre', put = <<>>, RemoveCheckpoints
  PROVE  MapInv' /\ Walk!RemoveCheckpoints
<1> DEFINE a == Len(clientData) - made
           b == Len(clientData)
<1>1. /\ Walk!WalkEnds /\ ~errors /\ pc = "cleanup" /\ UNCHANGED kind
      /\ mem' = NoTree /\ clientData' = Walk!Rest(clientData, made)
  BY DEF RemoveCheckpoints, Walk!WalkEnds, Walk!live
<1>2. KeptFor(Range(clientData'), Store', Store)
  BY MapHypsAre, RemoveCheckpointsStep
<1>3. clientData \in Seq(Range(clientData)) /\ made \in Nat /\ made < Len(clientData)
  BY <1>1, MapHypsAre, DataIs DEF Inv, WalkInv, MadeFits, WalkTypes
<1>4. a \in 1..Len(clientData) /\ b \in a..(Len(clientData) + 1)
  BY <1>3
<1>5. clientData' = Cut(clientData, a, b)
  BY <1>1, <1>3, CutsAre
<1>6. PICK T : Generations \in Seq(T) /\ Len(Generations) = Len(clientData)
  BY GensAre
<1>7. Walk!Rest(Generations, made) = Cut(Generations, a, b)
  BY <1>3, <1>6, CutsAre
<1> HIDE DEF a, b
<1>8. MapInv' /\ Generations' = Cut(Generations, a, b) /\ Files(mem)' = <<>>
  BY <1>1, <1>2, <1>4, <1>5, DropStep
<1>. QED
  BY <1>1, <1>7, <1>8 DEF Walk!RemoveCheckpoints

LEMMA ForgetMaps ==
  ASSUME MapHyps, MapsAre', NEW i \in 1..MaxGens, Forget(i)
  PROVE  MapInv' /\ Walk!Forget(i)
<1> DEFINE b == i + 1
<1>1. /\ pc = "idle" /\ i \in DOMAIN clientData
      /\ UNCHANGED <<kind, version, walkVars, mem>>
      /\ clientData' = SubSeq(clientData, 1, i - 1) \o SubSeq(clientData, i + 1, Len(clientData))
  BY DEF Forget
<1>2. mem = NoTree /\ mem' = NoTree
  BY <1>1, MapHypsAre, InvParts
<1>3. KeptFor(Range(clientData'), Store', Store)
  BY MapHypsAre, ForgetStep
<1>4. clientData \in Seq(Range(clientData))
  BY MapHypsAre, DataIs
<1>5. i \in 1..Len(clientData) /\ b \in i..(Len(clientData) + 1)
  BY <1>1, <1>4
<1>6. clientData' = Cut(clientData, i, b)
  BY <1>1, <1>4, <1>5, CutsAre
<1>7. PICK T : Generations \in Seq(T) /\ Len(Generations) = Len(clientData)
  BY GensAre
<1>8. /\ SubSeq(Generations, 1, i - 1) \o SubSeq(Generations, i + 1, Len(Generations))
           = Cut(Generations, i, b)
      /\ i \in DOMAIN Generations
  <2>1. i \in 1..Len(Generations)
    BY <1>5, <1>7
  <2>2. \A j \in 1..Len(Generations) :
          SubSeq(Generations, 1, j - 1) \o SubSeq(Generations, j + 1, Len(Generations))
            = Cut(Generations, j, j + 1)
    BY <1>7, CutsAre
  <2>3. i \in DOMAIN Generations
    BY <1>7, <2>1
  <2>. QED
    BY <2>1, <2>2, <2>3, Zenon
<1> HIDE DEF b
<1>9. MapInv' /\ Generations' = Cut(Generations, i, b) /\ Files(mem)' = <<>>
  BY <1>1, <1>2, <1>3, <1>5, <1>6, DropStep
<1>10. Files(mem) = <<>>
  BY <1>2, MapHypsAre, NoFiles
<1>. QED
  BY <1>1, <1>8, <1>9, <1>10 DEF Walk!Forget, Walk!live, Walk!walk, Walk!counts, walkVars

LEMMA LeaveCheckpointsMaps ==
  ASSUME MapHyps, MapsAre', LeaveCheckpoints
  PROVE  MapInv' /\ Walk!LeaveCheckpoints
<1>1. Walk!WalkEnds /\ mem' = NoTree /\ UNCHANGED <<kind, stored>>
  BY DEF LeaveCheckpoints, Walk!WalkEnds, Walk!live
<1>2. TreeKinds(mem', Store) /\ FilesOf(mem', Store) = <<>>
  BY <1>1, MapHypsAre, NoFiles
<1>3. MapInv' /\ Generations' = Generations /\ Files(mem)' = <<>>
  BY <1>1, <1>2, MapHypsAre, MemStep
<1>. QED
  BY <1>1, <1>3 DEF Walk!LeaveCheckpoints

LEMMA CrashMaps ==
  ASSUME MapHyps, MapsAre', Crash
  PROVE  MapInv' /\ Walk!Crash
<1> DEFINE X == Range(clientData)
<1>1. Walk!WalkDies /\ mem' = NoTree /\ UNCHANGED <<kind, clientData>>
  BY DEF Crash, Walk!WalkDies, Walk!live
<1>2. KeptFor(Range(clientData'), Store', Store)
  BY MapHypsAre, CrashStep
<1>3. KeptFor(X, Store', Store)
  BY <1>1, <1>2
<1>4. Range(clientData) \subseteq X
  OBVIOUS
<1> HIDE DEF X
<1>5. Generations' = Generations /\ GenKinds' /\ LiveKinds'
  BY <1>1, <1>3, <1>4, StoreStep
<1>6. FilesOf(mem', Store') = <<>> /\ TreeKinds(mem', Store')
  BY <1>1, <1>3, NoFiles DEF KeptFor
<1>7. Files(mem)' = <<>>
  BY <1>6 DEF MapsAre, CurIs
<1>8. MapInv'
  BY <1>5, <1>6 DEF MapInv
<1>. QED
  BY <1>1, <1>5, <1>7, <1>8 DEF Walk!Crash

LEMMA LiveMaps ==
  ASSUME MapHyps, MapsAre', Live
  PROVE  MapInv' /\ Walk!Live
<1>1. PICK p \in Names :
        /\ UNCHANGED <<stored, mem>>
        /\ Walk!Edit(p) \/ Walk!Delete(p) \/ \E k \in Kinds[p] : Walk!Create(p, k)
  BY DEF Live
<1>2. Walk!Live
  BY <1>1 DEF Walk!Live
<1>3. LiveKinds'
  <2>1. kind \in [Names -> {"none", "dir", "file"}] /\ LiveKinds
    BY MapHypsAre
  <2>2. CASE Walk!Edit(p)
    BY <2>1, <2>2 DEF Walk!Edit, LiveKinds
  <2>3. CASE Walk!Delete(p)
    BY <2>1, <2>3 DEF Walk!Delete, LiveKinds
  <2>4. ASSUME NEW k \in Kinds[p], Walk!Create(p, k) PROVE LiveKinds'
    BY <2>1, <2>4 DEF Walk!Create, LiveKinds
  <2>. QED
    BY <1>1, <2>2, <2>3, <2>4
<1>4. Store' = Store /\ mem' = mem /\ clientData' = clientData
  BY <1>1, SameStore DEF stored
<1>5. MapInv'
  BY <1>3, <1>4, MapHypsAre DEF MapInv, GenKinds
<1>. QED
  BY <1>2, <1>5

LEMMA StutterMaps ==
  ASSUME MapHyps, MapsAre', UNCHANGED vars
  PROVE  MapInv' /\ UNCHANGED Walk!vars
<1>1. UNCHANGED <<kind, version, walkVars, stored, mem>> /\ TreeKinds(mem', Store)
  BY MapHypsAre DEF vars
<1>2. MapInv' /\ Generations' = Generations /\ Files(mem)' = FilesOf(mem', Store)
  BY <1>1, MapHypsAre, MemStep
<1>. QED
  BY <1>1, <1>2, MapHypsAre DEF Walk!vars, Walk!live, Walk!walk, Walk!counts, walkVars

LEMMA BackupMaps ==
  ASSUME MapHyps, MapsAre', put = <<>>, Backup
  PROVE  MapInv' /\ (Walk!Backup \/ UNCHANGED Walk!vars)
<1>1. ASSUME NEW r \in BackupRoots, StartBackup(r) PROVE MapInv' /\ Walk!Backup
  BY <1>1, StartBackupMaps DEF Walk!Backup
<1>2. ASSUME NEW p \in Names, BackupDirectory(p) PROVE MapInv' /\ Walk!Backup
  BY <1>2, BackupDirectoryMaps DEF Walk!Backup
<1>3. ASSUME NEW p \in Names, SkipFile(p) PROVE MapInv' /\ Walk!Backup
  BY <1>3, SkipFileMaps DEF Walk!Backup
<1>4. ASSUME NEW p \in Names, StartFile(p) PROVE MapInv' /\ Walk!Backup
  BY <1>4, StartFileMaps DEF Walk!Backup
<1>5. ASSUME ReadChunk PROVE MapInv' /\ Walk!Backup
  BY <1>5, ReadChunkMaps DEF Walk!Backup
<1>6. ASSUME EndFile PROVE MapInv' /\ Walk!Backup
  BY <1>6, EndFileMaps DEF Walk!Backup
<1>7. ASSUME ReadError PROVE MapInv' /\ Walk!Backup
  BY <1>7, ReadErrorMaps DEF Walk!Backup
<1>8. ASSUME NEW next \in {"walk", "file", "cleanup"}, BackupParents(next)
      PROVE  MapInv' /\ Walk!Backup
  BY <1>8, BackupParentsMaps DEF Walk!Backup
<1>9. ASSUME RemoveCheckpoints PROVE MapInv' /\ Walk!Backup
  BY <1>9, RemoveCheckpointsMaps DEF Walk!Backup
<1>10. ASSUME LeaveCheckpoints PROVE MapInv' /\ Walk!Backup
  BY <1>10, LeaveCheckpointsMaps DEF Walk!Backup
<1>11. ASSUME FlushClient PROVE MapInv' /\ UNCHANGED Walk!vars
  BY <1>11, FlushClientMaps
<1>. QED
  BY <1>1, <1>2, <1>3, <1>4, <1>5, <1>6, <1>7, <1>8, <1>9, <1>10, <1>11 DEF Backup

LEMMA NextMaps ==
  ASSUME MapHyps, MapsAre', [Next]_vars
  PROVE  MapInv' /\ [Walk!Next]_(Walk!vars)
<1>1. ASSUME Live PROVE MapInv' /\ Walk!Next
  BY <1>1, LiveMaps DEF Walk!Next
<1>2. ASSUME put = <<>>, Backup PROVE MapInv' /\ (Walk!Next \/ UNCHANGED Walk!vars)
  BY <1>2, BackupMaps DEF Walk!Next
<1>3. ASSUME FlushBag PROVE MapInv' /\ UNCHANGED Walk!vars
  BY <1>3, FlushBagMaps
<1>4. ASSUME SaveClientData PROVE MapInv' /\ Walk!Next
  BY <1>4, SaveMaps DEF Walk!Next, Walk!Backup
<1>5. ASSUME Crash PROVE MapInv' /\ Walk!Next
  BY <1>5, CrashMaps DEF Walk!Next
<1>6. ASSUME NEW i \in 1..MaxGens, Forget(i) PROVE MapInv' /\ Walk!Next
  BY <1>6, ForgetMaps DEF Walk!Next
<1>7. ASSUME UNCHANGED vars PROVE MapInv' /\ UNCHANGED Walk!vars
  BY <1>7, StutterMaps
<1>. QED
  BY <1>1, <1>2, <1>3, <1>4, <1>5, <1>6, <1>7 DEF Next

LEMMA InitMaps ==
  ASSUME Init, Inv
  PROVE  MapInv /\ Walk!Init
<1>1. mem = NoTree /\ clientData = <<>> /\ Walk!Init
  BY DEF Init
<1>2. TreeKinds(mem, Store)
  BY <1>1, InvParts, NoFiles
<1>3. LiveKinds
  BY <1>1, KindsAssumption DEF Walk!Init, LiveKinds
<1>4. GenKinds
  BY <1>1 DEF GenKinds, KindsOf
<1>. QED
  BY <1>1, <1>2, <1>3, <1>4 DEF MapInv

(* If no path changes from a file to a directory or back, the directory    *)
(* objects implement the maps of TreeBackup, and so each generation has    *)
(* the files that the backup put into it, whatever is removed, flushed,    *)
(* resumed or cut off.                                                     *)
THEOREM Implementation ==
  ASSUME OneKind
  PROVE  Spec => ImplementsMaps
<1>1. Inv => MapsAre
  BY InvMaps
<1>2. Init /\ Inv => MapInv /\ Walk!Init
  BY InitMaps
<1>3. Inv /\ MapInv /\ MapsAre /\ MapsAre' /\ [Next]_vars => MapInv' /\ [Walk!Next]_(Walk!vars)
  BY NextMaps DEF MapHyps
<1>. QED
  BY <1>1, <1>2, <1>3, Invariance, PTL DEF Spec, ImplementsMaps, Walk!Spec
=============================================================================
