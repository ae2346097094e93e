-------------------------- MODULE TreeBackupProofs --------------------------
(***************************************************************************)
(* Proofs about TreeBackup for any tree of names, any number of chunks in  *)
(* a file and any bounds.                                                  *)
(***************************************************************************)
EXTENDS TreeBackup, TLAPS

(* Generations: functions from some path names to entries.                 *)
Maps == UNION {[S -> Entries] : S \in SUBSET Names}

(* The types of everything but the generations.                            *)
WalkTypes ==
  /\ kind \in [Names -> {"none", "dir", "file"}]
  /\ version \in [Names -> 0..MaxVersion]
  /\ since \in [Names -> 0..MaxVersion]
  /\ pc \in {"idle", "walk", "file", "commit", "cleanup"}
  /\ after \in {"walk", "file", "cleanup"}
  /\ root \in Names /\ file \in Names /\ todo \subseteq Names
  /\ existed \in BOOLEAN /\ errors \in BOOLEAN
  /\ made \in 0..MaxGens /\ backups \in 0..MaxBackups /\ faults \in 0..MaxFaults

(* A backup has made no more checkpoints than there are generations.       *)
MadeFits ==
  /\ pc # "idle" => made <= Len(gens)
  /\ pc = "cleanup" => made < Len(gens)

(* A file that is being read is in the map, with no more chunks than it    *)
(* has.                                                                    *)
FileFits ==
  pc = "file" \/ (pc = "commit" /\ after = "file") =>
    file \in DOMAIN cur /\ Len(cur[file].chunks) <= NumChunks

(* The generations are maps.                                               *)
MapTypes ==
  /\ gens \in Seq(Maps) /\ cur \in Maps
  /\ MadeFits /\ FileFits

-----------------------------------------------------------------------------
(* Maps                                                                    *)

(* A map is a function from path names to entries.                         *)
LEMMA MapIs ==
  ASSUME NEW S \in SUBSET Names, NEW f \in [S -> Entries]
  PROVE  f \in Maps
  BY DEF Maps

LEMMA MapHas ==
  ASSUME NEW f \in Maps
  PROVE  /\ DOMAIN f \in SUBSET Names
         /\ f \in [DOMAIN f -> Entries]
         /\ \A p \in DOMAIN f : f[p] \in Entries
<1>1. PICK S \in SUBSET Names : f \in [S -> Entries]
  BY DEF Maps
<1>. QED
  BY <1>1

LEMMA EmptyIsMap == <<>> \in Maps
<1>1. <<>> \in [{} -> Entries]
  OBVIOUS
<1>. QED
  BY <1>1, MapIs

(* Taking paths away and setting one entry lead from maps to maps.         *)
LEMMA OnlyIsMap ==
  ASSUME NEW f \in Maps, NEW S
  PROVE  Only(f, S) \in Maps
<1>1. Only(f, S) \in [DOMAIN f \cap S -> Entries]
  BY MapHas DEF Only
<1>. QED
  BY <1>1, MapHas, MapIs

LEMMA WithIsMap ==
  ASSUME NEW f \in Maps, NEW p \in Names, NEW e \in Entries
  PROVE  With(f, p, e) \in Maps
<1>1. With(f, p, e) \in [DOMAIN f \cup {p} -> Entries]
  BY MapHas DEF With
<1>. QED
  BY <1>1, MapHas, MapIs

(* A path is among those above it, and these are names.                    *)
LEMMA AboveIs ==
  ASSUME NEW p \in Names
  PROVE  p \in Above[p] /\ Above[p] \subseteq Names
  BY TreeAssumption

(* The two parts make TypeOK.                                              *)
LEMMA TypesTogether ==
  ASSUME WalkTypes, MapTypes
  PROVE  TypeOK
<1>1. \A i \in DOMAIN gens : gens[i] \in Maps
  BY DEF MapTypes
<1>. QED
  BY <1>1, MapHas DEF WalkTypes, MapTypes, TypeOK

-----------------------------------------------------------------------------
(* Types                                                                   *)

LEMMA WalkTypeStep ==
  ASSUME WalkTypes, MapTypes, [Next]_vars
  PROVE  WalkTypes'
<1> USE BoundsAssumption DEF WalkTypes, vars, live, walk, counts
<1>1. ASSUME NEW p \in Names, Edit(p) PROVE WalkTypes'
  BY <1>1 DEF Edit
<1>2. ASSUME NEW p \in Names, NEW k \in Kinds[p], Create(p, k) PROVE WalkTypes'
  <2>1. k \in {"dir", "file"}
    BY KindsAssumption
  <2>. QED
    BY <1>2, <2>1 DEF Create
<1>3. ASSUME NEW p \in Names, Delete(p) PROVE WalkTypes'
  BY <1>3 DEF Delete
<1>4. ASSUME NEW r \in BackupRoots, WalkStarts(r) PROVE WalkTypes'
  <2>1. r \in Names /\ todo' \subseteq Names
    BY <1>4, RootsAssumption DEF WalkStarts, Under
  <2>2. backups' \in 0..MaxBackups /\ made' \in 0..MaxGens
    BY <1>4 DEF WalkStarts
  <2>. QED
    BY <1>4, <2>1, <2>2 DEF WalkStarts
<1>5. ASSUME NEW p \in Names, WalkDir(p) \/ WalkSkips(p) PROVE WalkTypes'
  BY <1>5 DEF WalkDir, WalkSkips
<1>6. ASSUME NEW n, WalkReads(n) \/ WalkCloses(n) PROVE WalkTypes'
  BY <1>6 DEF WalkReads, WalkCloses
<1>7. CASE WalkFails
  BY <1>7 DEF WalkFails
<1>8. ASSUME NEW next \in {"walk", "file", "cleanup"}, WalkPauses(next) PROVE WalkTypes'
  BY <1>8 DEF WalkPauses
<1>9. CASE WalkGoesOn(Len(gens))
  BY <1>9 DEF WalkGoesOn, MapTypes, MadeFits
<1>10. CASE WalkEnds
  BY <1>10 DEF WalkEnds
<1>11. CASE WalkDies
  BY <1>11 DEF WalkDies
<1>12. ASSUME NEW i \in 1..MaxGens, Forget(i) PROVE WalkTypes'
  BY <1>12 DEF Forget
<1>13. CASE UNCHANGED vars
  BY <1>13
<1>14. ASSUME NEW p \in Names, StartFile(p) PROVE WalkTypes'
  <2>1. existed' = (p \in DOMAIN cur)
    BY <1>14 DEF StartFile, WalkOpens
  <2>2. existed' \in BOOLEAN
    BY <2>1
  <2>. QED
    BY <1>14, <2>2 DEF StartFile, WalkOpens
<1>. QED
  BY <1>1, <1>2, <1>3, <1>4, <1>5, <1>6, <1>7, <1>8, <1>9, <1>10, <1>11, <1>12, <1>13, <1>14
  DEF Next, Live, Backup, StartBackup, BackupDirectory, SkipFile, ReadChunk, EndFile,
      ReadError, BackupParents, Commit, RemoveCheckpoints, LeaveCheckpoints, Crash

(* What the actions put into the map is an entry.                          *)
LEMMA EntriesAre ==
  /\ Directory \in Entries
  /\ \A v \in 0..MaxVersion : \A c \in Seq(Chunks) : File(v, c) \in Entries
  BY BoundsAssumption DEF Directory, File, Entries

LEMMA CurStep ==
  ASSUME WalkTypes, MapTypes, [Next]_vars
  PROVE  cur' \in Maps
<1> USE DEF MapTypes, FileFits
<1>1. ASSUME NEW r \in BackupRoots, StartBackup(r) PROVE cur' \in Maps
  <2>1. CASE gens = <<>>
    BY <1>1, <2>1, EmptyIsMap DEF StartBackup
  <2>2. CASE gens # <<>>
    <3>1. gens[Len(gens)] \in Maps
      BY <2>2
    <3>. QED
      BY <1>1, <2>2, <3>1, OnlyIsMap DEF StartBackup
  <2>. QED
    BY <2>1, <2>2
<1>2. ASSUME NEW p \in Names, BackupDirectory(p) PROVE cur' \in Maps
  BY <1>2, OnlyIsMap, WithIsMap, EntriesAre DEF BackupDirectory, Without
<1>3. ASSUME NEW p \in Names, StartFile(p) PROVE cur' \in Maps
  <2>1. PICK v \in Listed(p) : cur' = With(cur, p, File(v, <<>>))
    BY <1>3 DEF StartFile
  <2>2. v \in 0..MaxVersion
    BY BoundsAssumption DEF Listed, WalkTypes
  <2>3. <<>> \in Seq(Chunks)
    OBVIOUS
  <2>. QED
    BY <2>1, <2>2, <2>3, WithIsMap, EntriesAre
<1>4. ASSUME ReadChunk PROVE cur' \in Maps
  <2>1. cur[file] \in Entries /\ Len(cur[file].chunks) < NumChunks
    BY <1>4, MapHas DEF ReadChunk, WalkReads
  <2>2. Append(cur[file].chunks, <<version[file], NextChunk(cur[file])>>) \in Seq(Chunks)
    BY <2>1, BoundsAssumption DEF Entries, Chunks, NextChunk, WalkTypes
  <2>3. cur[file].version \in 0..MaxVersion
    BY <2>1 DEF Entries
  <2>4. cur' = With(cur, file, File(cur[file].version,
                 Append(cur[file].chunks, <<version[file], NextChunk(cur[file])>>)))
    BY <1>4 DEF ReadChunk
  <2>. QED
    BY <2>2, <2>3, <2>4, WithIsMap, EntriesAre DEF WalkTypes
<1>5. ASSUME EndFile PROVE cur' \in Maps
  <2>1. cur[file] \in Entries
    BY <1>5, MapHas DEF EndFile, WalkCloses
  <2>2. File(MetadataThen(cur[file]), cur[file].chunks) \in Entries
    BY <2>1, EntriesAre DEF MetadataThen, Entries
  <2>. QED
    BY <1>5, <2>2, WithIsMap DEF EndFile, WalkTypes
<1>6. ASSUME ReadError PROVE cur' \in Maps
  BY <1>6, OnlyIsMap DEF ReadError, Without
<1>7. ASSUME NEW next, BackupParents(next) PROVE cur' \in Maps
  <2>1. Above[root] \subseteq Names
    BY AboveIs DEF WalkTypes
  <2>2. cur' \in [DOMAIN cur \cup Above[root] -> Entries]
    BY <1>7, MapHas, EntriesAre DEF BackupParents
  <2>. QED
    BY <2>1, <2>2, MapHas, MapIs
<1>8. CASE RemoveCheckpoints \/ LeaveCheckpoints \/ Crash
  BY <1>8, EmptyIsMap DEF RemoveCheckpoints, LeaveCheckpoints, Crash
<1>9. ASSUME NEW p \in Names, SkipFile(p) PROVE cur' \in Maps
  BY <1>9 DEF SkipFile
<1>10. CASE Commit
  BY <1>10 DEF Commit
<1>11. CASE Live \/ (\E i \in 1..MaxGens : Forget(i)) \/ UNCHANGED vars
  BY <1>11 DEF Live, Edit, Create, Delete, Forget, vars
<1>. QED
  BY <1>1, <1>2, <1>3, <1>4, <1>5, <1>6, <1>7, <1>8, <1>9, <1>10, <1>11 DEF Next, Backup

LEMMA GensStep ==
  ASSUME WalkTypes, MapTypes, [Next]_vars
  PROVE  gens' \in Seq(Maps)
<1> USE DEF MapTypes, MadeFits
<1>1. CASE Commit
  BY <1>1 DEF Commit
<1>2. CASE RemoveCheckpoints
  <2>1. gens' = Rest(gens, made)
    BY <1>2 DEF RemoveCheckpoints
  <2>2. made \in Nat /\ made < Len(gens)
    BY <1>2, BoundsAssumption DEF RemoveCheckpoints, WalkEnds, WalkTypes
  <2>3. /\ SubSeq(gens, 1, Len(gens) - made - 1) \in Seq(Maps)
        /\ SubSeq(gens, Len(gens), Len(gens)) \in Seq(Maps)
    BY <2>2
  <2>. QED
    BY <2>1, <2>3 DEF Rest
<1>3. ASSUME NEW i \in 1..MaxGens, Forget(i) PROVE gens' \in Seq(Maps)
  <2>1. i \in 1..Len(gens)
    BY <1>3 DEF Forget
  <2>2. SubSeq(gens, 1, i - 1) \in Seq(Maps) /\ SubSeq(gens, i + 1, Len(gens)) \in Seq(Maps)
    BY <2>1
  <2>. QED
    BY <1>3, <2>2 DEF Forget
<1>4. CASE UNCHANGED gens
  BY <1>4
<1>. QED
  BY <1>1, <1>2, <1>3, <1>4
  DEF Next, Live, Backup, Edit, Create, Delete, StartBackup, BackupDirectory, SkipFile,
      StartFile, ReadChunk, EndFile, ReadError, BackupParents, LeaveCheckpoints, Crash, vars

LEMMA MadeStep ==
  ASSUME WalkTypes, MapTypes, [Next]_vars
  PROVE  MadeFits'
<1> USE DEF MapTypes, MadeFits
<1>1. Len(gens) \in Nat /\ made \in Nat
  BY BoundsAssumption DEF WalkTypes
<1>2. CASE Commit
  <2>1. Len(gens') = Len(gens) + 1 /\ pc = "commit" /\ pc' = after
    BY <1>2 DEF Commit, WalkGoesOn
  <2>2. made' = IF after = "cleanup" THEN made ELSE made + 1
    BY <1>2 DEF Commit, WalkGoesOn
  <2>. QED
    BY <1>1, <2>1, <2>2
<1>3. ASSUME NEW r \in BackupRoots, StartBackup(r) PROVE MadeFits'
  BY <1>1, <1>3 DEF StartBackup, WalkStarts
<1>4. CASE pc' = "idle"
  BY <1>4
<1>5. CASE /\ gens' = gens /\ made' = made /\ pc # "idle"
           /\ pc' = "cleanup" => pc = "cleanup"
  BY <1>5
<1>6. CASE UNCHANGED vars
  BY <1>6 DEF vars, walk
<1>. QED
  BY <1>2, <1>3, <1>4, <1>5, <1>6
  DEF Next, Live, Backup, Edit, Create, Delete, BackupDirectory, SkipFile, StartFile,
      ReadChunk, EndFile, ReadError, BackupParents, RemoveCheckpoints, LeaveCheckpoints,
      Crash, Forget, WalkDir, WalkSkips, WalkOpens, WalkReads, WalkCloses, WalkFails,
      WalkPauses, WalkEnds, WalkDies, live, walk, counts

LEMMA FileStep ==
  ASSUME WalkTypes, MapTypes, [Next]_vars
  PROVE  FileFits'
<1> USE BoundsAssumption DEF MapTypes, FileFits, WalkTypes
<1>1. ASSUME NEW p \in Names, StartFile(p) PROVE FileFits'
  BY <1>1 DEF StartFile, WalkOpens, With, File
<1>2. CASE ReadChunk
  <2>1. /\ file' = file /\ file \in DOMAIN cur
        /\ cur[file].chunks \in Seq(Chunks) /\ Len(cur[file].chunks) < NumChunks
    BY <1>2, MapHas DEF ReadChunk, WalkReads, Entries
  <2>2. cur'[file] = File(cur[file].version,
              Append(cur[file].chunks, <<version[file], NextChunk(cur[file])>>))
    BY <1>2, <2>1 DEF ReadChunk, With
  <2>3. Len(cur'[file].chunks) <= NumChunks
    BY <2>1, <2>2 DEF File
  <2>. QED
    BY <1>2, <2>1, <2>3 DEF ReadChunk, With
<1>3. ASSUME NEW next, BackupParents(next) PROVE FileFits'
  <2>1. file' = file /\ (next = "file" => pc = "file") /\ after' = next /\ pc' = "commit"
    BY <1>3 DEF BackupParents, WalkPauses
  <2>2. ASSUME file \in DOMAIN cur, Len(cur[file].chunks) <= NumChunks
        PROVE  file \in DOMAIN cur' /\ Len(cur'[file].chunks) <= NumChunks
    <3>1. cur'[file] = cur[file] \/ cur'[file] = Directory
      BY <1>3, <2>2 DEF BackupParents
    <3>2. Len(Directory.chunks) = 0
      BY DEF Directory
    <3>. QED
      BY <1>3, <2>2, <3>1, <3>2 DEF BackupParents
  <2>. QED
    BY <2>1, <2>2
<1>4. CASE Commit
  BY <1>4 DEF Commit, WalkGoesOn
<1>5. CASE pc' \notin {"file", "commit"}
  BY <1>5
<1>6. CASE UNCHANGED <<cur, pc, after, file>>
  BY <1>6
<1>. QED
  BY <1>1, <1>2, <1>3, <1>4, <1>5, <1>6
  DEF Next, Live, Backup, Edit, Create, Delete, StartBackup, BackupDirectory, SkipFile,
      EndFile, ReadError, RemoveCheckpoints, LeaveCheckpoints,
      Crash, Forget, WalkStarts, WalkDir, WalkSkips, WalkCloses, WalkFails,
      WalkEnds, WalkDies, live, walk, counts, vars

LEMMA InitTypes == Init => WalkTypes /\ MapTypes
<1>1. Init => WalkTypes
  <2>1. Root \in Names /\ 0 \in 0..MaxVersion /\ 0 \in 0..MaxGens
        /\ 0 \in 0..MaxBackups /\ 0 \in 0..MaxFaults
    BY TreeAssumption, BoundsAssumption
  <2>2. Init => /\ kind \in [Names -> {"none", "dir", "file"}]
                /\ version \in [Names -> 0..MaxVersion]
                /\ since \in [Names -> 0..MaxVersion]
    BY <2>1 DEF Init
  <2>. QED
    BY <2>1, <2>2 DEF Init, WalkTypes
<1>2. Init => MapTypes
  BY EmptyIsMap DEF Init, MapTypes, MadeFits, FileFits
<1>. QED
  BY <1>1, <1>2

LEMMA TypeStep == WalkTypes /\ MapTypes /\ [Next]_vars => (WalkTypes /\ MapTypes)'
  BY WalkTypeStep, CurStep, GensStep, MadeStep, FileStep DEF MapTypes

(* The types of the variables hold throughout.                             *)
THEOREM Typing == Spec => []TypeOK
  BY InitTypes, TypeStep, TypesTogether, PTL DEF Spec

-----------------------------------------------------------------------------
(* Files that look unchanged.  What the latest generation says of a file   *)
(* is not inductive: the next generation is made of the others and of cur. *)
(* So every generation, committed or not, has the contents of each file    *)
(* whose version is still the present one, and a file that is being read   *)
(* has the part read so far.                                               *)

Sound(v, e) ==
  e.kind = "file" => e.version <= v /\ (e.version = v => e.chunks = Content(v))

Partial(v, e) ==
  /\ e.kind = "file" /\ e.version <= v
  /\ e.version = v => \A i \in 1..Len(e.chunks) : e.chunks[i] = <<v, i>>

GensSound == \A i \in DOMAIN gens : \A p \in DOMAIN gens[i] : Sound(version[p], gens[i][p])

CurSound ==
  /\ pc = "commit" => after # "file"
  /\ \A p \in DOMAIN cur : (pc = "file" /\ p = file) \/ Sound(version[p], cur[p])
  /\ pc = "file" => Partial(version[file], cur[file])

SoundInv == WalkTypes /\ MapTypes /\ GensSound /\ CurSound

(* A directory is sound, and what was sound stays so when versions grow.   *)
LEMMA DirectoryIsSound == \A v : Sound(v, Directory)
  BY DEF Sound, Directory

LEMMA StaysSound ==
  ASSUME NEW v \in Nat, NEW w \in Nat, v <= w, NEW e \in Entries
  PROVE  (Sound(v, e) => Sound(w, e)) /\ (Partial(v, e) => Partial(w, e))
<1>1. e.version \in Nat
  BY BoundsAssumption DEF Entries
<1>. QED
  BY <1>1 DEF Sound, Partial

(* A file that has been read to its end is sound.                          *)
LEMMA CompleteIsSound ==
  ASSUME NEW v \in Nat, NEW e \in Entries, Partial(v, e), Len(e.chunks) = NumChunks
  PROVE  Sound(v, e)
<1>1. e.chunks \in Seq(Chunks)
  BY DEF Entries
<1>2. e.chunks \in [1..NumChunks -> Chunks]
  BY <1>1
<1>3. ASSUME e.version = v PROVE e.chunks = Content(v)
  <2>1. \A i \in 1..NumChunks : e.chunks[i] = Content(v)[i]
    BY <1>3 DEF Partial, Content
  <2>2. Content(v) = [i \in 1..NumChunks |-> Content(v)[i]]
    BY DEF Content
  <2>. QED
    BY <1>2, <2>1, <2>2
<1>. QED
  BY <1>3 DEF Partial, Sound

(* The live data only ever get newer.                                      *)
LEMMA VersionsGrow ==
  ASSUME WalkTypes, WalkTypes', [Next]_vars, NEW p \in Names
  PROVE  version[p] \in Nat /\ version'[p] \in Nat /\ version[p] <= version'[p]
<1>1. version[p] \in Nat /\ version'[p] \in Nat
  BY BoundsAssumption DEF WalkTypes
<1>2. version' = version \/ \E q \in Names : version' = [version EXCEPT ![q] = @ + 1]
  BY DEF Next, Live, Backup, Edit, Create, Delete, StartBackup, BackupDirectory, SkipFile,
      StartFile, ReadChunk, EndFile, ReadError, BackupParents, Commit, RemoveCheckpoints,
      LeaveCheckpoints, Crash, Forget, WalkStarts, WalkDir, WalkSkips, WalkOpens,
      WalkReads, WalkCloses, WalkFails, WalkPauses, WalkGoesOn, WalkEnds, WalkDies,
      live, vars
<1>. QED
  BY <1>1, <1>2 DEF WalkTypes

(* What was sound in a generation is so after the step.                    *)
LEMMA MapStaysSound ==
  ASSUME WalkTypes, WalkTypes', [Next]_vars,
         NEW f \in Maps, NEW p \in DOMAIN f, Sound(version[p], f[p])
  PROVE  Sound(version'[p], f[p])
<1>1. p \in Names /\ f[p] \in Entries
  BY MapHas
<1>. QED
  BY <1>1, VersionsGrow, StaysSound

-----------------------------------------------------------------------------

LEMMA RestIs ==
  ASSUME NEW a \in Seq(Maps), NEW k \in 1..Len(a), NEW j \in 1..(Len(a) - k)
  PROVE  SubSeq(a, k + 1, Len(a))[j] = a[k + j]
  OBVIOUS

LEMMA ConcatIs ==
  ASSUME NEW a \in Seq(Maps), NEW b \in Seq(Maps)
  PROVE  /\ DOMAIN (a \o b) = 1..(Len(a) + Len(b))
         /\ \A i \in 1..(Len(a) + Len(b)) :
              (a \o b)[i] = IF i <= Len(a) THEN a[i] ELSE b[i - Len(a)]
  OBVIOUS

(* Where the generations come from: those before, and cur.                 *)
LEMMA GensFrom ==
  ASSUME MapTypes, WalkTypes, [Next]_vars, NEW i \in DOMAIN gens'
  PROVE  \/ \E j \in DOMAIN gens : gens'[i] = gens[j]
         \/ gens'[i] = cur /\ pc = "commit"
<1> USE DEF MapTypes
<1>1. CASE Commit
  <2>1. gens' = Append(gens, cur) /\ pc = "commit"
    BY <1>1 DEF Commit, WalkGoesOn
  <2>2. i \in 1..(Len(gens) + 1)
    BY <2>1
  <2>. QED
    BY <2>1, <2>2
<1>2. CASE RemoveCheckpoints
  <2>1. gens' = Rest(gens, made) /\ made \in Nat /\ made < Len(gens)
    BY <1>2, BoundsAssumption DEF RemoveCheckpoints, WalkEnds, WalkTypes, MadeFits
  <2> DEFINE n == Len(gens) - made - 1
  <2>2. /\ i \in 1..(n + 1)
        /\ gens'[i] = IF i <= n THEN gens[i] ELSE gens[Len(gens)]
    BY <2>1 DEF Rest
  <2>. QED
    BY <2>1, <2>2
<1>3. ASSUME NEW k \in 1..MaxGens, Forget(k)
      PROVE  \E j \in DOMAIN gens : gens'[i] = gens[j]
  <2>1. k \in 1..Len(gens)
        /\ gens' = SubSeq(gens, 1, k - 1) \o SubSeq(gens, k + 1, Len(gens))
    BY <1>3 DEF Forget
  <2>2. /\ SubSeq(gens, 1, k - 1) \in Seq(Maps) /\ Len(SubSeq(gens, 1, k - 1)) = k - 1
        /\ SubSeq(gens, k + 1, Len(gens)) \in Seq(Maps)
        /\ Len(SubSeq(gens, k + 1, Len(gens))) = Len(gens) - k
    BY <2>1
  <2>3. i \in 1..(Len(gens) - 1)
    <3>1. DOMAIN gens' = 1..((k - 1) + (Len(gens) - k))
      BY <2>1, <2>2, ConcatIs
    <3>2. (k - 1) + (Len(gens) - k) = Len(gens) - 1
      BY <2>1
    <3>. QED
      BY <3>1, <3>2
  <2>4. CASE i < k
    <3>1. SubSeq(gens, 1, k - 1)[i] = gens[i] /\ i <= k - 1
      BY <2>1, <2>3, <2>4
    <3>2. gens'[i] = SubSeq(gens, 1, k - 1)[i]
      BY <2>1, <2>2, <2>3, <3>1, ConcatIs
    <3>. QED
      BY <2>1, <2>3, <3>1, <3>2
  <2>5. CASE ~(i < k)
    <3> DEFINE j == i - (k - 1)
    <3>1. j \in 1..(Len(gens) - k) /\ k + j = i + 1 /\ ~(i <= k - 1)
      BY <2>1, <2>3, <2>5
    <3>2. SubSeq(gens, k + 1, Len(gens))[j] = gens[i + 1]
      BY <2>1, <3>1, RestIs
    <3>3. gens'[i] = SubSeq(gens, k + 1, Len(gens))[j]
      BY <2>1, <2>2, <2>3, <3>1, ConcatIs
    <3>4. i + 1 \in DOMAIN gens
      BY <2>1, <2>3
    <3>. QED
      BY <3>2, <3>3, <3>4
  <2>. QED
    BY <2>4, <2>5
<1>4. CASE UNCHANGED gens
  BY <1>4
<1>. QED
  BY <1>1, <1>2, <1>3, <1>4
  DEF Next, Live, Backup, Edit, Create, Delete, StartBackup, BackupDirectory, SkipFile,
      StartFile, ReadChunk, EndFile, ReadError, BackupParents, LeaveCheckpoints, Crash, vars

LEMMA GensSoundStep ==
  ASSUME SoundInv, WalkTypes', [Next]_vars
  PROVE  GensSound'
<1>. SUFFICES ASSUME NEW i \in DOMAIN gens', NEW p \in DOMAIN gens'[i]
              PROVE  Sound(version'[p], gens'[i][p])
  BY DEF GensSound
<1>1. CASE \E j \in DOMAIN gens : gens'[i] = gens[j]
  <2>1. PICK j \in DOMAIN gens : gens'[i] = gens[j]
    BY <1>1
  <2>2. gens[j] \in Maps /\ Sound(version[p], gens[j][p])
    BY <2>1 DEF SoundInv, GensSound, MapTypes
  <2>. QED
    BY <2>1, <2>2, MapStaysSound DEF SoundInv
<1>2. CASE gens'[i] = cur /\ pc = "commit"
  <2>1. cur \in Maps /\ Sound(version[p], cur[p])
    BY <1>2 DEF SoundInv, CurSound, MapTypes
  <2>. QED
    BY <1>2, <2>1, MapStaysSound DEF SoundInv
<1>. QED
  BY <1>1, <1>2, GensFrom DEF SoundInv

(* The generation under construction stays sound.  That no checkpoint      *)
(* comes in the middle of a file and that a file that was there before is  *)
(* read without an error is what keeps parts of files out.                 *)
LEMMA CurSoundStep ==
  ASSUME ~MidFile, ~OldErrors, SoundInv, WalkTypes', [Next]_vars
  PROVE  CurSound'
<1> USE DEF CurSound
<1>1. ASSUME NEW f \in Maps, NEW p \in DOMAIN f, Sound(version[p], f[p])
      PROVE  Sound(version'[p], f[p])
  BY <1>1, MapStaysSound DEF SoundInv
<1>2. cur \in Maps /\ DOMAIN cur \subseteq Names
  BY MapHas DEF SoundInv, MapTypes
<1>3. ASSUME NEW r \in BackupRoots, StartBackup(r) PROVE CurSound'
  <2>1. \A p \in DOMAIN cur' : Sound(version'[p], cur'[p])
    <3>1. CASE gens = <<>>
      BY <1>3, <3>1 DEF StartBackup
    <3>2. CASE gens # <<>>
      <4>1. gens[Len(gens)] \in Maps /\ Len(gens) \in DOMAIN gens
        BY <3>2 DEF SoundInv, MapTypes
      <4>2. \A p \in DOMAIN cur' : p \in DOMAIN gens[Len(gens)] /\ cur'[p] = gens[Len(gens)][p]
        BY <1>3, <3>2 DEF StartBackup, Only
      <4>. QED
        BY <1>1, <4>1, <4>2 DEF SoundInv, GensSound
    <3>. QED
      BY <3>1, <3>2
  <2>. QED
    BY <1>3, <2>1 DEF StartBackup, WalkStarts
<1>4. ASSUME NEW p \in Names, BackupDirectory(p) PROVE CurSound'
  <2>1. \A q \in DOMAIN cur' : (q \in DOMAIN cur /\ cur'[q] = cur[q]) \/ cur'[q] = Directory
    BY <1>4 DEF BackupDirectory, With, Without, Only
  <2>. QED
    BY <1>1, <1>2, <1>4, <2>1, DirectoryIsSound DEF BackupDirectory, WalkDir, SoundInv
<1>5. ASSUME NEW p \in Names, StartFile(p) PROVE CurSound'
  <2>1. PICK v \in Listed(p) : cur' = With(cur, p, File(v, <<>>))
    BY <1>5 DEF StartFile
  <2>2. v <= version[p]
    BY BoundsAssumption DEF Listed, SoundInv, WalkTypes
  <2>3. Partial(version'[p], cur'[p]) /\ p \in DOMAIN cur'
    BY <1>5, <2>1, <2>2 DEF With, File, Partial, StartFile, WalkOpens, live
  <2>4. \A q \in DOMAIN cur' \ {p} : q \in DOMAIN cur /\ cur'[q] = cur[q]
    BY <2>1 DEF With
  <2>. QED
    BY <1>1, <1>2, <1>5, <2>3, <2>4 DEF StartFile, WalkOpens, SoundInv
<1>6. CASE ReadChunk
  <2> DEFINE e == cur[file]
  <2>1. /\ pc = "file" /\ pc' = pc /\ file' = file /\ file \in Names /\ version' = version
        /\ file \in DOMAIN cur /\ e \in Entries /\ Partial(version[file], e)
    BY <1>2, <1>6, MapHas
    DEF ReadChunk, WalkReads, live, SoundInv, WalkTypes, MapTypes, FileFits
  <2>2. cur' = With(cur, file, File(e.version,
                  Append(e.chunks, <<version[file], Len(e.chunks) + 1>>)))
    BY <1>6 DEF ReadChunk, NextChunk
  <2>3. e.chunks \in Seq(Chunks)
    BY <2>1 DEF Entries
  <2>4. cur'[file] = File(e.version, Append(e.chunks, <<version[file], Len(e.chunks) + 1>>))
    BY <2>2 DEF With
  <2>5. \A i \in 1..Len(cur'[file].chunks) :
          cur'[file].chunks[i] = IF i <= Len(e.chunks) THEN e.chunks[i]
                                                       ELSE <<version[file], i>>
    BY <2>3, <2>4 DEF File
  <2>6. Len(e.chunks) \in Nat /\ Len(cur'[file].chunks) = Len(e.chunks) + 1
    BY <2>3, <2>4 DEF File
  <2>7. Partial(version[file], cur'[file])
    BY <2>1, <2>4, <2>5, <2>6 DEF Partial, File
  <2>8. /\ file \in DOMAIN cur'
        /\ \A q \in DOMAIN cur' \ {file} : q \in DOMAIN cur /\ cur'[q] = cur[q]
    BY <2>2 DEF With
  <2>. QED
    BY <1>1, <1>2, <2>1, <2>7, <2>8 DEF SoundInv
<1>7. CASE EndFile
  <2> DEFINE e == cur[file]
  <2>1. /\ pc = "file" /\ pc' = "walk" /\ file \in Names /\ version' = version
        /\ file \in DOMAIN cur /\ e \in Entries
        /\ Partial(version[file], e) /\ Len(e.chunks) = NumChunks
    BY <1>2, <1>7, MapHas
    DEF EndFile, WalkCloses, live, SoundInv, WalkTypes, MapTypes, FileFits
  <2>2. Sound(version[file], e)
    BY <2>1, CompleteIsSound, BoundsAssumption DEF SoundInv, WalkTypes
  <2>3. cur'[file] = File(e.version, e.chunks)
    BY <1>7 DEF EndFile, MetadataThen, With
  <2>4. Sound(version[file], cur'[file])
    BY <2>1, <2>2, <2>3 DEF Sound, Partial, File
  <2>5. \A q \in DOMAIN cur' \ {file} : q \in DOMAIN cur /\ cur'[q] = cur[q]
    BY <1>7 DEF EndFile, With
  <2>. QED
    BY <1>1, <1>2, <2>1, <2>4, <2>5 DEF SoundInv
<1>8. CASE ReadError
  <2>1. cur' = Without(cur, {file}) /\ pc' = "walk" /\ version' = version /\ file \in Names
    BY <1>8 DEF ReadError, WalkFails, KeepPartial, live, SoundInv, WalkTypes
  <2>2. \A q \in DOMAIN cur' : q # file /\ q \in DOMAIN cur /\ cur'[q] = cur[q]
    BY <2>1, AboveIs DEF Without, Only
  <2>. QED
    BY <1>1, <1>2, <2>1, <2>2 DEF SoundInv
<1>9. ASSUME NEW next, BackupParents(next) PROVE CurSound'
  <2>1. pc = "walk" /\ pc' = "commit" /\ after' # "file"
    BY <1>9 DEF BackupParents, WalkPauses
  <2>2. \A q \in DOMAIN cur' : (q \in DOMAIN cur /\ cur'[q] = cur[q]) \/ cur'[q] = Directory
    BY <1>9 DEF BackupParents
  <2>. QED
    BY <1>1, <1>2, <2>1, <2>2, DirectoryIsSound DEF SoundInv
<1>10. CASE Commit
  BY <1>1, <1>2, <1>10 DEF Commit, WalkGoesOn, SoundInv
<1>11. CASE RemoveCheckpoints \/ LeaveCheckpoints \/ Crash
  BY <1>11 DEF RemoveCheckpoints, LeaveCheckpoints, Crash, WalkEnds, WalkDies
<1>12. CASE UNCHANGED <<cur, pc, file, after>>
  <2>1. pc = "file" => cur[file] \in Entries /\ file \in Names
    BY <1>2, MapHas DEF SoundInv, MapTypes, FileFits, WalkTypes
  <2>2. pc = "file" => Partial(version'[file], cur[file])
    BY <2>1, VersionsGrow, StaysSound DEF SoundInv
  <2>. QED
    BY <1>1, <1>2, <1>12, <2>2 DEF SoundInv
<1>. QED
  BY <1>3, <1>4, <1>5, <1>6, <1>7, <1>8, <1>9, <1>10, <1>11, <1>12
  DEF Next, Live, Backup, Edit, Create, Delete, SkipFile, WalkSkips, Forget,
      live, walk, counts, vars

(* Without checkpoints inside files and errors in files that were there    *)
(* before, a file that looks unchanged to the next backup has all its      *)
(* contents in the latest generation, whatever crashed, was written or was *)
(* forgotten meanwhile.                                                    *)
THEOREM Skipping == ASSUME ~MidFile, ~OldErrors PROVE Spec => []SkippedIsSame
<1>1. Init => SoundInv
  <2>1. Init => WalkTypes /\ MapTypes
    BY InitTypes
  <2>2. Init => GensSound /\ CurSound
    BY DEF Init, GensSound, CurSound
  <2>. QED
    BY <2>1, <2>2 DEF SoundInv
<1>2. SoundInv /\ [Next]_vars => SoundInv'
  BY TypeStep, GensSoundStep, CurSoundStep DEF SoundInv
<1>3. SoundInv => SkippedIsSame
  <2>. SUFFICES ASSUME SoundInv, gens # <<>>,
                       NEW p \in DOMAIN gens[Len(gens)],
                       Unchanged(gens[Len(gens)], p, version[p])
                PROVE  gens[Len(gens)][p].chunks = Content(version[p])
    BY DEF SkippedIsSame
  <2>1. Len(gens) \in DOMAIN gens
    BY DEF SoundInv, MapTypes
  <2>. QED
    BY <2>1 DEF SoundInv, GensSound, Sound, Unchanged
<1>. QED
  BY <1>1, <1>2, <1>3, PTL DEF Spec

-----------------------------------------------------------------------------
(* The tree of names.  Whoever goes up from a name comes to the root, so   *)
(* what is wrong somewhere is wrong at some name and not at its parent.    *)

LEMMA AboveParent ==
  ASSUME NEW p \in Names, p # Root
  PROVE  Parent[p] \in Names /\ Above[p] = {p} \cup Above[Parent[p]]
  BY TreeAssumption

LEMMA AboveRoot == Root \in Names /\ Above[Root] = {Root}
  BY TreeAssumption

LEMMA Topmost ==
  ASSUME NEW S \in SUBSET Names, S # {}
  PROVE  \E p \in S : p = Root \/ Parent[p] \notin S
  BY TreeAssumption

LEMMA AboveTransitive ==
  ASSUME NEW p \in Names, NEW q \in Above[p]
  PROVE  q \in Names /\ Above[q] \subseteq Above[p]
<1> DEFINE S == {x \in Names : \E y \in Above[x] : ~(Above[y] \subseteq Above[x])}
<1>1. ASSUME S # {} PROVE FALSE
  <2>1. PICK x \in S : x = Root \/ Parent[x] \notin S
    BY <1>1, Topmost
  <2>2. PICK y \in Above[x] : ~(Above[y] \subseteq Above[x])
    BY <2>1
  <2>3. x # Root
    BY <2>2, AboveRoot
  <2>4. y # x /\ y \in Above[Parent[x]]
    BY <2>1, <2>2, <2>3, AboveParent
  <2>5. Above[y] \subseteq Above[Parent[x]]
    BY <2>1, <2>3, <2>4, AboveParent
  <2>. QED
    BY <2>1, <2>2, <2>3, <2>5, AboveParent
<1>. QED
  BY <1>1, AboveIs

(* Nothing is above its own parent.                                        *)
LEMMA ParentIsHigher ==
  ASSUME NEW p \in Names, p # Root
  PROVE  p \notin Above[Parent[p]]
<1> DEFINE S == {x \in Names : x # Root /\ x \in Above[Parent[x]]}
<1>1. ASSUME S # {} PROVE FALSE
  <2>1. PICK x \in S : x = Root \/ Parent[x] \notin S
    BY <1>1, Topmost
  <2> DEFINE y == Parent[x]
  <2>2. x \in Names /\ x # Root /\ x \in Above[y] /\ y \in Names /\ y \notin S
    BY <2>1, AboveParent
  <2>3. y # Root /\ y # x
    BY <2>2, AboveRoot
  <2>4. y \notin Above[Parent[y]] /\ Above[y] = {y} \cup Above[Parent[y]] /\ Parent[y] \in Names
    BY <2>2, <2>3, AboveParent
  <2>5. x \in Above[Parent[y]] /\ y \in Above[x]
    BY <2>2, <2>3, <2>4, AboveParent, AboveIs
  <2>. QED
    BY <2>4, <2>5, AboveTransitive
<1>. QED
  BY <1>1

LEMMA AboveAntisymmetric ==
  ASSUME NEW p \in Names, NEW q \in Above[p], p \in Above[q]
  PROVE  p = q
<1>1. ASSUME p # q PROVE FALSE
  <2>1. p # Root
    BY <1>1, AboveRoot
  <2>2. q \in Above[Parent[p]] /\ Parent[p] \in Names
    BY <1>1, <2>1, AboveParent
  <2>. QED
    BY <2>1, <2>2, AboveTransitive, ParentIsHigher
<1>. QED
  BY <1>1

(* The names above a name form a chain.                                    *)
LEMMA AboveChain ==
  ASSUME NEW p \in Names, NEW q \in Above[p], NEW r \in Above[p]
  PROVE  q \in Above[r] \/ r \in Above[q]
<1> DEFINE S == {x \in Names : \E y \in Above[x], z \in Above[x] : y \notin Above[z] /\ z \notin Above[y]}
<1>1. ASSUME S # {} PROVE FALSE
  <2>1. PICK x \in S : x = Root \/ Parent[x] \notin S
    BY <1>1, Topmost
  <2>2. PICK y \in Above[x], z \in Above[x] : y \notin Above[z] /\ z \notin Above[y]
    BY <2>1
  <2>3. x # Root /\ x # y /\ x # z
    BY <2>2, AboveRoot
  <2>. QED
    BY <2>1, <2>2, <2>3, AboveParent
<1>. QED
  BY <1>1

-----------------------------------------------------------------------------
(* The live data                                                           *)

(* What exists is in a directory.                                          *)
LiveTree ==
  /\ kind[Root] = "dir"
  /\ \A p \in Names \ {Root} : kind[p] # "none" => kind[Parent[p]] = "dir"

(* What the walk under r comes across.                                     *)
Found(r) == {p \in Under(r) : kind[p] # "none"}

LEMMA LiveAbove ==
  ASSUME LiveTree, NEW p \in Names, kind[p] # "none", NEW q \in Above[p]
  PROVE  q \in Names /\ kind[q] # "none" /\ (q # p => kind[q] = "dir")
<1> DEFINE S == {x \in Names : kind[x] # "none" /\ \E y \in Above[x] : y # x /\ kind[y] # "dir"}
<1>1. ASSUME S # {} PROVE FALSE
  <2>1. PICK x \in S : x = Root \/ Parent[x] \notin S
    BY <1>1, Topmost
  <2>2. PICK y \in Above[x] : y # x /\ kind[y] # "dir"
    BY <2>1
  <2>3. x # Root
    BY <2>2, AboveRoot
  <2>4. kind[Parent[x]] = "dir" /\ y \in Above[Parent[x]] /\ Parent[x] \in Names
    BY <2>1, <2>2, <2>3, AboveParent DEF LiveTree
  <2>. QED
    BY <2>1, <2>2, <2>3, <2>4
<1>. QED
  BY <1>1, AboveTransitive

(* If a name under r is missing, one above it is missing from what is      *)
(* there.                                                                  *)
LEMMA TopmostMissing ==
  ASSUME NEW r \in Names, kind[r] # "none", NEW p \in Under(r), kind[p] = "none"
  PROVE  \E q \in Above[p] :
           /\ q \in Names \ {Root} /\ kind[q] = "none"
           /\ Parent[q] \in Found(r) /\ Parent[q] \in Above[p] /\ Parent[q] # p
<1> DEFINE S == {x \in Above[p] : r \in Above[x] /\ kind[x] = "none"}
<1>1. p \in Names /\ p \in S /\ S \subseteq Names
  BY AboveIs DEF Under
<1>2. PICK q \in S : q = Root \/ Parent[q] \notin S
  BY <1>1, Topmost
<1>3. q # r /\ q # Root
  BY <1>2, AboveRoot
<1>4. q \in Names /\ Parent[q] \in Names /\ r \in Above[Parent[q]] /\ Parent[q] \in Above[q]
  BY <1>1, <1>2, <1>3, AboveParent, AboveIs
<1>5. Parent[q] \in Above[p]
  BY <1>1, <1>4, AboveTransitive
<1>6. kind[Parent[q]] # "none"
  BY <1>2, <1>3, <1>4, <1>5
<1>. QED
  BY <1>2, <1>3, <1>4, <1>5, <1>6 DEF Found, Under

-----------------------------------------------------------------------------
(* The walk.  What it is past is in the map f as it is in the live data,   *)
(* and what is missing from a directory it is past is not.                 *)
DoneIn(f, p) ==
  /\ p \in DOMAIN f
  /\ kind[p] = "dir" => f[p] = Directory /\ Gone(p) \cap DOMAIN f = {}
  /\ kind[p] = "file" =>
       /\ f[p].kind = "file"
       /\ version[p] = since[p] => f[p] = File(version[p], Content(version[p]))

(* A directory is still to be done while something in it is.               *)
TodoFits ==
  /\ kind[root] = "dir"
  /\ todo \subseteq Found(root)
  /\ \A p \in todo : \A q \in Above[p] : q \in Under(root) => q \in todo

WalkRight ==
  /\ TodoFits
  /\ \A p \in Names : since[p] <= version[p]
  /\ ~errors => \A p \in Found(root) \ todo : DoneIn(cur, p)

FileRight ==
  pc = "file" =>
    /\ file \in todo /\ kind[file] = "file"
    /\ cur[file].kind = "file" /\ since[file] <= cur[file].version

(* At the end the directories above the backup root are there as well.     *)
EndRight ==
  (pc = "commit" /\ after = "cleanup") \/ pc = "cleanup" =>
    todo = {} /\ \A p \in Above[root] : p \in DOMAIN cur /\ cur[p] = Directory

LastRight ==
  pc = "cleanup" => gens # <<>> /\ gens[Len(gens)] = cur

SnapInv ==
  /\ SoundInv /\ LiveTree /\ (pc # "idle" => WalkRight)
  /\ FileRight /\ EndRight /\ LastRight

-----------------------------------------------------------------------------
(* Steps                                                                   *)

LEMMA LiveStep ==
  ASSUME WalkTypes, LiveTree, [Next]_vars
  PROVE  LiveTree'
<1> USE DEF LiveTree
<1>1. ASSUME NEW p \in Names, NEW k \in Kinds[p], Create(p, k) PROVE LiveTree'
  <2>1. kind' = [kind EXCEPT ![p] = k] /\ kind[p] = "none" /\ kind[Parent[p]] = "dir"
    BY <1>1 DEF Create
  <2>2. kind \in [Names -> {"none", "dir", "file"}] /\ p # Root
    BY <2>1 DEF WalkTypes
  <2>3. ASSUME NEW q \in Names \ {Root}, kind'[q] # "none" PROVE kind'[Parent[q]] = "dir"
    <3>1. Parent[q] \in Names /\ kind[Parent[q]] = "dir"
      BY <2>1, <2>2, <2>3, AboveParent
    <3>. QED
      BY <2>1, <2>2, <3>1
  <2>. QED
    BY <2>1, <2>2, <2>3, AboveRoot
<1>2. ASSUME NEW p \in Names, Delete(p) PROVE LiveTree'
  <2>1. /\ kind' = [kind EXCEPT ![p] = "none"] /\ p # Root
        /\ \A q \in Names \ {Root} : Parent[q] = p => kind[q] = "none"
    BY <1>2 DEF Delete
  <2>2. kind \in [Names -> {"none", "dir", "file"}]
    BY DEF WalkTypes
  <2>. QED
    BY <2>1, <2>2, AboveRoot, AboveParent
<1>3. CASE kind' = kind
  BY <1>3
<1>. QED
  BY <1>1, <1>2, <1>3
  DEF Next, Live, Backup, Edit, StartBackup, BackupDirectory, SkipFile,
      StartFile, ReadChunk, EndFile, ReadError, BackupParents, Commit, RemoveCheckpoints,
      LeaveCheckpoints, Crash, Forget, WalkStarts, WalkDir, WalkSkips, WalkOpens,
      WalkReads, WalkCloses, WalkFails, WalkPauses, WalkGoesOn, WalkEnds, WalkDies,
      live, vars

(* A name is done after all that is in it.                                 *)
LEMMA TodoShrinks ==
  ASSUME TodoFits, kind' = kind, root' = root,
         NEW p, todo' = todo \/ (todo' = todo \ {p} /\ \A q \in todo : p \in Above[q] => q = p)
  PROVE  TodoFits'
  BY DEF TodoFits, Found, Under

(* What is done stays done if it is kept in the map, and if nothing comes  *)
(* into the map that does not exist.                                       *)
LEMMA DoneStays ==
  ASSUME WalkTypes, WalkTypes', [Next]_vars, kind' = kind, since' = since,
         NEW p \in Names, since[p] <= version[p], DoneIn(cur, p),
         p \in DOMAIN cur', cur'[p] = cur[p],
         \A q \in DOMAIN cur' \cap Names : q \in DOMAIN cur \/ kind[q] # "none"
  PROVE  DoneIn(cur, p)'
<1>1. version[p] \in Nat /\ version'[p] \in Nat /\ version[p] <= version'[p] /\ since[p] \in Nat
  BY VersionsGrow, BoundsAssumption DEF WalkTypes
<1>2. version'[p] = since'[p] => version[p] = since[p] /\ version'[p] = version[p]
  BY <1>1
<1>3. kind'[p] = "dir" => Gone(p)' \cap DOMAIN cur' = {}
  <2>1. Gone(p)' = Gone(p)
    BY DEF Gone
  <2>. QED
    BY <2>1 DEF DoneIn, Gone
<1>. QED
  BY <1>2, <1>3 DEF DoneIn

(* An entry for a file.                                                    *)
LEMMA EntryIs ==
  ASSUME NEW e \in Entries, e.kind = "file"
  PROVE  e = File(e.version, e.chunks)
  BY DEF Entries, File

(* A step of a backup that is going on: the walk stays right if what was   *)
(* done is kept and what is done now is right.                             *)
LEMMA WalkGoesRight ==
  ASSUME WalkTypes, WalkTypes', LiveTree, WalkRight, [Next]_vars,
         kind' = kind, since' = since, root' = root, errors' = errors,
         ~errors => \A q \in DOMAIN cur' \cap Names : q \in DOMAIN cur \/ kind[q] # "none",
         ~errors => \A q \in Found(root) \ todo : q \in DOMAIN cur' /\ cur'[q] = cur[q],
         ~errors => \A q \in (Found(root) \ todo') \cap todo : DoneIn(cur, q)',
         TodoFits'
  PROVE  WalkRight'
<1>1. \A q \in Names : since'[q] <= version'[q]
  BY VersionsGrow, BoundsAssumption DEF WalkRight, WalkTypes
<1>2. ASSUME ~errors, NEW q \in Found(root) \ todo' PROVE DoneIn(cur, q)'
  <2>1. CASE q \in todo
    BY <1>2, <2>1
  <2>2. CASE q \notin todo
    <3>1. q \in Names /\ DoneIn(cur, q) /\ since[q] <= version[q]
      BY <1>2, <2>2 DEF WalkRight, Found, Under
    <3>. QED
      BY <1>2, <2>2, <3>1, DoneStays
  <2>. QED
    BY <2>1, <2>2
<1>3. Found(root)' = Found(root)
  BY DEF Found, Under
<1>. QED
  BY <1>1, <1>2, <1>3 DEF WalkRight

(* The parts of the invariant that a step of the backup must keep.         *)
Walks == (pc # "idle" => WalkRight) /\ FileRight /\ EndRight

(* A backup starts with everything to be done.                             *)
LEMMA StartIsRight ==
  ASSUME SnapInv, WalkTypes', NEW r \in BackupRoots, StartBackup(r)
  PROVE  Walks'
<1>1. /\ r \in Names /\ kind[r] = "dir" /\ kind' = kind /\ version' = version
      /\ root' = r /\ todo' = Found(r) /\ since' = version /\ pc' = "walk"
  BY RootsAssumption DEF StartBackup, WalkStarts, live, Found
<1>2. \A p \in Found(r) : \A q \in Above[p] : q \in Under(r) => q \in Found(r)
  BY LiveAbove DEF SnapInv, Found, Under
<1>3. Found(r)' = Found(r) /\ Under(r)' = Under(r)
  BY <1>1 DEF Found, Under
<1>4. TodoFits'
  BY <1>1, <1>2, <1>3 DEF TodoFits, Found, Under
<1>5. \A p \in Names : since'[p] <= version'[p]
  BY <1>1, BoundsAssumption DEF WalkTypes
<1>6. Found(root)' \ todo' = {}
  BY <1>1 DEF Found, Under
<1>. QED
  BY <1>1, <1>4, <1>5, <1>6 DEF Walks, WalkRight, FileRight, EndRight

(* A directory: nothing that is done is in a name that has gone.           *)
LEMMA DirectoryIsRight ==
  ASSUME SnapInv, WalkTypes', [Next]_vars, NEW p \in Names, BackupDirectory(p)
  PROVE  Walks'
<1>1. /\ pc = "walk" /\ NextOf(p) /\ kind[p] = "dir" /\ todo' = todo \ {p} /\ pc' = pc
      /\ cur' = With(Without(cur, Gone(p)), p, Directory)
      /\ kind' = kind /\ since' = since /\ root' = root /\ errors' = errors
  BY DEF BackupDirectory, WalkDir, live, walk
<1>2. WalkTypes /\ LiveTree /\ WalkRight /\ TodoFits
  BY <1>1 DEF SnapInv, SoundInv, WalkRight
<1>3. TodoFits'
  BY <1>1, <1>2, TodoShrinks DEF NextOf
<1>4. \A q \in DOMAIN cur' \cap Names : q \in DOMAIN cur \/ kind[q] # "none"
  BY <1>1 DEF With, Without, Only
<1>5. ASSUME ~errors, NEW q \in Found(root) \ todo
      PROVE  q \in DOMAIN cur' /\ cur'[q] = cur[q]
  <2>1. q \in Names /\ kind[q] # "none" /\ q \in DOMAIN cur /\ q # p
    BY <1>1, <1>2, <1>5 DEF WalkRight, Found, Under, DoneIn, NextOf
  <2>2. Above[q] \cap Gone(p) = {}
    BY <1>2, <2>1, LiveAbove DEF Gone
  <2>. QED
    BY <1>1, <2>1, <2>2 DEF With, Without, Only
<1>6. DoneIn(cur, p)'
  <2>1. p \in DOMAIN cur' /\ cur'[p] = Directory
    BY <1>1 DEF With
  <2>2. \A q \in Gone(p) : q \in Names /\ q # p /\ q \in Above[q]
    BY <1>1, AboveIs DEF Gone
  <2>3. Gone(p) \cap DOMAIN cur' = {}
    BY <1>1, <2>2 DEF With, Without, Only
  <2>4. Gone(p)' = Gone(p)
    BY <1>1 DEF Gone
  <2>. QED
    BY <1>1, <2>1, <2>3, <2>4 DEF DoneIn
<1>7. \A q \in (Found(root) \ todo') \cap todo : q = p
  BY <1>1
<1>8. WalkRight'
  BY <1>1, <1>2, <1>3, <1>4, <1>5, <1>6, <1>7, WalkGoesRight
<1>. QED
  BY <1>1, <1>8 DEF Walks, FileRight, EndRight

(* A file that looks unchanged has its contents in the map already.        *)
LEMMA SkipIsRight ==
  ASSUME SnapInv, WalkTypes', [Next]_vars, NEW p \in Names, SkipFile(p)
  PROVE  Walks'
<1>1. /\ pc = "walk" /\ p \in todo /\ kind[p] = "file" /\ todo' = todo \ {p} /\ pc' = pc
      /\ \A q \in todo : p \in Above[q] => q = p
      /\ cur' = cur /\ kind' = kind /\ since' = since /\ root' = root /\ errors' = errors
      /\ version' = version
  BY DEF SkipFile, WalkSkips, live, walk, NextOf
<1>2. WalkTypes /\ LiveTree /\ WalkRight /\ TodoFits
  BY <1>1 DEF SnapInv, SoundInv, WalkRight
<1>3. TodoFits'
  BY <1>1, <1>2, TodoShrinks
<1>4. PICK v \in Listed(p) : Unchanged(cur, p, v)
  BY DEF SkipFile
<1>5. p \in DOMAIN cur /\ cur[p] \in Entries /\ cur[p].kind = "file" /\ cur[p].version = v
  BY <1>4, MapHas DEF Unchanged, SnapInv, SoundInv, MapTypes
<1>6. Sound(version[p], cur[p])
  BY <1>1, <1>5 DEF SnapInv, SoundInv, CurSound
<1>7. version[p] = since[p] => v = version[p]
  BY <1>2, BoundsAssumption DEF Listed, WalkTypes
<1>8. DoneIn(cur, p)'
  BY <1>1, <1>5, <1>6, <1>7, EntryIs DEF DoneIn, Sound
<1>9. WalkRight'
  BY <1>1, <1>2, <1>3, <1>8, WalkGoesRight DEF WalkRight, DoneIn
<1>. QED
  BY <1>1, <1>9 DEF Walks, FileRight, EndRight

(* A file that is opened is still to be done.                              *)
LEMMA OpenIsRight ==
  ASSUME SnapInv, WalkTypes', [Next]_vars, NEW p \in Names, StartFile(p)
  PROVE  Walks'
<1>1. /\ pc = "walk" /\ p \in todo /\ kind[p] = "file" /\ todo' = todo /\ pc' = "file"
      /\ file' = p
      /\ kind' = kind /\ since' = since /\ root' = root /\ errors' = errors
  BY DEF StartFile, WalkOpens, live, walk, NextOf
<1>2. WalkTypes /\ LiveTree /\ WalkRight /\ TodoFits
  BY <1>1 DEF SnapInv, SoundInv, WalkRight
<1>3. TodoFits'
  BY <1>1, <1>2, TodoShrinks
<1>4. PICK v \in Listed(p) : cur' = With(cur, p, File(v, <<>>))
  BY DEF StartFile
<1>5. since[p] <= v
  BY <1>2, BoundsAssumption DEF Listed, WalkTypes
<1>6. cur'[p].kind = "file" /\ cur'[p].version = v
  BY <1>4 DEF With, File
<1>7. \A q \in DOMAIN cur' \cap Names : q \in DOMAIN cur \/ kind[q] # "none"
  BY <1>1, <1>4 DEF With
<1>8. ~errors => \A q \in Found(root) \ todo : q \in DOMAIN cur' /\ cur'[q] = cur[q]
  BY <1>1, <1>2, <1>4 DEF With, WalkRight, DoneIn
<1>9. WalkRight'
  BY <1>1, <1>2, <1>3, <1>7, <1>8, WalkGoesRight
<1>. QED
  BY <1>1, <1>5, <1>6, <1>9 DEF Walks, FileRight, EndRight

LEMMA ReadIsRight ==
  ASSUME SnapInv, WalkTypes', [Next]_vars, ReadChunk
  PROVE  Walks'
<1>1. /\ pc = "file" /\ todo' = todo /\ pc' = "file" /\ file' = file
      /\ kind' = kind /\ since' = since /\ root' = root /\ errors' = errors
  BY DEF ReadChunk, WalkReads, live, walk
<1>2. WalkTypes /\ LiveTree /\ WalkRight /\ TodoFits
  BY <1>1 DEF SnapInv, SoundInv, WalkRight
<1>3. TodoFits'
  BY <1>1, <1>2, TodoShrinks
<1>4. /\ file \in todo /\ kind[file] = "file" /\ file \in DOMAIN cur
      /\ cur[file].kind = "file" /\ since[file] <= cur[file].version
  BY <1>1 DEF SnapInv, SoundInv, MapTypes, FileFits, FileRight
<1>5. PICK c : cur' = With(cur, file, File(cur[file].version, c))
  BY DEF ReadChunk
<1>6. cur'[file].kind = "file" /\ cur'[file].version = cur[file].version
  BY <1>5 DEF With, File
<1>7. \A q \in DOMAIN cur' \cap Names : q \in DOMAIN cur \/ kind[q] # "none"
  BY <1>4, <1>5 DEF With
<1>8. ~errors => \A q \in Found(root) \ todo : q \in DOMAIN cur' /\ cur'[q] = cur[q]
  BY <1>2, <1>4, <1>5 DEF With, WalkRight, DoneIn
<1>9. WalkRight'
  BY <1>1, <1>2, <1>3, <1>7, <1>8, WalkGoesRight
<1>. QED
  BY <1>1, <1>4, <1>6, <1>9 DEF Walks, FileRight, EndRight

(* There is nothing in a file.                                             *)
LEMMA FileIsLowest ==
  ASSUME LiveTree, TodoFits, file \in todo, kind[file] = "file"
  PROVE  \A q \in todo : file \in Above[q] => q = file
  BY LiveAbove DEF TodoFits, Found, Under

(* A file that was read to its end is there, with its contents if nobody   *)
(* wrote to it.                                                            *)
LEMMA CloseIsRight ==
  ASSUME SnapInv, WalkTypes', [Next]_vars, EndFile
  PROVE  Walks'
<1> DEFINE e == cur[file]
<1>1. /\ pc = "file" /\ todo' = todo \ {file} /\ pc' = "walk" /\ file' = file
      /\ kind' = kind /\ since' = since /\ root' = root /\ errors' = errors
      /\ version' = version
      /\ cur' = With(cur, file, File(e.version, e.chunks)) /\ Len(e.chunks) = NumChunks
  BY DEF EndFile, WalkCloses, MetadataThen, live, walk
<1>2. WalkTypes /\ LiveTree /\ WalkRight /\ TodoFits
  BY <1>1 DEF SnapInv, SoundInv, WalkRight
<1>3. /\ file \in todo /\ kind[file] = "file" /\ file \in DOMAIN cur /\ file \in Names
      /\ e.kind = "file" /\ since[file] <= e.version
  BY <1>1 DEF SnapInv, SoundInv, WalkTypes, MapTypes, FileFits, FileRight
<1>4. TodoFits'
  BY <1>1, <1>2, <1>3, TodoShrinks, FileIsLowest
<1>5. e \in Entries /\ Partial(version[file], e)
  BY <1>1, <1>3, MapHas DEF SnapInv, SoundInv, MapTypes, CurSound
<1>6. Sound(version[file], e)
  BY <1>1, <1>2, <1>3, <1>5, CompleteIsSound, BoundsAssumption DEF WalkTypes
<1>7. cur'[file] = e /\ file \in DOMAIN cur'
  BY <1>1, <1>3, <1>5, EntryIs DEF With
<1>8. version[file] = since[file] => e.version = version[file]
  <2>1. since[file] \in Nat /\ e.version \in Nat /\ e.version <= version[file] /\ version[file] \in Nat
    BY <1>2, <1>3, <1>5, BoundsAssumption DEF WalkTypes, Entries, Partial
  <2>. QED
    BY <1>3, <2>1
<1>9. DoneIn(cur, file)'
  BY <1>1, <1>3, <1>5, <1>6, <1>7, <1>8, EntryIs DEF DoneIn, Sound
<1>10. \A q \in DOMAIN cur' \cap Names : q \in DOMAIN cur \/ kind[q] # "none"
  BY <1>1, <1>3 DEF With
<1>11. ~errors => \A q \in Found(root) \ todo : q \in DOMAIN cur' /\ cur'[q] = cur[q]
  BY <1>1, <1>2, <1>3 DEF With, WalkRight, DoneIn
<1>12. WalkRight'
  BY <1>1, <1>2, <1>4, <1>9, <1>10, <1>11, WalkGoesRight
<1>. QED
  BY <1>1, <1>12 DEF Walks, FileRight, EndRight

(* After an error nothing is claimed.                                      *)
LEMMA ErrorIsRight ==
  ASSUME SnapInv, WalkTypes', [Next]_vars, ReadError
  PROVE  Walks'
<1>1. /\ pc = "file" /\ todo' = todo \ {file} /\ pc' = "walk" /\ errors' = TRUE
      /\ kind' = kind /\ since' = since /\ root' = root /\ version' = version
  BY DEF ReadError, WalkFails, live, walk
<1>2. LiveTree /\ WalkRight /\ TodoFits
  BY <1>1 DEF SnapInv, WalkRight
<1>3. TodoFits'
  BY <1>1, <1>2, TodoShrinks, FileIsLowest DEF SnapInv, FileRight
<1>. QED
  BY <1>1, <1>2, <1>3 DEF Walks, WalkRight, FileRight, EndRight

(* The directories above the backup root exist, and of those under it that *)
(* are done at most the root itself is among them.                         *)
LEMMA PauseIsRight ==
  ASSUME ~MidFile, SnapInv, WalkTypes', [Next]_vars, NEW next, BackupParents(next)
  PROVE  Walks'
<1>1. /\ pc = "walk" /\ todo' = todo /\ pc' = "commit" /\ after' = next
      /\ next = "cleanup" => todo = {}
      /\ kind' = kind /\ since' = since /\ root' = root /\ errors' = errors
      /\ cur' = [p \in DOMAIN cur \cup Above[root] |->
                   IF p \in Above[root] THEN Directory ELSE cur[p]]
  BY DEF BackupParents, WalkPauses, live, walk
<1>2. WalkTypes /\ LiveTree /\ WalkRight /\ TodoFits /\ root \in Names
  BY <1>1 DEF SnapInv, SoundInv, WalkRight, WalkTypes
<1>3. TodoFits'
  BY <1>1, <1>2, TodoShrinks
<1>4. \A q \in DOMAIN cur' \cap Names : q \in DOMAIN cur \/ kind[q] # "none"
  BY <1>1, <1>2, LiveAbove DEF TodoFits
<1>5. ASSUME ~errors, NEW q \in Found(root) \ todo
      PROVE  q \in DOMAIN cur' /\ cur'[q] = cur[q]
  <2>1. DoneIn(cur, q) /\ q \in Names /\ root \in Above[q]
    BY <1>2, <1>5 DEF WalkRight, Found, Under
  <2>2. q \in Above[root] => q = root
    BY <1>2, <2>1, AboveAntisymmetric
  <2>3. kind[root] = "dir"
    BY <1>2 DEF TodoFits
  <2>. QED
    BY <1>1, <2>1, <2>2, <2>3 DEF DoneIn
<1>6. WalkRight'
  BY <1>1, <1>2, <1>3, <1>4, <1>5, WalkGoesRight
<1>7. EndRight'
  BY <1>1 DEF EndRight
<1>. QED
  BY <1>1, <1>6, <1>7 DEF Walks, FileRight

(* Steps that leave the map and the walk alone.                            *)
LEMMA RestIsRight ==
  ASSUME SnapInv, WalkTypes', [Next]_vars,
         UNCHANGED <<kind, cur, todo, file, root, since, errors, after>>,
         pc' = pc \/ (pc = "commit" /\ pc' = after)
  PROVE  Walks'
<1>1. CASE pc = "idle"
  BY <1>1 DEF Walks, FileRight, EndRight
<1>2. CASE pc # "idle"
  <2>1. WalkTypes /\ LiveTree /\ WalkRight /\ TodoFits
    BY <1>2 DEF SnapInv, SoundInv, WalkRight
  <2>2. TodoFits'
    BY <2>1, TodoShrinks
  <2>3. WalkRight'
    BY <2>1, <2>2, WalkGoesRight DEF WalkRight, DoneIn
  <2>4. FileRight'
    BY DEF SnapInv, SoundInv, CurSound, FileRight
  <2>5. EndRight'
    BY DEF SnapInv, EndRight
  <2>. QED
    BY <2>3, <2>4, <2>5 DEF Walks
<1>. QED
  BY <1>1, <1>2

LEMMA WalksStep ==
  ASSUME ~MidFile, SnapInv, WalkTypes', [Next]_vars
  PROVE  Walks'
<1>1. CASE Commit
  BY <1>1, RestIsRight DEF Commit, WalkGoesOn, live, walk
<1>2. CASE UNCHANGED vars
  BY <1>2, RestIsRight DEF vars, live, walk
<1>3. ASSUME NEW p \in Names, Edit(p) PROVE Walks'
  BY <1>3, RestIsRight DEF Edit, walk
<1>4. CASE pc' = "idle"
  BY <1>4 DEF Walks, FileRight, EndRight
<1>. QED
  BY <1>1, <1>2, <1>3, <1>4, StartIsRight, DirectoryIsRight, SkipIsRight, OpenIsRight,
     ReadIsRight, CloseIsRight, ErrorIsRight, PauseIsRight
  DEF Next, Live, Backup, Create, Delete, RemoveCheckpoints, LeaveCheckpoints, Crash,
      WalkEnds, WalkDies, Forget

(* The last generation is what the backup has made.                        *)
LEMMA LastStep ==
  ASSUME SnapInv, WalkTypes', [Next]_vars
  PROVE  LastRight'
<1> USE DEF LastRight
<1>1. CASE Commit
  <2>1. gens' = Append(gens, cur) /\ cur' = cur /\ gens \in Seq(Maps)
    BY <1>1 DEF Commit, SnapInv, SoundInv, MapTypes
  <2>. QED
    BY <2>1
<1>2. CASE pc' # "cleanup"
  BY <1>2
<1>3. CASE UNCHANGED <<gens, cur, pc>>
  BY <1>3 DEF SnapInv
<1>. QED
  BY <1>1, <1>2, <1>3
  DEF Next, Live, Backup, Edit, Create, Delete, StartBackup, BackupDirectory, SkipFile,
      StartFile, ReadChunk, EndFile, ReadError, BackupParents, RemoveCheckpoints,
      LeaveCheckpoints, Crash, Forget, WalkStarts, WalkDir, WalkSkips, WalkOpens,
      WalkReads, WalkCloses, WalkFails, WalkPauses, WalkEnds, WalkDies, vars

-----------------------------------------------------------------------------
(* At the end of the walk the map is a snapshot.                           *)
LEMMA EndIsSnapshot ==
  ASSUME SnapInv, pc = "cleanup", ~errors
  PROVE  Snapshot(cur)
<1>1. /\ LiveTree /\ root \in Names /\ kind[root] = "dir" /\ todo = {}
      /\ \A p \in Found(root) : DoneIn(cur, p)
      /\ \A p \in Above[root] : p \in DOMAIN cur /\ cur[p] = Directory
  BY DEF SnapInv, SoundInv, WalkTypes, WalkRight, TodoFits, EndRight
<1>2. Directory.kind = "dir"
  BY DEF Directory
<1>3. ASSUME NEW p \in Under(root), kind[p] # "none"
      PROVE  p \in Walked(cur)
  <2>1. p \in Names /\ root \in Above[p] /\ p \in DOMAIN cur
    BY <1>1, <1>3 DEF Under, Found, DoneIn
  <2>2. ASSUME NEW q \in Above[p]
        PROVE  q \in DOMAIN cur /\ (q # p => cur[q].kind = "dir")
    <3>1. CASE q \in Above[root]
      BY <1>1, <1>2, <3>1
    <3>2. CASE root \in Above[q]
      <4>1. q \in Names /\ kind[q] # "none" /\ (q # p => kind[q] = "dir")
        BY <1>1, <1>3, <2>1, LiveAbove
      <4>. QED
        BY <1>1, <1>2, <3>2, <4>1 DEF Found, Under, DoneIn
    <3>. QED
      BY <2>1, <3>1, <3>2, AboveChain
  <2>. QED
    BY <2>1, <2>2 DEF Walked
<1>4. ASSUME NEW p \in Under(root), kind[p] = "none", p \in Walked(cur)
      PROVE  FALSE
  <2>1. PICK q \in Above[p] :
          /\ q \in Names \ {Root} /\ kind[q] = "none"
          /\ Parent[q] \in Found(root) /\ Parent[q] \in Above[p] /\ Parent[q] # p
    BY <1>1, <1>4, TopmostMissing
  <2>2. q \in DOMAIN cur /\ cur[Parent[q]].kind = "dir"
    BY <1>4, <2>1 DEF Walked
  <2>3. DoneIn(cur, Parent[q]) /\ kind[Parent[q]] # "none" /\ Parent[q] \in Names
    BY <1>1, <2>1 DEF Found, Under
  <2>4. kind[Parent[q]] = "dir"
    BY <2>2, <2>3 DEF DoneIn, SnapInv, SoundInv, WalkTypes
  <2>. QED
    BY <2>1, <2>2, <2>3, <2>4 DEF DoneIn, Gone
<1>5. ASSUME NEW p \in Under(root), kind[p] # "none"
      PROVE  DoneIn(cur, p)
  BY <1>1, <1>5 DEF Found
<1>. QED
  BY <1>2, <1>3, <1>4, <1>5 DEF Snapshot, DoneIn

(* Without checkpoints inside files and errors in files that were there    *)
(* before, a backup that ends without an error has committed all that is   *)
(* under its root and nothing else, whether it started from a generation   *)
(* that was complete or from the checkpoint of a backup that died.         *)
THEOREM Completeness ==
  ASSUME ~MidFile, ~OldErrors PROVE Spec => []FinishedIsComplete
<1>1. Init => SnapInv
  <2>1. Init => SoundInv
    <3>1. Init => WalkTypes /\ MapTypes
      BY InitTypes
    <3>2. Init => GensSound /\ CurSound
      BY DEF Init, GensSound, CurSound
    <3>. QED
      BY <3>1, <3>2 DEF SoundInv
  <2>2. Init => LiveTree
    BY AboveRoot DEF Init, LiveTree
  <2>3. Init => (pc # "idle" => WalkRight) /\ FileRight /\ EndRight /\ LastRight
    BY DEF Init, FileRight, EndRight, LastRight
  <2>. QED
    BY <2>1, <2>2, <2>3 DEF SnapInv
<1>2. SnapInv /\ [Next]_vars => SnapInv'
  <2>. SUFFICES ASSUME SnapInv, [Next]_vars PROVE SnapInv'
    OBVIOUS
  <2>1. SoundInv'
    BY TypeStep, GensSoundStep, CurSoundStep DEF SnapInv, SoundInv
  <2>2. LiveTree'
    BY LiveStep DEF SnapInv, SoundInv
  <2>3. Walks' /\ LastRight'
    BY <2>1, WalksStep, LastStep DEF SoundInv
  <2>. QED
    BY <2>1, <2>2, <2>3 DEF SnapInv, Walks
<1>3. SnapInv => FinishedIsComplete
  BY EndIsSnapshot DEF FinishedIsComplete, SnapInv, LastRight
<1>. QED
  BY <1>1, <1>2, <1>3, PTL DEF Spec
===============================================================================
