--------------------------- MODULE AssetUpload_proofs ---------------------------
(* Proofs about the upload of assets, for any processes, builds, assets,       *)
(* migrations and clocks, and any number of faults and restarts.               *)
EXTENDS AssetUpload, TLAPS

(***************************************************************************)
(* The plan of a build (Registry.Upload): entries have keys and contents,  *)
(* a permanent path names its content, and the manifest comes last.        *)
(***************************************************************************)

LEMMA WaysFit ==
    /\ Len(Ways) \in {1, 2}
    /\ \A k \in 1..Len(Ways) : Ways[k] \in {"logical", "permanent"}
  <1>1. CASE Mode = "logical"
    BY <1>1 DEF Ways
  <1>2. CASE Mode = "permanent"
    BY <1>2 DEF Ways
  <1>3. CASE Mode = "both"
    BY <1>3 DEF Ways
  <1> QED BY <1>1, <1>2, <1>3, AssetUploadAssumption DEF AssetUploadAssumption

LEMMA PathsFit ==
    ASSUME NEW b \in Build
    PROVE  /\ Paths(b) \in Nat
           /\ \A i \in 1..Paths(b) :
                 /\ ((i - 1) \div Len(Ways)) + 1 \in 1..Len(Assets[b])
                 /\ ((i - 1) % Len(Ways)) + 1 \in 1..Len(Ways)
  <1>1. Len(Assets[b]) \in Nat
    BY AssetUploadAssumption DEF AssetUploadAssumption
  <1>2. CASE Len(Ways) = 1
    BY <1>1, <1>2 DEF Paths
  <1>3. CASE Len(Ways) = 2
    BY <1>1, <1>3 DEF Paths
  <1> QED BY <1>2, <1>3, WaysFit

LEMMA ElementFits ==
    ASSUME NEW S, NEW s \in Seq(S), NEW k \in 1..Len(s)
    PROVE  s[k] \in S
  OBVIOUS

LEMMA PathEntryFits ==
    ASSUME NEW b \in Build, NEW i \in 1..Paths(b)
    PROVE  LET e == PathEntry(b, i) IN
           /\ e.content \in Hash
           /\ e.key[1] \in {"logical", "permanent"}
           /\ e.key[1] = "permanent" => e.content = e.key[3]
           /\ e.key # ManifestKey
  <1> DEFINE k == ((i - 1) \div Len(Ways)) + 1
             w == ((i - 1) % Len(Ways)) + 1
  <1>1. /\ k \in 1..Len(Assets[b]) /\ w \in 1..Len(Ways)
    BY PathsFit
  <1> HIDE DEF k, w
  <1>2. Assets[b][k] \in [path: Path, hash: Hash] /\ Ways[w] \in {"logical", "permanent"}
    <2>1. Assets[b] \in Seq([path: Path, hash: Hash])
      BY AssetUploadAssumption DEF AssetUploadAssumption
    <2>2. Assets[b][k] \in [path: Path, hash: Hash]
      BY <1>1, <2>1, ElementFits
    <2> QED BY <1>1, <2>2, WaysFit
  <1>3. PathEntry(b, i) =
          [key |-> <<Ways[w], Assets[b][k].path,
                     IF Ways[w] = "permanent" THEN Assets[b][k].hash ELSE None>>,
           content |-> Assets[b][k].hash]
    BY DEF PathEntry, k, w
  <1> QED BY <1>2, <1>3 DEF ManifestKey

LEMMA PlanFits ==
    ASSUME NEW b \in Build
    PROVE  /\ Len(Plan[b]) \in Nat
           /\ \A i \in 1..Len(Plan[b]) :
                 /\ Plan[b][i].key \in Key /\ Plan[b][i].content \in Content
                 /\ Plan[b][i].key[1] = "permanent" => Plan[b][i].content = Plan[b][i].key[3]
                 /\ Plan[b][i].key = ManifestKey =>
                       i = Len(Plan[b]) /\ Plan[b][i].content = b
  <1> DEFINE n == Paths(b) + (IF WriteManifest THEN 1 ELSE 0)
  <1>1. Paths(b) \in Nat /\ n \in Nat
    BY PathsFit, AssetUploadAssumption DEF AssetUploadAssumption
  <1>2. Plan[b] = [i \in 1..n |-> IF i > Paths(b) THEN Manifest(b) ELSE PathEntry(b, i)]
    BY DEF Plan
  <1> HIDE DEF n
  <1>3. Len(Plan[b]) = n
    BY <1>1, <1>2
  <1>4. ASSUME NEW i \in 1..n
        PROVE  /\ Plan[b][i].key \in Key /\ Plan[b][i].content \in Content
               /\ Plan[b][i].key[1] = "permanent" => Plan[b][i].content = Plan[b][i].key[3]
               /\ Plan[b][i].key = ManifestKey => i = n /\ Plan[b][i].content = b
    <2>1. Plan[b][i].key \in Key
      BY <1>3 DEF Key
    <2>2. CASE i > Paths(b)
      <3>1. i = n
        BY <1>1, <2>2 DEF n
      <3>2. Plan[b][i] = Manifest(b)
        BY <1>2, <2>2
      <3> QED BY <2>1, <3>1, <3>2 DEF Manifest, ManifestKey, Content
    <2>3. CASE ~ (i > Paths(b))
      <3>1. Plan[b][i] = PathEntry(b, i) /\ i \in 1..Paths(b)
        BY <1>1, <1>2, <2>3
      <3> QED BY <2>1, <3>1, PathEntryFits DEF Content
    <2> QED BY <2>2, <2>3
  <1> QED BY <1>1, <1>3, <1>4

-----------------------------------------------------------------------------
(* Types.                                                                    *)

LEMMA Ages ==
    /\ MaxAge \in Nat /\ StaleAfter \in Nat
    /\ \A n \in 0..MaxAge : Older(n) \in 0..MaxAge /\ n <= Older(n)
    /\ \A n, l \in 0..MaxAge : n <= l => Older(n) <= Older(l)
  BY AssetUploadAssumption DEF AssetUploadAssumption, MaxAge, Older

LEMMA MineIsMigration ==
    ASSUME TypeOK, NEW p \in Process
    PROVE  buildOf[p] \in Build /\ Mine(p) \in ID
  <1>1. buildOf \in [Process -> Build] /\ idOf \in [Build -> ID]
    BY AssetUploadAssumption DEF AssetUploadAssumption, TypeOK
  <1> QED BY <1>1 DEF Mine

\* What a write of an entry changes, and leaves, in the storage.
LEMMA PutFits ==
    ASSUME TypeOK, NEW p \in Process, ~Complete(p), Put(p)
    PROVE  /\ \E b \in Build, i \in Nat :
                 /\ b = buildOf[p] /\ i = written[p] + 1 /\ i \in 1..Len(Plan[b])
                 /\ objects' = [objects EXCEPT ![Plan[b][i].key] = Plan[b][i].content]
           /\ objects' \in [Key -> Content]
  <1>1. buildOf[p] \in Build
    BY MineIsMigration
  <1>2. written[p] \in Nat /\ written[p] <= Len(Plan[buildOf[p]])
    BY DEF TypeOK
  <1>3. written[p] + 1 \in 1..Len(Plan[buildOf[p]])
    BY <1>1, <1>2, PlanFits DEF Complete
  <1>4. /\ Plan[buildOf[p]][written[p] + 1].key \in Key
        /\ Plan[buildOf[p]][written[p] + 1].content \in Content
    BY <1>1, <1>3, PlanFits
  <1>5. objects \in [Key -> Content]
    BY DEF TypeOK
  <1>6. objects' = [objects EXCEPT ![Plan[buildOf[p]][written[p] + 1].key] =
                                     Plan[buildOf[p]][written[p] + 1].content]
    BY DEF Put, Entry
  <1>7. objects' \in [Key -> Content]
    BY <1>4, <1>5, <1>6
  <1>8. \E b \in Build, i \in Nat :
           /\ b = buildOf[p] /\ i = written[p] + 1 /\ i \in 1..Len(Plan[b])
           /\ objects' = [objects EXCEPT ![Plan[b][i].key] = Plan[b][i].content]
    <2>1. written[p] + 1 \in Nat
      BY <1>2
    <2> WITNESS buildOf[p] \in Build, written[p] + 1 \in Nat
    <2> QED BY <1>3, <1>6
  <1> QED BY <1>7, <1>8

LEMMA LeaseWritten ==
    ASSUME TypeOK, NEW p \in Process, WriteLease(p)
    PROVE  /\ lease' \in [ID -> [owner: Process \cup {None}, age: 0..MaxAge]]
           /\ current' \in [ID -> SUBSET Process]
           /\ done' = done
  BY MineIsMigration, Ages DEF TypeOK, WriteLease

LEMMA Forgotten ==
    ASSUME TypeOK, NEW p \in Process, Forget(p)
    PROVE  /\ written' \in [Process -> Nat]
           /\ \A q \in Process : written'[q] <= Len(Plan[buildOf[q]])
           /\ beating' \in [Process -> BOOLEAN] /\ lost' \in [Process -> BOOLEAN]
           /\ since' \in [Process -> 0..MaxAge]
  <1>1. \A q \in Process : buildOf[q] \in Build /\ Len(Plan[buildOf[q]]) \in Nat
    BY MineIsMigration, PlanFits
  <1> QED BY <1>1, Ages DEF TypeOK, Forget

LEMMA Owned ==
    ASSUME TypeOK, NEW p \in Process, Owns(p)
    PROVE  /\ written' \in [Process -> Nat]
           /\ \A q \in Process : written'[q] <= Len(Plan[buildOf[q]])
           /\ beating' \in [Process -> BOOLEAN] /\ lost' \in [Process -> BOOLEAN]
           /\ since' \in [Process -> 0..MaxAge]
           /\ pc' = [pc EXCEPT ![p] = "upload"]
  <1>1. \A q \in Process : buildOf[q] \in Build /\ Len(Plan[buildOf[q]]) \in Nat
    BY MineIsMigration, PlanFits
  <1> QED BY <1>1, Ages DEF TypeOK, Owns, Goto

LEMMA TypeInit == Init => TypeOK
  <1> SUFFICES ASSUME Init PROVE TypeOK
    OBVIOUS
  <1>1. buildOf \in [Process -> Build]
    BY AssetUploadAssumption DEF AssetUploadAssumption, Init
  <1>2. \A p \in Process : 0 <= Len(Plan[buildOf[p]])
    BY <1>1, PlanFits
  <1> QED BY <1>2, Ages, AssetUploadAssumption
          DEF AssetUploadAssumption, Init, TypeOK, Content, Ended

LEMMA TypeStep == TypeOK /\ [Next]_vars => TypeOK'
  <1> SUFFICES ASSUME TypeOK, [Next]_vars PROVE TypeOK'
    OBVIOUS
  <1> USE DEF Still, deployment, bounds, markers
  <1>w. \A q \in Process : buildOf[q] \in Build /\ Len(Plan[buildOf[q]]) \in Nat
    BY MineIsMigration, PlanFits
  <1>m. \A q \in Process : Mine(q) \in ID
    BY MineIsMigration
  <1>1. ASSUME NEW p \in Process, Check(p) PROVE TypeOK'
    BY <1>1 DEF TypeOK, Check, Goto, Ended
  <1>2. ASSUME NEW p \in Process, Claim(p) PROVE TypeOK'
    <2>1. CASE conditional /\ lease[Mine(p)].owner = None /\ WriteLease(p) /\ Owns(p)
      BY <1>2, <2>1, LeaseWritten, Owned DEF TypeOK, Claim
    <2>2. CASE UNCHANGED <<markers, written, beating, lost, since>> /\ Goto(p, "look")
      BY <1>2, <2>2 DEF TypeOK, Claim, Goto
    <2>3. CASE WriteLease(p) /\ Give(p)
      BY <1>2, <2>3, LeaseWritten, Forgotten DEF TypeOK, Claim, Give, Goto, Ended
    <2> QED BY <1>2, <2>1, <2>2, <2>3 DEF Claim
  <1>3. ASSUME NEW p \in Process, Look(p) PROVE TypeOK'
    BY <1>3, <1>m DEF TypeOK, Look, Goto
  <1>4. ASSUME NEW p \in Process, Wake(p) PROVE TypeOK'
    BY <1>4 DEF TypeOK, Wake, Goto
  <1>5. ASSUME NEW p \in Process, Steal(p) PROVE TypeOK'
    <2>1. CASE WriteLease(p) /\ Owns(p)
      BY <1>5, <2>1, LeaseWritten, Owned DEF TypeOK, Steal
    <2>2. CASE UNCHANGED <<markers, written, beating, lost, since>> /\ Goto(p, "check")
      BY <1>5, <2>2 DEF TypeOK, Steal, Goto
    <2> QED BY <1>5, <2>1, <2>2 DEF Steal
  <1>6. ASSUME NEW p \in Process, Upload(p) PROVE TypeOK'
    <2>1. objects' \in [Key -> Content] /\ written[p] + 1 <= Len(Plan[buildOf[p]])
      BY <1>6, <1>w, PutFits DEF Upload
    <2> QED BY <1>6, <2>1 DEF TypeOK, Upload
  <1>7. ASSUME NEW p \in Process, UploadIsCancelled(p) PROVE TypeOK'
    <2>1. objects' \in [Key -> Content]
      BY <1>7, PutFits DEF UploadIsCancelled, TypeOK
    <2> QED BY <1>7, <2>1, Forgotten DEF TypeOK, UploadIsCancelled, Give, Goto, Ended
  <1>8. ASSUME NEW p \in Process, UploadEnds(p) PROVE TypeOK'
    BY <1>8 DEF TypeOK, UploadEnds, Goto
  <1>9. ASSUME NEW p \in Process, WriteDone(p) PROVE TypeOK'
    BY <1>9, <1>m, <1>w DEF TypeOK, WriteDone, Goto, Ended
  <1>10. ASSUME NEW p \in Process, Heartbeat(p) PROVE TypeOK'
    <2>1. CASE WriteLease(p) /\ since' = [since EXCEPT ![p] = 0] /\ UNCHANGED <<beating, lost>>
      BY <1>10, <2>1, LeaseWritten, Ages DEF TypeOK, Heartbeat
    <2>2. CASE /\ beating' = [beating EXCEPT ![p] = FALSE]
               /\ lost' = [lost EXCEPT ![p] = TRUE]
               /\ UNCHANGED <<markers, since>>
      BY <1>10, <2>2 DEF TypeOK, Heartbeat
    <2> QED BY <1>10, <2>1, <2>2 DEF Heartbeat
  <1>11. ASSUME NEW p \in Process, RefreshEnds(p) PROVE TypeOK'
    BY <1>11, Forgotten DEF TypeOK, RefreshEnds
  <1>12. ASSUME NEW p \in Process, RequestFails(p) PROVE TypeOK'
    <2>1. /\ objects' \in [Key -> Content]
          /\ lease' \in [ID -> [owner: Process \cup {None}, age: 0..MaxAge]]
          /\ current' \in [ID -> SUBSET Process]
          /\ done' \in [ID -> Build \cup {None}]
      BY <1>12, <1>m, <1>w, PutFits, LeaseWritten DEF RequestFails, TypeOK
    <2>2. faults' \in 0..MaxFaults /\ UNCHANGED <<deployment, restarts>>
      BY <1>12, AssetUploadAssumption DEF AssetUploadAssumption, RequestFails, Fault, TypeOK
    <2> QED BY <1>12, <2>1, <2>2, Forgotten DEF TypeOK, RequestFails, Give, Goto, Ended
  <1>13. ASSUME NEW p \in Process, HeartbeatFails(p) PROVE TypeOK'
    <2>1. /\ lease' \in [ID -> [owner: Process \cup {None}, age: 0..MaxAge]]
          /\ current' \in [ID -> SUBSET Process]
          /\ done' = done /\ since' \in [Process -> 0..MaxAge]
      <3>1. CASE UNCHANGED <<markers, since>>
        BY <3>1 DEF TypeOK
      <3>2. CASE WriteLease(p) /\ since' = [since EXCEPT ![p] = 0]
        BY <3>2, LeaseWritten, Ages DEF TypeOK
      <3> QED BY <1>13, <3>1, <3>2 DEF HeartbeatFails
    <2>2. faults' \in 0..MaxFaults /\ UNCHANGED <<deployment, restarts>>
      BY <1>13, AssetUploadAssumption DEF AssetUploadAssumption, HeartbeatFails, Fault, TypeOK
    <2> QED BY <1>13, <2>1, <2>2 DEF TypeOK, HeartbeatFails
  <1>14. ASSUME NEW p \in Process, Restart(p) PROVE TypeOK'
    <2>1. restarts' \in 0..MaxRestarts
      BY <1>14, AssetUploadAssumption DEF AssetUploadAssumption, Restart, TypeOK
    <2> QED BY <1>14, <2>1, Forgotten DEF TypeOK, Restart, Goto
  <1>15. ASSUME Tick PROVE TypeOK'
    <2>1. /\ lease' \in [ID -> [owner: Process \cup {None}, age: 0..MaxAge]]
          /\ since' \in [Process -> 0..MaxAge]
      BY <1>15, Ages DEF Tick, TypeOK
    <2> QED BY <1>15, <2>1 DEF TypeOK, Tick
  <1>16. CASE UNCHANGED vars
    BY <1>16 DEF TypeOK, vars, own
  <1> QED BY <1>1, <1>2, <1>3, <1>4, <1>5, <1>6, <1>7, <1>8, <1>9, <1>10, <1>11,
             <1>12, <1>13, <1>14, <1>15, <1>16 DEF Next, Step

-----------------------------------------------------------------------------
(* What is uploaded stays in the storage, and the markers tell the truth.     *)

UploadInv == WritesAreSaved /\ DoneIsTrue /\ ManifestIsOfBuild /\ ManifestIsServable

\* Of every entry: a write of any process to its permanent path has its content.
SavedIsKept ==
    \A b \in Build : \A i \in 1..Len(Plan[b]) : Saved(b, i) => Saved(b, i)'

LEMMA PutSaves ==
    ASSUME TypeOK, NEW p \in Process, ~Complete(p), Put(p)
    PROVE  /\ SavedIsKept
           /\ \A b \in Build : \A i \in 1..Len(Plan[b]) :
                 b = buildOf[p] /\ i = written[p] + 1 => Saved(b, i)'
  <1>1. PICK c \in Build, k \in Nat :
          /\ c = buildOf[p] /\ k = written[p] + 1 /\ k \in 1..Len(Plan[c])
          /\ objects' = [objects EXCEPT ![Plan[c][k].key] = Plan[c][k].content]
    BY PutFits
  <1>2. objects \in [Key -> Content]
    BY DEF TypeOK
  <1>3. ASSUME NEW b \in Build, NEW i \in 1..Len(Plan[b]), Saved(b, i)
        PROVE  Saved(b, i)'
    <2>1. CASE Plan[b][i].key = Plan[c][k].key
      <3>1. Plan[b][i].key[1] = "permanent" => Plan[b][i].content = Plan[c][k].content
        <4>1. Plan[b][i].key[1] = "permanent" => Plan[b][i].content = Plan[b][i].key[3]
          BY PlanFits
        <4>2. Plan[c][k].key[1] = "permanent" => Plan[c][k].content = Plan[c][k].key[3]
          BY <1>1, PlanFits
        <4> QED BY <2>1, <4>1, <4>2
      <3>2. Plan[b][i].key \in Key
        BY PlanFits
      <3> QED BY <1>1, <1>2, <2>1, <3>1, <3>2 DEF Saved
    <2>2. CASE Plan[b][i].key # Plan[c][k].key
      <3>1. objects'[Plan[b][i].key] = objects[Plan[b][i].key]
        BY <1>1, <1>2, <2>2, PlanFits
      <3> QED BY <1>3, <3>1 DEF Saved
    <2> QED BY <2>1, <2>2
  <1>4. objects'[Plan[c][k].key] = Plan[c][k].content
    BY <1>1, <1>2, PlanFits
  <1>5. Saved(c, k)'
    BY <1>4 DEF Saved
  <1> QED BY <1>1, <1>3, <1>5 DEF SavedIsKept

LEMMA ManifestKept ==
    ASSUME TypeOK, UploadInv, NEW p \in Process, ~Complete(p), Put(p), HasUploaded(p)
    PROVE  ManifestIsOfBuild' /\ ManifestIsServable'
  <1>1. PICK c \in Build, k \in Nat :
          /\ c = buildOf[p] /\ k = written[p] + 1 /\ k \in 1..Len(Plan[c])
          /\ objects' = [objects EXCEPT ![Plan[c][k].key] = Plan[c][k].content]
    BY PutFits
  <1>2. objects \in [Key -> Content]
    BY DEF TypeOK
  <1>3. SavedIsKept /\ Saved(c, k)'
    BY <1>1, PutSaves
  <1>4. CASE ManifestKey \notin Key
    BY <1>4 DEF ManifestIsOfBuild, ManifestIsServable
  <1>5. CASE ManifestKey \in Key /\ Plan[c][k].key = ManifestKey
    <2>1. k = Len(Plan[c]) /\ objects'[ManifestKey] = c
      BY <1>1, <1>2, <1>5, PlanFits
    <2>2. \A i \in 1..written[p] : Saved(c, i)
      BY <1>1 DEF UploadInv, WritesAreSaved
    <2>3. written[p] \in Nat /\ Len(Plan[c]) \in Nat
      BY PlanFits DEF TypeOK
    <2>4. \A i \in 1..Len(Plan[c]) : Saved(c, i)'
      BY <1>1, <1>3, <2>1, <2>2, <2>3 DEF SavedIsKept
    <2> QED BY <2>1, <2>4 DEF ManifestIsOfBuild, ManifestIsServable, Stored
  <1>6. CASE ManifestKey \in Key /\ Plan[c][k].key # ManifestKey
    <2>1. objects'[ManifestKey] = objects[ManifestKey]
      BY <1>1, <1>2, <1>6
    <2>2. CASE objects[ManifestKey] = None
      BY <2>1, <2>2 DEF ManifestIsOfBuild, ManifestIsServable
    <2>3. CASE objects[ManifestKey] # None
      <3>1. PICK d \in Build : d = objects[ManifestKey]
        BY <1>6, <2>3 DEF UploadInv, ManifestIsOfBuild
      <3>2. Stored(d)
        BY <1>6, <2>3, <3>1 DEF UploadInv, ManifestIsServable
      <3>3. Stored(d)'
        BY <1>3, <3>2 DEF Stored, SavedIsKept
      <3> QED BY <2>1, <3>1, <3>3 DEF ManifestIsOfBuild, ManifestIsServable
    <2> QED BY <2>2, <2>3
  <1> QED BY <1>4, <1>5, <1>6

\* The done markers stay true while they and what is saved are kept.
LEMMA DoneKept ==
    ASSUME TypeOK, DoneIsTrue, SavedIsKept, done' = done
    PROVE  DoneIsTrue'
  <1>1. ASSUME NEW m \in ID, NEW b \in Build, b = done[m]
        PROVE  Stored(b)'
    <2>1. b # None /\ Stored(b)
      BY <1>1, AssetUploadAssumption DEF AssetUploadAssumption, DoneIsTrue
    <2> QED BY <2>1 DEF Stored, SavedIsKept
  <1>2. ASSUME NEW m \in ID, done'[m] # None
        PROVE  \E b \in Build : b = done'[m] /\ Stored(b)'
    BY <1>1, <1>2 DEF TypeOK
  <1> QED BY <1>2 DEF DoneIsTrue

\* Processes keep what they have written, or start anew.
LEMMA WritesKept ==
    ASSUME TypeOK, WritesAreSaved, SavedIsKept, buildOf' = buildOf,
           \A q \in Process :
              HasUploaded(q)' => \/ HasUploaded(q) /\ written'[q] = written[q]
                                    /\ (pc'[q] = "finish" => Complete(q))
                                 \/ written'[q] = 0 /\ pc'[q] # "finish"
    PROVE  WritesAreSaved'
  <1> SUFFICES ASSUME NEW q \in Process, HasUploaded(q)'
               PROVE  /\ \A i \in 1..written'[q] : Saved(buildOf[q], i)'
                      /\ pc'[q] = "finish" => Complete(q)'
    BY DEF WritesAreSaved
  <1>1. CASE written'[q] = 0 /\ pc'[q] # "finish"
    BY <1>1
  <1>2. CASE HasUploaded(q) /\ written'[q] = written[q] /\ (pc'[q] = "finish" => Complete(q))
    <2>1. buildOf[q] \in Build /\ written[q] \in Nat /\ Len(Plan[buildOf[q]]) \in Nat
          /\ written[q] <= Len(Plan[buildOf[q]])
      BY MineIsMigration, PlanFits DEF TypeOK
    <2>2. \A i \in 1..written[q] : Saved(buildOf[q], i)
      BY <1>2 DEF WritesAreSaved
    <2>3. PICK c \in Build : c = buildOf[q]
      BY <2>1
    <2>4. \A i \in 1..written[q] : Saved(c, i)'
      BY <2>1, <2>2, <2>3 DEF SavedIsKept
    <2> QED BY <1>2, <2>3, <2>4 DEF Complete
  <1> QED BY <1>1, <1>2

LEMMA NothingWritten ==
    ASSUME UNCHANGED objects
    PROVE  SavedIsKept /\ (ManifestIsOfBuild /\ ManifestIsServable =>
                               ManifestIsOfBuild' /\ ManifestIsServable')
  BY DEF SavedIsKept, Saved, Stored, ManifestIsOfBuild, ManifestIsServable

LEMMA UploadInit == Init => UploadInv
  BY AssetUploadAssumption
     DEF AssetUploadAssumption, Init, UploadInv, WritesAreSaved, DoneIsTrue,
         ManifestIsOfBuild, ManifestIsServable, HasUploaded

LEMMA UploadStep == TypeOK /\ UploadInv /\ [Next]_vars => UploadInv'
  <1> SUFFICES ASSUME TypeOK, UploadInv, [Next]_vars PROVE UploadInv'
    OBVIOUS
  <1> USE DEF Still, deployment, bounds, markers
  <1>q. WritesAreSaved /\ DoneIsTrue /\ ManifestIsOfBuild /\ ManifestIsServable
        /\ pc \in [Process -> {"check", "claim", "look", "wait", "steal", "upload",
                                "finish"} \cup Ended]
        /\ written \in [Process -> Nat]
    BY DEF UploadInv, TypeOK
  \* Steps that write neither a path nor the done marker.
  <1>a. ASSUME UNCHANGED <<objects, done, buildOf>>,
               \A q \in Process :
                  HasUploaded(q)' => \/ HasUploaded(q) /\ written'[q] = written[q]
                                        /\ (pc'[q] = "finish" => Complete(q))
                                     \/ written'[q] = 0 /\ pc'[q] # "finish"
        PROVE  UploadInv'
    BY <1>a, <1>q, NothingWritten, DoneKept, WritesKept DEF UploadInv
  \* A path is written, and perhaps its writer goes on, or fails.
  <1>b. ASSUME NEW p \in Process, ~Complete(p), Put(p), HasUploaded(p),
               UNCHANGED <<done, buildOf>>,
               \A q \in Process :
                  HasUploaded(q)' => \/ HasUploaded(q) /\ written'[q] = written[q]
                                        /\ (pc'[q] = "finish" => Complete(q))
                                     \/ written'[q] = 0 /\ pc'[q] # "finish"
        PROVE  UploadInv'
    BY <1>b, <1>q, PutSaves, ManifestKept, DoneKept, WritesKept DEF UploadInv
  <1>1. ASSUME NEW p \in Process, Check(p) \/ Look(p) \/ Wake(p) PROVE UploadInv'
    BY <1>1, <1>a, <1>q DEF Check, Look, Wake, Goto, HasUploaded, WritesAreSaved
  <1>2. ASSUME NEW p \in Process, Claim(p) PROVE UploadInv'
    BY <1>2, <1>a, <1>q DEF Claim, WriteLease, Owns, Give, Forget, Goto, HasUploaded, WritesAreSaved
  <1>3. ASSUME NEW p \in Process, Steal(p) PROVE UploadInv'
    BY <1>3, <1>a, <1>q DEF Steal, WriteLease, Owns, Goto, HasUploaded, WritesAreSaved
  <1>4. ASSUME NEW p \in Process, Upload(p) PROVE UploadInv'
    <2>1. ~Complete(p) /\ Put(p) /\ HasUploaded(p) /\ UNCHANGED <<done, buildOf, pc>>
          /\ written' = [written EXCEPT ![p] = @ + 1] /\ pc[p] = "upload"
      BY <1>4 DEF Upload, HasUploaded
    <2>2. SavedIsKept /\ DoneIsTrue' /\ ManifestIsOfBuild' /\ ManifestIsServable'
      BY <1>q, <2>1, PutSaves, ManifestKept, DoneKept
    <2>3. ASSUME NEW q \in Process, HasUploaded(q)'
          PROVE  /\ \A i \in 1..written'[q] : Saved(buildOf[q], i)'
                 /\ pc'[q] = "finish" => Complete(q)'
      <3>1. HasUploaded(q) /\ buildOf[q] \in Build
        BY <2>1, <2>3, MineIsMigration DEF HasUploaded
      <3>2. PICK c \in Build : c = buildOf[q]
        BY <3>1
      <3>3. written[q] \in Nat /\ written[q] <= Len(Plan[c]) /\ Len(Plan[c]) \in Nat
        BY <3>2, PlanFits DEF TypeOK
      <3>4. \A i \in 1..written[q] : Saved(c, i)'
        <4>1. \A i \in 1..written[q] : Saved(c, i)
          BY <1>q, <3>1, <3>2 DEF WritesAreSaved
        <4> QED BY <2>2, <3>3, <4>1 DEF SavedIsKept
      <3>5. CASE q # p
        BY <1>q, <2>1, <3>1, <3>2, <3>4, <3>5 DEF WritesAreSaved, Complete
      <3>6. CASE q = p
        <4>1. written'[q] = written[q] + 1 /\ pc'[q] # "finish"
          BY <1>q, <2>1, <3>6
        <4>2. written[q] + 1 \in 1..Len(Plan[c])
          BY <2>1, <3>2, <3>3, <3>6 DEF Complete
        <4>3. \A i \in 1..Len(Plan[c]) : i = written[q] + 1 => Saved(c, i)'
          BY <2>1, <3>2, <3>6, PutSaves
        <4>4. \A i \in 1..(written[q] + 1) : Saved(c, i)'
          BY <3>3, <3>4, <4>2, <4>3
        <4> QED BY <2>1, <3>2, <4>1, <4>4
      <3> QED BY <3>5, <3>6
    <2> QED BY <2>1, <2>2, <2>3 DEF UploadInv, WritesAreSaved
  <1>5. ASSUME NEW p \in Process, UploadIsCancelled(p) PROVE UploadInv'
    <2>1. \A q \in Process : HasUploaded(q)' =>
             HasUploaded(q) /\ written'[q] = written[q] /\ (pc'[q] = "finish" => Complete(q))
      BY <1>5, <1>q DEF UploadIsCancelled, Give, Forget, Goto, HasUploaded, WritesAreSaved
    <2>2. HasUploaded(p) /\ UNCHANGED <<done, buildOf>>
          /\ (UNCHANGED objects \/ (~Complete(p) /\ Put(p)))
      BY <1>5 DEF UploadIsCancelled, HasUploaded
    <2> QED BY <1>a, <1>b, <2>1, <2>2
  <1>6. ASSUME NEW p \in Process, UploadEnds(p) PROVE UploadInv'
    BY <1>6, <1>a, <1>q DEF UploadEnds, Goto, HasUploaded, WritesAreSaved
  <1>7. ASSUME NEW p \in Process, done' = [done EXCEPT ![Mine(p)] = buildOf[p]],
               pc[p] = "finish", UNCHANGED <<objects, buildOf, idOf>>,
               \A q \in Process :
                  HasUploaded(q)' => HasUploaded(q) /\ written'[q] = written[q]
                                     /\ (pc'[q] = "finish" => Complete(q))
        PROVE  UploadInv'
    <2>1. PICK c \in Build : c = buildOf[p]
      BY MineIsMigration
    <2>2. Stored(c)
      BY <1>7, <1>q, <2>1 DEF WritesAreSaved, HasUploaded, Complete, Stored
    <2>3. Stored(c)'
      BY <1>7, <2>2 DEF Stored, Saved
    <2>4. ASSUME NEW m \in ID, done'[m] # None
          PROVE  \E b \in Build : b = done'[m] /\ Stored(b)'
      <3>1. CASE m = Mine(p)
        BY <1>7, <2>1, <2>3, <3>1, <2>4 DEF TypeOK
      <3>2. CASE m # Mine(p)
        <4>1. PICK b \in Build : b = done[m] /\ b = done'[m]
          BY <1>7, <2>4, <3>2 DEF TypeOK
        <4>2. Stored(b)
          BY <1>q, <2>4, <4>1 DEF DoneIsTrue
        <4> QED BY <1>7, <4>1, <4>2 DEF Stored, Saved
      <3> QED BY <3>1, <3>2
    <2>5. DoneIsTrue'
      BY <2>4 DEF DoneIsTrue
    <2> QED BY <1>7, <1>q, <2>5, NothingWritten, WritesKept DEF UploadInv
  <1>8. ASSUME NEW p \in Process, WriteDone(p) PROVE UploadInv'
    BY <1>8, <1>7, <1>q DEF WriteDone, Goto, HasUploaded, WritesAreSaved
  <1>9. ASSUME NEW p \in Process, Heartbeat(p) \/ HeartbeatFails(p) PROVE UploadInv'
    BY <1>9, <1>a, <1>q DEF Heartbeat, HeartbeatFails, Fault, WriteLease, HasUploaded, WritesAreSaved
  <1>10. ASSUME NEW p \in Process, RefreshEnds(p) PROVE UploadInv'
    BY <1>10, <1>a, <1>q DEF RefreshEnds, Forget, HasUploaded, WritesAreSaved
  <1>11. ASSUME NEW p \in Process, RequestFails(p) PROVE UploadInv'
    <2>1. \A q \in Process : HasUploaded(q)' =>
             HasUploaded(q) /\ written'[q] = written[q] /\ (pc'[q] = "finish" => Complete(q))
      BY <1>11, <1>q DEF RequestFails, Give, Forget, Goto, HasUploaded, WritesAreSaved
    <2>2. UNCHANGED <<buildOf, idOf>>
      BY <1>11 DEF RequestFails, Fault
    <2>3. CASE UNCHANGED <<objects, done>>
      BY <1>a, <2>1, <2>2, <2>3
    <2>4. CASE pc[p] = "upload" /\ ~Complete(p) /\ Put(p) /\ UNCHANGED done
      BY <1>b, <2>1, <2>2, <2>4 DEF HasUploaded
    <2>5. CASE /\ pc[p] = "finish" /\ done' = [done EXCEPT ![Mine(p)] = buildOf[p]]
               /\ UNCHANGED objects
      BY <1>7, <2>1, <2>2, <2>5
    <2> QED BY <1>11, <2>3, <2>4, <2>5 DEF RequestFails, WriteLease
  <1>12. ASSUME NEW p \in Process, Restart(p) PROVE UploadInv'
    BY <1>12, <1>a, <1>q DEF Restart, Forget, Goto, HasUploaded, WritesAreSaved
  <1>13. CASE Tick \/ UNCHANGED vars
    BY <1>13, <1>a, <1>q DEF Tick, vars, own, HasUploaded, WritesAreSaved
  <1> QED BY <1>1, <1>2, <1>3, <1>4, <1>5, <1>6, <1>8, <1>9, <1>10, <1>11, <1>12, <1>13
          DEF Next, Step

-----------------------------------------------------------------------------
(* The lease.                                                                *)

OwnUnchanged(q) ==
    pc'[q] = pc[q] /\ beating'[q] = beating[q] /\ since'[q] = since[q]

LEMMA Clocks ==
    ASSUME TypeOK
    PROVE  /\ \A p \in Process : Ahead[p] \in Nat /\ since[p] \in Nat
           /\ \A m \in ID : /\ lease[m].owner \in Process \cup {None}
                            /\ lease[m].age \in 0..MaxAge
           /\ StaleAfter \in Nat /\ None \notin Process
  BY Ages, AssetUploadAssumption DEF AssetUploadAssumption, TypeOK

\* Who still knows the lease and writes it finds its owner idle, itself or late.
LEMMA OwnerIsLate ==
    ASSUME TypeOK, LeaseIsKnown, NEW p \in Process, NEW q \in Process, q # p,
           Mine(p) = Mine(q), lease[Mine(q)].owner = q, Working(q),
           \/ lease[Mine(p)].owner = None
           \/ ~conditional
           \/ (pc[p] = "steal" \/ beating[p]) /\ p \in current[Mine(p)]
    PROVE  Overdue(q)
  <1>1. HasUploaded(q) /\ conditional /\ since[q] >= lease[Mine(q)].age
    BY DEF LeaseIsKnown, LeaseFits, Working, HasUploaded
  <1>2. lease[Mine(p)].owner # None /\ lease[Mine(p)].owner # p
    BY Clocks
  <1>3. pc[p] = "steal" /\ SeenAge(p, lease[Mine(p)]) >= StaleAfter
    BY <1>1, <1>2 DEF LeaseIsKnown, LeaseFits
  <1>4. lease[Mine(q)].age + Ahead[p] - Ahead[q] >= StaleAfter
    BY <1>3 DEF SeenAge
  <1>5. since[q] + Ahead[p] - Ahead[q] >= StaleAfter
    BY <1>1, <1>4, Clocks, MineIsMigration, Ages
  <1> QED BY <1>5 DEF Overdue

\* A process keeps what it knows when its lease and itself are left alone.
LEMMA LeaseKept ==
    ASSUME TypeOK, LeaseIsKnown, UNCHANGED deployment, NEW q \in Process,
           OwnUnchanged(q), lease'[Mine(q)] = lease[Mine(q)],
           q \in current'[Mine(q)] => q \in current[Mine(q)]
    PROVE  LeaseFits(q)'
  <1>1. LeaseFits(q) /\ Mine(q)' = Mine(q) /\ conditional' = conditional
    BY DEF LeaseIsKnown, Mine, deployment
  <1>2. HasUploaded(q)' = HasUploaded(q) /\ Working(q)' = Working(q)
    BY DEF OwnUnchanged, HasUploaded, Working
  <1>3. Overdue(q)' = Overdue(q)
    BY DEF OwnUnchanged, Overdue
  <1> QED BY <1>1, <1>2, <1>3 DEF LeaseFits, OwnUnchanged, SeenAge

\* And when another process that may writes the lease.
LEMMA LeaseTaken ==
    ASSUME TypeOK, LeaseIsKnown, UNCHANGED deployment,
           NEW p \in Process, NEW q \in Process, q # p, OwnUnchanged(q), WriteLease(p),
           \/ lease[Mine(p)].owner = None
           \/ ~conditional
           \/ (pc[p] = "steal" \/ beating[p]) /\ p \in current[Mine(p)]
    PROVE  LeaseFits(q)'
  <1>0. Mine(q) \in ID /\ Mine(p) \in ID
    BY MineIsMigration
  <1>1. CASE Mine(q) # Mine(p)
    <2>1. lease'[Mine(q)] = lease[Mine(q)] /\ current'[Mine(q)] = current[Mine(q)]
      BY <1>0, <1>1 DEF WriteLease, TypeOK
    <2> QED BY <2>1, LeaseKept
  <1>2. CASE Mine(q) = Mine(p)
    <2>1. lease'[Mine(q)].owner = p /\ current'[Mine(q)] = {p}
      BY <1>0, <1>2 DEF WriteLease, TypeOK
    <2>2. LeaseFits(q) /\ Mine(q)' = Mine(q) /\ conditional' = conditional
      BY DEF LeaseIsKnown, Mine, deployment
    <2>3. HasUploaded(q)' = HasUploaded(q) /\ Working(q)' = Working(q)
      BY DEF OwnUnchanged, HasUploaded, Working
    <2>4. Working(q) => Overdue(q)'
      <3>1. Working(q) => Overdue(q)
        BY <1>2, <2>2, OwnerIsLate DEF LeaseFits
      <3> QED BY <3>1 DEF Overdue, OwnUnchanged
    <2>5. p # None
      BY Clocks
    <2> QED BY <2>1, <2>2, <2>3, <2>4, <2>5 DEF LeaseFits, OwnUnchanged
  <1> QED BY <1>1, <1>2

\* The process that wrote the lease and goes on with the upload.
LEMMA LeaseOwned ==
    ASSUME TypeOK, UNCHANGED deployment, NEW p \in Process, WriteLease(p), conditional,
           since'[p] \in Nat, pc'[p] \in {"upload", "finish", "done"}
    PROVE  LeaseFits(p)'
  <1>1. lease'[Mine(p)] = [owner |-> p, age |-> 0] /\ Mine(p)' = Mine(p)
    BY MineIsMigration DEF WriteLease, TypeOK, Mine, deployment
  <1> QED BY <1>1 DEF LeaseFits, HasUploaded, deployment

\* A process that is neither at its upload nor looking at a lease knows nothing.
LEMMA LeaseUnknown ==
    ASSUME NEW p \in Process, ~beating'[p],
           pc'[p] \notin {"look", "steal", "upload", "finish", "done"}
    PROVE  LeaseFits(p)'
  BY DEF LeaseFits, HasUploaded, Working

LEMMA LeaseInit == Init => LeaseIsKnown
  BY DEF Init, LeaseIsKnown, LeaseFits, HasUploaded, Working

LEMMA LeaseStep == TypeOK /\ LeaseIsKnown /\ [Next]_vars => LeaseIsKnown'
  <1> SUFFICES ASSUME TypeOK, LeaseIsKnown, [Next]_vars PROVE LeaseIsKnown'
    OBVIOUS
  <1> USE DEF Still, deployment, bounds, markers
  <1>t. /\ pc \in [Process -> {"check", "claim", "look", "wait", "steal", "upload",
                               "finish"} \cup Ended]
        /\ beating \in [Process -> BOOLEAN] /\ since \in [Process -> 0..MaxAge]
        /\ \A p \in Process : LeaseFits(p)
    BY DEF TypeOK, LeaseIsKnown
  \* Steps that leave the leases, and what others know, as they are.
  <1>a. ASSUME NEW p \in Process, UNCHANGED <<deployment, lease>>,
               \A q \in Process \ {p} : OwnUnchanged(q) /\
                  (q \in current'[Mine(q)] => q \in current[Mine(q)]),
               LeaseFits(p)'
        PROVE  LeaseIsKnown'
    BY <1>a, LeaseKept DEF LeaseIsKnown
  \* Steps that write a lease.
  <1>b. ASSUME NEW p \in Process, UNCHANGED deployment, WriteLease(p),
               \A q \in Process \ {p} : OwnUnchanged(q),
               \/ lease[Mine(p)].owner = None
               \/ ~conditional
               \/ (pc[p] = "steal" \/ beating[p]) /\ p \in current[Mine(p)],
               LeaseFits(p)'
        PROVE  LeaseIsKnown'
    BY <1>b, LeaseTaken DEF LeaseIsKnown
  <1>1. ASSUME NEW p \in Process, Check(p) \/ Wake(p) PROVE LeaseIsKnown'
    <2>1. ~beating'[p] /\ pc'[p] \notin {"look", "steal", "upload", "finish", "done"}
      BY <1>1, <1>t DEF Check, Wake, Goto, LeaseFits, HasUploaded
    <2>2. LeaseFits(p)'
      BY <2>1, LeaseUnknown
    <2> QED BY <1>1, <1>a, <1>t, <2>2 DEF Check, Wake, Goto, OwnUnchanged
  <1>2. ASSUME NEW p \in Process, Claim(p) PROVE LeaseIsKnown'
    <2>1. CASE conditional /\ lease[Mine(p)].owner = None /\ WriteLease(p) /\ Owns(p)
      <3>1. UNCHANGED deployment /\ pc'[p] = "upload" /\ since'[p] = 0
            /\ \A q \in Process \ {p} : OwnUnchanged(q)
        BY <1>2, <1>t, <2>1 DEF Claim, Owns, Goto, OwnUnchanged
      <3>2. LeaseFits(p)'
        BY <2>1, <3>1, LeaseOwned
      <3> QED BY <1>b, <2>1, <3>1, <3>2
    <2>2. CASE /\ conditional /\ lease[Mine(p)].owner # None /\ Goto(p, "look")
               /\ UNCHANGED <<markers, written, beating, lost, since>>
      <3>1. ~beating'[p] /\ pc'[p] = "look" /\ lease'[Mine(p)'].owner # None /\ conditional'
        BY <1>2, <1>t, <2>2 DEF Claim, Goto, LeaseFits, HasUploaded, Mine
      <3>2. LeaseFits(p)'
        BY <3>1 DEF LeaseFits, HasUploaded, Working
      <3> QED BY <1>2, <1>a, <1>t, <2>2, <3>2 DEF Claim, Goto, OwnUnchanged
    <2>3. CASE ~conditional /\ WriteLease(p) /\ Give(p)
      <3>1. UNCHANGED deployment /\ pc'[p] = "failed" /\ ~beating'[p]
            /\ \A q \in Process \ {p} : OwnUnchanged(q)
        BY <1>2, <1>t, <2>3 DEF Claim, Give, Forget, Goto, OwnUnchanged
      <3>2. LeaseFits(p)'
        BY <3>1, LeaseUnknown
      <3> QED BY <1>b, <2>3, <3>1, <3>2
    <2> QED BY <1>2, <2>1, <2>2, <2>3 DEF Claim
  <1>3. ASSUME NEW p \in Process, Look(p) PROVE LeaseIsKnown'
    <2>1. lease[Mine(p)].owner \in Process /\ lease[Mine(p)].age \in Nat /\ Mine(p) \in ID
      BY <1>3, <1>t, Clocks, MineIsMigration, Ages DEF Look, LeaseFits
    <2>2. SeenAge(p, lease[Mine(p)]) \in Int /\ StaleAfter \in Int
      BY <2>1, Clocks DEF SeenAge
    <2>3. /\ ~beating[p] /\ Mine(p)' = Mine(p) /\ UNCHANGED <<lease, beating, since>>
          /\ conditional /\ conditional'
          /\ \/ pc'[p] = "wait"
             \/ pc'[p] = "steal" /\ SeenAge(p, lease[Mine(p)]) >= StaleAfter
      BY <1>3, <1>t, <2>2 DEF Look, Goto, LeaseFits, HasUploaded, Mine
    <2>4. lease[Mine(p)].owner # None
      BY <2>1, Clocks
    <2>5. LeaseFits(p)'
      BY <2>3, <2>4 DEF LeaseFits, HasUploaded, Working, SeenAge
    <2>6. \A q \in Process \ {p} : q \in current'[Mine(q)] => q \in current[Mine(q)]
      BY <1>3, <2>1, MineIsMigration DEF Look, TypeOK
    <2> QED BY <1>3, <1>a, <1>t, <2>5, <2>6 DEF Look, Goto, OwnUnchanged
  <1>4. ASSUME NEW p \in Process, Steal(p) PROVE LeaseIsKnown'
    <2>1. CASE p \in current[Mine(p)] /\ WriteLease(p) /\ Owns(p)
      <3>1. UNCHANGED deployment /\ pc'[p] = "upload" /\ since'[p] = 0 /\ pc[p] = "steal"
            /\ \A q \in Process \ {p} : OwnUnchanged(q)
        BY <1>4, <1>t, <2>1 DEF Steal, Owns, Goto, OwnUnchanged
      <3>2. LeaseFits(p)'
        BY <1>t, <2>1, <3>1, LeaseOwned DEF LeaseFits
      <3> QED BY <1>b, <2>1, <3>1, <3>2
    <2>2. CASE Goto(p, "check") /\ UNCHANGED <<markers, written, beating, lost, since>>
      <3>1. ~beating'[p] /\ pc'[p] = "check"
        BY <1>4, <1>t, <2>2 DEF Steal, Goto, LeaseFits, HasUploaded
      <3>2. LeaseFits(p)'
        BY <3>1, LeaseUnknown
      <3> QED BY <1>4, <1>a, <1>t, <2>2, <3>2 DEF Steal, Goto, OwnUnchanged
    <2> QED BY <1>4, <2>1, <2>2 DEF Steal
  <1>5. ASSUME NEW p \in Process, Upload(p) \/ UploadEnds(p) \/ WriteDone(p)
        PROVE  LeaseIsKnown'
    <2>1. /\ HasUploaded(p) /\ Working(p) /\ pc'[p] \in {"upload", "finish", "done"}
          /\ UNCHANGED <<deployment, lease, current, beating, since>>
          /\ \A q \in Process \ {p} : OwnUnchanged(q)
      BY <1>5, <1>t DEF Upload, UploadEnds, WriteDone, Goto, OwnUnchanged, HasUploaded, Working
    <2>2. Mine(p)' = Mine(p) /\ Overdue(p)' = Overdue(p) /\ HasUploaded(p)'
      BY <2>1 DEF Mine, Overdue, HasUploaded
    <2>3. LeaseFits(p)'
      BY <1>t, <2>1, <2>2 DEF LeaseFits
    <2> QED BY <1>a, <2>1, <2>3
  <1>6. ASSUME NEW p \in Process, UploadIsCancelled(p) PROVE LeaseIsKnown'
    <2>1. /\ ~beating'[p] /\ pc'[p] = "failed" /\ UNCHANGED <<deployment, lease, current>>
          /\ \A q \in Process \ {p} : OwnUnchanged(q)
      BY <1>6, <1>t DEF UploadIsCancelled, Give, Forget, Goto, OwnUnchanged
    <2>2. LeaseFits(p)'
      BY <2>1, LeaseUnknown
    <2> QED BY <1>a, <2>1, <2>2
  \* The heartbeat, whose request succeeds or fails.
  <1>7. ASSUME NEW p \in Process, Heartbeat(p) \/ HeartbeatFails(p) PROVE LeaseIsKnown'
    <2>1. /\ UNCHANGED deployment /\ pc' = pc /\ HasUploaded(p) /\ conditional
          /\ \A q \in Process \ {p} : OwnUnchanged(q)
      BY <1>7, <1>t DEF Heartbeat, HeartbeatFails, Fault, OwnUnchanged, LeaseFits
    <2>2. CASE UNCHANGED <<lease, current, since>>
      <3>1. Mine(p)' = Mine(p) /\ Overdue(p)' = Overdue(p)
            /\ HasUploaded(p)' /\ Working(p)' = Working(p)
        BY <2>1, <2>2 DEF Mine, Overdue, HasUploaded, Working
      <3>2. LeaseFits(p)'
        BY <1>t, <2>1, <2>2, <3>1 DEF LeaseFits, HasUploaded
      <3> QED BY <1>a, <2>1, <2>2, <3>2
    <2>3. CASE WriteLease(p) /\ beating[p] /\ p \in current[Mine(p)]
               /\ since' = [since EXCEPT ![p] = 0]
      <3>1. since'[p] \in Nat /\ pc'[p] \in {"upload", "finish", "done"}
        BY <1>t, <2>1, <2>3 DEF HasUploaded
      <3>2. LeaseFits(p)'
        BY <2>1, <2>3, <3>1, LeaseOwned
      <3> QED BY <1>b, <2>1, <2>3, <3>2
    <2> QED BY <1>7, <2>2, <2>3 DEF Heartbeat, HeartbeatFails
  <1>8. ASSUME NEW p \in Process, RefreshEnds(p) PROVE LeaseIsKnown'
    <2>1. /\ ~beating'[p] /\ pc' = pc /\ pc[p] = "done" /\ UNCHANGED <<deployment, lease, current>>
          /\ \A q \in Process \ {p} : OwnUnchanged(q)
      BY <1>8, <1>t DEF RefreshEnds, Forget, OwnUnchanged
    <2>2. LeaseFits(p)'
      BY <1>t, <2>1 DEF LeaseFits, HasUploaded, Working, Mine
    <2> QED BY <1>a, <2>1, <2>2
  <1>9. ASSUME NEW p \in Process, RequestFails(p) PROVE LeaseIsKnown'
    <2>1. /\ UNCHANGED deployment /\ ~beating'[p] /\ pc'[p] = "failed"
          /\ \A q \in Process \ {p} : OwnUnchanged(q)
      BY <1>9, <1>t DEF RequestFails, Fault, Give, Forget, Goto, OwnUnchanged
    <2>2. LeaseFits(p)'
      BY <2>1, LeaseUnknown
    <2>3. CASE UNCHANGED <<lease, current>>
      BY <1>a, <2>1, <2>2, <2>3
    <2>4. CASE /\ \/ pc[p] = "claim" /\ lease[Mine(p)].owner = None
                  \/ pc[p] = "steal" /\ p \in current[Mine(p)]
               /\ WriteLease(p)
      BY <1>b, <2>1, <2>2, <2>4
    <2> QED BY <1>9, <2>3, <2>4 DEF RequestFails
  <1>10. ASSUME NEW p \in Process, Restart(p) PROVE LeaseIsKnown'
    <2>1. /\ ~beating'[p] /\ pc'[p] = "check" /\ UNCHANGED <<deployment, lease>>
          /\ \A q \in Process \ {p} : OwnUnchanged(q)
      BY <1>10, <1>t DEF Restart, Forget, Goto, OwnUnchanged
    <2>2. LeaseFits(p)'
      BY <2>1, LeaseUnknown
    <2>3. \A q \in Process \ {p} : q \in current'[Mine(q)] => q \in current[Mine(q)]
      BY <1>10, MineIsMigration DEF Restart
    <2> QED BY <1>a, <2>1, <2>2, <2>3
  <1>11. ASSUME Tick PROVE LeaseIsKnown'
    <2> SUFFICES ASSUME NEW p \in Process PROVE LeaseFits(p)'
      BY DEF LeaseIsKnown
    <2>1. /\ UNCHANGED <<deployment, current, pc, beating>> /\ Mine(p)' = Mine(p) /\ Mine(p) \in ID
          /\ HasUploaded(p)' = HasUploaded(p) /\ Working(p)' = Working(p)
      BY <1>11, MineIsMigration DEF Tick, Mine, HasUploaded, Working
    <2>2. /\ lease'[Mine(p)].owner = lease[Mine(p)].owner
          /\ lease[Mine(p)].owner # None =>
                lease'[Mine(p)].age = Older(lease[Mine(p)].age)
      BY <1>11, <2>1 DEF Tick, TypeOK
    <2>3. /\ since'[p] \in {since[p], Older(since[p])}
          /\ Working(p) => since'[p] = Older(since[p])
      BY <1>11 DEF Tick, Working
    <2>4. /\ since[p] \in 0..MaxAge /\ lease[Mine(p)].age \in 0..MaxAge
          /\ Older(since[p]) \in 0..MaxAge /\ Older(lease[Mine(p)].age) \in 0..MaxAge
          /\ since[p] <= Older(since[p]) /\ lease[Mine(p)].age <= Older(lease[Mine(p)].age)
      BY <1>t, <2>1, Ages, Clocks
    <2>5. ASSUME pc[p] = "steal", p \in current[Mine(p)]
          PROVE  SeenAge(p, lease[Mine(p)])' >= StaleAfter
      <3>1. lease[Mine(p)].owner \in Process /\ SeenAge(p, lease[Mine(p)]) >= StaleAfter
        BY <1>t, <2>1, <2>5, Clocks DEF LeaseFits
      <3>2. lease'[Mine(p)].age >= lease[Mine(p)].age /\ lease'[Mine(p)].age \in Nat
        BY <2>2, <2>4, <3>1, Clocks, Ages
      <3> QED BY <2>1, <2>2, <2>4, <3>1, <3>2, Clocks, Ages DEF SeenAge
    <2>6. ASSUME Working(p), lease[Mine(p)].owner = p
          PROVE  since'[p] >= lease'[Mine(p)].age
      <3>1. since[p] >= lease[Mine(p)].age
        BY <1>t, <2>6 DEF LeaseFits
      <3>2. Older(lease[Mine(p)].age) <= Older(since[p])
        BY <2>4, <3>1, Ages
      <3> QED BY <2>2, <2>3, <2>6, <3>2, Clocks
    <2>7. Overdue(p) => Overdue(p)'
      <3>1. ASSUME NEW q \in Process, since[p] + Ahead[q] - Ahead[p] >= StaleAfter
            PROVE  since'[p] + Ahead[q] - Ahead[p] >= StaleAfter
        <4>1. since'[p] >= since[p] /\ since'[p] \in Nat /\ since[p] \in Nat
          BY <2>3, <2>4, Ages
        <4> QED BY <3>1, <4>1, Clocks
      <3> QED BY <3>1 DEF Overdue
    <2> QED BY <1>t, <2>1, <2>2, <2>5, <2>6, <2>7 DEF LeaseFits
  <1>12. CASE UNCHANGED vars
    BY <1>12, LeaseKept DEF vars, own, OwnUnchanged, LeaseIsKnown
  <1> QED BY <1>1, <1>2, <1>3, <1>4, <1>5, <1>6, <1>7, <1>8, <1>9, <1>10, <1>11, <1>12
          DEF Next, Step

-----------------------------------------------------------------------------
(* The theorems.                                                             *)

\* The inductive invariant holds in every state the processes reach: what was
\* written stays, and who writes a lease on condition knows what it says
\* (assetmigrate.go:368, 409, upload.go:48).
THEOREM Invariance == Spec => []IndInv
  <1>1. Init => IndInv
    BY TypeInit, UploadInit, LeaseInit DEF IndInv, UploadInv
  <1>2. IndInv /\ [Next]_vars => IndInv'
    BY TypeStep, UploadStep, LeaseStep DEF IndInv, UploadInv
  <1> QED BY <1>1, <1>2, PTL DEF Spec

\* A done marker or a manifest is in the storage only with every permanent path
\* of its build, for any number of processes and builds that upload at once.
THEOREM Completeness == Spec => []UploadsAreComplete
  <1>1. IndInv => UploadsAreComplete
    BY DEF IndInv, UploadsAreComplete
  <1> QED BY <1>1, Invariance, PTL

\* Two uploads of one migration overlap only when one has not refreshed its lease
\* in time, whatever the clocks of the processes say.
THEOREM Exclusion == Spec => []LeaseExcludes
  <1>1. ASSUME IndInv, NEW p \in Process, Working(p)
        PROVE  /\ conditional
               /\ \A q \in Process \ {p} :
                     Working(q) /\ Mine(p) = Mine(q) => Overdue(p) \/ Overdue(q)
    <2>1. LeaseFits(p) /\ HasUploaded(p)
      BY <1>1 DEF IndInv, LeaseIsKnown, Working, HasUploaded
    <2>2. ASSUME NEW q \in Process \ {p}, Working(q), Mine(p) = Mine(q)
          PROVE  Overdue(p) \/ Overdue(q)
      BY <1>1, <2>1, <2>2 DEF IndInv, LeaseIsKnown, LeaseFits
    <2> QED BY <2>1, <2>2 DEF LeaseFits
  <1>2. IndInv => LeaseExcludes
    BY <1>1 DEF LeaseExcludes
  <1> QED BY <1>2, Invariance, PTL

=============================================================================
