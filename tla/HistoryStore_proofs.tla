------------------------- MODULE HistoryStore_proofs -------------------------
(* The history file and its page: nothing is truncated, lost or undone,    *)
(* for any set of transcripts and any number of recordings, snapshots and  *)
(* failures.  And the main window's sessions, for any number of acts of    *)
(* the user.                                                               *)
EXTENDS HistoryStoreInductive, MainWindow, SequenceTheorems, TLAPS

(* Versions are ordered first by the recording they are of.                *)
LEMMA VersionFacts ==
  /\ \A v \in Nat : /\ TakeOf(v) \in Nat
                    /\ TakeOf(v) = 0 <=> v = 0
                    /\ Updated(v) \in Nat /\ v <= Updated(v)
                    /\ TakeOf(Updated(v)) = TakeOf(v)
  /\ \A n \in Nat \ {0} : AsRecorded(n) \in Nat /\ TakeOf(AsRecorded(n)) = n
  /\ \A v, w \in Nat : /\ TakeOf(v) < TakeOf(w) => v < w
                       /\ v <= w => TakeOf(v) <= TakeOf(w)
BY DEF TakeOf, Updated, AsRecorded

(* Pruning yields a list, and adds nothing to one.                         *)
LEMMA PrunedShrinks ==
  ASSUME NEW h \in History, NEW k \in BOOLEAN
  PROVE  /\ Pruned(h, k) \in History
         /\ \A i \in Id : Pruned(h, k)[i] = h[i] \/ (i \in Old /\ Pruned(h, k)[i] = 0)
BY DEF Pruned, History

(* A merge is a history that prefers the first of the two.                 *)
LEMMA MergeType ==
  ASSUME NEW g \in History, NEW h \in History
  PROVE  /\ Merge(g, h) \in History
         /\ \A i \in Id : Merge(g, h)[i] = IF g[i] # 0 THEN g[i] ELSE h[i]
BY DEF Merge, History

(* The empty history is one.                                               *)
LEMMA EmptyType == Empty \in History /\ \A i \in Id : Empty[i] = 0
BY DEF Empty, History

(* What a change of a list loses, by id and recording.                     *)
LEMMA LostIs ==
  ASSUME NEW b \in History, NEW e \in History
  PROVE  /\ Lost(b, e) \subseteq Id \X (Nat \ {0})
         /\ \A i \in Id : b[i] # 0 /\ e[i] = 0 => <<i, TakeOf(b[i])>> \in Lost(b, e)
         /\ \A r \in Lost(b, e) : /\ r[1] \in Id /\ b[r[1]] # 0 /\ e[r[1]] = 0
                                  /\ r[2] = TakeOf(b[r[1]])
<1>1. \A i \in Id : b[i] \in Nat
  BY DEF History
<1>2. \A i \in Present(b) \ Present(e) :
        i \in Id /\ b[i] # 0 /\ e[i] = 0 /\ TakeOf(b[i]) \in Nat \ {0}
  BY <1>1, VersionFacts DEF Present
<1>3. \A i \in Id : b[i] # 0 /\ e[i] = 0 => i \in Present(b) \ Present(e)
  BY DEF Present
<1> QED BY <1>2, <1>3 DEF Lost

(* save_history, whatever list b it was called over: what it leaves keeps  *)
(* what b kept, if the new list h has every entry of b in this version, a  *)
(* later one or not at all, and what else it has is newly recorded.        *)
LEMMA SaveKeeps ==
  ASSUME TypeOK, SnapshotsNumbered, Made,
         NEW b \in History, NEW h \in History,
         NEW l \in BOOLEAN, NEW p \in BOOLEAN, NEW k \in BOOLEAN,
         SaveHistory(h, l, p, k),
         removed' = removed \cup Lost(b, entries'),
         loaded' = l, UNCHANGED <<file, savedSeq, appends>>, appends = {},
         recorded' \in [Id -> Nat], Present(recorded') \subseteq Fresh,
         \A i \in Id : recorded[i] <= recorded'[i],
         \A i \in Id : h[i] # 0 => \/ b[i] # 0 /\ b[i] <= h[i]
                                   \/ i \in Fresh /\ recorded[i] < TakeOf(h[i]),
         \A i \in Fresh : TakeOf(b[i]) <= recorded[i] /\ TakeOf(h[i]) <= recorded'[i],
         ~l => snapshots = {},
         ~l => \A i \in Id : b[i] # 0 => TakeOf(file[i]) < TakeOf(b[i]),
         l => Keeps(file, b),
         \A s \in snapshots : savedSeq < s.seq => Keeps(file, s.entries),
         \A s \in snapshots : Keeps(s.entries, b),
         \A s, t \in snapshots : s.seq < t.seq => Keeps(s.entries, t.entries)
  PROVE  /\ entries' \in History /\ savePending' \in BOOLEAN
         /\ saveSeq' \in Nat /\ snapshots' \in SUBSET Snapshot
         /\ removed' \in SUBSET (Id \X (Nat \ {0}))
         /\ SnapshotsNumbered' /\ Made' /\ Covered'
         /\ ~l => snapshots' = {}
<1>1. /\ entries' \in History
      /\ \A i \in Id : entries'[i] = h[i] \/ entries'[i] = 0
  BY PrunedShrinks DEF SaveHistory
<1> DEFINE lost == Lost(b, entries')
<1>2. /\ lost \subseteq Id \X (Nat \ {0})
      /\ \A i \in Id : b[i] # 0 /\ entries'[i] = 0 => <<i, TakeOf(b[i])>> \in lost
      /\ \A r \in lost : r[1] \in Id /\ b[r[1]] # 0 /\ entries'[r[1]] = 0
                         /\ r[2] = TakeOf(b[r[1]])
  BY <1>1, LostIs
<1>3. removed' = removed \cup lost
  OBVIOUS
<1> HIDE DEF lost
<1>4. /\ file \in History /\ \A s \in snapshots : s.entries \in History /\ s.seq \in Nat
      /\ recorded \in [Id -> Nat] /\ Fresh \subseteq Id /\ removed \subseteq Id \X (Nat \ {0})
      /\ saveSeq \in Nat /\ savedSeq \in Nat
  BY HistoryAssumption DEF TypeOK, Snapshot
<1>5. savePending' \in BOOLEAN /\ saveSeq' \in Nat /\ removed' \in SUBSET (Id \X (Nat \ {0}))
  <2>1. savePending' \in {TRUE, p} /\ saveSeq' \in {saveSeq, saveSeq + 1}
    BY DEF SaveHistory
  <2>2. removed' \in SUBSET (Id \X (Nat \ {0}))
    BY <1>2, <1>3, <1>4
  <2>3. saveSeq' \in Nat
    BY <1>4, <2>1
  <2>4. savePending' \in BOOLEAN
    BY <2>1, Zenon
  <2> QED BY <2>2, <2>3, <2>4
<1>6. ASSUME NEW g \in History, \A i \in Fresh : TakeOf(g[i]) <= recorded[i]
      PROVE  \A i \in Fresh : TakeOf(g[i]) <= recorded'[i]
  <2>1. \A i \in Fresh : TakeOf(g[i]) \in Nat /\ recorded[i] \in Nat /\ recorded'[i] \in Nat
    BY <1>4, VersionFacts DEF History
  <2> QED BY <1>4, <1>6, <2>1
<1>7. \A i \in Fresh : TakeOf(entries'[i]) <= recorded'[i]
  <2> SUFFICES ASSUME NEW i \in Fresh PROVE TakeOf(entries'[i]) <= recorded'[i]
    OBVIOUS
  <2>1. i \in Id /\ recorded'[i] \in Nat /\ TakeOf(0) = 0
    BY <1>4, VersionFacts
  <2> QED BY <1>1, <2>1
<1>8. \A r \in removed' : r[1] \in Fresh => r[2] <= recorded'[r[1]]
  <2> SUFFICES ASSUME NEW r \in removed', r[1] \in Fresh PROVE r[2] <= recorded'[r[1]]
    OBVIOUS
  <2>1. recorded[r[1]] \in Nat /\ recorded'[r[1]] \in Nat /\ r[2] \in Nat
        /\ recorded[r[1]] <= recorded'[r[1]]
    BY <1>4, <1>5
  <2>2. r[2] <= recorded[r[1]]
    <3>1. CASE r \in removed
      BY <3>1 DEF Made
    <3>2. CASE r \in lost
      BY <1>2, <3>2
    <3> QED BY <1>3, <3>1, <3>2
  <2> QED BY <2>1, <2>2
<1>9. CASE ~l
  <2>1. snapshots' = {} /\ ~loaded' /\ entries' = h
    BY <1>9 DEF SaveHistory
  <2>2. MadeBy(file)' /\ MadeBy(entries)'
    BY <1>4, <1>6, <1>7 DEF Made, MadeBy
  <2>3. Made'
    BY <1>8, <2>1, <2>2 DEF Made
  <2>4. ASSUME NEW i \in Id, h[i] # 0 PROVE TakeOf(file[i]) < TakeOf(h[i])
    <3>1. file[i] \in Nat /\ b[i] \in Nat /\ h[i] \in Nat /\ recorded[i] \in Nat
      BY <1>4 DEF History
    <3>2. TakeOf(file[i]) \in Nat /\ TakeOf(b[i]) \in Nat /\ TakeOf(h[i]) \in Nat
      BY <3>1, VersionFacts
    <3>3. CASE b[i] # 0 /\ b[i] <= h[i]
      <4>1. TakeOf(b[i]) <= TakeOf(h[i])
        BY <3>1, <3>3, VersionFacts
      <4> QED BY <1>9, <3>2, <3>3, <4>1
    <3>4. CASE i \in Fresh /\ recorded[i] < TakeOf(h[i])
      <4>1. TakeOf(file[i]) <= recorded[i]
        BY <3>4 DEF Made, MadeBy
      <4> QED BY <3>1, <3>2, <3>4, <4>1
    <3> QED BY <2>4, <3>3, <3>4
  <2>5. Covered' /\ SnapshotsNumbered'
    BY <2>1, <2>4 DEF SnapshotsNumbered, Covered
  <2> QED BY <1>1, <1>5, <2>1, <2>3, <2>5
<1>10. CASE l
  <2> DEFINE new == [seq |-> saveSeq + 1, entries |-> entries']
  <2>1. snapshots' = snapshots \cup {new} /\ saveSeq' = saveSeq + 1
    BY <1>10 DEF SaveHistory
  <2>2. new \in Snapshot /\ new.seq = saveSeq + 1 /\ new.entries = entries'
    BY <1>1, <1>4 DEF Snapshot
  <2>3. snapshots' \in SUBSET Snapshot
    BY <2>1, <2>2 DEF TypeOK
  <2> HIDE DEF new
  <2>4. \A s \in snapshots : s.seq \in Nat /\ s.seq <= saveSeq
    BY <1>4 DEF SnapshotsNumbered
  <2>5. SnapshotsNumbered'
    BY <1>4, <2>1, <2>2, <2>4 DEF SnapshotsNumbered
  <2>6. ASSUME NEW g \in History, Keeps(g, b), \A i \in Fresh : TakeOf(g[i]) <= recorded[i],
               NEW i \in Id, g[i] # 0
        PROVE  IF entries'[i] # 0 THEN g[i] <= entries'[i]
               ELSE RemovedSince(i, TakeOf(g[i]), removed')
    <3>1. g[i] \in Nat /\ b[i] \in Nat /\ h[i] \in Nat /\ recorded[i] \in Nat
      BY <1>4 DEF History
    <3>2. TakeOf(g[i]) \in Nat /\ TakeOf(b[i]) \in Nat /\ TakeOf(h[i]) \in Nat
      BY <3>1, VersionFacts
    <3>3. IF b[i] # 0 THEN g[i] <= b[i] ELSE RemovedSince(i, TakeOf(g[i]), removed)
      BY <2>6 DEF Keeps
    <3>4. CASE entries'[i] # 0
      <4>1. entries'[i] = h[i] /\ h[i] # 0
        BY <1>1, <3>4
      <4>2. CASE b[i] # 0 /\ b[i] <= h[i]
        <5>1. g[i] <= h[i]
          BY <3>1, <3>3, <4>2
        <5> QED BY <3>4, <4>1, <5>1
      <4>3. CASE i \in Fresh /\ recorded[i] < TakeOf(h[i])
        <5>1. TakeOf(g[i]) < TakeOf(h[i])
          BY <2>6, <3>1, <3>2, <4>3
        <5>2. g[i] < h[i]
          BY <3>1, <5>1, VersionFacts
        <5>3. g[i] <= h[i]
          BY <3>1, <5>2
        <5> QED BY <3>4, <4>1, <5>3
      <4> QED BY <4>1, <4>2, <4>3
    <3>5. CASE entries'[i] = 0
      <4>1. CASE b[i] # 0
        <5>1. <<i, TakeOf(b[i])>> \in removed'
          BY <1>2, <1>3, <3>5, <4>1
        <5>2. TakeOf(g[i]) <= TakeOf(b[i])
          BY <3>1, <3>3, <4>1, VersionFacts
        <5> QED BY <3>5, <5>1, <5>2 DEF RemovedSince
      <4>2. CASE b[i] = 0
        BY <1>3, <3>3, <3>5, <4>2 DEF RemovedSince
      <4> QED BY <4>1, <4>2
    <3> QED BY <3>4, <3>5
  <2>7. \A i \in Id : file[i] # 0 => IF entries'[i] # 0 THEN file[i] <= entries'[i]
                                     ELSE RemovedSince(i, TakeOf(file[i]), removed')
    BY <1>4, <1>10, <2>6 DEF Made, MadeBy
  <2>8. \A s \in snapshots : \A i \in Id : s.entries[i] # 0 =>
          IF entries'[i] # 0 THEN s.entries[i] <= entries'[i]
          ELSE RemovedSince(i, TakeOf(s.entries[i]), removed')
    BY <1>4, <2>6 DEF Made, MadeBy
  <2>9. ASSUME NEW g, NEW e, Keeps(g, e)
        PROVE  \A i \in Id : g[i] # 0 => IF e[i] # 0 THEN g[i] <= e[i]
                                         ELSE RemovedSince(i, TakeOf(g[i]), removed')
    BY <1>3, <2>9 DEF Keeps, RemovedSince
  <2>10. (loaded => Keeps(file, entries))'
    BY <2>7 DEF Keeps
  <2>11. (\A s \in snapshots : savedSeq < s.seq => Keeps(file, s.entries))'
    <3> SUFFICES ASSUME NEW s \in snapshots', savedSeq < s.seq
                 PROVE  \A i \in Id : file[i] # 0 =>
                          IF s.entries[i] # 0 THEN file[i] <= s.entries[i]
                          ELSE RemovedSince(i, TakeOf(file[i]), removed')
      BY DEF Keeps
    <3>1. CASE s \in snapshots
      BY <2>9, <3>1
    <3>2. CASE s = new
      BY <2>2, <2>7, <3>2
    <3> QED BY <2>1, <3>1, <3>2
  <2>12. (\A s \in snapshots : Keeps(s.entries, entries))'
    <3> SUFFICES ASSUME NEW s \in snapshots', NEW i \in Id, s.entries[i] # 0
                 PROVE  IF entries'[i] # 0 THEN s.entries[i] <= entries'[i]
                        ELSE RemovedSince(i, TakeOf(s.entries[i]), removed')
      BY DEF Keeps
    <3>1. CASE s \in snapshots
      BY <2>8, <3>1
    <3>2. CASE s = new
      BY <1>1, <2>2, <3>2 DEF History
    <3> QED BY <2>1, <3>1, <3>2
  <2>13. (\A s, t \in snapshots : s.seq < t.seq => Keeps(s.entries, t.entries))'
    <3> SUFFICES ASSUME NEW s \in snapshots', NEW t \in snapshots', s.seq < t.seq
                 PROVE  \A i \in Id : s.entries[i] # 0 =>
                          IF t.entries[i] # 0 THEN s.entries[i] <= t.entries[i]
                          ELSE RemovedSince(i, TakeOf(s.entries[i]), removed')
      BY DEF Keeps
    <3>1. s # new
      BY <1>4, <2>1, <2>2, <2>4
    <3>2. CASE t \in snapshots
      BY <2>1, <2>9, <3>1, <3>2
    <3>3. CASE t = new
      BY <2>1, <2>2, <2>8, <3>1, <3>3
    <3> QED BY <2>1, <3>2, <3>3
  <2>14. Covered'
    BY <1>10, <2>10, <2>11, <2>12, <2>13 DEF Covered
  <2>15. Made'
    <3>1. MadeBy(file)' /\ MadeBy(entries)'
      BY <1>4, <1>6, <1>7 DEF Made, MadeBy
    <3>2. (\A s \in snapshots : MadeBy(s.entries))'
      <4> SUFFICES ASSUME NEW s \in snapshots'
                   PROVE  \A i \in Fresh : TakeOf(s.entries[i]) <= recorded'[i]
        BY DEF MadeBy
      <4>1. CASE s \in snapshots
        BY <1>4, <1>6, <4>1 DEF Made, MadeBy
      <4>2. CASE s = new
        BY <1>7, <2>2, <4>2
      <4> QED BY <2>1, <4>1, <4>2
    <3> QED BY <1>8, <3>1, <3>2 DEF Made
  <2> QED BY <1>1, <1>5, <1>10, <2>3, <2>5, <2>14, <2>15
<1> QED BY <1>9, <1>10

(* At the start there is no thread, no window and nothing removed.         *)
LEMMA InitHolds == Init => HistoryInv
<1> SUFFICES ASSUME Init PROVE HistoryInv
  OBVIOUS
<1>1. file \in History /\ Fresh \subseteq Id /\ \A i \in Fresh : file[i] = 0
  <2>1. Updated(AsRecorded(1)) \in Nat
    BY VersionFacts
  <2> QED BY <2>1, HistoryAssumption DEF Init, History, Present
<1>2. TypeOK
  BY <1>1, EmptyType DEF Init, TypeOK, History
<1>3. Made
  BY <1>1, EmptyType, VersionFacts DEF Init, Made, MadeBy, Present
<1>4. OneWriter /\ LoadIsCurrent /\ SnapshotsNumbered /\ Covered
  BY EmptyType DEF Init, OneWriter, LoadIsCurrent, SnapshotsNumbered, Covered
<1> QED BY <1>2, <1>3, <1>4 DEF HistoryInv

(* What the calls of the page put into its list: what was there, in this   *)
(* version or a later one of the recording, or a new recording.            *)
Edits(h) ==
  \A i \in Id :
    /\ h[i] # 0 => \/ entries[i] # 0 /\ entries[i] <= h[i] /\ TakeOf(entries[i]) = TakeOf(h[i])
                   \/ i \in Fresh /\ recorded[i] < TakeOf(h[i]) /\ TakeOf(h[i]) = recorded'[i]
    /\ recorded'[i] = recorded[i] \/ (i \in Fresh /\ TakeOf(h[i]) = recorded'[i])
    /\ recorded[i] <= recorded'[i]

(* The calls of the page that change its list and save it.                 *)
LEMMA EditKeeps ==
  ASSUME HistoryInv, NEW h \in History, NEW k \in BOOLEAN, Edits(h),
         SaveHistory(h, loaded, savePending, k),
         removed' = removed \cup Lost(entries, entries'),
         window, window' = window, loaded' = loaded, load' = load,
         UNCHANGED <<file, savedSeq, appends, updates, quit, failures>>,
         clears' \in Nat, ~loaded => clears' = clears,
         retention' \in BOOLEAN, recorded' \in [Id -> Nat], asked' \in [Id -> Nat]
  PROVE  HistoryInv'
<1>1. /\ TypeOK /\ SnapshotsNumbered /\ Made /\ Covered /\ OneWriter /\ appends = {}
      /\ entries \in History /\ loaded \in BOOLEAN /\ savePending \in BOOLEAN
      /\ ~loaded => snapshots = {}
  BY DEF HistoryInv, TypeOK, OneWriter
<1>2. Fresh \subseteq Id /\ recorded \in [Id -> Nat] /\ TakeOf(0) = 0
      /\ \A i \in Id : entries[i] \in Nat /\ TakeOf(entries[i]) \in Nat
                       /\ h[i] \in Nat /\ TakeOf(h[i]) \in Nat
  BY <1>1, HistoryAssumption, VersionFacts DEF TypeOK, History
<1>3. \A i \in Fresh : TakeOf(entries[i]) <= recorded[i] /\ TakeOf(h[i]) <= recorded'[i]
  <2> SUFFICES ASSUME NEW i \in Fresh
               PROVE  TakeOf(entries[i]) <= recorded[i] /\ TakeOf(h[i]) <= recorded'[i]
    OBVIOUS
  <2>1. i \in Id /\ recorded[i] \in Nat /\ recorded'[i] \in Nat /\ recorded[i] <= recorded'[i]
    BY <1>2 DEF Edits
  <2>2. TakeOf(entries[i]) <= recorded[i]
    BY <1>1 DEF Made, MadeBy
  <2>3. h[i] = 0 \/ TakeOf(h[i]) = TakeOf(entries[i]) \/ TakeOf(h[i]) = recorded'[i]
    BY <2>1 DEF Edits
  <2> QED BY <1>2, <2>1, <2>2, <2>3
<1>4. /\ \A i \in Id : recorded[i] <= recorded'[i]
      /\ \A i \in Id : h[i] # 0 => \/ entries[i] # 0 /\ entries[i] <= h[i]
                                   \/ i \in Fresh /\ recorded[i] < TakeOf(h[i])
  BY DEF Edits
<1>5. Present(recorded') \subseteq Fresh
  <2>1. \A i \in Id : recorded[i] # 0 => i \in Fresh
    BY <1>1 DEF Made, Present
  <2> QED BY <2>1 DEF Present, Edits
<1>6. /\ loaded => Keeps(file, entries)
      /\ ~loaded => \A i \in Id : entries[i] # 0 => TakeOf(file[i]) < TakeOf(entries[i])
      /\ \A s \in snapshots : savedSeq < s.seq => Keeps(file, s.entries)
      /\ \A s \in snapshots : Keeps(s.entries, entries)
      /\ \A s, t \in snapshots : s.seq < t.seq => Keeps(s.entries, t.entries)
  BY <1>1 DEF Covered
<1>7. /\ entries' \in History /\ savePending' \in BOOLEAN
      /\ saveSeq' \in Nat /\ snapshots' \in SUBSET Snapshot
      /\ removed' \in SUBSET (Id \X (Nat \ {0}))
      /\ SnapshotsNumbered' /\ Made' /\ Covered'
      /\ ~loaded => snapshots' = {}
  BY <1>1, <1>3, <1>4, <1>5, <1>6, SaveKeeps
<1>8. TypeOK'
  BY <1>1, <1>7 DEF TypeOK
<1>9. OneWriter'
  BY <1>1, <1>7 DEF OneWriter
<1>10. LoadIsCurrent'
  BY DEF HistoryInv, LoadIsCurrent
<1> QED BY <1>7, <1>8, <1>9, <1>10 DEF HistoryInv

(* A transcript is recorded, for the first time or again.                  *)
LEMMA AddEdits ==
  ASSUME HistoryInv, NEW i \in Id, AddEntry(i),
         NEW h, h = [entries EXCEPT ![i] = AsRecorded(recorded'[i])]
  PROVE  /\ h \in History /\ Edits(h) /\ recorded' \in [Id -> Nat]
         /\ i \in Fresh /\ recorded'[i] = recorded[i] + 1
         /\ \A j \in Id : j # i => recorded'[j] = recorded[j]
<1>1. i \in Fresh /\ recorded' = [recorded EXCEPT ![i] = @ + 1]
      /\ recorded \in [Id -> Nat] /\ entries \in History
  BY DEF AddEntry, HistoryInv, TypeOK
<1>2. recorded'[i] = recorded[i] + 1 /\ recorded' \in [Id -> Nat]
      /\ \A j \in Id : j # i => recorded'[j] = recorded[j]
  BY <1>1
<1>3. AsRecorded(recorded'[i]) \in Nat /\ TakeOf(AsRecorded(recorded'[i])) = recorded'[i]
  <2>1. recorded'[i] \in Nat \ {0}
    BY <1>1, <1>2
  <2> QED BY <2>1, VersionFacts
<1>4. h \in History /\ h[i] = AsRecorded(recorded'[i])
      /\ \A j \in Id : j # i => h[j] = entries[j]
  BY <1>1, <1>3 DEF History
<1>5. \A j \in Id : recorded[j] \in Nat /\ entries[j] \in Nat
  BY <1>1 DEF History
<1> QED BY <1>1, <1>2, <1>3, <1>4, <1>5 DEF Edits

LEMMA AddKeeps ==
  HistoryInv /\ (\E i \in Id : AddEntry(i) /\ ~Appending(i)) => HistoryInv'
<1> SUFFICES ASSUME HistoryInv, NEW i \in Id, AddEntry(i), ~Appending(i)
             PROVE  HistoryInv'
  OBVIOUS
<1> DEFINE h == [entries EXCEPT ![i] = AsRecorded(recorded'[i])]
<1>1. /\ h \in History /\ Edits(h) /\ recorded' \in [Id -> Nat]
      /\ i \in Fresh /\ recorded'[i] = recorded[i] + 1
      /\ \A j \in Id : j # i => recorded'[j] = recorded[j]
  BY AddEdits
<1>2. asked' \in [Id -> Nat] /\ clears' \in Nat /\ retention \in BOOLEAN /\ retention' \in BOOLEAN
      /\ UNCHANGED <<file, window, loaded, load, clears, retention, savedSeq, updates, quit,
                     asked, failures>>
  BY DEF AddEntry, HistoryInv, TypeOK, loading
<1>3. CASE window
  <2>1. SaveHistory(h, loaded, savePending, retention)
        /\ removed' = removed \cup Lost(entries, entries') /\ UNCHANGED appends
    BY <1>3 DEF AddEntry
  <2> HIDE DEF h
  <2> QED BY <1>1, <1>2, <1>3, <2>1, EditKeeps
<1>4. CASE ~window
  <2>1. /\ appends' = appends \cup {<<i, recorded'[i]>>}
        /\ UNCHANGED <<entries, savePending, saveSeq, snapshots, removed>>
    BY <1>4 DEF AddEntry, saving
  <2>2. recorded \in [Id -> Nat] /\ recorded'[i] \in Nat \ {0} /\ Fresh \subseteq Id
        /\ \A j \in Id : recorded[j] <= recorded'[j] /\ recorded[j] \in Nat
    BY <1>1, HistoryAssumption DEF HistoryInv, TypeOK
  <2>3. TypeOK'
    BY <1>1, <1>2, <2>1, <2>2 DEF HistoryInv, TypeOK
  <2>4. OneWriter' /\ LoadIsCurrent' /\ SnapshotsNumbered' /\ Covered'
    BY <1>2, <1>4, <2>1 DEF HistoryInv, OneWriter, LoadIsCurrent, SnapshotsNumbered,
       Covered, Keeps
  <2>5. Made'
    <3>1. Made /\ snapshots = {} /\ file \in History /\ entries \in History
          /\ removed \subseteq Id \X (Nat \ {0}) /\ appends \subseteq Fresh \X (Nat \ {0})
      BY <1>4 DEF HistoryInv, OneWriter, TypeOK
    <3>2. Present(recorded') \subseteq Fresh
      <4>1. \A j \in Id : recorded[j] # 0 => j \in Fresh
        BY <3>1 DEF Made, Present
      <4> QED BY <1>1, <4>1 DEF Present
    <3>3. \A j \in Fresh : /\ TakeOf(file[j]) \in Nat /\ TakeOf(file[j]) <= recorded[j]
                           /\ TakeOf(entries[j]) \in Nat /\ TakeOf(entries[j]) <= recorded[j]
      BY <2>2, <3>1, VersionFacts DEF Made, MadeBy, History
    <3>4. MadeBy(file)' /\ MadeBy(entries)'
      <4> SUFFICES ASSUME NEW j \in Fresh
                   PROVE  TakeOf(file[j]) <= recorded'[j] /\ TakeOf(entries[j]) <= recorded'[j]
        BY <1>2, <2>1 DEF MadeBy
      <4>1. recorded[j] \in Nat /\ recorded'[j] \in Nat /\ recorded[j] <= recorded'[j]
        BY <1>1, <2>2
      <4> QED BY <3>3, <4>1
    <3>5. \A t \in appends' : t[2] = recorded'[t[1]]
      <4>1. \A t \in appends : t[1] # i /\ t[1] \in Id /\ t[2] = recorded[t[1]]
        BY <2>2, <3>1 DEF Made, Appending
      <4> QED BY <1>1, <2>1, <4>1
    <3>6. \A r \in removed' : r[1] \in Fresh => r[2] <= recorded'[r[1]]
      <4> SUFFICES ASSUME NEW r \in removed, r[1] \in Fresh PROVE r[2] <= recorded'[r[1]]
        BY <2>1
      <4>1. r[2] <= recorded[r[1]] /\ r[2] \in Nat /\ recorded[r[1]] \in Nat
            /\ recorded'[r[1]] \in Nat /\ recorded[r[1]] <= recorded'[r[1]]
        BY <1>1, <2>2, <3>1 DEF Made
      <4> QED BY <4>1
    <3> QED BY <2>1, <3>1, <3>2, <3>4, <3>5, <3>6 DEF Made
  <2> QED BY <2>3, <2>4, <2>5 DEF HistoryInv
<1> QED BY <1>3, <1>4

(* A title or polished text comes back, for the entry as it is now.        *)
LEMMA UpdateEdits ==
  ASSUME HistoryInv, NEW i \in Id, entries[i] # 0, UNCHANGED recorded,
         NEW h, h = [entries EXCEPT ![i] = Updated(@)]
  PROVE  h \in History /\ Edits(h)
<1>1. entries \in History /\ recorded \in [Id -> Nat]
  BY DEF HistoryInv, TypeOK
<1>2. /\ Updated(entries[i]) \in Nat /\ entries[i] <= Updated(entries[i])
      /\ TakeOf(Updated(entries[i])) = TakeOf(entries[i])
  BY <1>1, VersionFacts DEF History
<1>3. h \in History /\ h[i] = Updated(entries[i])
      /\ \A j \in Id : j # i => h[j] = entries[j]
  BY <1>1, <1>2 DEF History
<1>4. \A j \in Id : recorded[j] \in Nat /\ entries[j] \in Nat
  BY <1>1 DEF History
<1> QED BY <1>2, <1>3, <1>4 DEF Edits

LEMMA UpdateKeeps == HistoryInv /\ (\E i \in Id : UpdateEntry(i)) => HistoryInv'
<1> SUFFICES ASSUME HistoryInv, NEW i \in Id, UpdateEntry(i) PROVE HistoryInv'
  OBVIOUS
<1>1. asked' \in [Id -> Nat] /\ asked'[i] \in Nat /\ recorded' = recorded
      /\ recorded' \in [Id -> Nat] /\ clears' \in Nat /\ retention \in BOOLEAN
      /\ retention' \in BOOLEAN
      /\ UNCHANGED <<file, window, loaded, load, clears, retention, savedSeq, appends, quit,
                     failures>>
  <2>1. asked \in [Id -> Nat] /\ asked' = [asked EXCEPT ![i] = @ + 1]
    BY DEF UpdateEntry, HistoryInv, TypeOK
  <2>2. asked' \in [Id -> Nat] /\ asked'[i] \in Nat
    BY <2>1
  <2> QED BY <2>2 DEF UpdateEntry, HistoryInv, TypeOK, loading
<1>2. CASE window /\ entries[i] # 0
  <2> DEFINE h == [entries EXCEPT ![i] = Updated(@)]
  <2>1. h \in History /\ Edits(h)
    BY <1>1, <1>2, UpdateEdits
  <2>2. SaveHistory(h, loaded, savePending, retention)
        /\ removed' = removed \cup Lost(entries, entries') /\ updates' = updates
    BY <1>2 DEF UpdateEntry
  <2> HIDE DEF h
  <2> QED BY <1>1, <1>2, <2>1, <2>2, EditKeeps
<1>3. CASE ~(window /\ entries[i] # 0)
  <2>1. UNCHANGED <<entries, savePending, saveSeq, snapshots, removed>>
        /\ updates' \in SUBSET (Id \X Nat) /\ (window => updates' = updates)
    BY <1>1, <1>3 DEF UpdateEntry, HistoryInv, TypeOK, saving
  <2>2. TypeOK' /\ OneWriter' /\ LoadIsCurrent'
    BY <1>1, <2>1 DEF HistoryInv, TypeOK, OneWriter, LoadIsCurrent
  <2>3. SnapshotsNumbered' /\ Made' /\ Covered'
    BY <1>1, <2>1 DEF HistoryInv, SnapshotsNumbered, Covered, Keeps, Made, MadeBy
  <2> QED BY <2>2, <2>3 DEF HistoryInv
<1> QED BY <1>2, <1>3

(* A list of some of the page's entries is one a call may leave.           *)
LEMMA FewerEdits ==
  ASSUME HistoryInv, UNCHANGED recorded, NEW h \in History,
         \A i \in Id : h[i] = entries[i] \/ h[i] = 0
  PROVE  Edits(h)
<1>1. \A i \in Id : recorded[i] \in Nat /\ entries[i] \in Nat
  BY DEF HistoryInv, TypeOK, History
<1> QED BY <1>1 DEF Edits

(* The user deletes an entry.                                              *)
LEMMA DeleteKeeps == HistoryInv /\ (\E i \in Id : Delete(i)) => HistoryInv'
<1> SUFFICES ASSUME HistoryInv, NEW i \in Id, Delete(i) PROVE HistoryInv'
  OBVIOUS
<1> DEFINE h == [entries EXCEPT ![i] = 0]
<1>1. h \in History /\ \A j \in Id : h[j] = entries[j] \/ h[j] = 0
  BY DEF HistoryInv, TypeOK, History
<1>2. SaveHistory(h, loaded, savePending, retention)
  BY DEF Delete
<1>3. recorded' \in [Id -> Nat] /\ asked' \in [Id -> Nat] /\ clears' \in Nat
      /\ retention \in BOOLEAN /\ retention' \in BOOLEAN
  BY DEF Delete, HistoryInv, TypeOK
<1> HIDE DEF h
<1>4. Edits(h)
  BY <1>1, FewerEdits DEF Delete
<1> QED BY <1>1, <1>2, <1>3, <1>4, EditKeeps DEF Delete, loading, headless

(* The user clears the history.                                            *)
LEMMA ClearKeeps == HistoryInv /\ Clear => HistoryInv'
<1> SUFFICES ASSUME HistoryInv, Clear PROVE HistoryInv'
  OBVIOUS
<1>1. recorded' \in [Id -> Nat] /\ asked' \in [Id -> Nat] /\ clears' \in Nat
      /\ retention \in BOOLEAN /\ retention' \in BOOLEAN
  BY DEF Clear, HistoryInv, TypeOK, NextGeneration
<1>2. Edits(Empty)
  BY EmptyType, FewerEdits DEF Clear
<1> QED BY <1>1, <1>2, EmptyType, EditKeeps DEF Clear, loading, headless

(* The user changes the retention.                                         *)
LEMMA RetentionKeeps ==
  HistoryInv /\ (\E k \in BOOLEAN : ChooseRetention(k)) => HistoryInv'
<1> SUFFICES ASSUME HistoryInv, NEW k \in BOOLEAN, ChooseRetention(k)
             PROVE  HistoryInv'
  OBVIOUS
<1>1. recorded' \in [Id -> Nat] /\ asked' \in [Id -> Nat] /\ clears' \in Nat
      /\ retention' \in BOOLEAN /\ entries \in History
  BY DEF ChooseRetention, HistoryInv, TypeOK
<1>2. Edits(entries)
  BY <1>1, FewerEdits DEF ChooseRetention
<1> QED BY <1>1, <1>2, EditKeeps DEF ChooseRetention, loading, headless

(* What the file held when it was read is covered by the merged list.      *)
LEMMA FinishKeeps == HistoryInv /\ FinishLoad => HistoryInv'
<1> SUFFICES ASSUME HistoryInv, FinishLoad PROVE HistoryInv'
  OBVIOUS
<1>1. load \in Load /\ load.read \in History /\ ~loaded /\ snapshots = {}
      /\ window /\ appends = {}
  BY DEF FinishLoad, HistoryInv, TypeOK, LoadIsCurrent, OneWriter, Load
<1>2. UNCHANGED <<file, savedSeq, window, appends, updates, clears, retention, quit,
                  recorded, asked, failures>>
      /\ load' = None
  BY DEF FinishLoad, headless
<1>3. CASE load.phase = "error"
  <2>1. UNCHANGED <<loaded, entries, savePending, saveSeq, snapshots, removed>>
    BY <1>3 DEF FinishLoad, saving
  <2>2. TypeOK' /\ OneWriter' /\ LoadIsCurrent' /\ SnapshotsNumbered'
    BY <1>1, <1>2, <2>1 DEF HistoryInv, TypeOK, OneWriter, LoadIsCurrent, SnapshotsNumbered
  <2>3. Made' /\ Covered'
    BY <1>1, <1>2, <2>1 DEF HistoryInv, Covered, Keeps, Made, MadeBy
  <2> QED BY <2>2, <2>3 DEF HistoryInv
<1>4. CASE load.phase # "error"
  <2> DEFINE merged == Merge(entries, load.read)
  <2>1. load.read = file /\ clears = load.clears
    BY <1>1, <1>4 DEF FinishLoad, HistoryInv, LoadIsCurrent, Load
  <2>2. /\ merged \in History
        /\ \A i \in Id : merged[i] = IF entries[i] # 0 THEN entries[i] ELSE file[i]
    BY <1>1, <2>1, MergeType DEF HistoryInv, TypeOK
  <2>3. /\ loaded' = TRUE /\ AfterLoad(merged, savePending)
        /\ removed' = removed \cup Lost(merged, entries')
    BY <1>4, <2>1 DEF FinishLoad
  <2> HIDE DEF merged
  <2>4. /\ TypeOK /\ SnapshotsNumbered /\ Made /\ retention \in BOOLEAN
        /\ recorded \in [Id -> Nat] /\ Fresh \subseteq Id /\ Present(recorded) \subseteq Fresh
        /\ file \in History /\ entries \in History
    BY HistoryAssumption DEF HistoryInv, TypeOK, Made
  <2>5. Keeps(file, merged)
    <3> SUFFICES ASSUME NEW i \in Id, file[i] # 0 PROVE merged[i] # 0 /\ file[i] <= merged[i]
      BY DEF Keeps
    <3>1. file[i] \in Nat /\ entries[i] \in Nat
      BY <2>4 DEF History
    <3>2. entries[i] # 0 => file[i] < entries[i]
      <4>1. entries[i] # 0 => TakeOf(file[i]) < TakeOf(entries[i])
        BY <1>1 DEF HistoryInv, Covered
      <4> QED BY <3>1, <4>1, VersionFacts
    <3> QED BY <2>2, <3>1, <3>2
  <2>6. \A i \in Fresh : TakeOf(merged[i]) <= recorded[i]
    BY <2>2, <2>4 DEF Made, MadeBy
  <2>7. \A i \in Id : recorded[i] \in Nat /\ merged[i] \in Nat
    BY <2>2, <2>4 DEF History
  <2>8. /\ entries' \in History /\ savePending' \in BOOLEAN
        /\ saveSeq' \in Nat /\ snapshots' \in SUBSET Snapshot
        /\ removed' \in SUBSET (Id \X (Nat \ {0}))
        /\ SnapshotsNumbered' /\ Made' /\ Covered'
    <3>1. CASE SaveHistory(merged, TRUE, FALSE, retention)
      <4>1. /\ recorded' = recorded /\ UNCHANGED <<file, savedSeq, appends>> /\ appends = {}
            /\ recorded' \in [Id -> Nat] /\ Present(recorded') \subseteq Fresh
        <5>1. recorded' = recorded
          BY <1>2
        <5> QED BY <1>1, <1>2, <2>4, <5>1
      <4>2. \A i \in Id : recorded[i] <= recorded'[i]
        BY ONLY <2>7, <4>1
      <4>3. \A i \in Id : merged[i] # 0 =>
              \/ merged[i] # 0 /\ merged[i] <= merged[i]
              \/ i \in Fresh /\ recorded[i] < TakeOf(merged[i])
        <5>1. \A i \in Id : merged[i] <= merged[i]
          BY ONLY <2>7
        <5> QED BY ONLY <5>1, Zenon
      <4>4. \A i \in Fresh : TakeOf(merged[i]) <= recorded[i] /\ TakeOf(merged[i]) <= recorded'[i]
        BY ONLY <2>6, <4>1
      <4>5. /\ \A s \in snapshots : savedSeq < s.seq => Keeps(file, s.entries)
            /\ \A s \in snapshots : Keeps(s.entries, merged)
            /\ \A s, t \in snapshots : s.seq < t.seq => Keeps(s.entries, t.entries)
        BY <1>1
      <4>6. removed' = removed \cup Lost(merged, entries') /\ loaded' = TRUE
            /\ merged \in History /\ Keeps(file, merged)
        BY <2>2, <2>3, <2>5
      <4>7. TypeOK /\ SnapshotsNumbered /\ Made /\ retention \in BOOLEAN
        BY <2>4
      <4> QED BY ONLY <3>1, <4>1, <4>2, <4>3, <4>4, <4>5, <4>6, <4>7, SaveKeeps, ZenonT(60)
    <3>2. CASE entries' = merged /\ UNCHANGED saving
      <4>1. removed' = removed
        BY <2>3, <3>2 DEF Lost
      <4>2. SnapshotsNumbered' /\ Covered' /\ snapshots' = {}
        BY <1>1, <1>2, <2>3, <2>5, <3>2, <4>1 DEF SnapshotsNumbered, Covered, Keeps, saving
      <4>3. Made'
        BY <1>1, <1>2, <2>4, <2>6, <3>2, <4>1, <4>2 DEF Made, MadeBy
      <4> QED BY <2>2, <2>4, <3>2, <4>1, <4>2, <4>3 DEF TypeOK, saving
    <3> QED BY <2>3, <3>1, <3>2 DEF AfterLoad
  <2>9. TypeOK'
    BY <1>2, <2>3, <2>8 DEF HistoryInv, TypeOK
  <2>10. OneWriter' /\ LoadIsCurrent'
    BY <1>1, <1>2, <2>3 DEF HistoryInv, OneWriter, LoadIsCurrent
  <2> QED BY <2>8, <2>9, <2>10 DEF HistoryInv
<1> QED BY <1>3, <1>4

(* The window opens, or the page loads again.                              *)
LEMMA WindowKeeps ==
  HistoryInv /\ ((OpenWindow /\ NoThreads) \/ Reload) => HistoryInv'
<1> SUFFICES ASSUME HistoryInv, (OpenWindow /\ NoThreads) \/ Reload
             PROVE  HistoryInv'
  OBVIOUS
<1>1. NewLoad \in Load /\ NewLoad.clears = clears /\ NewLoad.phase = "unread"
  BY EmptyType DEF NewLoad, Load, HistoryInv, TypeOK
<1>2. /\ load' = NewLoad /\ window' = TRUE /\ appends = {} /\ updates = {} /\ ~loaded
      /\ UNCHANGED <<file, entries, loaded, savePending, saveSeq, snapshots,
                     clears, retention, savedSeq, appends, updates, quit,
                     recorded, asked, removed, failures>>
  BY DEF OpenWindow, NoThreads, Reload, saving, headless, ghosts, HistoryInv,
     OneWriter
<1>3. TypeOK' /\ OneWriter' /\ LoadIsCurrent' /\ SnapshotsNumbered'
  BY <1>1, <1>2 DEF HistoryInv, TypeOK, OneWriter, LoadIsCurrent, SnapshotsNumbered
<1>4. Made' /\ Covered'
  BY <1>2 DEF HistoryInv, Covered, Keeps, Made, MadeBy
<1> QED BY <1>3, <1>4 DEF HistoryInv

(* The load's thread reads the file, or cannot.                            *)
LEMMA ReadKeeps == HistoryInv /\ ReadHistory => HistoryInv'
<1> SUFFICES ASSUME HistoryInv, ReadHistory PROVE HistoryInv'
  OBVIOUS
<1>1. load \in Load /\ file \in History /\ load # None /\ failures \in Nat
  BY DEF ReadHistory, HistoryInv, TypeOK
<1>2. /\ load' \in Load /\ load'.clears = load.clears
      /\ load'.phase = "read" => load'.read = file
  BY <1>1 DEF ReadHistory, Load
<1>3. failures' \in Nat
  BY <1>1 DEF ReadHistory, Fail
<1>4. UNCHANGED <<file, window, entries, loaded, savePending, saveSeq, snapshots, clears,
                  retention, savedSeq, appends, updates, quit, recorded, asked, removed>>
  BY DEF ReadHistory, saving, headless
<1>5. TypeOK' /\ OneWriter' /\ LoadIsCurrent' /\ SnapshotsNumbered'
  BY <1>1, <1>2, <1>3, <1>4 DEF HistoryInv, TypeOK, OneWriter, LoadIsCurrent, SnapshotsNumbered
<1>6. Made' /\ Covered'
  BY <1>4 DEF HistoryInv, Covered, Keeps, Made, MadeBy
<1> QED BY <1>5, <1>6 DEF HistoryInv

(* A snapshot is written, skipped as old, or fails.                        *)
LEMMA WriteKeeps ==
  HistoryInv /\ (\E s \in snapshots : WriteSnapshot(s)) => HistoryInv'
<1> SUFFICES ASSUME HistoryInv, NEW s \in snapshots, WriteSnapshot(s)
             PROVE  HistoryInv'
  OBVIOUS
<1>1. s \in Snapshot /\ s.seq \in Nat /\ s.entries \in History /\ loaded
      /\ load = None /\ window
  BY DEF HistoryInv, TypeOK, Snapshot, OneWriter, LoadIsCurrent
<1>2. UNCHANGED <<window, entries, loaded, load, savePending, saveSeq, clears,
                  retention, appends, updates, quit, recorded, asked, removed>>
      /\ snapshots' = snapshots \ {s}
  BY DEF WriteSnapshot, loading, headless
<1>3. \/ /\ savedSeq < s.seq /\ file' = s.entries /\ savedSeq' = s.seq
         /\ failures' = failures
      \/ file' = file /\ savedSeq' = savedSeq /\ failures' \in {failures, failures + 1}
  BY DEF WriteSnapshot, Newer, Fail
<1>4. TypeOK'
  BY <1>1, <1>2, <1>3 DEF HistoryInv, TypeOK
<1>5. OneWriter' /\ LoadIsCurrent' /\ SnapshotsNumbered'
  BY <1>1, <1>2 DEF HistoryInv, OneWriter, LoadIsCurrent, SnapshotsNumbered
<1>6. Covered'
  <2>1. \A t \in snapshots : t.seq \in Nat
    BY DEF HistoryInv, TypeOK, Snapshot
  <2> QED BY <1>1, <1>2, <1>3, <2>1 DEF HistoryInv, Covered, Keeps
<1>7. Made'
  BY <1>2, <1>3 DEF HistoryInv, Made, MadeBy
<1> QED BY <1>4, <1>5, <1>6, <1>7 DEF HistoryInv

(* What an append leaves in the file: its own recording, and of the rest   *)
(* what retention keeps.                                                   *)
LEMMA Appended ==
  ASSUME HistoryInv, NEW t \in appends,
         file' = Pruned([file EXCEPT ![t[1]] = AsRecorded(t[2])], retention)
  PROVE  /\ file' \in History /\ t[1] \in Fresh /\ t[2] = recorded[t[1]]
         /\ t = <<t[1], t[2]>>
         /\ file'[t[1]] = AsRecorded(t[2]) /\ TakeOf(file'[t[1]]) = t[2] /\ t[2] # 0
         /\ \A j \in Id \ {t[1]} : file'[j] = file[j] \/ (j \in Old /\ file'[j] = 0)
<1> DEFINE f == [file EXCEPT ![t[1]] = AsRecorded(t[2])]
<1>1. t \in Fresh \X (Nat \ {0}) /\ Fresh \subseteq Id /\ Fresh \cap Old = {}
      /\ file \in History /\ retention \in BOOLEAN /\ t[2] = recorded[t[1]]
  BY HistoryAssumption DEF HistoryInv, TypeOK, Made
<1>2. AsRecorded(t[2]) \in Nat /\ TakeOf(AsRecorded(t[2])) = t[2]
  BY <1>1, VersionFacts
<1>3. f \in History /\ f[t[1]] = AsRecorded(t[2]) /\ \A j \in Id \ {t[1]} : f[j] = file[j]
  BY <1>1, <1>2 DEF History
<1>4. file' = Pruned(f, retention)
  OBVIOUS
<1> HIDE DEF f
<1>5. /\ file' \in History
      /\ \A j \in Id : file'[j] = f[j] \/ (j \in Old /\ file'[j] = 0)
  <2>1. /\ Pruned(f, retention) \in History
        /\ \A j \in Id : \/ Pruned(f, retention)[j] = f[j]
                         \/ j \in Old /\ Pruned(f, retention)[j] = 0
    BY ONLY <1>1, <1>3, PrunedShrinks
  <2> QED BY ONLY <1>4, <2>1
<1>6. file'[t[1]] = AsRecorded(t[2])
  BY <1>1, <1>3, <1>5
<1>7. \A j \in Id \ {t[1]} : file'[j] = file[j] \/ (j \in Old /\ file'[j] = 0)
  BY ONLY <1>3, <1>5
<1>8. t = <<t[1], t[2]>> /\ t[1] \in Fresh /\ t[2] # 0
  BY ONLY <1>1
<1> QED BY ONLY <1>1, <1>2, <1>5, <1>6, <1>7, <1>8

(* A headless append.                                                      *)
LEMMA AppendKeeps ==
  HistoryInv /\ (\E t \in appends : AppendToDisk(t)) => HistoryInv'
<1> SUFFICES ASSUME HistoryInv, NEW t \in appends, AppendToDisk(t)
             PROVE  HistoryInv'
  OBVIOUS
<1>1. ~window /\ ~loaded /\ snapshots = {} /\ load = None /\ entries = Empty
      /\ appends \in SUBSET (Fresh \X (Nat \ {0})) /\ Fresh \subseteq Id
      /\ file \in History /\ removed \in SUBSET (Id \X (Nat \ {0})) /\ failures \in Nat
      /\ Made /\ TypeOK
  BY HistoryAssumption DEF HistoryInv, TypeOK, OneWriter
<1>2. UNCHANGED <<window, entries, loaded, load, savePending, saveSeq, snapshots,
                  clears, retention, savedSeq, updates, quit, recorded, asked>>
      /\ appends' = appends \ {t}
  BY DEF AppendToDisk, loading, saving
<1>3. /\ file' \in History /\ removed' \in SUBSET (Id \X (Nat \ {0})) /\ failures' \in Nat
      /\ MadeBy(file)' /\ \A r \in removed' : r[1] \in Fresh => r[2] <= recorded[r[1]]
  <2>1. CASE /\ file' = Pruned([file EXCEPT ![t[1]] = AsRecorded(t[2])], retention)
             /\ removed' = removed \cup Lost(file, file') /\ UNCHANGED failures
    <3>1. /\ file' \in History /\ t[1] \in Fresh /\ t[2] = recorded[t[1]]
          /\ TakeOf(file'[t[1]]) = t[2]
          /\ \A j \in Id \ {t[1]} : file'[j] = file[j] \/ (j \in Old /\ file'[j] = 0)
      BY <2>1, Appended
    <3>2. /\ Lost(file, file') \subseteq Id \X (Nat \ {0})
          /\ \A r \in Lost(file, file') : r[2] = TakeOf(file[r[1]])
      BY <1>1, <3>1, LostIs
    <3>3. \A j \in Fresh : TakeOf(file[j]) <= recorded[j] /\ j \in Id
      BY <1>1 DEF Made, MadeBy
    <3>4. recorded \in [Id -> Nat] /\ \A j \in Fresh : j \notin Old
      BY <1>1, HistoryAssumption DEF TypeOK
    <3>5. \A j \in Fresh : TakeOf(file'[j]) <= recorded[j]
      <4> SUFFICES ASSUME NEW j \in Fresh PROVE TakeOf(file'[j]) <= recorded[j]
        OBVIOUS
      <4>1. CASE j = t[1]
        BY <1>1, <3>1, <3>4, <4>1
      <4>2. CASE j # t[1]
        BY <1>1, <3>1, <3>3, <3>4, <4>2
      <4> QED BY <4>1, <4>2
    <3>6. \A r \in removed' : r[1] \in Fresh => r[2] <= recorded[r[1]]
      BY <1>1, <2>1, <3>2, <3>3 DEF Made
    <3> QED BY <1>1, <1>2, <2>1, <3>1, <3>2, <3>5, <3>6 DEF MadeBy
  <2>2. CASE UNCHANGED <<file, removed>> /\ failures' = failures + 1
    BY <1>1, <1>2, <2>2 DEF Made, MadeBy
  <2> QED BY <2>1, <2>2 DEF AppendToDisk, Fail
<1>4. TypeOK'
  BY <1>1, <1>2, <1>3 DEF TypeOK
<1>5. OneWriter' /\ LoadIsCurrent' /\ SnapshotsNumbered' /\ Covered'
  BY <1>1, <1>2, EmptyType DEF HistoryInv, OneWriter, LoadIsCurrent, SnapshotsNumbered, Covered
<1>6. Made'
  BY <1>1, <1>2, <1>3 DEF Made, MadeBy
<1> QED BY <1>4, <1>5, <1>6 DEF HistoryInv

(* What an update leaves in the file: later versions of the same entries.  *)
LEMMA UpdatedOnDisk ==
  ASSUME HistoryInv, NEW u \in updates, UpdateOnDisk(u)
  PROVE  /\ file' \in History
         /\ \A j \in Id : file[j] <= file'[j] /\ TakeOf(file'[j]) = TakeOf(file[j])
<1>1. u[1] \in Id /\ file \in History /\ \A j \in Id : file[j] \in Nat
  BY DEF HistoryInv, TypeOK, History
<1>2. Updated(file[u[1]]) \in Nat /\ file[u[1]] <= Updated(file[u[1]])
      /\ TakeOf(Updated(file[u[1]])) = TakeOf(file[u[1]])
  BY <1>1, VersionFacts
<1>3. CASE file' = [file EXCEPT ![u[1]] = Updated(@)]
  BY <1>1, <1>2, <1>3 DEF History
<1>4. CASE file' = file
  BY <1>1, <1>4
<1> QED BY <1>3, <1>4 DEF UpdateOnDisk

(* A headless update.                                                      *)
LEMMA UpdateOnDiskKeeps ==
  HistoryInv /\ (\E u \in updates : UpdateOnDisk(u)) => HistoryInv'
<1> SUFFICES ASSUME HistoryInv, NEW u \in updates, UpdateOnDisk(u)
             PROVE  HistoryInv'
  OBVIOUS
<1>1. ~window /\ ~loaded /\ snapshots = {} /\ load = None /\ entries = Empty /\ Made
      /\ Fresh \subseteq Id
  BY HistoryAssumption DEF HistoryInv, OneWriter
<1>2. UNCHANGED <<window, entries, loaded, load, savePending, saveSeq, snapshots,
                  clears, retention, savedSeq, appends, quit, recorded, asked, removed>>
      /\ updates' \subseteq updates
  BY DEF UpdateOnDisk, loading, saving
<1>3. /\ file' \in History
      /\ \A j \in Id : file[j] <= file'[j] /\ TakeOf(file'[j]) = TakeOf(file[j])
  BY UpdatedOnDisk
<1>4. failures' \in Nat
  BY DEF UpdateOnDisk, Fail, HistoryInv, TypeOK
<1>5. TypeOK'
  BY <1>2, <1>3, <1>4 DEF HistoryInv, TypeOK
<1>6. OneWriter' /\ LoadIsCurrent' /\ SnapshotsNumbered' /\ Covered'
  BY <1>1, <1>2, EmptyType DEF HistoryInv, OneWriter, LoadIsCurrent, SnapshotsNumbered, Covered
<1>7. Made'
  BY <1>1, <1>2, <1>3 DEF Made, MadeBy
<1> QED BY <1>5, <1>6, <1>7 DEF HistoryInv

(* Quitting changes none of it.                                            *)
LEMMA QuitKeeps == HistoryInv /\ Quit => HistoryInv'
<1> SUFFICES ASSUME HistoryInv, Quit PROVE HistoryInv'
  OBVIOUS
<1>1. /\ quit' \in {"clean", "timeout"}
      /\ snapshots' = {} /\ appends' = {} /\ updates' = {} /\ load' = None
      /\ UNCHANGED <<file, window, entries, loaded, savePending, saveSeq, clears,
                     retention, savedSeq, recorded, asked, removed, failures>>
  BY DEF Quit, ghosts
<1>2. TypeOK' /\ OneWriter' /\ LoadIsCurrent' /\ SnapshotsNumbered'
  BY <1>1 DEF HistoryInv, TypeOK, OneWriter, LoadIsCurrent, SnapshotsNumbered
<1>3. Made' /\ Covered'
  BY <1>1 DEF HistoryInv, Covered, Keeps, Made, MadeBy
<1> QED BY <1>2, <1>3 DEF HistoryInv

(* Nothing changes.                                                        *)
LEMMA StutterKeeps == HistoryInv /\ UNCHANGED vars => HistoryInv'
<1> SUFFICES ASSUME HistoryInv, UNCHANGED vars PROVE HistoryInv'
  OBVIOUS
<1>1. UNCHANGED <<file, window, entries, loaded, load, savePending, saveSeq, snapshots,
                  clears, retention, savedSeq, appends, updates, quit, recorded, asked,
                  removed, failures>>
  BY DEF vars, loading, saving, headless, ghosts
<1>2. TypeOK' /\ OneWriter' /\ LoadIsCurrent' /\ SnapshotsNumbered'
  BY <1>1 DEF HistoryInv, TypeOK, OneWriter, LoadIsCurrent, SnapshotsNumbered
<1>3. Made' /\ Covered'
  BY <1>1 DEF HistoryInv, Covered, Keeps, Made, MadeBy
<1> QED BY <1>2, <1>3 DEF HistoryInv

(* So every step preserves the inductive invariant.                        *)
LEMMA StepKeeps == HistoryInv /\ [CalmNext]_vars => HistoryInv'
BY AddKeeps, UpdateKeeps, DeleteKeeps, ClearKeeps, RetentionKeeps, FinishKeeps,
   WindowKeeps, ReadKeeps, WriteKeeps, AppendKeeps, UpdateOnDiskKeeps,
   QuitKeeps, StutterKeeps DEF CalmNext, Calls, Threads

(* The inductive invariant of the history file and its page.               *)
THEOREM HistoryInvariant == CalmSpec => []HistoryInv
<1> QED BY InitHolds, StepKeeps, PTL DEF CalmSpec

(* The types of the variables.                                             *)
THEOREM HistoryTypeCorrect == CalmSpec => []TypeOK
<1>1. HistoryInv => TypeOK
  BY DEF HistoryInv
<1> QED BY HistoryInvariant, <1>1, PTL

LEMMA StepTruncatesNothing ==
  HistoryInv /\ [CalmNext]_vars
    => [\A i \in Id : file[i] # 0 /\ file'[i] = 0
          => RemovedSince(i, TakeOf(file[i]), removed')]_vars
<1> SUFFICES ASSUME HistoryInv, CalmNext, NEW j \in Id, file[j] # 0, file'[j] = 0
             PROVE  RemovedSince(j, TakeOf(file[j]), removed')
  OBVIOUS
<1>1. file' # file /\ file \in History /\ file[j] \in Nat /\ TakeOf(file[j]) \in Nat
  BY VersionFacts DEF HistoryInv, TypeOK, History
<1>2. ASSUME NEW s \in snapshots, WriteSnapshot(s)
      PROVE  RemovedSince(j, TakeOf(file[j]), removed')
  BY <1>1, <1>2 DEF WriteSnapshot, Newer, HistoryInv, Covered, Keeps
<1>3. ASSUME NEW t \in appends, AppendToDisk(t)
      PROVE  RemovedSince(j, TakeOf(file[j]), removed')
  <2>1. file' = Pruned([file EXCEPT ![t[1]] = AsRecorded(t[2])], retention)
        /\ removed' = removed \cup Lost(file, file')
    BY <1>1, <1>3 DEF AppendToDisk
  <2>2. file' \in History
    BY <2>1, Appended
  <2>3. <<j, TakeOf(file[j])>> \in removed'
    BY <1>1, <2>1, <2>2, LostIs
  <2> QED BY <1>1, <2>3 DEF RemovedSince
<1>4. ASSUME NEW u \in updates, UpdateOnDisk(u) PROVE FALSE
  <2>1. TakeOf(file'[j]) = TakeOf(file[j]) /\ TakeOf(0) = 0
    BY <1>4, UpdatedOnDisk, VersionFacts
  <2> QED BY <1>1, <2>1, VersionFacts
<1> QED BY <1>1, <1>2, <1>3, <1>4 DEF CalmNext, Calls, Threads, OpenWindow,
        Reload, Clear, Quit, AddEntry, UpdateEntry, Delete, ChooseRetention,
        FinishLoad, ReadHistory

(* No step takes a transcript out of the file that the user did not delete *)
(* and retention did not remove: not a late snapshot, not an unfinished    *)
(* load, not a failed write.                                               *)
THEOREM NeverTruncatedAlways == CalmSpec => NeverTruncated
<1> QED BY HistoryInvariant, StepTruncatesNothing, PTL DEF CalmSpec, NeverTruncated

(***************************************************************************)
(* The page, the file and the threads between them.                        *)
(***************************************************************************)

(* What save_history leaves: the list, or what retention keeps of it.      *)
LEMMA SaveResult ==
  ASSUME NEW h \in History, NEW l \in BOOLEAN, NEW p \in BOOLEAN, NEW k \in BOOLEAN,
         SaveHistory(h, l, p, k)
  PROVE  /\ entries' \in History
         /\ \A i \in Id : entries'[i] = h[i] \/ entries'[i] = 0
         /\ \A i \in Id \ Old : entries'[i] = h[i]
         /\ ~l => entries' = h /\ savePending' = TRUE /\ UNCHANGED <<saveSeq, snapshots>>
         /\ l => saveSeq' = saveSeq + 1
                 /\ snapshots' = snapshots \cup {[seq |-> saveSeq + 1, entries |-> entries']}
<1>1. entries' = h \/ entries' = Pruned(h, k)
  BY DEF SaveHistory
<1>2. /\ Pruned(h, k) \in History
      /\ \A i \in Id : Pruned(h, k)[i] = h[i] \/ (i \in Old /\ Pruned(h, k)[i] = 0)
  BY PrunedShrinks
<1> QED BY <1>1, <1>2 DEF SaveHistory

(* The calls that change the list in memory: what they add is new.         *)
LEMMA EditPage ==
  ASSUME HistoryInv, PageInv, NEW h \in History, NEW k \in BOOLEAN, Edits(h),
         SaveHistory(h, loaded, savePending, k),
         removed' = removed \cup Lost(entries, entries'), quit = "no",
         window, window' = window, loaded' = loaded,
         UNCHANGED <<file, savedSeq, appends, updates, quit, failures>>,
         recorded' \in [Id -> Nat]
  PROVE  PageInv'
<1>1. /\ TypeOK /\ OneWriter /\ SnapshotsNumbered /\ Made /\ Covered
      /\ AppendsPending /\ PageIsNew /\ RecordedKept /\ NewestShown
  BY DEF HistoryInv, PageInv
<1>2. /\ entries \in History /\ loaded \in BOOLEAN /\ savePending \in BOOLEAN
      /\ removed \subseteq Id \X (Nat \ {0}) /\ saveSeq \in Nat /\ savedSeq \in Nat
      /\ file \in History /\ recorded \in [Id -> Nat] /\ Fresh \subseteq Id \ Old
  BY <1>1, HistoryAssumption DEF TypeOK
<1>3. /\ entries' \in History
      /\ \A i \in Id : entries'[i] = h[i] \/ entries'[i] = 0
      /\ \A i \in Id \ Old : entries'[i] = h[i]
      /\ ~loaded => entries' = h /\ savePending' = TRUE /\ UNCHANGED <<saveSeq, snapshots>>
      /\ loaded => saveSeq' = saveSeq + 1
              /\ snapshots' = snapshots \cup {[seq |-> saveSeq + 1, entries |-> entries']}
  BY <1>2, SaveResult
<1> DEFINE lost == Lost(entries, entries')
<1>4. /\ lost \subseteq Id \X (Nat \ {0})
      /\ \A i \in Id : entries[i] # 0 /\ entries'[i] = 0 => <<i, TakeOf(entries[i])>> \in lost
      /\ \A r \in lost : r[1] \in Id /\ entries[r[1]] # 0 /\ entries'[r[1]] = 0
                         /\ r[2] = TakeOf(entries[r[1]])
  BY <1>2, <1>3, LostIs
<1>5. removed' = removed \cup lost
  OBVIOUS
<1> HIDE DEF lost
<1>6. /\ \A i \in Id : TakeOf(entries[i]) \in Nat /\ TakeOf(h[i]) \in Nat /\ TakeOf(file[i]) \in Nat
      /\ TakeOf(0) = 0
  BY <1>2, VersionFacts DEF History
<1>7. AppendsPending'
  BY <1>1 DEF OneWriter, AppendsPending
<1>8. \A r \in removed' : TakeOf(entries'[r[1]]) # r[2]
  <2> SUFFICES ASSUME NEW r \in removed', TakeOf(entries'[r[1]]) = r[2] PROVE FALSE
    OBVIOUS
  <2> DEFINE j == r[1]
  <2>1. j \in Id /\ r[2] \in Nat \ {0}
    BY <1>2, <1>4, <1>5
  <2>2. entries'[j] = h[j] /\ h[j] # 0
    BY <1>3, <1>6, <2>1
  <2>3. r \in removed
    BY <1>4, <1>5, <2>2
  <2>4. TakeOf(entries[j]) # TakeOf(h[j])
    BY <1>1, <2>2, <2>3 DEF PageIsNew
  <2>5. j \in Fresh /\ recorded[j] < TakeOf(h[j])
    BY <2>1, <2>2, <2>4 DEF Edits
  <2>6. r[2] <= recorded[j]
    BY <1>1, <2>3, <2>5 DEF Made
  <2>7. recorded[j] \in Nat
    BY <1>2, <2>1
  <2> QED BY <2>1, <2>2, <2>5, <2>6, <2>7
<1>9. ASSUME ~loaded PROVE \A r \in removed' : TakeOf(file[r[1]]) # r[2]
  <2> SUFFICES ASSUME NEW r \in removed' PROVE TakeOf(file[r[1]]) # r[2]
    OBVIOUS
  <2>1. CASE r \in removed
    BY <1>1, <1>9, <2>1 DEF PageIsNew
  <2>2. CASE r \in lost
    <3>1. r[1] \in Id /\ r[2] = TakeOf(entries[r[1]]) /\ entries[r[1]] # 0
      BY <1>4, <2>2
    <3>2. TakeOf(file[r[1]]) < TakeOf(entries[r[1]])
      BY <1>1, <1>9, <3>1 DEF Covered
    <3> QED BY <1>6, <3>1, <3>2
  <2> QED BY <1>5, <2>1, <2>2
<1>10. PageIsNew'
  BY <1>3, <1>8, <1>9 DEF PageIsNew
<1>11. RecordedKept'
  <2> SUFFICES ASSUME failures = 0, NEW i \in Id, recorded'[i] # 0, <<i, recorded'[i]>> \notin removed'
               PROVE  \/ recorded'[i] = TakeOf(entries'[i])
                      \/ /\ ~loaded
                         /\ recorded'[i] = TakeOf(file[i]) \/ <<i, recorded'[i]>> \in appends
    BY DEF RecordedKept, Present
  <2>1. CASE recorded'[i] = recorded[i]
    <3>1. \/ recorded[i] = TakeOf(entries[i])
          \/ ~loaded /\ (recorded[i] = TakeOf(file[i]) \/ <<i, recorded[i]>> \in appends)
      BY <1>1, <1>5, <2>1 DEF RecordedKept, Present
    <3>2. CASE recorded[i] = TakeOf(entries[i])
      <4>1. entries[i] # 0
        BY <1>6, <2>1, <3>2
      <4>2. entries'[i] = h[i] /\ h[i] # 0
        BY <1>3, <1>4, <1>5, <2>1, <3>2, <4>1
      <4>3. recorded[i] \in Nat
        BY <1>2
      <4>4. ~(recorded[i] < TakeOf(h[i]) /\ TakeOf(h[i]) = recorded'[i])
        BY <2>1, <4>3
      <4>5. TakeOf(entries[i]) = TakeOf(h[i])
        BY <4>2, <4>4 DEF Edits
      <4> QED BY <2>1, <3>2, <4>2, <4>5
    <3>3. CASE ~loaded /\ (recorded[i] = TakeOf(file[i]) \/ <<i, recorded[i]>> \in appends)
      BY <2>1, <3>3
    <3> QED BY <3>1, <3>2, <3>3
  <2>2. CASE recorded'[i] # recorded[i]
    <3>1. i \in Fresh /\ TakeOf(h[i]) = recorded'[i]
      BY <2>2 DEF Edits
    <3> QED BY <1>2, <1>3, <3>1
  <2> QED BY <2>1, <2>2
<1>12. NewestShown'
  <2>1. CASE ~loaded
    BY <1>1, <1>3, <2>1 DEF NewestShown
  <2>2. CASE loaded
    <3> DEFINE new == [seq |-> saveSeq + 1, entries |-> entries']
    <3>1. new \in snapshots' /\ new.seq = saveSeq' /\ new.entries = entries'
      BY <1>3, <2>2
    <3>2. savedSeq <= saveSeq' /\ savedSeq # saveSeq'
      BY <1>1, <1>2, <1>3, <2>2 DEF NewestShown
    <3> HIDE DEF new
    <3> QED BY <2>2, <3>1, <3>2 DEF NewestShown
  <2> QED BY <2>1, <2>2
<1>13. EndIsQuiet'
  BY DEF EndIsQuiet
<1> QED BY <1>7, <1>10, <1>11, <1>12, <1>13 DEF PageInv

(* Steps that touch no list.                                               *)
LEMMA SamePage ==
  ASSUME HistoryInv, PageInv,
         UNCHANGED <<file, entries, loaded, saving, savedSeq, quit, recorded, removed, appends>>,
         failures' \in Nat, failures' >= failures,
         quit # "no" => UNCHANGED <<updates, load>>
  PROVE  PageInv'
<1>1. failures' = 0 => failures = 0
  BY DEF HistoryInv, TypeOK
<1>2. AppendsPending' /\ PageIsNew'
  BY DEF PageInv, AppendsPending, PageIsNew, saving
<1>3. RecordedKept' /\ NewestShown'
  BY <1>1 DEF PageInv, RecordedKept, NewestShown, saving
<1>4. EndIsQuiet'
  BY <1>1 DEF PageInv, EndIsQuiet, NoThreads, saving
<1> QED BY <1>2, <1>3, <1>4 DEF PageInv

(* At the start there is nothing but the file.                             *)
LEMMA InitPage == Init => PageInv
<1> SUFFICES ASSUME Init PROVE PageInv
  OBVIOUS
<1>1. AppendsPending /\ PageIsNew
  BY DEF Init, AppendsPending, PageIsNew
<1>2. RecordedKept
  BY EmptyType DEF Init, RecordedKept, Present
<1>3. NewestShown /\ EndIsQuiet
  BY DEF Init, NewestShown, EndIsQuiet
<1> QED BY <1>1, <1>2, <1>3 DEF PageInv

(* A transcript is recorded: on the page, or with a thread of its own.     *)
LEMMA AddPage ==
  HistoryInv /\ PageInv /\ (\E i \in Id : AddEntry(i) /\ ~Appending(i)) => PageInv'
<1> SUFFICES ASSUME HistoryInv, PageInv, NEW i \in Id, AddEntry(i), ~Appending(i)
             PROVE  PageInv'
  OBVIOUS
<1> DEFINE h == [entries EXCEPT ![i] = AsRecorded(recorded'[i])]
<1>1. /\ h \in History /\ Edits(h) /\ recorded' \in [Id -> Nat]
      /\ i \in Fresh /\ recorded'[i] = recorded[i] + 1
      /\ \A j \in Id : j # i => recorded'[j] = recorded[j]
  BY AddEdits
<1>2. quit = "no" /\ UNCHANGED <<file, window, loaded, load, savedSeq, updates, quit, failures>>
      /\ retention \in BOOLEAN
  BY DEF AddEntry, HistoryInv, TypeOK, loading
<1>3. CASE window
  <2>1. SaveHistory(h, loaded, savePending, retention)
        /\ removed' = removed \cup Lost(entries, entries') /\ UNCHANGED appends
    BY <1>3 DEF AddEntry
  <2> HIDE DEF h
  <2> QED BY <1>1, <1>2, <1>3, <2>1, EditPage
<1>4. CASE ~window
  <2> HIDE DEF h
  <2> DEFINE t == <<i, recorded'[i]>>
  <2>1. appends' = appends \cup {t} /\ UNCHANGED <<entries, savePending, saveSeq, snapshots, removed>>
    BY <1>4 DEF AddEntry, saving
  <2>2. /\ Made /\ ~loaded /\ file \in History /\ recorded \in [Id -> Nat]
        /\ removed \subseteq Id \X (Nat \ {0}) /\ Fresh \subseteq Id
        /\ appends \subseteq Fresh \X (Nat \ {0})
    BY <1>4, HistoryAssumption DEF HistoryInv, TypeOK, OneWriter
  <2>3. recorded[i] \in Nat /\ TakeOf(file[i]) \in Nat
    BY <1>1, <2>2, VersionFacts DEF History
  <2>4. t \notin removed /\ TakeOf(file[i]) < recorded'[i]
    <3>1. TakeOf(file[i]) <= recorded[i]
      BY <1>1, <2>2 DEF Made, MadeBy
    <3>2. t \in removed => recorded'[i] <= recorded[i]
      BY <1>1, <2>2 DEF Made
    <3> QED BY <1>1, <2>3, <3>1, <3>2
  <2>5. AppendsPending'
    <3> SUFFICES ASSUME NEW u \in appends' PROVE u \notin removed /\ TakeOf(file[u[1]]) < u[2]
      BY <1>2, <2>1 DEF AppendsPending
    <3>1. CASE u \in appends
      BY <3>1 DEF PageInv, AppendsPending
    <3>2. CASE u = t
      BY <2>4, <3>2
    <3> QED BY <2>1, <3>1, <3>2
  <2>6. PageIsNew' /\ NewestShown' /\ EndIsQuiet'
    BY <1>2, <2>1 DEF PageInv, PageIsNew, NewestShown, EndIsQuiet
  <2>7. RecordedKept'
    <3> SUFFICES ASSUME failures = 0, NEW j \in Id, recorded'[j] # 0
                 PROVE  \/ <<j, recorded'[j]>> \in removed
                        \/ recorded'[j] = TakeOf(entries[j])
                        \/ recorded'[j] = TakeOf(file[j])
                        \/ <<j, recorded'[j]>> \in appends'
      BY <1>2, <2>1, <2>2 DEF RecordedKept, Present
    <3>1. CASE j = i
      BY <2>1, <3>1
    <3>2. CASE j # i
      BY <1>1, <1>2, <2>1, <2>2, <3>2 DEF PageInv, RecordedKept, Present
    <3> QED BY <3>1, <3>2
  <2> QED BY <2>5, <2>6, <2>7 DEF PageInv
<1> QED BY <1>3, <1>4

(* A title or polished text changes an entry of the page, or waits.        *)
LEMMA UpdatePage == HistoryInv /\ PageInv /\ (\E i \in Id : UpdateEntry(i)) => PageInv'
<1> SUFFICES ASSUME HistoryInv, PageInv, NEW i \in Id, UpdateEntry(i) PROVE PageInv'
  OBVIOUS
<1>1. quit = "no" /\ UNCHANGED <<file, window, loaded, load, savedSeq, appends,
                                 quit, recorded, failures>>
      /\ retention \in BOOLEAN /\ recorded' \in [Id -> Nat] /\ failures \in Nat
  BY DEF UpdateEntry, HistoryInv, TypeOK, loading
<1>2. CASE window /\ entries[i] # 0
  <2> DEFINE h == [entries EXCEPT ![i] = Updated(@)]
  <2>1. h \in History /\ Edits(h)
    BY <1>1, <1>2, UpdateEdits
  <2>2. SaveHistory(h, loaded, savePending, retention) /\ updates' = updates
        /\ removed' = removed \cup Lost(entries, entries')
    BY <1>2 DEF UpdateEntry
  <2> HIDE DEF h
  <2> QED BY <1>1, <1>2, <2>1, <2>2, EditPage
<1>3. CASE ~(window /\ entries[i] # 0)
  <2>1. UNCHANGED <<entries, saving, removed>>
    BY <1>3 DEF UpdateEntry
  <2>2. failures' \in Nat /\ failures' >= failures
    BY <1>1
  <2> QED BY <1>1, <2>1, <2>2, SamePage
<1> QED BY <1>2, <1>3

(* The user deletes an entry.                                              *)
LEMMA DeletePage == HistoryInv /\ PageInv /\ (\E i \in Id : Delete(i)) => PageInv'
<1> SUFFICES ASSUME HistoryInv, PageInv, NEW i \in Id, Delete(i) PROVE PageInv'
  OBVIOUS
<1> DEFINE h == [entries EXCEPT ![i] = 0]
<1>1. quit = "no" /\ window /\ UNCHANGED <<file, window, loaded, load, savedSeq,
        appends, updates, quit, recorded, failures>>
      /\ retention \in BOOLEAN /\ recorded' \in [Id -> Nat]
  BY DEF Delete, HistoryInv, TypeOK, loading, headless
<1>2. h \in History /\ \A j \in Id : h[j] = entries[j] \/ h[j] = 0
  BY DEF HistoryInv, TypeOK, History
<1>3. SaveHistory(h, loaded, savePending, retention)
      /\ removed' = removed \cup Lost(entries, entries')
  BY DEF Delete
<1> HIDE DEF h
<1>4. Edits(h)
  BY <1>1, <1>2, FewerEdits
<1> QED BY <1>1, <1>2, <1>3, <1>4, EditPage

(* The user clears the history.                                            *)
LEMMA ClearPage == HistoryInv /\ PageInv /\ Clear => PageInv'
<1> SUFFICES ASSUME HistoryInv, PageInv, Clear PROVE PageInv'
  OBVIOUS
<1>1. quit = "no" /\ window /\ UNCHANGED <<file, window, loaded, load, savedSeq,
        appends, updates, quit, recorded, failures>>
      /\ retention \in BOOLEAN /\ recorded' \in [Id -> Nat]
  BY DEF Clear, HistoryInv, TypeOK, loading, headless
<1>2. SaveHistory(Empty, loaded, savePending, retention)
      /\ removed' = removed \cup Lost(entries, entries')
  BY DEF Clear
<1>3. Edits(Empty)
  BY <1>1, EmptyType, FewerEdits
<1> QED BY <1>1, <1>2, <1>3, EmptyType, EditPage

(* The user changes the retention.                                         *)
LEMMA RetentionPage ==
  HistoryInv /\ PageInv /\ (\E k \in BOOLEAN : ChooseRetention(k)) => PageInv'
<1> SUFFICES ASSUME HistoryInv, PageInv, NEW k \in BOOLEAN, ChooseRetention(k)
             PROVE  PageInv'
  OBVIOUS
<1>1. quit = "no" /\ window /\ UNCHANGED <<file, window, loaded, load, savedSeq,
        appends, updates, quit, recorded, failures>>
      /\ entries \in History /\ recorded' \in [Id -> Nat]
  BY DEF ChooseRetention, HistoryInv, TypeOK, loading, headless
<1>2. SaveHistory(entries, loaded, savePending, k)
      /\ removed' = removed \cup Lost(entries, entries')
  BY DEF ChooseRetention
<1>3. Edits(entries)
  BY <1>1, FewerEdits
<1> QED BY <1>1, <1>2, <1>3, EditPage

(* The window opens, the page loads again, or the load's thread has read.  *)
LEMMA LoadPage ==
  HistoryInv /\ PageInv /\ ((OpenWindow /\ NoThreads) \/ Reload \/ ReadHistory)
    => PageInv'
<1> SUFFICES ASSUME HistoryInv, PageInv,
                    (OpenWindow /\ NoThreads) \/ Reload \/ ReadHistory
             PROVE  PageInv'
  OBVIOUS
<1>1. quit = "no"
  BY DEF OpenWindow, Reload, ReadHistory, PageInv, EndIsQuiet
<1>2. failures \in Nat
  BY DEF HistoryInv, TypeOK
<1>3. failures' \in Nat /\ failures' >= failures
  BY <1>2 DEF OpenWindow, Reload, ReadHistory, Fail, ghosts
<1>4. UNCHANGED <<file, entries, loaded, saving, savedSeq, quit, recorded, removed, appends>>
  BY DEF OpenWindow, Reload, ReadHistory, headless, ghosts
<1> QED BY <1>1, <1>3, <1>4, SamePage

(* What the page added while it loaded is laid over what the file held.    *)
LEMMA FinishPage == HistoryInv /\ PageInv /\ FinishLoad => PageInv'
<1> SUFFICES ASSUME HistoryInv, PageInv, FinishLoad PROVE PageInv'
  OBVIOUS
<1>1. /\ load \in Load /\ load # None /\ ~loaded /\ snapshots = {} /\ window
      /\ appends = {} /\ quit = "no" /\ quit' = "no"
      /\ UNCHANGED <<file, window, savedSeq, appends, updates, recorded, failures>>
  BY DEF FinishLoad, HistoryInv, TypeOK, LoadIsCurrent, OneWriter, headless
<1>2. /\ file \in History /\ entries \in History /\ retention \in BOOLEAN
      /\ saveSeq \in Nat /\ savedSeq = saveSeq /\ failures \in Nat
      /\ removed \subseteq Id \X (Nat \ {0})
      /\ recorded \in [Id -> Nat] /\ Present(recorded) \subseteq Fresh /\ savePending \in BOOLEAN
  BY <1>1 DEF HistoryInv, TypeOK, Made, PageInv, NewestShown
<1>3. CASE load.phase = "error"
  <2>1. UNCHANGED <<loaded, entries, saving, removed>>
    BY <1>3 DEF FinishLoad
  <2> QED BY <1>1, <1>2, <2>1, SamePage
<1>4. CASE load.phase # "error"
  <2> DEFINE merged == Merge(entries, file)
  <2>1. load.read = file /\ clears = load.clears
    BY <1>1, <1>4 DEF FinishLoad, HistoryInv, LoadIsCurrent, Load
  <2>2. /\ loaded' = TRUE /\ AfterLoad(merged, savePending)
        /\ removed' = removed \cup Lost(merged, entries')
    BY <1>4, <2>1 DEF FinishLoad
  <2>3. /\ merged \in History
        /\ \A i \in Id : merged[i] = IF entries[i] # 0 THEN entries[i] ELSE file[i]
    BY <1>2, MergeType
  <2> HIDE DEF merged
  <2>4. /\ entries' \in History
        /\ \A i \in Id : entries'[i] = merged[i] \/ entries'[i] = 0
        /\ \/ /\ entries' = merged /\ ~savePending /\ UNCHANGED saving
           \/ /\ saveSeq' = saveSeq + 1
              /\ snapshots' = snapshots \cup {[seq |-> saveSeq + 1, entries |-> entries']}
    <3>1. CASE savePending \/ retention
      <4>1. SaveHistory(merged, TRUE, FALSE, retention)
        BY <2>2, <3>1 DEF AfterLoad
      <4> QED BY <1>2, <2>3, <4>1, SaveResult
    <3>2. CASE ~(savePending \/ retention)
      BY <2>2, <2>3, <3>2 DEF AfterLoad
    <3> QED BY <3>1, <3>2
  <2> DEFINE lost == Lost(merged, entries')
  <2>5. /\ lost \subseteq Id \X (Nat \ {0})
        /\ \A i \in Id : merged[i] # 0 /\ entries'[i] = 0 => <<i, TakeOf(merged[i])>> \in lost
        /\ \A r \in lost : r[1] \in Id /\ merged[r[1]] # 0 /\ entries'[r[1]] = 0
                           /\ r[2] = TakeOf(merged[r[1]])
    BY <2>3, <2>4, LostIs
  <2>6. removed' = removed \cup lost
    BY <2>2
  <2> HIDE DEF lost
  <2>7. /\ \A r \in removed : TakeOf(entries[r[1]]) # r[2] /\ TakeOf(file[r[1]]) # r[2]
        /\ ~savePending => entries = Empty
    BY <1>1 DEF PageInv, PageIsNew
  <2>8. /\ \A i \in Id : TakeOf(entries[i]) \in Nat /\ TakeOf(file[i]) \in Nat
        /\ \A i \in Id : TakeOf(file[i]) = 0 <=> file[i] = 0
        /\ \A i \in Id : TakeOf(entries[i]) = 0 <=> entries[i] = 0
        /\ TakeOf(0) = 0
    BY <1>2, VersionFacts DEF History
  <2>9. AppendsPending'
    BY <1>1 DEF AppendsPending
  <2>10. PageIsNew'
    <3> SUFFICES ASSUME NEW r \in removed', TakeOf(entries'[r[1]]) = r[2] PROVE FALSE
      BY <2>2 DEF PageIsNew
    <3>1. r[1] \in Id /\ r[2] # 0
      BY <1>2, <2>5, <2>6
    <3>2. entries'[r[1]] = merged[r[1]] /\ merged[r[1]] # 0
      BY <2>4, <2>8, <3>1
    <3>3. r \in removed
      BY <2>5, <2>6, <3>2
    <3>4. TakeOf(merged[r[1]]) # r[2]
      BY <2>3, <2>7, <3>1, <3>3
    <3> QED BY <3>2, <3>4
  <2>11. RecordedKept'
    <3> SUFFICES ASSUME failures = 0, NEW i \in Id, recorded[i] # 0,
                        <<i, recorded[i]>> \notin removed'
                 PROVE  recorded[i] = TakeOf(entries'[i])
      BY <1>1 DEF RecordedKept, Present
    <3>1. recorded[i] = TakeOf(entries[i]) \/ recorded[i] = TakeOf(file[i])
      BY <1>1, <2>6 DEF PageInv, RecordedKept, Present
    <3>2. recorded[i] = TakeOf(merged[i]) /\ merged[i] # 0
      <4>1. CASE recorded[i] = TakeOf(entries[i])
        BY <2>3, <2>8, <4>1
      <4>2. CASE recorded[i] = TakeOf(file[i])
        <5>1. i \in Fresh
          BY <1>2 DEF Present
        <5>2. TakeOf(entries[i]) <= recorded[i]
          BY <5>1 DEF HistoryInv, Made, MadeBy
        <5>3. entries[i] # 0 => TakeOf(file[i]) < TakeOf(entries[i])
          BY <1>1 DEF HistoryInv, Covered
        <5>4. entries[i] = 0
          BY <2>8, <4>2, <5>2, <5>3
        <5> QED BY <2>3, <2>8, <4>2, <5>4
      <4> QED BY <3>1, <4>1, <4>2
    <3> QED BY <2>4, <2>5, <2>6, <3>2
  <2>12. NewestShown'
    <3>1. CASE entries' = merged /\ ~savePending /\ UNCHANGED saving
      <4>1. \A i \in Id : merged[i] = file[i]
        BY <2>3, <2>7, <3>1, EmptyType
      <4>2. merged = file
        BY <1>2, <2>3, <4>1 DEF History
      <4> QED BY <1>1, <1>2, <2>2, <3>1, <4>2 DEF NewestShown, saving
    <3>2. CASE /\ saveSeq' = saveSeq + 1
               /\ snapshots' = snapshots \cup {[seq |-> saveSeq + 1, entries |-> entries']}
      <4> DEFINE new == [seq |-> saveSeq + 1, entries |-> entries']
      <4>1. new \in snapshots' /\ new.seq = saveSeq' /\ new.entries = entries'
        BY <3>2
      <4> HIDE DEF new
      <4> QED BY <1>1, <1>2, <2>2, <3>2, <4>1 DEF NewestShown
    <3> QED BY <2>4, <3>1, <3>2
  <2>13. EndIsQuiet'
    BY <1>1 DEF EndIsQuiet
  <2> QED BY <2>9, <2>10, <2>11, <2>12, <2>13 DEF PageInv
<1> QED BY <1>3, <1>4

(* The snapshot of what the page shows, while it is not on disk.           *)
LEMMA NewestPending ==
  ASSUME HistoryInv, PageInv, failures = 0, NEW s \in snapshots, savedSeq < s.seq
  PROVE  /\ \E t \in snapshots : t.seq = saveSeq /\ t.entries = entries
         /\ s.seq = saveSeq => s.entries = entries
         /\ s.seq # saveSeq => s.seq < saveSeq
<1>1. loaded /\ quit = "no"
  BY DEF HistoryInv, OneWriter, PageInv, EndIsQuiet, NoThreads
<1>2. s.seq \in Nat /\ saveSeq \in Nat /\ savedSeq \in Nat /\ s.seq <= saveSeq
  BY DEF HistoryInv, TypeOK, Snapshot, SnapshotsNumbered
<1>3. savedSeq # saveSeq
  BY <1>2
<1>4. PICK t \in snapshots : t.seq = saveSeq /\ t.entries = entries
  BY <1>1, <1>3 DEF PageInv, NewestShown
<1>5. s.seq = saveSeq => s = t
  BY <1>4 DEF HistoryInv, SnapshotsNumbered
<1> QED BY <1>2, <1>4, <1>5

(* A snapshot is written, skipped as old, or fails.                        *)
LEMMA WritePage ==
  HistoryInv /\ PageInv /\ (\E s \in snapshots : WriteSnapshot(s)) => PageInv'
<1> SUFFICES ASSUME HistoryInv, PageInv, NEW s \in snapshots, WriteSnapshot(s)
             PROVE  PageInv'
  OBVIOUS
<1>1. UNCHANGED <<window, entries, loaded, load, savePending, saveSeq, clears,
                  retention, appends, updates, quit, recorded, asked, removed>>
      /\ snapshots' = snapshots \ {s}
  BY DEF WriteSnapshot, loading, headless
<1>2. \/ /\ savedSeq < s.seq /\ file' = s.entries /\ savedSeq' = s.seq
         /\ failures' = failures
      \/ file' = file /\ savedSeq' = savedSeq /\ failures' = failures + 1
      \/ ~(savedSeq < s.seq) /\ UNCHANGED <<file, savedSeq, failures>>
  BY DEF WriteSnapshot, Newer, Fail
<1>3. loaded /\ window /\ quit = "no" /\ appends = {}
  BY DEF HistoryInv, OneWriter, PageInv, EndIsQuiet, NoThreads
<1>4. /\ \A t \in snapshots : t.seq \in Nat /\ t.seq <= saveSeq
      /\ saveSeq \in Nat /\ savedSeq \in Nat /\ failures \in Nat /\ savedSeq <= saveSeq
  BY DEF HistoryInv, TypeOK, Snapshot, SnapshotsNumbered, PageInv, NewestShown
<1>5. AppendsPending' /\ PageIsNew'
  BY <1>1, <1>3 DEF PageInv, AppendsPending, PageIsNew
<1>6. RecordedKept'
  BY <1>1, <1>2, <1>3, <1>4 DEF PageInv, RecordedKept
<1>7. NewestShown'
  <2> SUFFICES ASSUME failures' = 0
               PROVE  IF savedSeq' = saveSeq THEN file' = entries
                      ELSE \E t \in snapshots' : t.seq = saveSeq /\ t.entries = entries
    BY <1>1, <1>2, <1>3, <1>4 DEF NewestShown
  <2>1. failures = 0
    BY <1>2, <1>4
  <2>2. CASE savedSeq < s.seq
    <3>1. file' = s.entries /\ savedSeq' = s.seq
      BY <1>2, <1>4, <2>2
    <3>2. PICK t \in snapshots : t.seq = saveSeq /\ t.entries = entries
      BY <2>1, <2>2, NewestPending
    <3>3. s.seq # saveSeq => t \in snapshots'
      BY <1>1, <3>2
    <3>4. s.seq = saveSeq => s.entries = entries
      BY <2>1, <2>2, NewestPending
    <3> QED BY <3>1, <3>2, <3>3, <3>4
  <2>3. CASE ~(savedSeq < s.seq)
    <3>1. UNCHANGED <<file, savedSeq>>
      BY <1>2, <1>4, <2>3
    <3>2. CASE savedSeq = saveSeq
      BY <1>3, <2>1, <3>1, <3>2 DEF PageInv, NewestShown
    <3>3. CASE savedSeq # saveSeq
      <4>1. PICK t \in snapshots : t.seq = saveSeq /\ t.entries = entries
        BY <1>3, <2>1, <3>3 DEF PageInv, NewestShown
      <4>2. t # s
        BY <1>4, <2>3, <3>3, <4>1
      <4> QED BY <1>1, <3>1, <3>3, <4>1, <4>2
    <3> QED BY <3>2, <3>3
  <2> QED BY <2>2, <2>3
<1>8. EndIsQuiet'
  BY <1>1, <1>3 DEF EndIsQuiet
<1> QED BY <1>5, <1>6, <1>7, <1>8 DEF PageInv

(* A headless append writes its recording, or gives it up.                 *)
LEMMA AppendPage ==
  HistoryInv /\ PageInv /\ (\E t \in appends : AppendToDisk(t)) => PageInv'
<1> SUFFICES ASSUME HistoryInv, PageInv, NEW t \in appends, AppendToDisk(t)
             PROVE  PageInv'
  OBVIOUS
<1>1. UNCHANGED <<window, entries, loaded, load, savePending, saveSeq, snapshots,
                  clears, retention, savedSeq, updates, quit, recorded, asked>>
      /\ appends' = appends \ {t}
  BY DEF AppendToDisk, loading, saving
<1>2. /\ ~window /\ ~loaded /\ snapshots = {} /\ quit = "no" /\ entries = Empty
      /\ file \in History /\ failures \in Nat /\ Made
      /\ removed \subseteq Id \X (Nat \ {0}) /\ Fresh \subseteq Id
      /\ appends \subseteq Fresh \X (Nat \ {0})
  BY HistoryAssumption DEF HistoryInv, TypeOK, OneWriter, PageInv, EndIsQuiet, NoThreads
<1>3. /\ \A u \in appends : u \notin removed /\ TakeOf(file[u[1]]) < u[2]
      /\ \A r \in removed : TakeOf(file[r[1]]) # r[2]
  BY <1>2 DEF PageInv, AppendsPending, PageIsNew
<1>4. CASE UNCHANGED <<file, removed>> /\ failures' = failures + 1
  <2>1. AppendsPending' /\ PageIsNew'
    BY <1>1, <1>4 DEF PageInv, AppendsPending, PageIsNew
  <2>2. RecordedKept' /\ NewestShown' /\ EndIsQuiet'
    BY <1>1, <1>2, <1>4 DEF PageInv, RecordedKept, NewestShown, EndIsQuiet
  <2> QED BY <2>1, <2>2 DEF PageInv
<1>5. CASE /\ file' = Pruned([file EXCEPT ![t[1]] = AsRecorded(t[2])], retention)
           /\ removed' = removed \cup Lost(file, file') /\ UNCHANGED failures
  <2>1. /\ file' \in History /\ t[1] \in Fresh /\ t[2] = recorded[t[1]]
        /\ t = <<t[1], t[2]>> /\ TakeOf(file'[t[1]]) = t[2] /\ t[2] # 0
        /\ \A j \in Id \ {t[1]} : file'[j] = file[j] \/ file'[j] = 0
    BY <1>5, Appended
  <2> DEFINE lost == Lost(file, file')
  <2>2. /\ lost \subseteq Id \X (Nat \ {0})
        /\ \A i \in Id : file[i] # 0 /\ file'[i] = 0 => <<i, TakeOf(file[i])>> \in lost
        /\ \A r \in lost : r[1] \in Id /\ file'[r[1]] = 0 /\ r[2] = TakeOf(file[r[1]])
    BY <1>2, <2>1, LostIs
  <2>3. removed' = removed \cup lost
    BY <1>5
  <2> HIDE DEF lost
  <2>4. \A i \in Id : TakeOf(file[i]) \in Nat /\ (TakeOf(file[i]) = 0 <=> file[i] = 0)
    BY <1>2, VersionFacts DEF History
  <2>5. TakeOf(0) = 0
    BY VersionFacts
  <2>6. AppendsPending'
    <3> SUFFICES ASSUME NEW u \in appends, u # t
                 PROVE  u \notin removed' /\ TakeOf(file'[u[1]]) < u[2]
      BY <1>1 DEF AppendsPending
    <3>1. u = <<u[1], u[2]>> /\ u[1] \in Id /\ u[2] \in Nat \ {0} /\ u[2] = recorded[u[1]]
      BY <1>2 DEF Made
    <3>2. u[1] # t[1]
      BY <2>1, <3>1
    <3>3. file'[u[1]] = file[u[1]] \/ file'[u[1]] = 0
      BY <2>1, <3>1, <3>2
    <3>4. TakeOf(file'[u[1]]) < u[2]
      BY <1>3, <2>5, <3>1, <3>3
    <3>5. u \notin lost
      BY <1>3, <2>2, <2>4, <3>1
    <3> QED BY <1>3, <2>3, <3>4, <3>5
  <2>7. PageIsNew'
    <3> SUFFICES ASSUME NEW r \in removed'
                 PROVE  TakeOf(entries[r[1]]) # r[2] /\ TakeOf(file'[r[1]]) # r[2]
      BY <1>1, <1>2 DEF PageIsNew
    <3>1. r[1] \in Id /\ r[2] # 0 /\ r = <<r[1], r[2]>>
      BY <1>2, <2>2, <2>3
    <3>2. TakeOf(entries[r[1]]) # r[2]
      BY <1>2, <2>5, <3>1, EmptyType
    <3>3. CASE r \in lost
      BY <2>2, <2>5, <3>1, <3>2, <3>3
    <3>4. CASE r \in removed
      <4>1. r # t
        BY <1>3, <3>4
      <4>2. CASE r[1] = t[1]
        BY <2>1, <3>1, <3>2, <4>1, <4>2
      <4>3. CASE r[1] # t[1]
        <5>1. file'[r[1]] = file[r[1]] \/ file'[r[1]] = 0
          BY <2>1, <3>1, <4>3
        <5> QED BY <1>3, <2>5, <3>1, <3>2, <3>4, <5>1
      <4> QED BY <4>2, <4>3
    <3> QED BY <2>3, <3>3, <3>4
  <2>8. RecordedKept'
    <3> SUFFICES ASSUME failures = 0, NEW j \in Id, recorded[j] # 0,
                        <<j, recorded[j]>> \notin removed'
                 PROVE  recorded[j] = TakeOf(file'[j]) \/ <<j, recorded[j]>> \in appends'
      BY <1>1, <1>2, <1>5 DEF RecordedKept, Present
    <3>1. \/ recorded[j] = TakeOf(entries[j])
          \/ recorded[j] = TakeOf(file[j])
          \/ <<j, recorded[j]>> \in appends
      BY <1>2, <2>3 DEF PageInv, RecordedKept, Present
    <3>2. recorded[j] # TakeOf(entries[j])
      BY <1>2, <2>5, EmptyType
    <3>3. CASE j = t[1]
      BY <2>1, <3>3
    <3>4. CASE j # t[1]
      <4>1. CASE recorded[j] = TakeOf(file[j])
        <5>1. file[j] # 0 /\ file'[j] # 0
          BY <2>2, <2>3, <2>4, <4>1
        <5>2. file'[j] = file[j]
          BY <2>1, <3>4, <5>1
        <5> QED BY <4>1, <5>2
      <4>2. CASE <<j, recorded[j]>> \in appends
        BY <1>1, <2>1, <3>4, <4>2
      <4> QED BY <3>1, <3>2, <4>1, <4>2
    <3> QED BY <3>3, <3>4
  <2>9. NewestShown' /\ EndIsQuiet'
    BY <1>1, <1>2 DEF PageInv, NewestShown, EndIsQuiet
  <2> QED BY <2>6, <2>7, <2>8, <2>9 DEF PageInv
<1> QED BY <1>4, <1>5 DEF AppendToDisk, Fail

(* A headless update leaves every recording where it was.                  *)
LEMMA UpdateOnDiskPage ==
  HistoryInv /\ PageInv /\ (\E u \in updates : UpdateOnDisk(u)) => PageInv'
<1> SUFFICES ASSUME HistoryInv, PageInv, NEW u \in updates, UpdateOnDisk(u)
             PROVE  PageInv'
  OBVIOUS
<1>1. UNCHANGED <<window, entries, loaded, load, savePending, saveSeq, snapshots,
                  clears, retention, savedSeq, appends, quit, recorded, asked, removed>>
  BY DEF UpdateOnDisk, loading, saving
<1>2. /\ ~loaded /\ quit = "no" /\ failures \in Nat
      /\ removed \subseteq Id \X (Nat \ {0}) /\ Fresh \subseteq Id
      /\ appends \subseteq Fresh \X (Nat \ {0})
  BY HistoryAssumption DEF HistoryInv, TypeOK, OneWriter, PageInv, EndIsQuiet, NoThreads
<1>3. \A j \in Id : TakeOf(file'[j]) = TakeOf(file[j])
  BY UpdatedOnDisk
<1>4. failures' = 0 => failures = 0
  BY <1>2 DEF UpdateOnDisk, Fail
<1>5. AppendsPending'
  BY <1>1, <1>2, <1>3 DEF PageInv, AppendsPending
<1>6. PageIsNew'
  BY <1>1, <1>2, <1>3 DEF PageInv, PageIsNew
<1>7. RecordedKept' /\ NewestShown' /\ EndIsQuiet'
  BY <1>1, <1>2, <1>3, <1>4 DEF PageInv, RecordedKept, Present, NewestShown, EndIsQuiet
<1> QED BY <1>5, <1>6, <1>7 DEF PageInv

(* Quitting drops the threads; with none, everything was saved.            *)
LEMMA QuitPage == HistoryInv /\ PageInv /\ Quit => PageInv'
<1> SUFFICES ASSUME HistoryInv, PageInv, Quit PROVE PageInv'
  OBVIOUS
<1>1. /\ quit = "no" /\ quit' = (IF NoThreads THEN "clean" ELSE "timeout")
      /\ snapshots' = {} /\ appends' = {} /\ updates' = {} /\ load' = None
      /\ UNCHANGED <<file, window, entries, loaded, savePending, saveSeq, clears,
                     retention, savedSeq, recorded, asked, removed, failures>>
  BY DEF Quit, ghosts
<1>2. AppendsPending' /\ PageIsNew'
  BY <1>1 DEF PageInv, AppendsPending, PageIsNew
<1>3. RecordedKept' /\ NewestShown'
  BY <1>1 DEF PageInv, RecordedKept, NewestShown
<1>4. EndIsQuiet'
  BY <1>1 DEF PageInv, NewestShown, EndIsQuiet, NoThreads
<1> QED BY <1>2, <1>3, <1>4 DEF PageInv

(* Nothing changes.                                                        *)
LEMMA StutterPage == HistoryInv /\ PageInv /\ UNCHANGED vars => PageInv'
<1> SUFFICES ASSUME HistoryInv, PageInv, UNCHANGED vars PROVE PageInv'
  OBVIOUS
<1>1. failures \in Nat
  BY DEF HistoryInv, TypeOK
<1> QED BY <1>1, SamePage DEF vars, loading, headless, ghosts

(* So every step preserves it, given the invariant of the file.            *)
LEMMA StepPage == HistoryInv /\ PageInv /\ [CalmNext]_vars => PageInv'
BY AddPage, UpdatePage, DeletePage, ClearPage, RetentionPage, FinishPage,
   LoadPage, WritePage, AppendPage, UpdateOnDiskPage, QuitPage, StutterPage
   DEF CalmNext, Calls, Threads

(* The inductive invariant of the page and the threads.                    *)
THEOREM PageInvariant == CalmSpec => []PageInv
<1> QED BY HistoryInvariant, InitPage, StepPage, PTL DEF CalmSpec

(* At rest, with every number taken also saved, file and page agree.       *)
LEMMA PageInvImplies == HistoryInv /\ PageInv => PageSafety
<1> SUFFICES ASSUME HistoryInv, PageInv PROVE PageSafety
  OBVIOUS
<1>1. TypeOK
  BY DEF HistoryInv
<1>2. EntryKept
  BY DEF PageInv, RecordedKept, EntryKept, Present
<1>3. FileMatchesPage
  <2> SUFFICES ASSUME loaded, NoThreads, quit # "timeout", failures = 0
               PROVE  file = entries
    BY DEF FileMatchesPage
  <2>1. CASE quit = "no"
    BY <2>1 DEF PageInv, NewestShown, NoThreads
  <2>2. CASE quit = "clean"
    BY <2>2 DEF PageInv, EndIsQuiet
  <2> QED BY <1>1, <2>1, <2>2 DEF TypeOK
<1> QED BY <1>1, <1>2, <1>3 DEF PageSafety

(* Wherever the threads are, no transcript is nowhere, and at rest the     *)
(* file holds exactly what the page shows.                                 *)
THEOREM PageSafetyAlways == CalmSpec => []PageSafety
<1> QED BY HistoryInvariant, PageInvariant, PageInvImplies, PTL

(* Only a snapshot can bring a removed recording back, and only an older   *)
(* one than the newest, which is still to be written.                      *)
LEMMA StepBringsNothingBack ==
  HistoryInv /\ PageInv /\ [CalmNext]_vars =>
    [\A r \in removed :
       TakeOf(file[r[1]]) # r[2] /\ TakeOf(file'[r[1]]) = r[2] /\ failures' = 0
         => \E s \in snapshots' : savedSeq' < s.seq /\ TakeOf(s.entries[r[1]]) # r[2]]_vars
<1> SUFFICES ASSUME HistoryInv, PageInv, CalmNext, NEW r \in removed,
                    TakeOf(file[r[1]]) # r[2], TakeOf(file'[r[1]]) = r[2], failures' = 0
             PROVE  \E s \in snapshots' : savedSeq' < s.seq /\ TakeOf(s.entries[r[1]]) # r[2]
  OBVIOUS
<1>1. /\ file' # file /\ failures \in Nat /\ r[1] \in Id /\ r[2] # 0 /\ r = <<r[1], r[2]>>
      /\ TakeOf(0) = 0
  BY VersionFacts DEF HistoryInv, TypeOK
<1>2. ASSUME NEW s \in snapshots, WriteSnapshot(s)
      PROVE  \E t \in snapshots' : savedSeq' < t.seq /\ TakeOf(t.entries[r[1]]) # r[2]
  <2>1. savedSeq < s.seq /\ file' = s.entries /\ savedSeq' = s.seq /\ failures = 0
        /\ snapshots' = snapshots \ {s}
    BY <1>1, <1>2 DEF WriteSnapshot, Newer
  <2>2. PICK t \in snapshots : t.seq = saveSeq /\ t.entries = entries
    BY <2>1, NewestPending
  <2>3. TakeOf(entries[r[1]]) # r[2]
    BY DEF PageInv, PageIsNew
  <2>4. t # s
    BY <2>1, <2>2, <2>3
  <2>5. s.seq < saveSeq
    BY <2>1, <2>3, NewestPending
  <2> QED BY <2>1, <2>2, <2>3, <2>4, <2>5
<1>3. ASSUME NEW t \in appends, AppendToDisk(t) PROVE FALSE
  <2>1. t \notin removed
    BY DEF PageInv, AppendsPending
  <2>2. file' = Pruned([file EXCEPT ![t[1]] = AsRecorded(t[2])], retention)
    BY <1>1, <1>3 DEF AppendToDisk
  <2>3. /\ t = <<t[1], t[2]>> /\ TakeOf(file'[t[1]]) = t[2]
        /\ \A j \in Id \ {t[1]} : file'[j] = file[j] \/ file'[j] = 0
    BY <2>2, Appended
  <2>4. r[1] # t[1]
    BY <1>1, <2>1, <2>3
  <2> QED BY <1>1, <2>3, <2>4
<1>4. ASSUME NEW u \in updates, UpdateOnDisk(u) PROVE FALSE
  BY <1>1, <1>4, UpdatedOnDisk
<1> QED BY <1>1, <1>2, <1>3, <1>4 DEF CalmNext, Calls, Threads, OpenWindow,
        Reload, Clear, Quit, AddEntry, UpdateEntry, Delete, ChooseRetention,
        FinishLoad, ReadHistory

(* What a thread writes is ahead of the file, or new to it.                *)
LEMMA StepUndoesNoUpdate ==
  HistoryInv /\ PageInv /\ [CalmNext]_vars
    => [\A i \in Id : file'[i] # 0 => file[i] <= file'[i]]_vars
<1> SUFFICES ASSUME HistoryInv, PageInv, CalmNext, NEW j \in Id, file'[j] # 0
             PROVE  file[j] <= file'[j]
  OBVIOUS
<1>1. file \in History /\ file[j] \in Nat /\ TakeOf(file[j]) \in Nat
  BY VersionFacts DEF HistoryInv, TypeOK, History
<1>2. CASE file' = file
  BY <1>1, <1>2
<1>3. ASSUME NEW s \in snapshots, WriteSnapshot(s), file' # file PROVE file[j] <= file'[j]
  <2>1. savedSeq < s.seq /\ file' = s.entries /\ s.entries \in History
    BY <1>3 DEF WriteSnapshot, Newer, HistoryInv, TypeOK, Snapshot
  <2>2. file[j] # 0 => file[j] <= s.entries[j]
    BY <2>1 DEF HistoryInv, Covered, Keeps
  <2> QED BY <1>1, <2>1, <2>2 DEF History
<1>4. ASSUME NEW t \in appends, AppendToDisk(t), file' # file PROVE file[j] <= file'[j]
  <2>1. file' = Pruned([file EXCEPT ![t[1]] = AsRecorded(t[2])], retention)
    BY <1>4 DEF AppendToDisk
  <2>2. /\ file' \in History /\ TakeOf(file'[t[1]]) = t[2]
        /\ \A i \in Id \ {t[1]} : file'[i] = file[i] \/ file'[i] = 0
    BY <2>1, Appended
  <2>3. TakeOf(file[t[1]]) < t[2]
    BY DEF PageInv, AppendsPending
  <2>4. file'[j] \in Nat
    BY <2>2 DEF History
  <2>5. CASE j = t[1]
    <3>1. TakeOf(file[j]) < TakeOf(file'[j])
      BY <2>2, <2>3, <2>5
    <3>2. file[j] < file'[j]
      BY <1>1, <2>4, <3>1, VersionFacts
    <3> QED BY <1>1, <2>4, <3>2
  <2>6. CASE j # t[1]
    <3>1. file'[j] = file[j]
      BY <2>2, <2>6
    <3> QED BY <1>1, <3>1
  <2> QED BY <2>5, <2>6
<1>5. ASSUME NEW u \in updates, UpdateOnDisk(u) PROVE file[j] <= file'[j]
  BY <1>5, UpdatedOnDisk
<1> QED BY <1>2, <1>3, <1>4, <1>5 DEF CalmNext, Calls, Threads, OpenWindow,
        Reload, Clear, Quit, AddEntry, UpdateEntry, Delete, ChooseRetention,
        FinishLoad, ReadHistory

(* Whenever a thread gets the file lock, however late, it neither brings   *)
(* back for good what was removed nor takes an entry back to an earlier    *)
(* recording, title or polished text.                                      *)
THEOREM LateWritesUndoNothingAlways == CalmSpec => LateWritesUndoNothing
<1>1. CalmSpec => RemovedStaysRemoved
  BY HistoryInvariant, PageInvariant, StepBringsNothingBack, PTL
  DEF CalmSpec, RemovedStaysRemoved
<1>2. CalmSpec => UpdateNeverUndone
  BY HistoryInvariant, PageInvariant, StepUndoesNoUpdate, PTL
  DEF CalmSpec, UpdateNeverUndone
<1> QED BY <1>1, <1>2 DEF LateWritesUndoNothing

------------------------------------------------------------------------------
(* The main window.                                                        *)

(* The jobs of a queue; all that the window waits for.                     *)
JobsOf(q) == {q[i] : i \in DOMAIN q}
Pending == JobsOf(queue) \cup threads

(* Who records and what the controls show.                                 *)
ShowsTheMicrophone ==
  /\ recording <=> speaker = "main"
  /\ paused => recording
  /\ speaker = "main" => visible
  /\ speaker = "mainEdit" => voiceEditing

(* Nothing is numbered ahead of the session.                               *)
JobsPast ==
  /\ generation <= acts /\ result <= generation
  /\ \A j \in Pending : j.gen <= generation

(* A follow-up of the session is one of the result shown.                  *)
FollowUpsOwn ==
  \A j \in threads :
    /\ j.kind = "summary" => j.of = j.gen /\ (j.gen = generation => result = generation)
    /\ j.kind = "chip" /\ j.gen = generation => result \in {j.of, generation}

(* While the window records, the session has no result and waits for none. *)
RecordingUnheard ==
  speaker = "main" => result # generation /\ \A j \in Pending : ~Waited(j)

(* The animation runs for a job that the window waits for.                 *)
AnimationWaits == spinner => \E j \in Pending : Waited(j)

(* The invariant behind WindowSafety.                                      *)
WindowInv ==
  /\ WindowTypeOK
  /\ ShowsTheMicrophone
  /\ JobsPast
  /\ FollowUpsOwn
  /\ RecordingUnheard
  /\ AnimationWaits
  /\ ClosedKeepsNoAudio
  /\ SummaryIsOwn
  /\ PreviewNeverHidesResult
  /\ PresetInItsSession

(* What is queued is a request of the session.                             *)
LEMMA QueuedIs ==
  /\ Queued = [kind : {"live", "take", "retry", "edit"}, gen : Session, of : Session]
  /\ Threaded = [kind : {"file", "chip", "summary", "editLlm"}, gen : Session, of : Session]
<1>1. Queued = [kind : {"live", "take", "retry", "edit"}, gen : Session, of : Session]
  <2>1. ASSUME NEW j
        PROVE  j \in Queued <=> j \in [kind : {"live", "take", "retry", "edit"}, gen : Session, of : Session]
    <3>1. j \in Queued <=> \E k \in {"live", "take", "retry", "edit"} : j \in Job(k)
      BY DEF Queued
    <3> QED BY <3>1 DEF Job
  <2> QED BY <2>1
<1>2. Threaded = [kind : {"file", "chip", "summary", "editLlm"}, gen : Session, of : Session]
  <2>1. ASSUME NEW j
        PROVE  j \in Threaded <=> j \in [kind : {"file", "chip", "summary", "editLlm"}, gen : Session, of : Session]
    <3>1. j \in Threaded <=> \E k \in {"file", "chip", "summary", "editLlm"} : j \in Job(k)
      BY DEF Threaded
    <3> QED BY <3>1 DEF Job
  <2> QED BY <2>1
<1> QED BY <1>1, <1>2

(* A queue with one more job, and with its first job taken.                *)
LEMMA JobAdded ==
  ASSUME NEW q \in Seq(Queued), NEW j \in Queued
  PROVE  Append(q, j) \in Seq(Queued) /\ JobsOf(Append(q, j)) = JobsOf(q) \cup {j}
<1> DEFINE r == Append(q, j)
<1>1. /\ r \in Seq(Queued) /\ Len(r) = Len(q) + 1 /\ r[Len(q) + 1] = j
      /\ \A i \in 1..Len(q) : r[i] = q[i]
      /\ Len(q) \in Nat /\ DOMAIN q = 1..Len(q) /\ DOMAIN r = 1..(Len(q) + 1)
  BY AppendProperties, LenProperties
<1> HIDE DEF r
<1>2. \A i \in 1..(Len(q) + 1) : i \in 1..Len(q) \/ i = Len(q) + 1
  BY <1>1
<1>3. \A i \in 1..Len(q) : i \in 1..(Len(q) + 1)
  BY <1>1
<1>4. Len(q) + 1 \in 1..(Len(q) + 1)
  BY <1>1
<1>5. JobsOf(r) = JobsOf(q) \cup {j}
  BY <1>1, <1>2, <1>3, <1>4 DEF JobsOf
<1> QED BY <1>1, <1>5 DEF r

LEMMA JobTaken ==
  ASSUME NEW q \in Seq(Queued), q # <<>>
  PROVE  /\ Tail(q) \in Seq(Queued) /\ Head(q) \in Queued /\ Head(q) \in JobsOf(q)
         /\ JobsOf(q) = {Head(q)} \cup JobsOf(Tail(q))
<1> DEFINE r == Tail(q)
<1>1. /\ r \in Seq(Queued) /\ Head(q) \in Queued /\ Head(q) = q[1] /\ Len(r) = Len(q) - 1
      /\ \A i \in 1..Len(r) : r[i] = q[i + 1]
      /\ Len(q) \in Nat /\ Len(q) # 0 /\ DOMAIN q = 1..Len(q) /\ DOMAIN r = 1..Len(r)
  BY HeadTailProperties, LenProperties, EmptySeq
<1> HIDE DEF r
<1>2. 1 \in DOMAIN q
  BY <1>1
<1>3. ASSUME NEW i \in DOMAIN q PROVE q[i] = q[1] \/ q[i] \in JobsOf(r)
  <2>1. CASE i # 1
    <3>1. i - 1 \in DOMAIN r /\ (i - 1) + 1 = i
      BY <1>1, <2>1
    <3>2. r[i - 1] = q[i]
      BY ONLY <1>1, <3>1
    <3> QED BY <3>1, <3>2 DEF JobsOf
  <2> QED BY <2>1
<1>4. ASSUME NEW i \in DOMAIN r PROVE r[i] \in JobsOf(q)
  <2>1. i + 1 \in DOMAIN q
    BY <1>1
  <2>2. r[i] = q[i + 1]
    BY ONLY <1>1, i \in DOMAIN r
  <2> QED BY <2>1, <2>2 DEF JobsOf
<1>5. JobsOf(q) = {Head(q)} \cup JobsOf(r)
  <2>1. JobsOf(q) \subseteq {Head(q)} \cup JobsOf(r)
    BY <1>1, <1>3 DEF JobsOf
  <2>2. Head(q) \in JobsOf(q)
    BY <1>1, <1>2 DEF JobsOf
  <2>3. JobsOf(r) \subseteq JobsOf(q)
    BY <1>4 DEF JobsOf
  <2> QED BY <2>1, <2>2, <2>3
<1> QED BY <1>1, <1>2, <1>5 DEF r, JobsOf

(* Who records.                                                            *)
LEMMA OwnerIs ==
  ASSUME WindowTypeOK
  PROVE  /\ Owner = "None" <=> speaker = "none"
         /\ Owner = "Main" <=> speaker = "main"
         /\ Owner = "Mini" <=> speaker = "panel"
         /\ Owner = "VoiceEdit" <=> speaker \in {"mainEdit", "panelEdit"}
BY DEF WindowTypeOK, Owner

LEMMA WindowInitHolds == WindowInit => WindowInv
<1> SUFFICES ASSUME WindowInit PROVE WindowInv
  OBVIOUS
<1>1. 0 \in Session /\ acts = 0
  BY MainWindowAssumption DEF Session, WindowInit
<1>2. Pending = {}
  BY DEF Pending, JobsOf, WindowInit
<1>3. WindowTypeOK
  <2>1. queue \in Seq(Queued) /\ threads \subseteq Threaded /\ summary \in [of : Session, loading : BOOLEAN]
    BY <1>1 DEF WindowInit, NoSummary
  <2> QED BY <1>1, <2>1 DEF WindowInit, WindowTypeOK
<1>4. ShowsTheMicrophone /\ JobsPast /\ FollowUpsOwn /\ RecordingUnheard /\ AnimationWaits
  BY <1>2 DEF WindowInit, ShowsTheMicrophone, JobsPast, FollowUpsOwn, RecordingUnheard, AnimationWaits
<1>5. ClosedKeepsNoAudio /\ SummaryIsOwn /\ PreviewNeverHidesResult /\ PresetInItsSession
  BY DEF WindowInit, NoSummary, ClosedKeepsNoAudio, SummaryIsOwn, PreviewNeverHidesResult, PresetInItsSession
<1> QED BY <1>3, <1>4, <1>5 DEF WindowInv

(* A step at the microphone that neither begins nor ends the window's      *)
(* recording.                                                              *)
LEMMA MicPreserves ==
  ASSUME WindowInv, UNCHANGED own, acts' \in {acts, acts + 1}, acts' <= MaxActs,
         speaker' \in {"none", "main", "mainEdit", "panelEdit", "panel"}, dead' \in BOOLEAN,
         polls' \subseteq {"main", "panel"},
         speaker' = "main" <=> speaker = "main",
         speaker' = "mainEdit" => speaker = "mainEdit"
  PROVE  WindowInv'
<1>1. UNCHANGED <<generation, queue, threads, result, variants, controls, chipsOn, summary, retry,
                  retryShown, spinner, preview, live, recording, paused, voiceEditing, visible, Pending>>
  BY DEF own, jobs, shown, kept, card, Pending
<1>2. \A j : Waited(j)' <=> Waited(j)
  BY <1>1 DEF Waited
<1>3. acts \in Nat /\ generation \in Nat /\ MaxActs \in Nat
  BY MainWindowAssumption DEF WindowInv, WindowTypeOK, Session
<1>4. acts' \in Session /\ generation <= acts'
  BY <1>3 DEF Session, WindowInv, JobsPast
<1>5. WindowTypeOK'
  BY <1>1, <1>4 DEF WindowInv, WindowTypeOK
<1>6. ShowsTheMicrophone' /\ JobsPast' /\ FollowUpsOwn'
  BY <1>1, <1>4 DEF WindowInv, ShowsTheMicrophone, JobsPast, FollowUpsOwn
<1>7. RecordingUnheard' /\ AnimationWaits'
  BY <1>1, <1>2 DEF WindowInv, RecordingUnheard, AnimationWaits
<1>8. ClosedKeepsNoAudio' /\ SummaryIsOwn' /\ PreviewNeverHidesResult' /\ PresetInItsSession'
  BY <1>1 DEF WindowInv, ClosedKeepsNoAudio, SummaryIsOwn, PreviewNeverHidesResult, PresetInItsSession
<1> QED BY <1>5, <1>6, <1>7, <1>8 DEF WindowInv

(* The panel's use of the microphone and of the worker.                    *)
LEMMA PanelPreserves ==
  ASSUME WindowInv, Panel \/ StreamDies
  PROVE  WindowInv'
<1>1. WindowTypeOK /\ MaxActs \in Nat /\ acts \in 0..MaxActs
      /\ speaker \in {"none", "main", "mainEdit", "panelEdit", "panel"} /\ dead \in BOOLEAN
      /\ polls \subseteq {"main", "panel"}
  BY MainWindowAssumption DEF WindowInv, WindowTypeOK, Session
<1>2. /\ UNCHANGED own /\ acts' \in {acts, acts + 1} /\ acts' <= MaxActs
      /\ speaker' \in {"none", "main", "mainEdit", "panelEdit", "panel"} /\ dead' \in BOOLEAN
      /\ polls' \subseteq {"main", "panel"}
      /\ speaker' = "main" <=> speaker = "main"
      /\ speaker' = "mainEdit" => speaker = "mainEdit"
  <2>1. CASE PanelTake
    <3>1. acts' = acts + 1 /\ acts' <= MaxActs
      BY <1>1, <2>1 DEF PanelTake, Act
    <3>2. /\ speaker = "none" /\ speaker' = "panel" /\ dead' = FALSE /\ polls' = polls /\ UNCHANGED own
      BY <1>1, <2>1, OwnerIs DEF PanelTake, TakeMic
    <3> QED BY <1>1, <3>1, <3>2
  <2>2. CASE PanelEdit
    <3>1. /\ speaker \in {"none", "mainEdit", "panelEdit"} /\ dead' = FALSE /\ UNCHANGED own
          /\ speaker' \in {"panelEdit", "none"} /\ polls' \in {polls, polls \cup {"panel"}}
      BY <1>1, <2>2, OwnerIs DEF PanelEdit, TakeMic, StartFails, FreeMic
    <3>2. acts' \in {acts, acts + 1} /\ acts' <= MaxActs
      BY <1>1, <2>2 DEF PanelEdit, Act
    <3> QED BY <1>1, <3>1, <3>2
  <2>3. CASE PanelTakeEnds \/ PanelTakeDies
    <3>1. speaker = "panel" /\ speaker' = "none" /\ dead' = FALSE
          /\ polls' = polls /\ UNCHANGED own /\ acts' = acts
      BY <1>1, <2>3, OwnerIs DEF PanelTakeEnds, PanelTakeDies, FreeMic
    <3>2. dead' \in BOOLEAN
      BY <3>1
    <3>3. acts' \in {acts, acts + 1} /\ acts' <= MaxActs /\ polls' \subseteq {"main", "panel"}
      BY <1>1, <3>1
    <3> QED BY <3>1, <3>2, <3>3
  <2>4. CASE PanelEndsEdit
    <3>1. /\ speaker \in {"mainEdit", "panelEdit"} /\ speaker' = "none" /\ dead' = FALSE
          /\ polls' = polls /\ UNCHANGED own /\ acts' = acts
      BY <1>1, <2>4, OwnerIs DEF PanelEndsEdit, FreeMic
    <3>2. dead' \in BOOLEAN
      BY <3>1
    <3>3. acts' \in {acts, acts + 1} /\ acts' <= MaxActs /\ polls' \subseteq {"main", "panel"}
      BY <1>1, <3>1
    <3> QED BY <3>1, <3>2, <3>3
  <2>5. CASE PanelPoll
    <3>1. /\ polls' \subseteq polls /\ UNCHANGED own /\ acts' = acts
          /\ \/ UNCHANGED <<speaker, dead>>
             \/ speaker \in {"mainEdit", "panelEdit"} /\ speaker' = "none" /\ dead' = FALSE
      BY <1>1, <2>5, OwnerIs DEF PanelPoll, FreeMic
    <3>2. dead' \in BOOLEAN
      BY <1>1, <3>1
    <3> QED BY <1>1, <3>1, <3>2
  <2>6. CASE StreamDies
    BY <1>1, <2>6 DEF StreamDies
  <2> QED BY <2>1, <2>2, <2>3, <2>4, <2>5, <2>6 DEF Panel
<1> QED BY ONLY WindowInv, <1>2, MicPreserves

(* A new session: nothing is numbered like it yet.                         *)
LEMMA NewSession ==
  ASSUME WindowInv, UserAct, generation' = generation + 1
  PROVE  /\ generation \in Nat /\ acts \in Nat /\ generation' \in Session /\ acts' \in Session
         /\ generation' <= acts' /\ result <= generation' /\ result # generation'
         /\ \A j \in Pending : j.gen <= generation' /\ j.gen # generation'
         /\ visible /\ 0 \in Session
<1>1. /\ generation \in 0..MaxActs /\ acts \in 0..MaxActs /\ MaxActs \in Nat /\ result \in 0..MaxActs
      /\ generation <= acts /\ result <= generation /\ acts' = acts + 1 /\ acts < MaxActs /\ visible
      /\ \A j \in Pending : j.gen <= generation
  BY MainWindowAssumption DEF WindowInv, WindowTypeOK, JobsPast, Session, UserAct, Act
<1>2. \A j \in Pending : j.gen \in 0..MaxActs
  <2>1. queue \in Seq(Queued) /\ threads \subseteq Threaded
    BY DEF WindowInv, WindowTypeOK
  <2>2. JobsOf(queue) \subseteq Queued
    BY <2>1, ElementOfSeq, LenProperties DEF JobsOf
  <2> QED BY <2>1, <2>2, QueuedIs DEF Pending, Session
<1>3. generation' \in 0..MaxActs /\ acts' \in 0..MaxActs /\ generation' <= acts' /\ result <= generation'
      /\ result # generation'
  BY <1>1
<1>4. \A j \in Pending : j.gen <= generation' /\ j.gen # generation'
  BY <1>1, <1>2
<1> QED BY <1>1, <1>3, <1>4 DEF Session

(* What begins a session, or ends one unheard.                             *)
LEMMA RecordPreserves ==
  ASSUME WindowInv, Record
  PROVE  WindowInv'
<1>1. /\ UserAct /\ generation' = generation + 1
      /\ speaker = "none" /\ speaker' = "main" /\ dead' = FALSE
      /\ retry' = 0 /\ retryShown' = FALSE /\ recording' = TRUE /\ spinner' = FALSE
      /\ controls' = FALSE /\ live' \in {"off", "ready"}
      /\ UNCHANGED <<polls, queue, threads, result, variants, chipsOn, summary, preview, paused,
                     voiceEditing, visible>>
  BY OwnerIs DEF Record, TakeMic, BeginOperation, ShowRecording, HideResultControls, jobs, WindowInv
<1>2. /\ generation' \in Session /\ acts' \in Session /\ generation' <= acts'
      /\ result <= generation' /\ result # generation' /\ visible /\ 0 \in Session
      /\ \A j \in Pending : j.gen <= generation' /\ j.gen # generation'
  BY <1>1, NewSession
<1>3. Pending' = Pending
  BY <1>1 DEF Pending
<1>4. WindowTypeOK'
  BY <1>1, <1>2 DEF WindowInv, WindowTypeOK
<1>5. ShowsTheMicrophone' /\ JobsPast' /\ FollowUpsOwn'
  BY <1>1, <1>2, <1>3 DEF WindowInv, ShowsTheMicrophone, JobsPast, FollowUpsOwn, Pending
<1>6. RecordingUnheard' /\ AnimationWaits'
  BY <1>1, <1>2, <1>3 DEF WindowInv, RecordingUnheard, AnimationWaits, Waited
<1>7. ClosedKeepsNoAudio' /\ SummaryIsOwn' /\ PreviewNeverHidesResult' /\ PresetInItsSession'
  BY <1>1, <1>2 DEF WindowInv, ClosedKeepsNoAudio, SummaryIsOwn, PreviewNeverHidesResult, PresetInItsSession
<1> QED BY <1>4, <1>5, <1>6, <1>7 DEF WindowInv

LEMMA CancelPreserves ==
  ASSUME WindowInv, Cancel
  PROVE  WindowInv'
<1>1. /\ UserAct /\ generation' = generation + 1
      /\ speaker \in {"main", "none"} /\ speaker' = "none" /\ dead' = FALSE
      /\ retry' = 0 /\ retryShown' = FALSE /\ recording' = FALSE /\ paused' = FALSE /\ spinner' = FALSE
      /\ preview' = 0 /\ live' = "off"
      /\ UNCHANGED <<polls, queue, threads, result, variants, controls, chipsOn, summary,
                     voiceEditing, visible>>
  BY OwnerIs DEF Cancel, OnCancel, FreeMic, BeginOperation, ShowIdle, ClearLivePreview, StopAnimation,
     jobs, shown, WindowInv
<1>2. /\ generation' \in Session /\ acts' \in Session /\ generation' <= acts'
      /\ result <= generation' /\ result # generation' /\ visible /\ 0 \in Session
      /\ \A j \in Pending : j.gen <= generation' /\ j.gen # generation'
  BY <1>1, NewSession
<1>3. Pending' = Pending
  BY <1>1 DEF Pending
<1>4. WindowTypeOK'
  BY <1>1, <1>2 DEF WindowInv, WindowTypeOK
<1>5. ShowsTheMicrophone' /\ JobsPast' /\ FollowUpsOwn'
  BY <1>1, <1>2, <1>3 DEF WindowInv, ShowsTheMicrophone, JobsPast, FollowUpsOwn, Pending
<1>6. RecordingUnheard' /\ AnimationWaits'
  BY <1>1 DEF RecordingUnheard, AnimationWaits
<1>7. ClosedKeepsNoAudio' /\ SummaryIsOwn' /\ PreviewNeverHidesResult' /\ PresetInItsSession'
  BY <1>1 DEF WindowInv, ClosedKeepsNoAudio, SummaryIsOwn, PreviewNeverHidesResult, PresetInItsSession
<1> QED BY <1>4, <1>5, <1>6, <1>7 DEF WindowInv

LEMMA RetryPreserves ==
  ASSUME WindowInv, Retry
  PROVE  WindowInv'
<1> DEFINE new == NewJob("retry", generation', 0)
<1>1. /\ UserAct /\ generation' = generation + 1
      /\ speaker = "none" /\ retryShown' = FALSE /\ spinner' = TRUE /\ queue' = Append(queue, new)
      /\ UNCHANGED <<speaker, dead, polls, threads, result, variants, controls, chipsOn, summary, retry,
                     preview, live, recording, paused, voiceEditing, visible>>
  BY OwnerIs DEF Retry, StartAnimation, mic, shown, WindowInv
<1>2. /\ generation' \in Session /\ acts' \in Session /\ generation' <= acts'
      /\ result <= generation' /\ result # generation' /\ visible /\ 0 \in Session
      /\ \A j \in Pending : j.gen <= generation' /\ j.gen # generation'
  BY <1>1, NewSession
<1>3. new \in Queued /\ new.gen = generation' /\ new.kind = "retry"
  BY <1>2, MainWindowAssumption, QueuedIs DEF NewJob, Session
<1> HIDE DEF new
<1>4. queue' \in Seq(Queued) /\ Pending' = Pending \cup {new}
  BY <1>1, <1>3, JobAdded DEF Pending, WindowInv, WindowTypeOK
<1>5. WindowTypeOK'
  BY <1>1, <1>2, <1>4 DEF WindowInv, WindowTypeOK
<1>6. ShowsTheMicrophone' /\ JobsPast' /\ FollowUpsOwn'
  BY <1>1, <1>2, <1>3, <1>4 DEF WindowInv, ShowsTheMicrophone, JobsPast, FollowUpsOwn, Pending, Session
<1>7. RecordingUnheard' /\ AnimationWaits'
  BY <1>1, <1>3, <1>4 DEF RecordingUnheard, AnimationWaits, Waited
<1>8. ClosedKeepsNoAudio' /\ SummaryIsOwn' /\ PreviewNeverHidesResult' /\ PresetInItsSession'
  BY <1>1, <1>2 DEF WindowInv, ClosedKeepsNoAudio, SummaryIsOwn, PreviewNeverHidesResult, PresetInItsSession
<1> QED BY <1>5, <1>6, <1>7, <1>8 DEF WindowInv

LEMMA TranscribeFilePreserves ==
  ASSUME WindowInv, TranscribeFile
  PROVE  WindowInv'
<1> DEFINE new == NewJob("file", generation', 0)
<1>1. /\ UserAct /\ generation' = generation + 1
      /\ speaker = "none" /\ retry' = 0 /\ retryShown' = FALSE /\ spinner' = TRUE /\ live' = "off"
      /\ threads' = threads \cup {new}
      /\ UNCHANGED <<speaker, dead, polls, queue, result, variants, controls, chipsOn, summary,
                     preview, recording, paused, voiceEditing, visible>>
  BY OwnerIs DEF TranscribeFile, BeginOperation, StartAnimation, mic, shown, WindowInv
<1>2. /\ generation' \in Session /\ acts' \in Session /\ generation' <= acts'
      /\ result <= generation' /\ result # generation' /\ visible /\ 0 \in Session
      /\ \A j \in Pending : j.gen <= generation' /\ j.gen # generation'
  BY <1>1, NewSession
<1>3. new \in Threaded /\ new.gen = generation' /\ new.kind = "file"
  BY <1>2, MainWindowAssumption, QueuedIs DEF NewJob, Session
<1> HIDE DEF new
<1>4. Pending' = Pending \cup {new}
  BY <1>1 DEF Pending
<1>5. WindowTypeOK'
  BY <1>1, <1>2, <1>3 DEF WindowInv, WindowTypeOK
<1>6. ShowsTheMicrophone' /\ JobsPast' /\ FollowUpsOwn'
  BY <1>1, <1>2, <1>3, <1>4 DEF WindowInv, ShowsTheMicrophone, JobsPast, FollowUpsOwn, Pending, Session
<1>7. RecordingUnheard' /\ AnimationWaits'
  BY <1>1, <1>3, <1>4 DEF RecordingUnheard, AnimationWaits, Waited
<1>8. ClosedKeepsNoAudio' /\ SummaryIsOwn' /\ PreviewNeverHidesResult' /\ PresetInItsSession'
  BY <1>1, <1>2 DEF WindowInv, ClosedKeepsNoAudio, SummaryIsOwn, PreviewNeverHidesResult, PresetInItsSession
<1> QED BY <1>5, <1>6, <1>7, <1>8 DEF WindowInv

(* A step that touches neither the jobs nor what is shown of a result.     *)
LEMMA ViewPreserves ==
  ASSUME WindowInv,
         UNCHANGED <<generation, queue, threads, result, variants, summary, spinner, preview>>,
         WindowTypeOK', ShowsTheMicrophone', ClosedKeepsNoAudio',
         acts' \in {acts, acts + 1}, speaker' = "main" => speaker = "main"
  PROVE  WindowInv'
<1>1. Pending' = Pending /\ \A j : Waited(j)' <=> Waited(j)
  BY DEF Pending, Waited
<1>2. generation \in Nat /\ acts \in Nat
  BY MainWindowAssumption DEF WindowInv, WindowTypeOK, Session
<1>3. JobsPast' /\ FollowUpsOwn'
  BY <1>1, <1>2 DEF WindowInv, JobsPast, FollowUpsOwn
<1>4. RecordingUnheard' /\ AnimationWaits'
  BY <1>1 DEF WindowInv, RecordingUnheard, AnimationWaits
<1>5. SummaryIsOwn' /\ PreviewNeverHidesResult' /\ PresetInItsSession'
  BY DEF WindowInv, SummaryIsOwn, PreviewNeverHidesResult, PresetInItsSession
<1> QED BY <1>3, <1>4, <1>5 DEF WindowInv

(* A step within a session that begins or ends jobs, and shows no result.  *)
LEMMA JobsPreserve ==
  ASSUME WindowInv, UNCHANGED <<generation, result>>, acts' \in {acts, acts + 1},
         WindowTypeOK', ShowsTheMicrophone', ClosedKeepsNoAudio',
         SummaryIsOwn', PreviewNeverHidesResult', PresetInItsSession',
         speaker' = "main" => speaker = "main",
         \A j \in Pending' : j \in Pending \/ (j.gen <= generation /\ (Waited(j) => speaker' # "main")),
         \A j \in threads' : j \in threads \/ (j.kind # "summary" /\ (j.kind = "chip" => j.of = result)),
         spinner' => \/ spinner /\ \A j \in Pending : Waited(j) => j \in Pending'
                     \/ \E j \in Pending' : Waited(j)
  PROVE  WindowInv'
<1>1. \A j : Waited(j)' <=> Waited(j)
  BY DEF Waited
<1>2. generation \in Nat /\ acts \in Nat
  BY MainWindowAssumption DEF WindowInv, WindowTypeOK, Session
<1>3. JobsPast'
  BY <1>2 DEF WindowInv, JobsPast
<1>4. FollowUpsOwn'
  BY DEF WindowInv, FollowUpsOwn
<1>5. RecordingUnheard'
  BY <1>1 DEF WindowInv, RecordingUnheard
<1>6. AnimationWaits'
  BY <1>1 DEF WindowInv, AnimationWaits
<1> QED BY <1>3, <1>4, <1>5, <1>6 DEF WindowInv

(* The session's result is shown, and some follow-ups of it begin.         *)
LEMMA ResultPreserves ==
  ASSUME WindowInv, UNCHANGED <<generation, acts, speaker>>, speaker # "main",
         NEW more \in FollowUps(generation),
         result' = generation, variants' = {}, summary'.of = 0, preview' = 0, spinner' = FALSE,
         threads' \subseteq threads \cup more, Pending' \subseteq Pending \cup more,
         WindowTypeOK', ShowsTheMicrophone', ClosedKeepsNoAudio'
  PROVE  WindowInv'
<1>1. \A j \in more : j.gen = generation /\ j.of = generation
  BY DEF FollowUps, NewJob
<1>2. generation \in Nat /\ acts \in Nat
  BY MainWindowAssumption DEF WindowInv, WindowTypeOK, Session
<1>3. JobsPast'
  BY <1>1, <1>2 DEF WindowInv, JobsPast
<1>4. FollowUpsOwn'
  BY <1>1 DEF WindowInv, FollowUpsOwn
<1>5. RecordingUnheard' /\ AnimationWaits'
  BY DEF RecordingUnheard, AnimationWaits
<1>6. SummaryIsOwn' /\ PreviewNeverHidesResult' /\ PresetInItsSession'
  BY DEF SummaryIsOwn, PreviewNeverHidesResult, PresetInItsSession
<1> QED BY <1>3, <1>4, <1>5, <1>6 DEF WindowInv

(* Work that comes or goes changes no other type.                          *)
LEMMA TypesStay ==
  ASSUME WindowTypeOK, queue' \in Seq(Queued), threads' \subseteq Threaded,
         UNCHANGED <<speaker, dead, polls, generation, result, variants, controls, chipsOn, summary, retry,
                     retryShown, spinner, preview, live, recording, paused, voiceEditing, visible, acts>>
  PROVE  WindowTypeOK'
BY DEF WindowTypeOK

(* What every step starts from.                                            *)
LEMMA WindowFacts ==
  ASSUME WindowInv
  PROVE  /\ WindowTypeOK /\ ShowsTheMicrophone /\ ClosedKeepsNoAudio /\ SummaryIsOwn
         /\ PreviewNeverHidesResult /\ PresetInItsSession
         /\ 0 \in Session /\ generation \in Session /\ result \in Session
         /\ (Act => acts' \in Session /\ acts' = acts + 1)
         /\ \A k \in {"live", "take", "retry", "edit"}, r \in Session :
              /\ NewJob(k, generation, r) \in Queued
              /\ NewJob(k, generation, r).kind = k /\ NewJob(k, generation, r).gen = generation
         /\ \A k \in {"file", "chip", "summary", "editLlm"}, g \in Session, r \in Session :
              /\ NewJob(k, g, r) \in Threaded
              /\ NewJob(k, g, r).kind = k /\ NewJob(k, g, r).gen = g /\ NewJob(k, g, r).of = r
         /\ generation <= generation
<1>1. /\ WindowTypeOK /\ ShowsTheMicrophone /\ ClosedKeepsNoAudio /\ SummaryIsOwn
      /\ PreviewNeverHidesResult /\ PresetInItsSession
  BY DEF WindowInv
<1>2. /\ 0 \in Session /\ generation \in Session /\ result \in Session /\ generation <= generation
      /\ (Act => acts' \in Session /\ acts' = acts + 1)
  BY <1>1, MainWindowAssumption DEF WindowTypeOK, Session, Act
<1>3. \A k \in {"live", "take", "retry", "edit"}, r \in Session :
        /\ NewJob(k, generation, r) \in Queued
        /\ NewJob(k, generation, r).kind = k /\ NewJob(k, generation, r).gen = generation
  BY <1>2, QueuedIs DEF NewJob
<1>4. \A k \in {"file", "chip", "summary", "editLlm"}, g \in Session, r \in Session :
        /\ NewJob(k, g, r) \in Threaded
        /\ NewJob(k, g, r).kind = k /\ NewJob(k, g, r).gen = g /\ NewJob(k, g, r).of = r
  BY <1>2, QueuedIs DEF NewJob
<1> QED BY <1>1, <1>2, <1>3, <1>4

(* The recording: paused, stopped, heard as it goes.                       *)
LEMMA PausePreserves ==
  ASSUME WindowInv, Pause \/ SelectMessage \/ Close \/ PresentWindow
  PROVE  WindowInv'
<1>1. /\ UNCHANGED <<speaker, dead, polls, generation, queue, threads, result, variants, summary, spinner,
                     preview, live, recording, voiceEditing>>
      /\ acts' = acts \/ Act
  BY DEF Pause, SelectMessage, Close, PresentWindow, FreeAct, UserAct, mic, jobs, shown, kept, card
<1>2. /\ paused' \in BOOLEAN
      /\ paused' => recording
      /\ controls' \in BOOLEAN /\ chipsOn' \in BOOLEAN
      /\ retry' \in Session /\ retryShown' \in BOOLEAN /\ visible' \in BOOLEAN
      /\ speaker = "main" => visible'
      /\ ClosedKeepsNoAudio'
  <2>1. CASE Pause
    <3>1. recording /\ paused' = ~paused
          /\ UNCHANGED <<controls, chipsOn, retry, retryShown, visible>>
      BY <2>1 DEF Pause, shown, kept
    <3> QED BY <3>1, WindowFacts DEF WindowTypeOK, ShowsTheMicrophone, ClosedKeepsNoAudio
  <2>2. CASE SelectMessage
    <3>1. controls' = TRUE /\ chipsOn' = TRUE /\ UNCHANGED <<paused, retry, retryShown, visible>>
      BY <2>2 DEF SelectMessage, Refresh, kept, card
    <3> QED BY <3>1, WindowFacts DEF WindowTypeOK, ShowsTheMicrophone, ClosedKeepsNoAudio
  <2>3. CASE Close
    <3>1. /\ speaker # "main" /\ retry' = 0 /\ retryShown' = FALSE /\ visible' = FALSE
          /\ UNCHANGED <<paused, controls, chipsOn>>
      BY <2>3, OwnerIs, WindowFacts DEF Close, shown, card
    <3> QED BY <3>1, WindowFacts DEF WindowTypeOK, ShowsTheMicrophone, ClosedKeepsNoAudio
  <2>4. CASE PresentWindow
    <3>1. visible' = TRUE /\ UNCHANGED <<paused, controls, chipsOn, retry, retryShown>>
      BY <2>4 DEF PresentWindow, shown, kept, card
    <3> QED BY <3>1, WindowFacts DEF WindowTypeOK, ShowsTheMicrophone, ClosedKeepsNoAudio
  <2> QED BY <2>1, <2>2, <2>3, <2>4
<1>3. acts' \in Session /\ acts' \in {acts, acts + 1}
  BY <1>1, WindowFacts DEF WindowTypeOK
<1>4. WindowTypeOK'
  <2>1. /\ speaker' \in {"none", "main", "mainEdit", "panelEdit", "panel"}
        /\ dead' \in BOOLEAN /\ polls' \subseteq {"main", "panel"}
        /\ generation' \in Session /\ queue' \in Seq(Queued) /\ threads' \subseteq Threaded
        /\ result' \in Session /\ variants' \subseteq {"chip", "edit"} \X Session \X Session
        /\ summary' \in [of : Session, loading : BOOLEAN]
        /\ spinner' \in BOOLEAN /\ preview' \in Session /\ live' \in {"off", "ready", "busy"}
        /\ recording' \in BOOLEAN /\ voiceEditing' \in BOOLEAN
    BY <1>1, WindowFacts DEF WindowTypeOK
  <2>2. /\ controls' \in BOOLEAN /\ chipsOn' \in BOOLEAN /\ paused' \in BOOLEAN /\ visible' \in BOOLEAN
        /\ retry' \in Session /\ retryShown' \in BOOLEAN
    BY <1>2
  <2> QED BY <1>3, <2>1, <2>2 DEF WindowTypeOK
<1>5. ShowsTheMicrophone'
  BY <1>1, <1>2, WindowFacts DEF ShowsTheMicrophone
<1>6. UNCHANGED <<generation, queue, threads, result, variants, summary, spinner, preview>>
  BY <1>1
<1> QED BY <1>1, <1>2, <1>3, <1>4, <1>5, <1>6, ViewPreserves

LEMMA StopPreserves ==
  ASSUME WindowInv, Stop \/ RecordTimer
  PROVE  WindowInv'
<1> DEFINE new == NewJob("take", generation, 0)
<1>1. /\ speaker = "main" /\ speaker' = "none" /\ dead' = FALSE /\ recording' = FALSE /\ paused' = FALSE
      /\ live' = "off" /\ retry' = generation
      /\ UNCHANGED <<polls, generation, threads, result, variants, controls, chipsOn, summary, preview,
                     voiceEditing, visible, acts>>
      /\ \/ spinner' = TRUE /\ queue' = Append(queue, new) /\ retryShown' = retryShown
         \/ retryShown' = TRUE /\ UNCHANGED <<spinner, queue>>
  <2>1. PICK ready \in BOOLEAN : OnStop(ready)
    BY DEF Stop, RecordTimer
  <2>2. speaker = "main" /\ acts' = acts
    BY OwnerIs, WindowFacts DEF Stop, RecordTimer, FreeAct, ShowsTheMicrophone
  <2> QED BY <2>1, <2>2 DEF OnStop, FreeMic, ShowIdle, StartAnimation, shown
<1>2. visible /\ new \in Queued /\ new.kind = "take" /\ new.gen = generation
  BY <1>1, WindowFacts DEF ShowsTheMicrophone
<1> HIDE DEF new
<1>3. queue' \in Seq(Queued) /\ Pending' \subseteq Pending \cup {new} /\ Pending \subseteq Pending'
      /\ (queue' = Append(queue, new) => new \in Pending')
  <2>1. queue \in Seq(Queued)
    BY WindowFacts DEF WindowTypeOK
  <2> QED BY <1>1, <1>2, <2>1, JobAdded DEF Pending
<1>4. spinner' \in BOOLEAN /\ retryShown' \in BOOLEAN
  BY <1>1, WindowFacts DEF WindowTypeOK
<1>5. WindowTypeOK'
  BY <1>1, <1>3, <1>4, WindowFacts DEF WindowTypeOK
<1>6. ShowsTheMicrophone' /\ ClosedKeepsNoAudio'
  BY <1>1, <1>2, WindowFacts DEF ShowsTheMicrophone, ClosedKeepsNoAudio
<1>7. SummaryIsOwn' /\ PreviewNeverHidesResult' /\ PresetInItsSession'
  BY <1>1, WindowFacts DEF SummaryIsOwn, PreviewNeverHidesResult, PresetInItsSession
<1>8. spinner' => \/ spinner /\ \A j \in Pending : Waited(j) => j \in Pending'
                  \/ \E j \in Pending' : Waited(j)
  BY <1>1, <1>2, <1>3 DEF Waited
<1>9. \A j \in Pending' : j \in Pending \/ (j.gen <= generation /\ (Waited(j) => speaker' # "main"))
  BY <1>1, <1>2, <1>3, WindowFacts
<1> QED BY <1>1, <1>5, <1>6, <1>7, <1>8, <1>9, JobsPreserve

(* A job that nothing waits for joins the queue.                           *)
LEMMA LiveTickPreserves ==
  ASSUME WindowInv, LiveTick
  PROVE  WindowInv'
<1> DEFINE new == NewJob("live", generation, 0)
<1>1. /\ live' = "busy" /\ queue' = Append(queue, new)
      /\ UNCHANGED <<speaker, dead, polls, generation, threads, result, variants, controls, chipsOn, summary,
                     retry, retryShown, spinner, preview, recording, paused, voiceEditing, visible, acts>>
  BY DEF LiveTick, mic, shown, kept
<1>2. new \in Queued /\ new.kind = "live" /\ new.gen = generation
  BY WindowFacts
<1> HIDE DEF new
<1>3. queue' \in Seq(Queued) /\ Pending' = Pending \cup {new}
  BY <1>1, <1>2, JobAdded, WindowFacts DEF Pending, WindowTypeOK
<1>4. WindowTypeOK'
  BY <1>1, <1>3, WindowFacts DEF WindowTypeOK
<1>5. ShowsTheMicrophone' /\ ClosedKeepsNoAudio'
  BY <1>1, WindowFacts DEF ShowsTheMicrophone, ClosedKeepsNoAudio
<1>6. SummaryIsOwn' /\ PreviewNeverHidesResult' /\ PresetInItsSession'
  BY <1>1, WindowFacts DEF SummaryIsOwn, PreviewNeverHidesResult, PresetInItsSession
<1>7. \A j \in Pending' : j \in Pending \/ (j.gen <= generation /\ (Waited(j) => speaker' # "main"))
  BY <1>2, <1>3, WindowFacts DEF Waited
<1>8. spinner' => \/ spinner /\ \A j \in Pending : Waited(j) => j \in Pending'
                  \/ \E j \in Pending' : Waited(j)
  BY <1>1, <1>3
<1> QED BY <1>1, <1>4, <1>5, <1>6, <1>7, <1>8, JobsPreserve

(* The answer to the first job of the queue.                               *)
LEMMA HeadAnswered ==
  ASSUME WindowInv, queue # <<>>, queue' = Tail(queue)
  PROVE  /\ queue' \in Seq(Queued) /\ Head1 \in Pending
         /\ Head1.kind \in {"live", "take", "retry", "edit"} /\ Head1.gen \in Session /\ Head1.of \in Session
         /\ Head1.gen <= generation
         /\ JobsOf(queue') \subseteq Pending
         /\ \A j \in Pending : j # Head1 => j \in JobsOf(queue') \cup threads
<1>1. queue \in Seq(Queued)
  BY WindowFacts DEF WindowTypeOK
<1>2. /\ Tail(queue) \in Seq(Queued) /\ Head1 \in Queued /\ Head1 \in JobsOf(queue)
      /\ JobsOf(queue) = {Head1} \cup JobsOf(Tail(queue))
  BY <1>1, JobTaken DEF Head1
<1>3. Head1.kind \in {"live", "take", "retry", "edit"} /\ Head1.gen \in Session /\ Head1.of \in Session
  BY <1>2, QueuedIs
<1>4. Head1 \in Pending
  BY <1>2 DEF Pending
<1>5. Head1.gen <= generation
  BY <1>4 DEF WindowInv, JobsPast
<1>6. JobsOf(queue') = JobsOf(Tail(queue))
  OBVIOUS
<1> QED BY <1>2, <1>3, <1>4, <1>5, <1>6 DEF Pending

LEMMA LiveAnswerPreserves ==
  ASSUME WindowInv, LiveAnswer
  PROVE  WindowInv'
<1>1. /\ queue # <<>> /\ queue' = Tail(queue) /\ Head1.kind = "live"
      /\ UNCHANGED <<speaker, dead, polls, generation, threads, result, variants, controls, chipsOn, summary,
                     retry, retryShown, spinner, recording, paused, voiceEditing, visible, acts>>
      /\ live' \in {"off", "ready", "busy"}
      /\ preview' = preview \/ (speaker = "main" /\ preview' = generation)
  BY OwnerIs, WindowFacts DEF LiveAnswer, SetLivePreview, mic, shown, kept, WindowTypeOK
<1>2. /\ queue' \in Seq(Queued) /\ JobsOf(queue') \subseteq Pending
      /\ \A j \in Pending : j # Head1 => j \in JobsOf(queue') \cup threads
  BY <1>1, HeadAnswered
<1>3. Pending' \subseteq Pending /\ \A j \in Pending : Waited(j) => j \in Pending'
  BY <1>1, <1>2 DEF Pending, Waited
<1>4. preview' \in Session
  BY <1>1, WindowFacts DEF WindowTypeOK
<1>5. WindowTypeOK'
  BY <1>1, <1>2, <1>4, WindowFacts DEF WindowTypeOK
<1>6. ShowsTheMicrophone' /\ ClosedKeepsNoAudio'
  BY <1>1, WindowFacts DEF ShowsTheMicrophone, ClosedKeepsNoAudio
<1>7. SummaryIsOwn' /\ PresetInItsSession'
  BY <1>1, WindowFacts DEF SummaryIsOwn, PresetInItsSession
<1>8. PreviewNeverHidesResult'
  BY <1>1 DEF WindowInv, PreviewNeverHidesResult, RecordingUnheard
<1>9. spinner' => \/ spinner /\ \A j \in Pending : Waited(j) => j \in Pending'
                  \/ \E j \in Pending' : Waited(j)
  BY <1>1, <1>3
<1> QED BY <1>1, <1>3, <1>5, <1>6, <1>7, <1>8, <1>9, JobsPreserve

(* An answer of the session, which the window does not record meanwhile:   *)
(* it shows a result, or leaves the one there was and tells why.           *)
LEMMA Answered ==
  ASSUME WindowInv, NEW j \in Pending, Waited(j),
         UNCHANGED <<speaker, dead, polls, generation, live, recording, paused, voiceEditing, visible, acts>>,
         queue' \in Seq(Queued), JobsOf(queue') \subseteq Pending,
         spinner' = FALSE, retry' \in Session, retryShown' \in BOOLEAN, ClosedKeepsNoAudio',
         \/ \E more \in FollowUps(generation) :
              ShowResult(generation, more) /\ threads' \subseteq threads \cup more
         \/ /\ threads' \subseteq threads /\ preview' \in {0, preview}
            /\ UNCHANGED <<result, variants, controls, chipsOn, summary>>
  PROVE  WindowInv'
<1>1. speaker # "main"
  BY DEF WindowInv, RecordingUnheard
<1>2. /\ speaker' \in {"none", "main", "mainEdit", "panelEdit", "panel"}
      /\ dead' \in BOOLEAN /\ polls' \subseteq {"main", "panel"}
      /\ generation' \in Session /\ acts' \in Session /\ live' \in {"off", "ready", "busy"}
      /\ recording' \in BOOLEAN /\ paused' \in BOOLEAN /\ voiceEditing' \in BOOLEAN /\ visible' \in BOOLEAN
  BY WindowFacts DEF WindowTypeOK
<1>3. ShowsTheMicrophone'
  BY WindowFacts DEF ShowsTheMicrophone
<1>4. CASE \E more \in FollowUps(generation) :
             ShowResult(generation, more) /\ threads' \subseteq threads \cup more
  <2>1. PICK more \in FollowUps(generation) :
               ShowResult(generation, more) /\ threads' \subseteq threads \cup more
    BY <1>4
  <2>2. /\ result' = generation /\ variants' = {} /\ controls' = TRUE /\ chipsOn' \in BOOLEAN
        /\ summary'.of = 0 /\ summary' \in [of : Session, loading : BOOLEAN] /\ preview' = 0
    BY <2>1, WindowFacts DEF ShowResult, ClearLivePreview
  <2>3. more \subseteq Threaded
    BY WindowFacts DEF FollowUps
  <2>4. threads' \subseteq Threaded /\ Pending' \subseteq Pending \cup more
    BY <2>1, <2>3, WindowFacts DEF WindowTypeOK, Pending
  <2>5. WindowTypeOK'
    BY <1>2, <2>2, <2>4, WindowFacts DEF WindowTypeOK
  <2>6. WindowInv /\ UNCHANGED <<generation, acts, speaker>>
    OBVIOUS
  <2> QED BY ONLY <1>1, <1>3, <2>1, <2>2, <2>4, <2>5, <2>6, spinner' = FALSE, ClosedKeepsNoAudio', ResultPreserves
<1>5. CASE /\ threads' \subseteq threads /\ preview' \in {0, preview}
           /\ UNCHANGED <<result, variants, controls, chipsOn, summary>>
  <2>1. Pending' \subseteq Pending
    BY <1>5 DEF Pending
  <2>2. /\ preview' \in Session /\ threads' \subseteq Threaded /\ result' \in Session
        /\ variants' \subseteq {"chip", "edit"} \X Session \X Session
        /\ controls' \in BOOLEAN /\ chipsOn' \in BOOLEAN
        /\ summary' \in [of : Session, loading : BOOLEAN]
    <3>1. /\ 0 \in Session /\ preview \in Session /\ threads \subseteq Threaded /\ result \in Session
          /\ variants \subseteq {"chip", "edit"} \X Session \X Session
          /\ controls \in BOOLEAN /\ chipsOn \in BOOLEAN
          /\ summary \in [of : Session, loading : BOOLEAN]
      BY WindowFacts DEF WindowTypeOK
    <3>2. preview' \in Session /\ threads' \subseteq Threaded
      BY ONLY <1>5, <3>1
    <3>3. /\ result' = result /\ variants' = variants /\ controls' = controls
          /\ chipsOn' = chipsOn /\ summary' = summary
      BY ONLY <1>5
    <3> QED BY ONLY <3>1, <3>2, <3>3, Zenon
  <2>3. WindowTypeOK'
    BY <1>2, <2>2 DEF WindowTypeOK
  <2>4. SummaryIsOwn' /\ PreviewNeverHidesResult' /\ PresetInItsSession'
    BY <1>5, WindowFacts DEF SummaryIsOwn, PreviewNeverHidesResult, PresetInItsSession
  <2> QED BY <1>3, <1>5, <2>1, <2>3, <2>4, JobsPreserve
<1> QED BY <1>4, <1>5

(* An answer of an earlier session leaves what is shown.                   *)
LEMMA StaleAnswered ==
  ASSUME WindowInv, NEW a \in Pending, ~Waited(a), Pending' \subseteq Pending,
         \A j \in Pending : j # a => j \in Pending',
         queue' \in Seq(Queued), threads' \subseteq threads,
         UNCHANGED <<speaker, dead, polls, generation, result, variants, controls, chipsOn, summary, retry,
                     retryShown, spinner, preview, live, recording, paused, voiceEditing, visible, acts>>
  PROVE  WindowInv'
<1>1. WindowTypeOK'
  BY WindowFacts DEF WindowTypeOK
<1>2. ShowsTheMicrophone' /\ ClosedKeepsNoAudio'
  BY WindowFacts DEF ShowsTheMicrophone, ClosedKeepsNoAudio
<1>3. SummaryIsOwn' /\ PreviewNeverHidesResult' /\ PresetInItsSession'
  BY WindowFacts DEF SummaryIsOwn, PreviewNeverHidesResult, PresetInItsSession
<1>4. \A j \in Pending : Waited(j) => j \in Pending'
  OBVIOUS
<1> QED BY <1>1, <1>2, <1>3, <1>4, JobsPreserve

(* The answers to a take and to a file.                                    *)
LEMMA TakeAnswerPreserves ==
  ASSUME WindowInv, TakeAnswer
  PROVE  WindowInv'
<1>1. /\ queue # <<>> /\ queue' = Tail(queue) /\ Head1.kind \in {"take", "retry"}
      /\ UNCHANGED <<speaker, dead, polls, generation, live, recording, paused, voiceEditing, visible, acts>>
  BY DEF TakeAnswer, mic
<1>2. /\ queue' \in Seq(Queued) /\ JobsOf(queue') \subseteq Pending /\ Head1 \in Pending
      /\ \A j \in Pending : j # Head1 => j \in JobsOf(queue') \cup threads
  BY <1>1, HeadAnswered
<1>3. CASE Head1.gen = generation
  <2>1. Apply(generation)
    BY <1>3 DEF TakeAnswer, IsCurrent
  <2>2. /\ spinner' = FALSE /\ retryShown' \in BOOLEAN
        /\ \/ retry' = 0 /\ retryShown' = FALSE
           \/ retry' = retry /\ retryShown' = (retry # 0)
    BY <2>1 DEF Apply, StopAnimation
  <2>3. retry' \in Session /\ ClosedKeepsNoAudio'
    BY <1>1, <2>2, WindowFacts DEF WindowTypeOK, ClosedKeepsNoAudio
  <2>4. \/ \E more \in FollowUps(generation) :
              ShowResult(generation, more) /\ threads' \subseteq threads \cup more
        \/ /\ threads' \subseteq threads /\ preview' \in {0, preview}
           /\ UNCHANGED <<result, variants, controls, chipsOn, summary>>
    BY <2>1 DEF Apply, ClearLivePreview, shown
  <2>5. Waited(Head1)
    BY <1>1, <1>3 DEF Waited
  <2> QED BY <1>1, <1>2, <2>2, <2>3, <2>4, <2>5, Answered
<1>4. CASE Head1.gen # generation
  <2>1. UNCHANGED <<threads, result, variants, controls, chipsOn, summary, retry, retryShown, spinner, preview>>
    BY <1>4 DEF TakeAnswer, IsCurrent, shown, kept
  <2>2. ~Waited(Head1)
    BY <1>4 DEF Waited
  <2>3. Pending' \subseteq Pending /\ \A j \in Pending : j # Head1 => j \in Pending'
    BY <1>2, <2>1 DEF Pending
  <2> QED BY <1>1, <1>2, <2>1, <2>2, <2>3, StaleAnswered
<1> QED BY <1>3, <1>4

LEMMA FileAnswerPreserves ==
  ASSUME WindowInv, NEW j \in threads, FileAnswer(j)
  PROVE  WindowInv'
<1>1. /\ j \in Pending /\ j.kind = "file"
      /\ UNCHANGED <<speaker, dead, polls, generation, queue, live, recording, paused, voiceEditing, visible,
                     acts>>
  BY DEF FileAnswer, mic, Pending
<1>2. queue' \in Seq(Queued) /\ JobsOf(queue') = JobsOf(queue) /\ JobsOf(queue') \subseteq Pending
  BY <1>1, WindowFacts DEF WindowTypeOK, Pending
<1>3. CASE j.gen = generation
  <2>1. /\ spinner' = FALSE
        /\ \/ UNCHANGED <<retry, retryShown>>
           \/ retry' \in Retained /\ retryShown' = (retry' # 0)
        /\ \/ \E more \in FollowUps(generation) :
                 ShowResult(generation, more) /\ threads' = (threads \ {j}) \cup more
           \/ threads' = threads \ {j} /\ UNCHANGED <<shown, preview>>
    BY <1>3 DEF FileAnswer, IsCurrent, StopAnimation, kept
  <2>2. retry' \in Session /\ retryShown' \in BOOLEAN /\ ClosedKeepsNoAudio'
    <3>1. CASE UNCHANGED <<retry, retryShown>>
      BY <1>1, <3>1, WindowFacts DEF WindowTypeOK, ClosedKeepsNoAudio
    <3>2. CASE retry' \in Retained /\ retryShown' = (retry' # 0)
      BY <1>1, <3>2, WindowFacts DEF WindowTypeOK, Retained, ClosedKeepsNoAudio
    <3> QED BY <2>1, <3>1, <3>2
  <2>3. \/ \E more \in FollowUps(generation) :
              ShowResult(generation, more) /\ threads' \subseteq threads \cup more
        \/ /\ threads' \subseteq threads /\ preview' \in {0, preview}
           /\ UNCHANGED <<result, variants, controls, chipsOn, summary>>
    BY <2>1 DEF shown
  <2>4. Waited(j)
    BY <1>1, <1>3 DEF Waited
  <2> QED BY <1>1, <1>2, <2>1, <2>2, <2>3, <2>4, Answered
<1>4. CASE j.gen # generation
  <2>1. /\ threads' = threads \ {j}
        /\ UNCHANGED <<result, variants, controls, chipsOn, summary, retry, retryShown, spinner, preview>>
    BY <1>4 DEF FileAnswer, IsCurrent, shown, kept
  <2>2. ~Waited(j)
    BY <1>4 DEF Waited
  <2>3. Pending' \subseteq Pending /\ \A i \in Pending : i # j => i \in Pending'
    BY <1>2, <2>1 DEF Pending
  <2> QED BY <1>1, <1>2, <2>1, <2>2, <2>3, StaleAnswered
<1> QED BY <1>3, <1>4

(* A step of the AI's requests on the result: of the jobs that the         *)
(* animation waits for none begins or ends.                                *)
LEMMA RequestPreserves ==
  ASSUME WindowInv, acts' \in {acts, acts + 1}, acts' \in Session,
         UNCHANGED <<speaker, dead, polls, generation, queue, result, retry, retryShown, spinner, preview, live,
                     recording, paused, voiceEditing, visible>>,
         controls' \in BOOLEAN, chipsOn' \in BOOLEAN, summary' \in [of : Session, loading : BOOLEAN],
         threads' \subseteq Threaded, variants' \subseteq {"chip", "edit"} \X Session \X Session,
         SummaryIsOwn', PresetInItsSession',
         \A j \in threads : j.kind = "file" => j \in threads',
         \A j \in threads' :
           j \in threads \/ (j.gen <= generation /\ j.kind \notin {"file", "summary"}
                             /\ (j.kind = "chip" => j.of = result))
  PROVE  WindowInv'
<1>1. WindowTypeOK'
  BY WindowFacts DEF WindowTypeOK
<1>2. ShowsTheMicrophone' /\ ClosedKeepsNoAudio'
  BY WindowFacts DEF ShowsTheMicrophone, ClosedKeepsNoAudio
<1>3. PreviewNeverHidesResult'
  BY WindowFacts DEF PreviewNeverHidesResult
<1>4. threads' \subseteq Threaded /\ threads \subseteq Threaded
  BY WindowFacts DEF WindowTypeOK
<1>5. \A j \in threads \cup threads' : j.kind \in {"file", "chip", "summary", "editLlm"}
  BY <1>4, QueuedIs
<1>6. \A j \in Pending' : j \in Pending \/ (j.gen <= generation /\ (Waited(j) => speaker' # "main"))
  BY <1>5 DEF Pending, Waited
<1>7. \A j \in Pending : Waited(j) => j \in Pending'
  BY <1>5 DEF Pending, Waited
<1> QED BY <1>1, <1>2, <1>3, <1>6, <1>7, JobsPreserve

(* The follow-ups of a result.                                             *)
LEMMA ChipPreserves ==
  ASSUME WindowInv, Chip
  PROVE  WindowInv'
<1> DEFINE new == NewJob("chip", generation, result)
<1>1. /\ Act /\ threads' = threads \cup {new} /\ chipsOn' = FALSE
      /\ UNCHANGED <<speaker, dead, polls, generation, queue, result, variants, controls, summary, retry,
                     retryShown, spinner, preview, live, recording, paused, voiceEditing, visible>>
  BY DEF Chip, UserAct, mic, kept, card
<1>2. new \in Threaded /\ new.kind = "chip" /\ new.gen = generation /\ new.of = result
  BY WindowFacts
<1> HIDE DEF new
<1>3. /\ acts' \in Session /\ acts' \in {acts, acts + 1} /\ generation <= generation
      /\ controls' \in BOOLEAN /\ summary' \in [of : Session, loading : BOOLEAN]
      /\ threads' \subseteq Threaded /\ variants' \subseteq {"chip", "edit"} \X Session \X Session
  BY <1>1, <1>2, WindowFacts DEF WindowTypeOK
<1>4. SummaryIsOwn' /\ PresetInItsSession'
  BY <1>1, WindowFacts DEF SummaryIsOwn, PresetInItsSession
<1> QED BY <1>1, <1>2, <1>3, <1>4, RequestPreserves

LEMMA ChipAnswerPreserves ==
  ASSUME WindowInv, NEW j \in threads, ChipAnswer(j)
  PROVE  WindowInv'
<1>1. /\ j.kind = "chip" /\ threads' = threads \ {j}
      /\ UNCHANGED <<speaker, dead, polls, generation, queue, result, summary, retry, retryShown, spinner, preview,
                     live, recording, paused, voiceEditing, visible, acts>>
      /\ \/ UNCHANGED variants
         \/ j.gen = generation /\ variants' = variants \cup {<<"chip", j.of, j.gen>>}
      /\ controls' \in {controls, TRUE} /\ chipsOn' \in {chipsOn, TRUE}
  BY DEF ChipAnswer, IsCurrent, Refresh, mic, kept, card
<1>2. j.of \in Session /\ j.gen \in Session
  BY QueuedIs, WindowFacts DEF WindowTypeOK
<1>3. j.gen = generation => result \in {j.of, j.gen}
  BY <1>1 DEF WindowInv, FollowUpsOwn
<1>4. controls' \in BOOLEAN /\ chipsOn' \in BOOLEAN
  BY <1>1, WindowFacts DEF WindowTypeOK
<1>5. /\ acts' \in Session /\ summary' \in [of : Session, loading : BOOLEAN]
      /\ threads' \subseteq Threaded /\ variants' \subseteq {"chip", "edit"} \X Session \X Session
  <2>1. <<"chip", j.of, j.gen>> \in {"chip", "edit"} \X Session \X Session
    BY <1>2
  <2>2. variants \subseteq {"chip", "edit"} \X Session \X Session
    BY WindowFacts DEF WindowTypeOK
  <2>3. variants' \subseteq {"chip", "edit"} \X Session \X Session
    BY <1>1, <2>1, <2>2
  <2> QED BY <1>1, <2>3, WindowFacts DEF WindowTypeOK
<1>6. SummaryIsOwn'
  BY <1>1, WindowFacts DEF SummaryIsOwn
<1>7. PresetInItsSession'
  BY <1>1, <1>3, WindowFacts DEF PresetInItsSession
<1> QED BY <1>1, <1>4, <1>5, <1>6, <1>7, RequestPreserves

LEMMA SummaryAnswerPreserves ==
  ASSUME WindowInv, NEW j \in threads, SummaryAnswer(j)
  PROVE  WindowInv'
<1>1. /\ j.kind = "summary" /\ threads' = threads \ {j}
      /\ UNCHANGED <<speaker, dead, polls, generation, queue, result, variants, controls, chipsOn, retry,
                     retryShown, spinner, preview, live, recording, paused, voiceEditing, visible, acts>>
      /\ \/ summary' = summary
         \/ summary' = NoSummary
         \/ j.gen = generation /\ summary' = [of |-> j.of, loading |-> FALSE]
  BY DEF SummaryAnswer, IsCurrent, mic, kept, card
<1>2. j.of \in Session
  BY QueuedIs, WindowFacts DEF WindowTypeOK
<1>3. j.gen = generation => j.of = result
  BY <1>1 DEF WindowInv, FollowUpsOwn
<1>4. summary' \in [of : Session, loading : BOOLEAN] /\ summary'.of \in {0, result}
  <2>1. CASE summary' = summary
    BY <2>1, WindowFacts DEF WindowTypeOK, SummaryIsOwn
  <2>2. CASE summary' = NoSummary
    BY <2>2, WindowFacts DEF NoSummary
  <2>3. CASE j.gen = generation /\ summary' = [of |-> j.of, loading |-> FALSE]
    BY <1>2, <1>3, <2>3
  <2> QED BY <1>1, <2>1, <2>2, <2>3
<1>5. controls' \in BOOLEAN /\ chipsOn' \in BOOLEAN
  BY <1>1, WindowFacts DEF WindowTypeOK
<1>6. /\ acts' \in Session /\ threads' \subseteq Threaded
      /\ variants' \subseteq {"chip", "edit"} \X Session \X Session
  BY <1>1, WindowFacts DEF WindowTypeOK
<1>7. SummaryIsOwn' /\ PresetInItsSession'
  BY <1>1, <1>4, WindowFacts DEF SummaryIsOwn, PresetInItsSession
<1> QED BY <1>1, <1>4, <1>5, <1>6, <1>7, RequestPreserves

LEMMA EditAnswerPreserves ==
  ASSUME WindowInv, NEW j \in threads, EditAnswer(j)
  PROVE  WindowInv'
<1>1. /\ j.kind = "editLlm" /\ threads' = threads \ {j}
      /\ UNCHANGED <<speaker, dead, polls, generation, queue, result, summary, retry, retryShown, spinner, preview,
                     live, recording, paused, voiceEditing, visible, acts>>
      /\ \/ UNCHANGED variants
         \/ variants' = variants \cup {<<"edit", j.of, j.gen>>}
      /\ controls' \in {controls, TRUE} /\ chipsOn' \in {chipsOn, TRUE}
  BY DEF EditAnswer, Refresh, mic, kept, card
<1>2. j.of \in Session /\ j.gen \in Session
  BY QueuedIs, WindowFacts DEF WindowTypeOK
<1>3. controls' \in BOOLEAN /\ chipsOn' \in BOOLEAN
  BY <1>1, WindowFacts DEF WindowTypeOK
<1>4. /\ acts' \in Session /\ summary' \in [of : Session, loading : BOOLEAN]
      /\ threads' \subseteq Threaded /\ variants' \subseteq {"chip", "edit"} \X Session \X Session
  <2>1. <<"edit", j.of, j.gen>> \in {"chip", "edit"} \X Session \X Session
    BY <1>2
  <2>2. variants \subseteq {"chip", "edit"} \X Session \X Session
    BY WindowFacts DEF WindowTypeOK
  <2>3. variants' \subseteq {"chip", "edit"} \X Session \X Session
    BY <1>1, <2>1, <2>2
  <2> QED BY <1>1, <2>3, WindowFacts DEF WindowTypeOK
<1>5. SummaryIsOwn' /\ PresetInItsSession'
  BY <1>1, WindowFacts DEF SummaryIsOwn, PresetInItsSession
<1> QED BY <1>1, <1>3, <1>4, <1>5, RequestPreserves

(* The window's voice edit.                                                *)
LEMMA StartVoiceEditPreserves ==
  ASSUME WindowInv, StartVoiceEdit
  PROVE  WindowInv'
<1>1. /\ Act /\ speaker # "main" /\ dead' = FALSE
      /\ UNCHANGED <<generation, queue, threads, result, variants, controls, chipsOn, summary, retry, retryShown,
                     spinner, preview, live, recording, paused, visible>>
      /\ \/ speaker' = "mainEdit" /\ voiceEditing' = TRUE /\ polls' = polls \cup {"main"}
         \/ speaker' = "none" /\ UNCHANGED <<voiceEditing, polls>>
  BY OwnerIs, WindowFacts DEF StartVoiceEdit, UserAct, TakeMic, StartFails, FreeMic, jobs, shown, kept, card
<1>2. acts' \in Session /\ acts' \in {acts, acts + 1}
  BY <1>1, WindowFacts
<1>3. voiceEditing' \in BOOLEAN /\ polls' \subseteq {"main", "panel"}
  BY <1>1, WindowFacts DEF WindowTypeOK
<1>4. WindowTypeOK'
  BY <1>1, <1>2, <1>3, WindowFacts DEF WindowTypeOK
<1>5. ShowsTheMicrophone' /\ ClosedKeepsNoAudio'
  BY <1>1, WindowFacts DEF ShowsTheMicrophone, ClosedKeepsNoAudio
<1> QED BY <1>1, <1>2, <1>4, <1>5, ViewPreserves

(* The window's edit ends.                                                 *)
LEMMA StopVoiceEditPreserves ==
  ASSUME WindowInv, StopVoiceEditMain, polls' \subseteq polls, acts' = acts
  PROVE  WindowInv'
<1> DEFINE new == NewJob("edit", generation, result)
<1>1. /\ voiceEditing' = FALSE
      /\ UNCHANGED <<generation, threads, result, variants, controls, chipsOn, summary, retry, retryShown,
                     spinner, preview, live, recording, paused, visible>>
      /\ \/ speaker \in {"mainEdit", "panelEdit"} /\ speaker' = "none" /\ dead' = FALSE
         \/ speaker \notin {"mainEdit", "panelEdit"} /\ UNCHANGED <<speaker, dead>>
      /\ queue' = queue \/ queue' = Append(queue, new)
  BY OwnerIs, WindowFacts DEF StopVoiceEditMain, FreeMic, shown, kept, card
<1>2. new \in Queued /\ new.kind = "edit" /\ new.gen = generation
  BY WindowFacts
<1> HIDE DEF new
<1>3. /\ queue' \in Seq(Queued) /\ JobsOf(queue) \subseteq JobsOf(queue')
      /\ JobsOf(queue') \subseteq JobsOf(queue) \cup {new}
  <2>1. queue \in Seq(Queued)
    BY WindowFacts DEF WindowTypeOK
  <2>2. Append(queue, new) \in Seq(Queued) /\ JobsOf(Append(queue, new)) = JobsOf(queue) \cup {new}
    BY <1>2, <2>1, JobAdded
  <2> QED BY <1>1, <2>1, <2>2
<1>4. /\ speaker' \in {"none", "main", "mainEdit", "panelEdit", "panel"} /\ dead' \in BOOLEAN
      /\ polls' \subseteq {"main", "panel"}
  <2>1. dead' \in BOOLEAN
    BY <1>1, WindowFacts DEF WindowTypeOK
  <2> QED BY <1>1, <2>1, WindowFacts DEF WindowTypeOK
<1>5. WindowTypeOK'
  BY <1>1, <1>3, <1>4, WindowFacts DEF WindowTypeOK
<1>6. ShowsTheMicrophone' /\ ClosedKeepsNoAudio'
  BY <1>1, WindowFacts DEF ShowsTheMicrophone, ClosedKeepsNoAudio
<1>7. SummaryIsOwn' /\ PreviewNeverHidesResult' /\ PresetInItsSession'
  BY <1>1, WindowFacts DEF SummaryIsOwn, PreviewNeverHidesResult, PresetInItsSession
<1>8. Pending \subseteq Pending' /\ Pending' \subseteq Pending \cup {new}
  BY <1>1, <1>3 DEF Pending
<1>9. \A j \in Pending' : j \in Pending \/ (j.gen <= generation /\ (Waited(j) => speaker' # "main"))
  BY <1>2, <1>8, WindowFacts DEF Waited
<1> QED BY <1>1, <1>5, <1>6, <1>7, <1>8, <1>9, JobsPreserve

LEMMA MainPollPreserves ==
  ASSUME WindowInv, MainPoll
  PROVE  WindowInv'
<1>1. polls' = polls \ {"main"} /\ acts' = acts
  BY DEF MainPoll
<1>2. CASE StopVoiceEditMain
  BY <1>1, <1>2, StopVoiceEditPreserves
<1>3. CASE UNCHANGED <<speaker, dead, own>>
  <2>1. /\ speaker' \in {"none", "main", "mainEdit", "panelEdit", "panel"} /\ polls' \subseteq {"main", "panel"}
        /\ speaker' = speaker /\ UNCHANGED own
    BY <1>1, <1>3, WindowFacts DEF WindowTypeOK
  <2>2. dead' \in BOOLEAN
    BY <1>3, WindowFacts DEF WindowTypeOK
  <2>3. acts' \in {acts, acts + 1} /\ acts' <= MaxActs
    BY <1>1, MainWindowAssumption, WindowFacts DEF WindowTypeOK, Session
  <2> QED BY <2>1, <2>2, <2>3, MicPreserves
<1> QED BY <1>2, <1>3 DEF MainPoll

LEMMA EditHeardPreserves ==
  ASSUME WindowInv, EditHeard
  PROVE  WindowInv'
<1> DEFINE new == NewJob("editLlm", Head1.gen, Head1.of)
<1>1. /\ queue # <<>> /\ queue' = Tail(queue) /\ Head1.kind = "edit"
      /\ threads' \in {threads, threads \cup {new}}
      /\ UNCHANGED <<speaker, dead, polls, generation, result, variants, controls, chipsOn, summary, retry,
                     retryShown, spinner, preview, live, recording, paused, voiceEditing, visible, acts>>
  BY DEF EditHeard, mic, shown, kept, card
<1>2. /\ queue' \in Seq(Queued) /\ JobsOf(queue') \subseteq Pending
      /\ Head1.gen \in Session /\ Head1.of \in Session /\ Head1.gen <= generation
      /\ \A j \in Pending : j # Head1 => j \in JobsOf(queue') \cup threads
  BY <1>1, HeadAnswered
<1>3. new \in Threaded /\ new.kind = "editLlm" /\ new.gen = Head1.gen
  BY <1>2, WindowFacts
<1> HIDE DEF new
<1>4. WindowTypeOK'
  <2>1. threads' \subseteq Threaded
    BY <1>1, <1>3, WindowFacts DEF WindowTypeOK
  <2>2. WindowTypeOK /\ queue' \in Seq(Queued)
    BY <1>2, WindowFacts
  <2>3. UNCHANGED <<speaker, dead, polls, generation, result, variants, controls, chipsOn, summary, retry,
                    retryShown, spinner, preview, live, recording, paused, voiceEditing, visible, acts>>
    BY <1>1
  <2> QED BY ONLY <2>1, <2>2, <2>3, TypesStay
<1>5. ShowsTheMicrophone' /\ ClosedKeepsNoAudio'
  BY <1>1, WindowFacts DEF ShowsTheMicrophone, ClosedKeepsNoAudio
<1>6. SummaryIsOwn' /\ PreviewNeverHidesResult' /\ PresetInItsSession'
  BY <1>1, WindowFacts DEF SummaryIsOwn, PreviewNeverHidesResult, PresetInItsSession
<1>7. /\ Pending' \subseteq Pending \cup {new}
      /\ \A j \in Pending : Waited(j) => j \in Pending'
  <2>1. ~Waited(Head1)
    BY <1>1 DEF Waited
  <2> QED BY <1>1, <1>2, <2>1 DEF Pending
<1>8. \A j \in Pending' : j \in Pending \/ (j.gen <= generation /\ (Waited(j) => speaker' # "main"))
  BY <1>2, <1>3, <1>7 DEF Waited
<1> QED BY <1>1, <1>3, <1>4, <1>5, <1>6, <1>7, <1>8, JobsPreserve

(* Every step.                                                             *)
LEMMA WindowStepPreserves ==
  ASSUME WindowInv, [WindowNext]_windowVars
  PROVE  WindowInv'
<1>1. CASE Record \/ Cancel \/ Retry \/ TranscribeFile
  BY <1>1, RecordPreserves, CancelPreserves, RetryPreserves, TranscribeFilePreserves
<1>2. CASE Stop \/ RecordTimer \/ LiveTick
  BY <1>2, StopPreserves, LiveTickPreserves
<1>3. CASE Pause \/ SelectMessage \/ Close \/ PresentWindow
  BY <1>3, PausePreserves
<1>4. CASE Chip \/ StartVoiceEdit \/ MainPoll
  BY <1>4, ChipPreserves, StartVoiceEditPreserves, MainPollPreserves
<1>5. CASE StopVoiceEdit
  BY <1>5, StopVoiceEditPreserves DEF StopVoiceEdit, FreeAct
<1>6. CASE Answers
  <2>1. CASE LiveAnswer \/ TakeAnswer \/ EditHeard
    BY <2>1, LiveAnswerPreserves, TakeAnswerPreserves, EditHeardPreserves
  <2>2. CASE \E j \in threads : FileAnswer(j) \/ ChipAnswer(j) \/ SummaryAnswer(j) \/ EditAnswer(j)
    BY <2>2, FileAnswerPreserves, ChipAnswerPreserves, SummaryAnswerPreserves, EditAnswerPreserves
  <2> QED BY <1>6, <2>1, <2>2 DEF Answers
<1>7. CASE Panel \/ StreamDies
  BY <1>7, PanelPreserves
<1>8. CASE UNCHANGED windowVars
  <2>1. UNCHANGED <<generation, queue, threads, result, variants, summary, spinner, preview, acts, speaker>>
    BY <1>8 DEF windowVars, mic, own, jobs, shown, kept, card
  <2>2. WindowTypeOK' /\ ShowsTheMicrophone' /\ ClosedKeepsNoAudio'
    BY <1>8, WindowFacts DEF windowVars, mic, own, jobs, shown, kept, card, WindowTypeOK, ShowsTheMicrophone,
       ClosedKeepsNoAudio
  <2> QED BY <2>1, <2>2, ViewPreserves
<1> QED BY <1>1, <1>2, <1>3, <1>4, <1>5, <1>6, <1>7, <1>8 DEF WindowNext

LEMMA WindowInvAlways == WindowSpec => []WindowInv
<1> QED BY WindowInitHolds, WindowStepPreserves, PTL DEF WindowSpec

(* The window's controls show who records, and an answer is shown with the *)
(* session it was asked in: for any number of acts, in every order of      *)
(* sessions, answers and follow-ups.                                       *)
THEOREM WindowSafetyAlways == WindowSpec => []WindowSafety
<1>1. ASSUME WindowInv PROVE WindowSafety
  <2>1. UiMatchesMicrophone /\ EditHasStop
    <3>1. Owner = "Main" <=> speaker = "main"
      BY <1>1, OwnerIs, WindowFacts
    <3>2. /\ recording <=> speaker = "main"
          /\ paused => recording
          /\ speaker = "mainEdit" => voiceEditing
      BY <1>1, WindowFacts DEF ShowsTheMicrophone
    <3> QED BY <3>1, <3>2 DEF UiMatchesMicrophone, EditHasStop
  <2>2. SpinnerHasWork
    BY <1>1 DEF WindowInv, AnimationWaits, Pending, JobsOf, SpinnerHasWork
  <2> QED BY <1>1, <2>1, <2>2, WindowFacts DEF WindowSafety
<1> QED BY <1>1, WindowInvAlways, PTL

(* A result only gives way to the current session's, which is newer,       *)
(* however late an answer comes, and the window ends no take of the        *)
(* panel's: the step that ends one leaves what is the window's as it was.  *)
THEOREM StepsTouchTheirOwnAlways == WindowSpec => StepsTouchTheirOwn
<1>1. ASSUME WindowInv, [WindowNext]_windowVars
      PROVE  [result' # result => result' = generation /\ result' > result]_windowVars
  <2> SUFFICES ASSUME WindowNext, result' # result
               PROVE  result' = generation /\ result' > result
    BY <1>1
  <2>1. TakeAnswer \/ \E j \in threads : FileAnswer(j)
    BY DEF WindowNext, Record, Pause, Stop, RecordTimer, OnStop, Cancel, OnCancel, Retry, TranscribeFile, LiveTick,
       Answers, LiveAnswer, EditHeard, ChipAnswer, SummaryAnswer, EditAnswer, SelectMessage, Chip, StartVoiceEdit,
       StopVoiceEdit, StopVoiceEditMain, MainPoll, Close, PresentWindow, StreamDies, Panel, PanelTake, PanelTakeEnds,
       PanelTakeDies, PanelEdit, PanelEndsEdit, PanelPoll, own, shown
  <2>2. result' = generation
    BY <2>1 DEF TakeAnswer, FileAnswer, Apply, ShowResult, IsCurrent, shown
  <2>3. result <= generation /\ result \in Nat /\ generation \in Nat
    BY <1>1, MainWindowAssumption DEF WindowInv, WindowTypeOK, JobsPast, Session
  <2>4. result' > result
    BY <2>2, <2>3
  <2> QED BY <2>2, <2>4
<1>2. ASSUME WindowInv, [WindowNext]_windowVars
      PROVE  [speaker = "panel" /\ speaker' # "panel" => UNCHANGED own]_windowVars
  <2> SUFFICES ASSUME WindowNext, speaker = "panel", speaker' # "panel"
               PROVE  UNCHANGED own
    BY <1>2
  <2>1. Owner = "Mini"
    BY DEF Owner
  <2>2. ~recording
    BY <1>2, WindowFacts DEF ShowsTheMicrophone
  <2>3. Panel
    <3>1. ~Record /\ ~Stop /\ ~RecordTimer /\ ~Cancel /\ ~StartVoiceEdit
      BY <2>1, <2>2 DEF Record, Stop, RecordTimer, Cancel, OnCancel, StartVoiceEdit, TakeMic, StartFails
    <3>2. ~Pause /\ ~Retry /\ ~TranscribeFile /\ ~LiveTick /\ ~SelectMessage /\ ~Chip /\ ~Close /\ ~PresentWindow
      BY DEF Pause, Retry, TranscribeFile, LiveTick, SelectMessage, Chip, Close, PresentWindow, mic
    <3>3. ~Answers /\ ~StreamDies
      BY DEF Answers, LiveAnswer, TakeAnswer, EditHeard, FileAnswer, ChipAnswer, SummaryAnswer, EditAnswer,
         StreamDies, mic
    <3>4. ~StopVoiceEdit /\ ~MainPoll
      BY <2>1 DEF StopVoiceEdit, MainPoll, StopVoiceEditMain
    <3> QED BY <3>1, <3>2, <3>3, <3>4 DEF WindowNext
  <2>4. ~PanelTake /\ ~PanelEdit
    BY <2>1 DEF PanelTake, PanelEdit, TakeMic, StartFails
  <2> QED BY <2>3, <2>4 DEF Panel, PanelTakeEnds, PanelTakeDies, PanelEndsEdit, PanelPoll
<1> QED BY <1>1, <1>2, WindowInvAlways, PTL DEF WindowSpec, StepsTouchTheirOwn, NewestResultWins, PanelTakeSafe
=============================================================================
