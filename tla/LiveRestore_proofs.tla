------------------------- MODULE LiveRestore_proofs -------------------------
(***************************************************************************)
(* What a restore promises for every number of entries, migrations, asset  *)
(* directories, backups and restores: proofs of the invariants of          *)
(* LiveRestore.                                                            *)
(***************************************************************************)
EXTENDS LiveRestore, TLAPS

USE MaxSchemaAssumption, InFlightAssumption, DirsAssumption, KeepAssumption,
    MaxStampAssumption, QualityAssumption

-----------------------------------------------------------------------------
(* What the operations of a restore leave of a database.                   *)

\* Every operation on the database yields database contents, and
\* dropping schemas invents no data.
LEMMA DroppedContents ==
    ASSUME NEW d \in Contents, NEW x \in PartlyDropped(d)
    PROVE  x \in Contents /\ x.data \subseteq d.data
<1>1. PICK kept \in SUBSET d.data : x = [d EXCEPT !.whole = FALSE, !.data = kept]
  BY DEF PartlyDropped
<1>2. x = [applied |-> d.applied, whole |-> FALSE, data |-> kept]
  BY <1>1 DEF Contents
<1>3. QED
  BY <1>2 DEF Contents

\* A database that was reset to its end holds nothing.
LEMMA EmptyContents == EmptyDatabase \in Contents /\ EmptyDatabase.data = {}
  BY DEF EmptyDatabase, Contents

\* All migrations on it give a new shop's database.
LEMMA MigratedEmpty ==
    [EmptyDatabase EXCEPT !.applied = MaxSchema]
        = [applied |-> MaxSchema, whole |-> TRUE, data |-> {}]
<1>1. ASSUME NEW d \in Contents
      PROVE  [d EXCEPT !.applied = MaxSchema]
               = [applied |-> MaxSchema, whole |-> d.whole, data |-> d.data]
  BY DEF Contents
<1>2. EmptyDatabase.whole = TRUE /\ EmptyDatabase.data = {}
  BY DEF EmptyDatabase
<1>3. QED
  BY <1>1, <1>2, EmptyContents

\* One more migration raises the recorded version and changes nothing else.
LEMMA MigratedContents ==
    ASSUME NEW d \in Contents, d.applied < MaxSchema
    PROVE  /\ MigratedOnce(d) \in Contents
           /\ MigratedOnce(d).data = d.data
           /\ MigratedOnce(d).whole = d.whole
           /\ MigratedOnce(d).applied = d.applied + 1
  BY DEF Contents, MigratedOnce

-----------------------------------------------------------------------------
(* Bundles.                                                                *)

\* create_bundle writes a bundle of its name and kind over database and files.
LEMMA NewBundleIsBundle ==
    ASSUME db \in Contents, live \in Directories,
           NEW name \in 1..MaxStamp, NEW kind \in Kinds, NEW q \in DumpQualities
    PROVE  /\ NewBundle(name, kind, q) \in Bundles
           /\ NewBundle(name, kind, q).name = name
           /\ NewBundle(name, kind, q).kind = kind
           /\ NewBundle(name, kind, q).quality = q
           /\ NewBundle(name, kind, q).content = db
           /\ \A d \in DOMAIN live : NewBundle(name, kind, q).assets[d] = live[d]
<1> DEFINE files_ == [d \in 1..Dirs |-> IF d \in DOMAIN live THEN live[d] ELSE {}]
<1>1. PICK D \in SUBSET (1..Dirs) : live \in [D -> SUBSET Entries]
  BY DEF Directories
<1>2. files_ \in [1..Dirs -> SUBSET Entries]
  BY <1>1
<1>3. \A d \in DOMAIN live : files_[d] = live[d]
  BY <1>1
<1>4. QED
  BY <1>2, <1>3 DEF NewBundle, Bundles

\* The directories that exist are functions on some of 1..Dirs.
LEMMA DirectoriesAre ==
    ASSUME NEW D \in SUBSET (1..Dirs), NEW f \in [D -> SUBSET Entries]
    PROVE  f \in Directories
  BY DEF Directories

\* Each holds files, and none has a number beyond Dirs.
LEMMA DirectoriesDomain ==
    ASSUME NEW f \in Directories
    PROVE  /\ DOMAIN f \in SUBSET (1..Dirs)
           /\ \A d \in DOMAIN f : f[d] \in SUBSET Entries
<1>1. PICK D \in SUBSET (1..Dirs) : f \in [D -> SUBSET Entries]
  BY DEF Directories
<1>2. QED
  BY <1>1

\* Whatever retention deletes is remembered, and nothing is added.
LEMMA RetentionKeepsCount ==
    ASSUME NEW own, NEW all, Retain(own, all)
    PROVE  /\ bundles' \subseteq all
           /\ bundles' \cup pruned' = all \cup pruned
  BY DEF Retain, Excess

\* The safety backup of the running restore is the bundle of its second.
LEMMA SafetyCopyIsBackup ==
    ASSUME HasSafetyBackup, NamesAreFresh, bundles \subseteq Bundles
    PROVE  /\ SafetyCopy \in bundles
           /\ SafetyCopy \in Bundles
           /\ SafetyCopy.content \in Contents
           /\ ImageOf(SafetyCopy.content, before.db)
<1>1. PICK b \in bundles : b.name = stamp /\ ImageOf(b.content, before.db)
  BY DEF HasSafetyBackup
<1>2. SafetyCopy \in bundles /\ SafetyCopy.name = stamp
  BY <1>1 DEF SafetyCopy
<1>3. SafetyCopy = b
  BY <1>1, <1>2 DEF NamesAreFresh
<1>4. QED
  BY <1>1, <1>3 DEF Bundles

-----------------------------------------------------------------------------
(* The inductive invariant.                                                *)

\* A shop with a first backup, or a new PC, satisfies the invariant.
LEMMA InitRestoreInv == Init => RestoreInv
<1> SUFFICES ASSUME Init PROVE RestoreInv
  OBVIOUS
<1>1. PICK e \in Entries \ InFlight, v \in 1..MaxSchema :
          /\ bundles = {[name |-> 1, kind |-> "MANUAL",
                         content |-> [applied |-> v, whole |-> TRUE, data |-> {e}],
                         assets |-> [d \in 1..Dirs |-> IF d = 1 THEN {e} ELSE {}],
                         quality |-> "sound"]}
          /\ db \in {[applied |-> MaxSchema, whole |-> TRUE, data |-> {e}],
                     [applied |-> MaxSchema, whole |-> TRUE, data |-> {}]}
          /\ live \in {[d \in {1} |-> {e}], [d \in {} |-> {e}]}
          /\ committed = {e}
  BY DEF Init
<1>2. db \in Contents
  <2>1. /\ [applied |-> MaxSchema, whole |-> TRUE, data |-> {e}] \in Contents
        /\ [applied |-> MaxSchema, whole |-> TRUE, data |-> {}] \in Contents
    BY DEF Contents
  <2>2. QED
    BY <1>1, <2>1
<1>3. live \in Directories
  <2>1. {} \in SUBSET (1..Dirs) /\ {1} \in SUBSET (1..Dirs)
    OBVIOUS
  <2>2. [d \in {1} |-> {e}] \in [{1} -> SUBSET Entries]
    OBVIOUS
  <2>3. [d \in {} |-> {e}] \in [{} -> SUBSET Entries]
    OBVIOUS
  <2>4. QED
    BY <1>1, <2>1, <2>2, <2>3, DirectoriesAre
<1>4. bundles \subseteq Bundles
  <2>1. [d \in 1..Dirs |-> IF d = 1 THEN {e} ELSE {}] \in [1..Dirs -> SUBSET Entries]
    OBVIOUS
  <2>2. QED
    BY <1>1, <2>1 DEF Bundles, Contents, Kinds
<1>5. /\ aside = {} /\ stamp = 1 /\ dir = 1 /\ pruned = {}
      /\ pc = "closed" /\ outcome = "none"
      /\ before = [db |-> db, live |-> live]
      /\ task = [kind |-> "LIVE", target |-> CHOOSE b \in bundles : TRUE]
  BY DEF Init
<1>6. task \in [kind: {"LIVE", "FRESH_INSTALL"}, target: Bundles]
  <2>1. (CHOOSE b \in bundles : TRUE) \in bundles
    BY <1>1
  <2>2. QED
    BY <1>4, <1>5, <2>1
<1>7. TypeOK /\ NamesAreFresh
  <2>1. committed \subseteq Entries
    BY <1>1
  <2>2. \A b \in bundles : b.name = 1
    BY <1>1
  <2>3. \A b, c \in bundles : b = c
    BY <1>1
  <2>4. QED
    BY <1>2, <1>3, <1>4, <1>5, <1>6, <2>1, <2>2, <2>3
       DEF TypeOK, NamesAreFresh, Resting, Outcomes
<1>8. QED
  BY <1>5, <1>7 DEF RestoreInv, FoundFollowsPc, ProtectionFollowsPc, NeverReplacesUnprotected,
     DatabaseFollowsPc, FilesFollowPc, FilesSurvive, BeforeSwap, BeforeStop, Changing,
     OutcomeFollowsPc, OutcomeIsTrue, SuccessIsTheBackup

\* Every step of a restore and of the application around it keeps it.
LEMMA NextRestoreInv == RestoreInv /\ [Next]_vars => RestoreInv'
<1> SUFFICES ASSUME RestoreInv, [Next]_vars PROVE RestoreInv'
  OBVIOUS
<1> USE DEF RestoreInv
<1>1. CASE OpenApp
  <2> USE <1>1 DEF OpenApp, files, run, history
  <2>1. TypeOK'
    BY DEF TypeOK, BeforeStop, Changing, Resting, Outcomes, Contents
  <2>2. NamesAreFresh'
    BY DEF NamesAreFresh, BeforeStop
  <2>3. FoundFollowsPc'
    <3>1. Compare(MaxSchema, db) = "UpToDate" => db.applied = MaxSchema
      BY DEF TypeOK, Contents, Compare
    <3>2. CASE Compare(MaxSchema, db) # "UpToDate"
      BY <3>2 DEF FoundFollowsPc, BeforeStop, Changing
    <3>3. CASE Compare(MaxSchema, db) = "UpToDate" /\ ~db.whole
      BY <3>3 DEF FoundFollowsPc, BeforeStop, Changing
    <3>4. CASE Compare(MaxSchema, db) = "UpToDate" /\ db.whole
      <4>1. pc' \in {"in_service", "setup"}
        BY <3>4
      <4>2. QED
        BY <3>1, <3>4, <4>1 DEF FoundFollowsPc, BeforeStop, Changing
    <3>5. QED
      BY <3>2, <3>3, <3>4
  <2>4. ProtectionFollowsPc'
    BY DEF ProtectionFollowsPc, NeverReplacesUnprotected, HasSafetyBackup, IsLive, Changing, BeforeStop
  <2>5. DatabaseFollowsPc'
    BY DEF DatabaseFollowsPc, BeforeStop, Changing
  <2>6. FilesFollowPc'
    BY DEF FilesFollowPc, FilesSurvive, BeforeSwap, IsAsFound, IsTheBackups, Own, BeforeStop, Changing
  <2>7. OutcomeFollowsPc'
    BY DEF OutcomeFollowsPc, OutcomeIsTrue, SuccessIsTheBackup, HasSafetyBackup, IsLive, BeforeStop, Changing
  <2>8. QED
    BY <2>1, <2>2, <2>3, <2>4, <2>5, <2>6, <2>7
<1>2. CASE UpgradeAtStart
  <2> USE <1>2 DEF UpgradeAtStart, files, run, history
  <2>1. TypeOK'
    BY DEF TypeOK, BeforeStop, Changing, Resting, Outcomes, Contents
  <2>2. NamesAreFresh'
    BY DEF NamesAreFresh, BeforeStop
  <2>3. FoundFollowsPc'
    BY DEF FoundFollowsPc, BeforeStop, Changing
  <2>4. ProtectionFollowsPc'
    BY DEF ProtectionFollowsPc, NeverReplacesUnprotected, HasSafetyBackup, IsLive, Changing, BeforeStop
  <2>5. DatabaseFollowsPc'
    BY DEF DatabaseFollowsPc, BeforeStop, Changing
  <2>6. FilesFollowPc'
    BY DEF FilesFollowPc, FilesSurvive, BeforeSwap, IsAsFound, IsTheBackups, Own, BeforeStop, Changing
  <2>7. OutcomeFollowsPc'
    BY DEF OutcomeFollowsPc, OutcomeIsTrue, SuccessIsTheBackup, HasSafetyBackup, IsLive, BeforeStop, Changing
  <2>8. QED
    BY <2>1, <2>2, <2>3, <2>4, <2>5, <2>6, <2>7
<1>3. CASE Stop
  <2> USE <1>3 DEF Stop, files, run, history
  <2>1. TypeOK'
    BY DEF TypeOK, BeforeStop, Changing, Resting, Outcomes, Contents
  <2>2. NamesAreFresh'
    BY DEF NamesAreFresh, BeforeStop
  <2>3. FoundFollowsPc'
    BY DEF FoundFollowsPc, BeforeStop, Changing
  <2>4. ProtectionFollowsPc'
    BY DEF ProtectionFollowsPc, NeverReplacesUnprotected, HasSafetyBackup, IsLive, Changing, BeforeStop
  <2>5. DatabaseFollowsPc'
    BY DEF DatabaseFollowsPc, BeforeStop, Changing
  <2>6. FilesFollowPc'
    BY DEF FilesFollowPc, FilesSurvive, BeforeSwap, IsAsFound, IsTheBackups, Own, BeforeStop, Changing
  <2>7. OutcomeFollowsPc'
    BY DEF OutcomeFollowsPc, OutcomeIsTrue, SuccessIsTheBackup, HasSafetyBackup, IsLive, BeforeStop, Changing
  <2>8. QED
    BY <2>1, <2>2, <2>3, <2>4, <2>5, <2>6, <2>7
<1>4. ASSUME NEW e \in Entries, NEW d \in 1..Dirs, Trade(e, d) PROVE RestoreInv'
  <2> USE <1>4 DEF Trade, files, run, history
  <2>1. TypeOK'
    <3>1. db' \in Contents
      BY DEF TypeOK, Contents
    <3>2. live' \in Directories
      <4>1. /\ DOMAIN live \in SUBSET (1..Dirs)
            /\ \A c \in DOMAIN live : live[c] \in SUBSET Entries
        BY DirectoriesDomain DEF TypeOK
      <4>2. DOMAIN live \cup {d} \in SUBSET (1..Dirs)
        BY <4>1
      <4>3. live' \in [DOMAIN live \cup {d} -> SUBSET Entries]
        BY <4>1
      <4>4. QED
        BY <4>2, <4>3, DirectoriesAre
    <3>3. QED
      BY <3>1, <3>2 DEF TypeOK, Resting
  <2>2. NamesAreFresh'
    BY DEF NamesAreFresh, BeforeStop
  <2>3. FoundFollowsPc'
    BY DEF FoundFollowsPc, BeforeStop, Changing
  <2>4. ProtectionFollowsPc'
    BY DEF ProtectionFollowsPc, NeverReplacesUnprotected, HasSafetyBackup, IsLive, Changing, BeforeStop
  <2>5. DatabaseFollowsPc'
    BY DEF DatabaseFollowsPc, BeforeStop, Changing
  <2>6. FilesFollowPc'
    BY DEF FilesFollowPc, FilesSurvive, BeforeSwap, IsAsFound, IsTheBackups, Own, BeforeStop, Changing
  <2>7. OutcomeFollowsPc'
    BY DEF OutcomeFollowsPc, OutcomeIsTrue, SuccessIsTheBackup, HasSafetyBackup, IsLive, BeforeStop, Changing
  <2>8. QED
    BY <2>1, <2>2, <2>3, <2>4, <2>5, <2>6, <2>7
<1>5. ASSUME NEW e \in InFlight, CommitInFlight(e) PROVE RestoreInv'
  <2> USE <1>5 DEF CommitInFlight, files, run, history
  <2>1. TypeOK'
    BY DEF TypeOK, BeforeStop, Changing, Resting, Outcomes, Contents
  <2>2. NamesAreFresh'
    BY DEF NamesAreFresh, BeforeStop
  <2>3. FoundFollowsPc'
    <3>1. before'.db = [before.db EXCEPT !.data = before.db.data \cup {e}]
      BY DEF TypeOK, Contents
    <3>2. QED
      BY <3>1 DEF FoundFollowsPc, BeforeStop, Changing, TypeOK, Contents
  <2>4. ProtectionFollowsPc'
    <3>1. before.db \in Contents
      BY DEF TypeOK
    <3>2. /\ before'.db = [before.db EXCEPT !.data = before.db.data \cup {e}]
          /\ before'.live = before.live
      BY DEF TypeOK
    <3>3. ASSUME NEW c \in Contents, ImageOf(c, before.db)
          PROVE  ImageOf(c, before'.db)
      <4>1. [before'.db EXCEPT !.data = c.data] = [before.db EXCEPT !.data = c.data]
        BY <3>1, <3>2 DEF Contents
      <4>2. before'.db.data = before.db.data \cup {e}
        BY <3>1, <3>2 DEF Contents
      <4>3. QED
        BY <3>3, <4>1, <4>2 DEF ImageOf
    <3>4. HasSafetyBackup => HasSafetyBackup'
      <4>1. SUFFICES ASSUME HasSafetyBackup PROVE HasSafetyBackup'
        OBVIOUS
      <4>2. PICK b \in bundles : /\ b.name = stamp
                                /\ b.kind = "PRE_RESTORE"
                                /\ b.quality # "torn"
                                /\ ImageOf(b.content, before.db)
                                /\ \A d \in DOMAIN before.live : b.assets[d] = before.live[d]
        BY <4>1 DEF HasSafetyBackup
      <4>3. b.content \in Contents
        BY DEF TypeOK, Bundles
      <4>4. ImageOf(b.content, before'.db)
        BY <3>3, <4>2, <4>3
      <4>5. bundles' = bundles /\ stamp' = stamp
        OBVIOUS
      <4>6. QED
        <5>1. /\ b.content = [before'.db EXCEPT !.data = b.content.data]
              /\ before'.db.data \ InFlight \subseteq b.content.data
              /\ b.content.data \subseteq before'.db.data
          BY <4>4 DEF ImageOf
        <5>2. \A d \in DOMAIN before'.live : b.assets[d] = before'.live[d]
          BY <3>2, <4>2
        <5>3. b \in bundles' /\ b.name = stamp'
          BY <4>2, <4>5
        <5>4. QED
          BY <4>2, <5>1, <5>2, <5>3, Zenon DEF HasSafetyBackup, ImageOf
    <3>5. QED
      BY <3>4 DEF ProtectionFollowsPc, NeverReplacesUnprotected, IsLive, Changing, BeforeStop
  <2>5. DatabaseFollowsPc'
    BY DEF DatabaseFollowsPc, BeforeStop, Changing
  <2>6. FilesFollowPc'
    BY DEF FilesFollowPc, FilesSurvive, BeforeSwap, IsAsFound, IsTheBackups, Own, BeforeStop, Changing
  <2>7. OutcomeFollowsPc'
    BY DEF OutcomeFollowsPc, OutcomeIsTrue, SuccessIsTheBackup, HasSafetyBackup, IsLive, BeforeStop, Changing
  <2>8. QED
    BY <2>1, <2>2, <2>3, <2>4, <2>5, <2>6, <2>7
<1>6. ASSUME NEW kind \in {"MANUAL", "AUTOMATIC"}, BackUp(kind) PROVE RestoreInv'
  <2> USE <1>6 DEF BackUp, files, run, history
  <2>1. TypeOK'
    <3>1. PICK q \in DumpQualities :
              LET own == NewBundle(stamp + 1, kind, q) IN Retain(own, bundles \cup {own})
      OBVIOUS
    <3> DEFINE own == NewBundle(stamp + 1, kind, q)
    <3>2. own \in Bundles
      BY NewBundleIsBundle DEF TypeOK, Kinds
    <3>3. bundles' \cup pruned' = bundles \cup {own} \cup pruned
      BY <3>1, RetentionKeepsCount
    <3>4. bundles' \subseteq Bundles /\ pruned' \subseteq Bundles
      BY <3>2, <3>3 DEF TypeOK
    <3>5. stamp' \in 1..MaxStamp
      BY DEF TypeOK
    <3>6. QED
      BY <3>4, <3>5 DEF TypeOK
  <2>2. NamesAreFresh'
    <3>1. PICK q \in DumpQualities :
              LET own == NewBundle(stamp + 1, kind, q) IN Retain(own, bundles \cup {own})
      OBVIOUS
    <3> DEFINE own == NewBundle(stamp + 1, kind, q)
    <3>2. own.name = stamp + 1
      BY DEF NewBundle
    <3>3. bundles' \subseteq bundles \cup {own}
      BY <3>1, RetentionKeepsCount
    <3> HIDE DEF own
    <3>4. stamp \in Int /\ \A b \in bundles : b.name \in Int
      BY DEF TypeOK, Bundles
    <3>5. \A s \in aside : s.of \in Int
      BY DEF TypeOK
    <3>6. QED
      BY <3>2, <3>3, <3>4, <3>5 DEF NamesAreFresh
  <2>3. FoundFollowsPc'
    BY DEF FoundFollowsPc, BeforeStop, Changing
  <2>4. ProtectionFollowsPc'
    BY DEF ProtectionFollowsPc, NeverReplacesUnprotected, HasSafetyBackup, IsLive, Changing, BeforeStop
  <2>5. DatabaseFollowsPc'
    BY DEF DatabaseFollowsPc, BeforeStop, Changing
  <2>6. FilesFollowPc'
    BY DEF FilesFollowPc, FilesSurvive, BeforeSwap, IsAsFound, IsTheBackups, Own, BeforeStop, Changing
  <2>7. OutcomeFollowsPc'
    BY DEF OutcomeFollowsPc, OutcomeIsTrue, SuccessIsTheBackup, HasSafetyBackup, IsLive, BeforeStop, Changing
  <2>8. QED
    BY <2>1, <2>2, <2>3, <2>4, <2>5, <2>6, <2>7
<1>7. ASSUME NEW kind \in {"LIVE", "FRESH_INSTALL"}, NEW b \in bundles, Begin(kind, b) PROVE RestoreInv'
  <2> USE <1>7 DEF Begin, files, run, history
  <2>1. TypeOK'
    BY DEF TypeOK, BeforeStop, Changing, Resting, Outcomes, Contents
  <2>2. NamesAreFresh'
    <3>1. stamp \in Int /\ \A c \in bundles : c.name \in Int
      BY DEF TypeOK, Bundles
    <3>2. \A s \in aside : s.of \in Int
      BY DEF TypeOK
    <3>3. QED
      BY <3>1, <3>2 DEF NamesAreFresh, BeforeStop
  <2>3. FoundFollowsPc'
    BY DEF FoundFollowsPc, BeforeStop, Changing
  <2>4. ProtectionFollowsPc'
    BY DEF ProtectionFollowsPc, NeverReplacesUnprotected, HasSafetyBackup, IsLive, Changing, BeforeStop
  <2>5. DatabaseFollowsPc'
    BY DEF DatabaseFollowsPc, BeforeStop, Changing
  <2>6. FilesFollowPc'
    <3>1. Own' = {}
      BY DEF TypeOK, NamesAreFresh, Own
    <3>2. before'.live = live /\ live' = live
      OBVIOUS
    <3>3. QED
      BY <3>1, <3>2 DEF FilesFollowPc, FilesSurvive, BeforeSwap, BeforeStop, Changing
  <2>7. OutcomeFollowsPc'
    BY DEF OutcomeFollowsPc, OutcomeIsTrue, SuccessIsTheBackup, HasSafetyBackup, IsLive, BeforeStop, Changing
  <2>8. QED
    BY <2>1, <2>2, <2>3, <2>4, <2>5, <2>6, <2>7
<1>8. CASE Validate
  <2> USE <1>8 DEF Validate, files, run, history, EndsWith
  <2>1. TypeOK'
    BY DEF TypeOK, BeforeStop, Changing, Resting, Outcomes, Contents
  <2>2. NamesAreFresh'
    BY DEF NamesAreFresh, BeforeStop
  <2>3. FoundFollowsPc'
    BY DEF FoundFollowsPc, BeforeStop, Changing
  <2>4. ProtectionFollowsPc'
    BY DEF ProtectionFollowsPc, NeverReplacesUnprotected, HasSafetyBackup, IsLive, Changing, BeforeStop
  <2>5. DatabaseFollowsPc'
    BY DEF DatabaseFollowsPc, BeforeStop, Changing
  <2>6. FilesFollowPc'
    BY DEF FilesFollowPc, FilesSurvive, BeforeSwap, IsAsFound, IsTheBackups, Own, BeforeStop, Changing
  <2>7. OutcomeFollowsPc'
    BY DEF OutcomeFollowsPc, OutcomeIsTrue, SuccessIsTheBackup, FoundFollowsPc, FilesFollowPc,
       BeforeSwap, BeforeStop
  <2>8. QED
    BY <2>1, <2>2, <2>3, <2>4, <2>5, <2>6, <2>7
<1>9. CASE TestRestore
  <2> USE <1>9 DEF TestRestore, files, run, history, EndsWith
  <2>1. TypeOK'
    BY DEF TypeOK, BeforeStop, Changing, Resting, Outcomes, Contents
  <2>2. NamesAreFresh'
    BY DEF NamesAreFresh, BeforeStop
  <2>3. FoundFollowsPc'
    BY DEF FoundFollowsPc, BeforeStop, Changing
  <2>4. ProtectionFollowsPc'
    BY DEF ProtectionFollowsPc, NeverReplacesUnprotected, HasSafetyBackup, IsLive, Changing, BeforeStop
  <2>5. DatabaseFollowsPc'
    BY DEF DatabaseFollowsPc, BeforeStop, Changing
  <2>6. FilesFollowPc'
    BY DEF FilesFollowPc, FilesSurvive, BeforeSwap, IsAsFound, IsTheBackups, Own, BeforeStop, Changing
  <2>7. OutcomeFollowsPc'
    BY DEF OutcomeFollowsPc, OutcomeIsTrue, SuccessIsTheBackup, FoundFollowsPc, FilesFollowPc,
       BeforeSwap, BeforeStop
  <2>8. QED
    BY <2>1, <2>2, <2>3, <2>4, <2>5, <2>6, <2>7
<1>10. CASE SafetyBackup
  <2> USE <1>10 DEF SafetyBackup, files, run, history, EndsWith
  <2>1. TypeOK'
    <3>1. \/ bundles' = bundles
          \/ \E q \in DumpQualities : bundles' = bundles \cup {NewBundle(stamp, "PRE_RESTORE", q)}
      OBVIOUS
    <3>2. \A q \in DumpQualities : NewBundle(stamp, "PRE_RESTORE", q) \in Bundles
      BY NewBundleIsBundle DEF TypeOK, Kinds
    <3>3. bundles' \subseteq Bundles
      BY <3>1, <3>2 DEF TypeOK
    <3>4. QED
      BY <3>3 DEF TypeOK, BeforeStop, Changing, Resting, Outcomes
  <2>2. NamesAreFresh'
    <3>1. \/ bundles' = bundles
          \/ \E q \in DumpQualities : bundles' = bundles \cup {NewBundle(stamp, "PRE_RESTORE", q)}
      OBVIOUS
    <3>2. \A q \in DumpQualities : NewBundle(stamp, "PRE_RESTORE", q).name = stamp
      BY DEF NewBundle
    <3>3. \A b \in bundles : b.name \in Int /\ b.name < stamp
      BY DEF TypeOK, Bundles, NamesAreFresh
    <3>4. stamp \in Int /\ pc' \notin {"validate", "test", "safety_backup"}
      BY DEF TypeOK
    <3>5. QED
      BY <3>1, <3>2, <3>3, <3>4 DEF NamesAreFresh
  <2>3. FoundFollowsPc'
    BY DEF FoundFollowsPc, BeforeStop, Changing
  <2>4. ProtectionFollowsPc'
    <3>1. CASE IsLive /\ pc' = "stop_connections"
      <4>1. PICK q \in DumpQualities \ {"torn"} :
                bundles' = bundles \cup {NewBundle(stamp, "PRE_RESTORE", q)}
        BY <3>1
      <4> DEFINE b == NewBundle(stamp, "PRE_RESTORE", q)
      <4>2. /\ b.name = stamp
            /\ b.kind = "PRE_RESTORE"
            /\ b.quality = q
            /\ b.content = db
            /\ \A d \in DOMAIN live : b.assets[d] = live[d]
        BY NewBundleIsBundle DEF TypeOK, Kinds
      <4>3. db = before.db /\ live = before.live
        BY DEF FoundFollowsPc, FilesFollowPc, BeforeSwap, BeforeStop
      <4>4. ImageOf(db, before.db)
        BY <4>3 DEF ImageOf, TypeOK, Contents
      <4>5. b \in bundles' /\ stamp' = stamp /\ before' = before
        BY <4>1
      <4> HIDE DEF b
      <4>6. HasSafetyBackup'
        BY <4>1, <4>2, <4>3, <4>4, <4>5 DEF HasSafetyBackup, ImageOf
      <4>7. QED
        BY <3>1, <4>6 DEF ProtectionFollowsPc, NeverReplacesUnprotected, Changing
    <3>2. CASE ~(IsLive /\ pc' = "stop_connections")
      BY <3>2 DEF ProtectionFollowsPc, NeverReplacesUnprotected, IsLive, Changing
    <3>3. QED
      BY <3>1, <3>2
  <2>5. DatabaseFollowsPc'
    BY DEF DatabaseFollowsPc, BeforeStop, Changing
  <2>6. FilesFollowPc'
    BY DEF FilesFollowPc, FilesSurvive, BeforeSwap, IsAsFound, IsTheBackups, Own, BeforeStop, Changing
  <2>7. OutcomeFollowsPc'
    <3>1. db' = before'.db /\ live' = before'.live
      BY DEF FoundFollowsPc, FilesFollowPc, BeforeSwap, BeforeStop
    <3>2. \/ outcome' = outcome /\ outcome' \notin {"Succeeded", "RolledBack", "RollbackFailed", "AbortedBeforeChange"}
          \/ outcome' = "AbortedBeforeChange" /\ pc' = "ended"
      BY DEF OutcomeFollowsPc
    <3>3. QED
      BY <3>1, <3>2 DEF OutcomeFollowsPc, OutcomeIsTrue, SuccessIsTheBackup
  <2>8. QED
    BY <2>1, <2>2, <2>3, <2>4, <2>5, <2>6, <2>7
<1>11. CASE StopConnections
  <2> USE <1>11 DEF StopConnections, files, run, history, EndsWith
  <2>1. TypeOK'
    BY DEF TypeOK, BeforeStop, Changing, Resting, Outcomes, Contents
  <2>2. NamesAreFresh'
    BY DEF NamesAreFresh, BeforeStop
  <2>3. FoundFollowsPc'
    BY DEF FoundFollowsPc, BeforeStop, Changing
  <2>4. ProtectionFollowsPc'
    <3>1. HasSafetyBackup => HasSafetyBackup'
      BY DEF HasSafetyBackup
    <3>2. QED
      BY <3>1 DEF ProtectionFollowsPc, NeverReplacesUnprotected, FoundFollowsPc, NoUsers, IsLive,
         Changing, BeforeStop
  <2>5. DatabaseFollowsPc'
    BY DEF DatabaseFollowsPc, BeforeStop, Changing
  <2>6. FilesFollowPc'
    BY DEF FilesFollowPc, FilesSurvive, BeforeSwap, IsAsFound, IsTheBackups, Own, BeforeStop, Changing
  <2>7. OutcomeFollowsPc'
    BY DEF OutcomeFollowsPc, OutcomeIsTrue, SuccessIsTheBackup, FoundFollowsPc, FilesFollowPc,
       BeforeSwap, BeforeStop
  <2>8. QED
    BY <2>1, <2>2, <2>3, <2>4, <2>5, <2>6, <2>7
<1>12. CASE Reset
  <2> USE <1>12 DEF Reset, files, run, history, RollBack, DropsSchemas
  <2>1. TypeOK'
    <3>1. db' \in Contents
      BY DroppedContents, EmptyContents DEF TypeOK
    <3>2. QED
      BY <3>1 DEF TypeOK, BeforeStop, Changing, Resting, Outcomes
  <2>2. NamesAreFresh'
    BY DEF NamesAreFresh, BeforeStop
  <2>3. FoundFollowsPc'
    BY DEF FoundFollowsPc, BeforeStop, Changing
  <2>4. ProtectionFollowsPc'
    BY DEF ProtectionFollowsPc, NeverReplacesUnprotected, HasSafetyBackup, IsLive, Changing, BeforeStop
  <2>5. DatabaseFollowsPc'
    BY DEF DatabaseFollowsPc, BeforeStop, Changing
  <2>6. FilesFollowPc'
    BY DEF FilesFollowPc, FilesSurvive, BeforeSwap, IsAsFound, IsTheBackups, Own, BeforeStop, Changing
  <2>7. OutcomeFollowsPc'
    BY DEF OutcomeFollowsPc, OutcomeIsTrue, SuccessIsTheBackup, HasSafetyBackup, IsLive, BeforeStop, Changing
  <2>8. QED
    BY <2>1, <2>2, <2>3, <2>4, <2>5, <2>6, <2>7
<1>13. CASE Restore
  <2> USE <1>13 DEF Restore, files, run, history, RollBack
  <2>1. TypeOK'
    <3>1. db' \in Contents
      BY DEF TypeOK, Bundles
    <3>2. QED
      BY <3>1 DEF TypeOK, Changing
  <2>2. NamesAreFresh'
    BY DEF NamesAreFresh, BeforeStop
  <2>3. FoundFollowsPc'
    BY DEF FoundFollowsPc, BeforeStop, Changing
  <2>4. ProtectionFollowsPc'
    BY DEF ProtectionFollowsPc, NeverReplacesUnprotected, HasSafetyBackup, IsLive, Changing, BeforeStop
  <2>5. DatabaseFollowsPc'
    <3>1. task.target.content \in Contents
      BY DEF TypeOK, Bundles
    <3>2. task.target.content = [task.target.content EXCEPT !.applied = task.target.content.applied]
      BY <3>1 DEF Contents
    <3>3. QED
      BY <3>2 DEF DatabaseFollowsPc
  <2>6. FilesFollowPc'
    BY DEF FilesFollowPc, FilesSurvive, BeforeSwap, IsAsFound, IsTheBackups, Own, BeforeStop, Changing
  <2>7. OutcomeFollowsPc'
    BY DEF OutcomeFollowsPc, OutcomeIsTrue, SuccessIsTheBackup, HasSafetyBackup, IsLive, BeforeStop, Changing
  <2>8. QED
    BY <2>1, <2>2, <2>3, <2>4, <2>5, <2>6, <2>7
<1>14. CASE Forward
  <2> USE <1>14 DEF Forward, files, run, history, RollBack
  <2>1. TypeOK'
    <3>1. db' \in Contents
      BY MigratedContents DEF TypeOK
    <3>2. QED
      BY <3>1 DEF TypeOK, Changing
  <2>2. NamesAreFresh'
    BY DEF NamesAreFresh, BeforeStop
  <2>3. FoundFollowsPc'
    BY DEF FoundFollowsPc, BeforeStop, Changing
  <2>4. ProtectionFollowsPc'
    BY DEF ProtectionFollowsPc, NeverReplacesUnprotected, HasSafetyBackup, IsLive, Changing, BeforeStop
  <2>5. DatabaseFollowsPc'
    <3>1. task.target.content \in Contents
      BY DEF TypeOK, Bundles
    <3>2. db' = [task.target.content EXCEPT !.applied = db'.applied] \/ pc' = "undo_reset"
      BY <3>1 DEF DatabaseFollowsPc, MigratedOnce, Contents
    <3>3. QED
      BY <3>2 DEF DatabaseFollowsPc
  <2>6. FilesFollowPc'
    BY DEF FilesFollowPc, FilesSurvive, BeforeSwap, IsAsFound, IsTheBackups, Own, BeforeStop, Changing
  <2>7. OutcomeFollowsPc'
    BY DEF OutcomeFollowsPc, OutcomeIsTrue, SuccessIsTheBackup, HasSafetyBackup, IsLive, BeforeStop, Changing
  <2>8. QED
    BY <2>1, <2>2, <2>3, <2>4, <2>5, <2>6, <2>7
<1>15. CASE Verify
  <2> USE <1>15 DEF Verify, files, run, history, RollBack
  <2>1. TypeOK'
    BY DEF TypeOK, BeforeStop, Changing, Resting, Outcomes, Contents
  <2>2. NamesAreFresh'
    BY DEF NamesAreFresh, BeforeStop
  <2>3. FoundFollowsPc'
    BY DEF FoundFollowsPc, BeforeStop, Changing
  <2>4. ProtectionFollowsPc'
    BY DEF ProtectionFollowsPc, NeverReplacesUnprotected, HasSafetyBackup, IsLive, Changing, BeforeStop
  <2>5. DatabaseFollowsPc'
    BY DEF DatabaseFollowsPc, BeforeStop, Changing
  <2>6. FilesFollowPc'
    BY DEF FilesFollowPc, FilesSurvive, BeforeSwap, IsAsFound, IsTheBackups, Own, BeforeStop, Changing
  <2>7. OutcomeFollowsPc'
    BY DEF OutcomeFollowsPc, OutcomeIsTrue, SuccessIsTheBackup, HasSafetyBackup, IsLive, BeforeStop, Changing
  <2>8. QED
    BY <2>1, <2>2, <2>3, <2>4, <2>5, <2>6, <2>7
<1>16. CASE MoveAside
  <2> USE <1>16 DEF MoveAside, files, run, history
  <2>1. TypeOK'
    <3>1. dir \in DOMAIN live => Saved \in [of: 1..MaxStamp, dir: 1..Dirs, files: SUBSET Entries]
      BY DirectoriesDomain DEF TypeOK, Saved
    <3>2. dir \in DOMAIN live => Except({dir}) \in Directories
      <4>1. /\ DOMAIN live \in SUBSET (1..Dirs)
            /\ \A c \in DOMAIN live : live[c] \in SUBSET Entries
        BY DirectoriesDomain DEF TypeOK
      <4>2. DOMAIN live \ {dir} \in SUBSET (1..Dirs)
        BY <4>1
      <4>3. Except({dir}) \in [DOMAIN live \ {dir} -> SUBSET Entries]
        BY <4>1 DEF Except
      <4>4. QED
        BY <4>2, <4>3, DirectoriesAre
    <3>3. QED
      BY <3>1, <3>2 DEF TypeOK, Changing
  <2>2. NamesAreFresh'
    <3>1. \A s \in aside' : s \in aside \/ s.of = stamp
      BY DEF Saved
    <3>2. stamp \in Int /\ stamp' = stamp /\ pc' \notin {"validate", "test", "safety_backup"}
      BY DEF TypeOK
    <3>3. QED
      BY <3>1, <3>2 DEF NamesAreFresh
  <2>3. FoundFollowsPc'
    BY DEF FoundFollowsPc, BeforeStop, Changing
  <2>4. ProtectionFollowsPc'
    BY DEF ProtectionFollowsPc, NeverReplacesUnprotected, HasSafetyBackup, IsLive, Changing, BeforeStop
  <2>5. DatabaseFollowsPc'
    BY DEF DatabaseFollowsPc, BeforeStop, Changing
  <2>6. FilesFollowPc'
    <3>1. dir \in 1..Dirs /\ DOMAIN live \in SUBSET (1..Dirs)
      BY DirectoriesDomain DEF TypeOK
    <3>2. IsAsFound(dir)
      BY <3>1 DEF FilesFollowPc
    <3>3. CASE dir \in DOMAIN live /\ pc' = "copy"
      <4>1. /\ aside' = aside \cup {Saved}
            /\ live' = Except({dir})
        BY <3>3 DEF FilesFollowPc
      <4>2. Saved = [of |-> stamp, dir |-> dir, files |-> before.live[dir]]
        BY <3>2, <3>3 DEF Saved, IsAsFound
      <4>3. dir \in DOMAIN before.live
        BY <3>2, <3>3 DEF IsAsFound
      <4>4. /\ DOMAIN live' = DOMAIN live \ {dir}
            /\ \A d \in DOMAIN live' : live'[d] = live[d]
        BY <4>1 DEF Except
      <4>5. Own' = Own \cup {Saved}
        BY <4>1, <4>2 DEF Own
      <4>6. \A s \in Own' : s.dir \in DOMAIN before.live /\ s.files = before.live[s.dir]
        BY <4>2, <4>3, <4>5 DEF FilesFollowPc, Changing
      <4>7. \A d \in 1..(dir - 1) : IsTheBackups(d)'
        BY <3>1, <4>4 DEF FilesFollowPc, IsTheBackups
      <4>8. \A d \in (dir + 1)..Dirs : IsAsFound(d)'
        BY <3>1, <4>4 DEF FilesFollowPc, IsAsFound
      <4>9. FilesSurvive'
        BY <4>1, <4>2, <4>4 DEF FilesFollowPc, FilesSurvive, Changing
      <4>10. QED
        BY <3>3, <4>4, <4>6, <4>7, <4>8, <4>9 DEF FilesFollowPc, BeforeSwap, BeforeStop
    <3>4. CASE ~(dir \in DOMAIN live /\ pc' = "copy")
      BY <3>1, <3>4 DEF FilesFollowPc, FilesSurvive, BeforeSwap, IsAsFound, IsTheBackups, Own, BeforeStop, Changing
    <3>5. QED
      BY <3>3, <3>4
  <2>7. OutcomeFollowsPc'
    BY DEF OutcomeFollowsPc, OutcomeIsTrue, SuccessIsTheBackup, HasSafetyBackup, IsLive, BeforeStop, Changing
  <2>8. QED
    BY <2>1, <2>2, <2>3, <2>4, <2>5, <2>6, <2>7
<1>17. CASE Copy
  <2> USE <1>17 DEF Copy, files, run, history
  <2>1. TypeOK'
    <3>1. task.target.assets \in [1..Dirs -> SUBSET Entries]
      BY DEF TypeOK, Bundles
    <3>2. ASSUME NEW fs \in SUBSET Entries PROVE Filled(fs) \in Directories
      <4>1. /\ DOMAIN live \in SUBSET (1..Dirs)
            /\ \A c \in DOMAIN live : live[c] \in SUBSET Entries
        BY DirectoriesDomain DEF TypeOK
      <4>2. DOMAIN live \cup {dir} \in SUBSET (1..Dirs)
        BY <4>1 DEF TypeOK
      <4>3. Filled(fs) \in [DOMAIN live \cup {dir} -> SUBSET Entries]
        BY <4>1 DEF Filled
      <4>4. QED
        BY <4>2, <4>3, DirectoriesAre
    <3>3. task.target.assets[dir] \in SUBSET Entries
      BY <3>1 DEF TypeOK
    <3>4. live' \in Directories
      BY <3>2, <3>3 DEF TypeOK
    <3>5. dir' \in 1..Dirs
      BY DEF TypeOK
    <3>6. QED
      BY <3>4, <3>5 DEF TypeOK, Changing
  <2>2. NamesAreFresh'
    BY DEF NamesAreFresh, BeforeStop
  <2>3. FoundFollowsPc'
    BY DEF FoundFollowsPc, BeforeStop, Changing
  <2>4. ProtectionFollowsPc'
    BY DEF ProtectionFollowsPc, NeverReplacesUnprotected, HasSafetyBackup, IsLive, Changing, BeforeStop
  <2>5. DatabaseFollowsPc'
    BY DEF DatabaseFollowsPc, BeforeStop, Changing
  <2>6. FilesFollowPc'
    <3>1. /\ dir \in 1..Dirs
          /\ DOMAIN live \in SUBSET (1..Dirs)
          /\ task.target.assets \in [1..Dirs -> SUBSET Entries]
      BY DirectoriesDomain DEF TypeOK, Bundles
    <3>2. \A fs : /\ DOMAIN Filled(fs) = DOMAIN live \cup {dir}
                  /\ Filled(fs)[dir] = fs
                  /\ \A d \in DOMAIN live \ {dir} : Filled(fs)[d] = live[d]
      BY DEF Filled
    <3>3. dir \notin DOMAIN live
      BY DEF FilesFollowPc
    <3>4. /\ DOMAIN live' \subseteq DOMAIN live \cup {dir}
          /\ DOMAIN live \subseteq DOMAIN live'
          /\ \A d \in DOMAIN live : live'[d] = live[d]
      BY <3>2, <3>3
    <3>5. Own' = Own /\ before' = before /\ stamp' = stamp /\ aside' = aside /\ task' = task
      BY DEF Own
    <3>6. FilesSurvive'
      BY <3>3, <3>4, <3>5 DEF FilesFollowPc, FilesSurvive, Changing
    <3>7. CASE pc' = "revert"
      BY <3>5, <3>6, <3>7 DEF FilesFollowPc, BeforeSwap, BeforeStop, Changing
    <3>8. CASE pc' # "revert"
      <4>1. live' = Filled(task.target.assets[dir])
        BY <3>8
      <4>2. \A d \in 1..dir : d \in DOMAIN live' /\ live'[d] = task.target.assets[d]
        BY <3>1, <3>2, <3>3, <4>1 DEF FilesFollowPc, IsTheBackups
      <4>3. CASE dir = Dirs
        <5>1. DOMAIN live' = 1..Dirs
          BY <3>1, <3>4, <4>2, <4>3
        <5>2. live' = [d \in 1..Dirs |-> live'[d]]
          BY <4>1, <5>1 DEF Filled
        <5>3. live' = task.target.assets
          BY <3>1, <4>2, <4>3, <5>2
        <5>4. QED
          BY <3>5, <3>6, <3>8, <4>3, <5>3 DEF FilesFollowPc, BeforeSwap, BeforeStop, Changing
      <4>4. CASE dir # Dirs
        <5>1. pc' = "move_aside" /\ dir' = dir + 1
          BY <3>8, <4>4
        <5>2. \A d \in 1..(dir' - 1) : IsTheBackups(d)'
          BY <3>1, <3>5, <4>2, <5>1 DEF IsTheBackups
        <5>3. \A d \in dir'..Dirs : IsAsFound(d)'
          <6>1. TAKE d \in dir'..Dirs
          <6>2. d # dir /\ d \in (dir + 1)..Dirs
            BY <3>1, <5>1
          <6>3. IsAsFound(d)
            BY <6>2 DEF FilesFollowPc
          <6>4. QED
            BY <3>4, <3>5, <6>2, <6>3 DEF IsAsFound
        <5>4. QED
          BY <3>5, <3>6, <5>1, <5>2, <5>3 DEF FilesFollowPc, BeforeSwap, BeforeStop, Changing
      <4>5. QED
        BY <4>3, <4>4
    <3>9. QED
      BY <3>7, <3>8
  <2>7. OutcomeFollowsPc'
    BY DEF OutcomeFollowsPc, OutcomeIsTrue, SuccessIsTheBackup, HasSafetyBackup, IsLive, BeforeStop, Changing
  <2>8. QED
    BY <2>1, <2>2, <2>3, <2>4, <2>5, <2>6, <2>7
<1>18. CASE Revert
  <2> USE <1>18 DEF Revert, files, run, history
  <2>1. TypeOK'
    <3>1. PICK stuck \in SUBSET Own, gone \in SUBSET (1..Dirs) :
              /\ gone \subseteq {s.dir : s \in stuck}
              /\ aside' = aside \ (Own \ stuck)
              /\ live' = [d \in (DOMAIN live \cup {s.dir : s \in Own \ stuck}) \ gone |->
                             IF \E s \in Own \ stuck : s.dir = d
                             THEN (CHOOSE s \in Own \ stuck : s.dir = d).files
                             ELSE live[d]]
      BY Zenon
    <3> DEFINE back == Own \ stuck
               D == (DOMAIN live \cup {s.dir : s \in back}) \ gone
    <3>2. /\ DOMAIN live' = D
          /\ \A d \in D : \/ \E s \in back : s.dir = d /\ live'[d] = s.files
                          \/ (\A s \in back : s.dir # d) /\ live'[d] = live[d]
      <4>1. ASSUME NEW d \in D
            PROVE  \/ \E s \in back : s.dir = d /\ live'[d] = s.files
                   \/ (\A s \in back : s.dir # d) /\ live'[d] = live[d]
        <5>1. CASE \E s \in back : s.dir = d
          <6> DEFINE s == CHOOSE x \in back : x.dir = d
          <6>1. s \in back /\ s.dir = d
            BY <5>1
          <6>2. live'[d] = s.files
            BY <3>1, <5>1
          <6>3. QED
            BY <6>1, <6>2
        <5>2. CASE \A s \in back : s.dir # d
          <6>1. live'[d] = live[d]
            BY <3>1, <5>2
          <6>2. QED
            BY <5>2, <6>1
        <5>3. QED
          BY <5>1, <5>2
      <4>2. QED
        BY <3>1, <4>1
    <3>3. \A d \in gone : \E s \in stuck : s.dir = d
      BY <3>1
    <3>4. /\ DOMAIN live \in SUBSET (1..Dirs)
          /\ \A d \in DOMAIN live : live[d] \in SUBSET Entries
      BY DirectoriesDomain DEF TypeOK
    <3>5. \A s \in back : s.dir \in 1..Dirs /\ s.files \in SUBSET Entries
      BY DEF Own, TypeOK
    <3>6. D \in SUBSET (1..Dirs)
      BY <3>4, <3>5
    <3>7. \A d \in D : live'[d] \in SUBSET Entries
      <4>1. SUFFICES ASSUME NEW d \in D PROVE live'[d] \in SUBSET Entries
        OBVIOUS
      <4>2. CASE \E s \in back : s.dir = d /\ live'[d] = s.files
        BY <3>5, <4>2
      <4>3. CASE (\A s \in back : s.dir # d) /\ live'[d] = live[d]
        <5>1. d \in DOMAIN live
          BY <4>3
        <5>2. QED
          BY <3>4, <4>3, <5>1
      <4>4. QED
        BY <3>2, <4>2, <4>3
    <3>8. live' = [d \in D |-> live'[d]]
      BY <3>1
    <3> HIDE DEF D, back
    <3>9. live' \in [D -> SUBSET Entries]
      BY <3>7, <3>8
    <3>10. live' \in Directories
      BY <3>6, <3>9, DirectoriesAre
    <3>11. aside' \subseteq aside
      BY <3>1
    <3>12. QED
      BY <3>10, <3>11 DEF TypeOK, Changing
  <2>2. NamesAreFresh'
    BY DEF NamesAreFresh, BeforeStop
  <2>3. FoundFollowsPc'
    BY DEF FoundFollowsPc, BeforeStop, Changing
  <2>4. ProtectionFollowsPc'
    BY DEF ProtectionFollowsPc, NeverReplacesUnprotected, HasSafetyBackup, IsLive, Changing, BeforeStop
  <2>5. DatabaseFollowsPc'
    BY DEF DatabaseFollowsPc, BeforeStop, Changing
  <2>6. FilesFollowPc'
    <3>1. PICK stuck \in SUBSET Own, gone \in SUBSET (1..Dirs) :
              /\ gone \subseteq {s.dir : s \in stuck}
              /\ aside' = aside \ (Own \ stuck)
              /\ live' = [d \in (DOMAIN live \cup {s.dir : s \in Own \ stuck}) \ gone |->
                             IF \E s \in Own \ stuck : s.dir = d
                             THEN (CHOOSE s \in Own \ stuck : s.dir = d).files
                             ELSE live[d]]
      BY Zenon
    <3> DEFINE back == Own \ stuck
               D == (DOMAIN live \cup {s.dir : s \in back}) \ gone
    <3>2. /\ DOMAIN live' = D
          /\ \A d \in D : \/ \E s \in back : s.dir = d /\ live'[d] = s.files
                          \/ (\A s \in back : s.dir # d) /\ live'[d] = live[d]
      <4>1. ASSUME NEW d \in D
            PROVE  \/ \E s \in back : s.dir = d /\ live'[d] = s.files
                   \/ (\A s \in back : s.dir # d) /\ live'[d] = live[d]
        <5>1. CASE \E s \in back : s.dir = d
          <6> DEFINE s == CHOOSE x \in back : x.dir = d
          <6>1. s \in back /\ s.dir = d
            BY <5>1
          <6>2. live'[d] = s.files
            BY <3>1, <5>1
          <6>3. QED
            BY <6>1, <6>2
        <5>2. CASE \A s \in back : s.dir # d
          <6>1. live'[d] = live[d]
            BY <3>1, <5>2
          <6>2. QED
            BY <5>2, <6>1
        <5>3. QED
          BY <5>1, <5>2
      <4>2. QED
        BY <3>1, <4>1
    <3>3. \A d \in gone : \E s \in stuck : s.dir = d
      BY <3>1
    <3>4. \A s \in Own : /\ s.dir \in DOMAIN before.live
                         /\ s = [of |-> stamp, dir |-> s.dir, files |-> before.live[s.dir]]
      <4>1. \A s \in Own : s = [of |-> stamp, dir |-> s.dir, files |-> s.files]
        BY DEF Own, TypeOK
      <4>2. QED
        BY <4>1 DEF FilesFollowPc, Changing
    <3>5. Own' \subseteq Own
      BY <3>1 DEF Own
    <3>6. \A s \in stuck : s \in aside'
      BY <3>1 DEF Own
    <3>7. FilesSurvive'
      <4>1. SUFFICES ASSUME NEW d \in DOMAIN before.live
                     PROVE  \/ d \in DOMAIN live' /\ live'[d] = before.live[d]
                            \/ [of |-> stamp, dir |-> d, files |-> before.live[d]] \in aside'
        BY DEF FilesSurvive
      <4>2. \/ d \in DOMAIN live /\ live[d] = before.live[d]
            \/ [of |-> stamp, dir |-> d, files |-> before.live[d]] \in aside
        BY DEF FilesFollowPc, FilesSurvive, Changing
      <4>3. CASE \E s \in stuck : s.dir = d
        BY <3>4, <3>6, <4>3
      <4>4. CASE (\A s \in stuck : s.dir # d) /\ \E s \in back : s.dir = d
        <5>1. d \in D
          BY <3>3, <4>4
        <5>2. PICK s \in back : s.dir = d /\ live'[d] = s.files
          BY <3>2, <4>4, <5>1
        <5>3. s.files = before.live[d]
          BY <3>4, <5>2
        <5>4. QED
          BY <3>2, <5>1, <5>2, <5>3
      <4>5. CASE \A s \in Own : s.dir # d
        <5>1. [of |-> stamp, dir |-> d, files |-> before.live[d]] \notin aside
          BY <4>5 DEF Own
        <5>2. d \in D
          BY <3>3, <4>2, <4>5, <5>1
        <5>3. QED
          BY <3>2, <4>2, <4>5, <5>1, <5>2
      <4>6. QED
        BY <4>3, <4>4, <4>5
    <3>8. QED
      BY <3>4, <3>5, <3>7 DEF FilesFollowPc, BeforeSwap, BeforeStop
  <2>7. OutcomeFollowsPc'
    BY DEF OutcomeFollowsPc, OutcomeIsTrue, SuccessIsTheBackup, HasSafetyBackup, IsLive, BeforeStop, Changing
  <2>8. QED
    BY <2>1, <2>2, <2>3, <2>4, <2>5, <2>6, <2>7
<1>19. CASE Record
  <2> USE <1>19 DEF Record, files, run, history
  <2>1. TypeOK'
    <3>1. /\ bundles' \subseteq bundles
          /\ bundles' \cup pruned' = bundles \cup pruned
      BY RetentionKeepsCount
    <3>2. pruned' \subseteq Bundles
      BY <3>1 DEF TypeOK
    <3>3. aside' \subseteq aside
      BY DEF Own
    <3>4. QED
      BY <3>1, <3>2, <3>3 DEF TypeOK, Resting, Outcomes
  <2>2. NamesAreFresh'
    <3>1. /\ bundles' \subseteq bundles
          /\ bundles' \cup pruned' = bundles \cup pruned
      BY RetentionKeepsCount
    <3>2. aside' \subseteq aside
      BY DEF Own
    <3>3. QED
      BY <3>1, <3>2 DEF NamesAreFresh
  <2>3. FoundFollowsPc'
    BY DEF FoundFollowsPc, BeforeStop, Changing
  <2>4. ProtectionFollowsPc'
    BY DEF ProtectionFollowsPc, NeverReplacesUnprotected, HasSafetyBackup, IsLive, Changing, BeforeStop
  <2>5. DatabaseFollowsPc'
    BY DEF DatabaseFollowsPc, BeforeStop, Changing
  <2>6. FilesFollowPc'
    BY DEF FilesFollowPc, FilesSurvive, BeforeSwap, IsAsFound, IsTheBackups, Own, BeforeStop, Changing
  <2>7. OutcomeFollowsPc'
    <3>1. db' = [task.target.content EXCEPT !.applied = MaxSchema]
      BY DEF DatabaseFollowsPc
    <3>2. live' = task.target.assets
      BY DEF FilesFollowPc
    <3>3. QED
      BY <3>1, <3>2 DEF OutcomeFollowsPc, OutcomeIsTrue, SuccessIsTheBackup
  <2>8. QED
    BY <2>1, <2>2, <2>3, <2>4, <2>5, <2>6, <2>7
<1>20. CASE UndoReset
  <2> USE <1>20 DEF UndoReset, files, run, history, EndsWith, DropsSchemas
  <2>1. TypeOK'
    <3>1. db' \in Contents
      BY DroppedContents, EmptyContents DEF TypeOK
    <3>2. QED
      BY <3>1 DEF TypeOK, BeforeStop, Changing, Resting, Outcomes
  <2>2. NamesAreFresh'
    BY DEF NamesAreFresh, BeforeStop
  <2>3. FoundFollowsPc'
    BY DEF FoundFollowsPc, BeforeStop, Changing
  <2>4. ProtectionFollowsPc'
    BY DEF ProtectionFollowsPc, NeverReplacesUnprotected, HasSafetyBackup, IsLive, Changing, BeforeStop
  <2>5. DatabaseFollowsPc'
    BY DEF DatabaseFollowsPc, BeforeStop, Changing
  <2>6. FilesFollowPc'
    BY DEF FilesFollowPc, FilesSurvive, BeforeSwap, IsAsFound, IsTheBackups, Own, BeforeStop, Changing
  <2>7. OutcomeFollowsPc'
    <3>1. IsLive => HasSafetyBackup /\ HasSafetyBackup'
      BY DEF ProtectionFollowsPc, Changing, HasSafetyBackup
    <3>2. outcome \notin {"Succeeded", "RolledBack", "RollbackFailed", "AbortedBeforeChange"}
      BY DEF OutcomeFollowsPc
    <3>3. \/ outcome' = outcome
          \/ outcome' = "RollbackFailed" /\ pc' = "ended"
      OBVIOUS
    <3>4. QED
      BY <3>1, <3>2, <3>3 DEF OutcomeFollowsPc, OutcomeIsTrue, SuccessIsTheBackup, IsLive
  <2>8. QED
    BY <2>1, <2>2, <2>3, <2>4, <2>5, <2>6, <2>7
<1>21. CASE UndoRestore
  <2> USE <1>21 DEF UndoRestore, files, run, history, EndsWith
  <2>1. TypeOK'
    <3>1. IsLive => SafetyCopy.content \in Contents
      BY SafetyCopyIsBackup DEF ProtectionFollowsPc, Changing, TypeOK
    <3>2. \A v \in 0..MaxSchema : [EmptyDatabase EXCEPT !.applied = v] \in Contents
      BY DEF EmptyDatabase, Contents
    <3>3. db' \in Contents
      BY <3>1, <3>2 DEF TypeOK
    <3>4. QED
      BY <3>3 DEF TypeOK, Resting, Outcomes
  <2>2. NamesAreFresh'
    BY DEF NamesAreFresh, BeforeStop
  <2>3. FoundFollowsPc'
    BY DEF FoundFollowsPc, BeforeStop, Changing
  <2>4. ProtectionFollowsPc'
    BY DEF ProtectionFollowsPc, NeverReplacesUnprotected, HasSafetyBackup, IsLive, Changing, BeforeStop
  <2>5. DatabaseFollowsPc'
    BY DEF DatabaseFollowsPc, BeforeStop, Changing
  <2>6. FilesFollowPc'
    BY DEF FilesFollowPc, FilesSurvive, BeforeSwap, IsAsFound, IsTheBackups, Own, BeforeStop, Changing
  <2>7. OutcomeFollowsPc'
    <3>1. IsLive => HasSafetyBackup /\ HasSafetyBackup'
      BY DEF ProtectionFollowsPc, Changing, HasSafetyBackup
    <3>2. IsLive => ImageOf(SafetyCopy.content, before.db)
      BY <3>1, SafetyCopyIsBackup DEF TypeOK
    <3>3. ~IsLive => ImageOf([EmptyDatabase EXCEPT !.applied = MaxSchema], before.db)
      <4>1. ~IsLive => before.db = [applied |-> MaxSchema, whole |-> TRUE, data |-> {}]
        BY DEF ProtectionFollowsPc, NeverReplacesUnprotected, FoundFollowsPc, Changing, TypeOK,
           Contents
      <4>2. [EmptyDatabase EXCEPT !.applied = MaxSchema]
              = [applied |-> MaxSchema, whole |-> TRUE, data |-> {}]
        BY MigratedEmpty
      <4>3. QED
        BY <4>1, <4>2 DEF ImageOf
    <3>4. outcome' = "RolledBack" => ImageOf(db', before.db)
      BY <3>2, <3>3
    <3>5. outcome' \in {"RolledBack", "RollbackFailed"} /\ pc' = "ended"
      OBVIOUS
    <3>6. QED
      BY <3>1, <3>4, <3>5 DEF OutcomeFollowsPc, OutcomeIsTrue, SuccessIsTheBackup, IsLive, ImageOf
  <2>8. QED
    BY <2>1, <2>2, <2>3, <2>4, <2>5, <2>6, <2>7
<1>22. CASE UNCHANGED vars
  <2>1. TypeOK'
    BY <1>22 DEF vars, TypeOK, BeforeStop, Changing, Resting, Outcomes, Contents
  <2>2. NamesAreFresh'
    BY <1>22 DEF vars, NamesAreFresh, BeforeStop
  <2>3. FoundFollowsPc'
    BY <1>22 DEF vars, FoundFollowsPc, BeforeStop, Changing
  <2>4. ProtectionFollowsPc'
    BY <1>22 DEF vars, ProtectionFollowsPc, NeverReplacesUnprotected, HasSafetyBackup, IsLive, Changing, BeforeStop, ImageOf
  <2>5. DatabaseFollowsPc'
    BY <1>22 DEF vars, DatabaseFollowsPc, BeforeStop, Changing
  <2>6. FilesFollowPc'
    BY <1>22 DEF vars, FilesFollowPc, FilesSurvive, BeforeSwap, IsAsFound, IsTheBackups, Own, BeforeStop, Changing
  <2>7. OutcomeFollowsPc'
    <3>1. HasSafetyBackup => HasSafetyBackup'
      BY <1>22 DEF vars, HasSafetyBackup, ImageOf
    <3>2. QED
      BY <1>22, <3>1 DEF vars, OutcomeFollowsPc, OutcomeIsTrue, SuccessIsTheBackup, IsLive, ImageOf
  <2>8. QED
    BY <2>1, <2>2, <2>3, <2>4, <2>5, <2>6, <2>7
<1>23. QED
  BY <1>1, <1>2, <1>3, <1>4, <1>5, <1>6, <1>7, <1>8, <1>9, <1>10, <1>11, <1>12, <1>13, <1>14, <1>15, <1>16, <1>17, <1>18, <1>19, <1>20, <1>21, <1>22 DEF Next, RestoreStep

-----------------------------------------------------------------------------
(* What follows.                                                           *)

\* The invariant holds whatever fails and whenever the process is killed.
THEOREM RestoreInvariant == Spec => []RestoreInv
  BY InitRestoreInv, NextRestoreInv, PTL DEF Spec

\* Every variable keeps its type.
THEOREM TypeCorrect == Spec => []TypeOK
<1>1. RestoreInv => TypeOK
  BY DEF RestoreInv
<1>2. QED
  BY <1>1, RestoreInvariant, PTL

\* run_restore changes a shop only with a safety backup of it in place, and a
\* database without one only while it has no users.
THEOREM UnprotectedIsNeverReplaced == Spec => []NeverReplacesUnprotected
<1>1. RestoreInv => NeverReplacesUnprotected
  BY DEF RestoreInv, ProtectionFollowsPc
<1>2. QED
  BY <1>1, RestoreInvariant, PTL

\* AbortedBeforeChange, RolledBack and RollbackFailed say what is the case.
THEOREM OutcomesAreTrue == Spec => []OutcomeIsTrue
<1>1. RestoreInv => OutcomeIsTrue
  BY DEF RestoreInv, OutcomeFollowsPc
<1>2. QED
  BY <1>1, RestoreInvariant, PTL

\* A restore that reports success leaves the data and the files of the backup.
THEOREM SuccessHoldsTheBackup == Spec => []SuccessIsTheBackup
<1>1. RestoreInv => SuccessIsTheBackup
  BY DEF RestoreInv, OutcomeFollowsPc
<1>2. QED
  BY <1>1, RestoreInvariant, PTL

\* swap_in_assets and restore_previous_assets lose no file of the directories
\* they found, wherever they fail.
THEOREM FilesAreKept == Spec => []FilesSurvive
<1>1. RestoreInv => FilesSurvive
  BY DEF RestoreInv, FilesFollowPc
<1>2. QED
  BY <1>1, RestoreInvariant, PTL

-----------------------------------------------------------------------------
(* The data, when a dump that lists also replays.                          *)

\* No bundle leaves but by retention, which is remembered.
LEMMA BundlesAreRemembered ==
    ASSUME [Next]_vars
    PROVE  bundles \cup pruned \subseteq bundles' \cup pruned'
<1> USE DEF history, run, files
<1>1. CASE \/ UNCHANGED vars \/ OpenApp \/ UpgradeAtStart \/ Stop
  BY <1>1 DEF vars, OpenApp, UpgradeAtStart, Stop
<1>2. ASSUME NEW e, NEW d, Trade(e, d)
      PROVE  bundles \cup pruned \subseteq bundles' \cup pruned'
  BY <1>2 DEF Trade
<1>3. ASSUME NEW e, CommitInFlight(e)
      PROVE  bundles \cup pruned \subseteq bundles' \cup pruned'
  BY <1>3 DEF CommitInFlight
<1>4. ASSUME NEW kind, BackUp(kind)
      PROVE  bundles \cup pruned \subseteq bundles' \cup pruned'
  <2>1. PICK q \in DumpQualities :
            LET own == NewBundle(stamp + 1, kind, q) IN Retain(own, bundles \cup {own})
    BY <1>4 DEF BackUp
  <2>2. QED
    BY <2>1, RetentionKeepsCount
<1>5. ASSUME NEW kind, NEW b, Begin(kind, b)
      PROVE  bundles \cup pruned \subseteq bundles' \cup pruned'
  BY <1>5 DEF Begin
<1>6. CASE SafetyBackup
  BY <1>6 DEF SafetyBackup
<1>7. CASE Record
  BY <1>7, RetentionKeepsCount DEF Record
<1>8. CASE Validate \/ TestRestore \/ StopConnections
  BY <1>8 DEF Validate, TestRestore, StopConnections
<1>9. CASE Reset \/ Restore \/ Forward \/ Verify
  BY <1>9 DEF Reset, Restore, Forward, Verify
<1>10. CASE MoveAside \/ Copy \/ Revert
  BY <1>10 DEF MoveAside, Copy, Revert
<1>11. CASE UndoReset \/ UndoRestore
  BY <1>11 DEF UndoReset, UndoRestore
<1>12. QED
  BY <1>1, <1>2, <1>3, <1>4, <1>5, <1>6, <1>7, <1>8, <1>9, <1>10, <1>11 DEF Next, RestoreStep

\* A restore that leads nothing back commits nothing and reads nothing away
\* before its last connection is gone.
LEMMA DataLeavesOnlyWhileChanging ==
    ASSUME TypeOK, [Next]_vars, pc \notin Changing
    PROVE  /\ db.data \subseteq db'.data
           /\ committed' \ InFlight \subseteq (committed \ InFlight) \cup db'.data
           /\ pc' \in Changing => StopConnections
<1> USE DEF history, run, files, EndsWith, Changing
<1>1. CASE UNCHANGED vars
  BY <1>1 DEF vars
<1>2. CASE OpenApp \/ UpgradeAtStart \/ Stop
  BY <1>2 DEF OpenApp, UpgradeAtStart, Stop, TypeOK, Contents
<1>3. ASSUME NEW e, NEW d, Trade(e, d)
      PROVE  /\ db.data \subseteq db'.data
             /\ committed' \ InFlight \subseteq (committed \ InFlight) \cup db'.data
             /\ pc' \notin Changing
  BY <1>3 DEF Trade, TypeOK, Contents
<1>4. ASSUME NEW e \in InFlight, CommitInFlight(e)
      PROVE  /\ db.data \subseteq db'.data
             /\ committed' \ InFlight \subseteq (committed \ InFlight) \cup db'.data
             /\ pc' \notin Changing
  <2>1. db'.data = db.data \cup {e} /\ committed' = committed \cup {e} /\ pc' = pc
    BY <1>4 DEF CommitInFlight, TypeOK, Contents
  <2>2. QED
    BY <2>1
<1>5. ASSUME NEW kind, BackUp(kind)
      PROVE  db' = db /\ committed' = committed /\ pc' = pc
  BY <1>5 DEF BackUp
<1>6. ASSUME NEW kind, NEW b, Begin(kind, b)
      PROVE  db' = db /\ committed' = committed /\ pc' \notin Changing
  BY <1>6 DEF Begin
<1>7. CASE Validate \/ TestRestore \/ SafetyBackup \/ StopConnections
  BY <1>7 DEF Validate, TestRestore, SafetyBackup, StopConnections
<1>8. CASE \/ Reset \/ Restore \/ Forward \/ Verify \/ MoveAside \/ Copy \/ Revert
           \/ Record \/ UndoReset \/ UndoRestore
  BY <1>8 DEF Reset, Restore, Forward, Verify, MoveAside, Copy, Revert, Record, UndoReset,
     UndoRestore
<1>9. QED
  BY <1>1, <1>2, <1>3, <1>4, <1>5, <1>6, <1>7, <1>8 DEF Next, RestoreStep

\* While a restore changes the database nothing is committed.
LEMMA NothingCommitsWhileChanging ==
    ASSUME [Next]_vars, pc \in Changing
    PROVE  committed' = committed
<1> USE DEF history, run, files, Changing, BeforeStop
<1>1. CASE UNCHANGED vars \/ OpenApp \/ UpgradeAtStart \/ Stop
  BY <1>1 DEF vars, OpenApp, UpgradeAtStart, Stop
<1>2. ASSUME NEW e, NEW d PROVE ~Trade(e, d)
  BY DEF Trade
<1>3. ASSUME NEW e PROVE ~CommitInFlight(e)
  BY DEF CommitInFlight
<1>4. ASSUME NEW kind PROVE ~BackUp(kind)
  BY DEF BackUp
<1>5. ASSUME NEW kind, NEW b, Begin(kind, b) PROVE committed' = committed
  BY <1>5 DEF Begin
<1>6. CASE Validate \/ TestRestore \/ SafetyBackup \/ StopConnections
  BY <1>6 DEF Validate, TestRestore, SafetyBackup, StopConnections
<1>7. CASE Reset \/ Restore \/ Forward \/ Verify \/ Copy \/ MoveAside
  BY <1>7 DEF Reset, Restore, Forward, Verify, Copy, MoveAside
<1>8. CASE Revert \/ Record \/ UndoReset \/ UndoRestore
  BY <1>8 DEF Revert, Record, UndoReset, UndoRestore
<1>9. QED
  BY <1>1, <1>2, <1>3, <1>4, <1>5, <1>6, <1>7, <1>8 DEF Next, RestoreStep

\* Every bundle is as good as one of the dumps that pg_dump writes.
LEMMA QualitiesArePresumed ==
    ASSUME RestoreInv, DataFollowsPc, DumpsAsPresumed, [Next]_vars
    PROVE  \A b \in bundles' : b.quality # "listable"
<1> USE DEF history, run, files, DataFollowsPc
<1>1. CASE \/ UNCHANGED vars \/ OpenApp \/ UpgradeAtStart \/ Stop
  BY <1>1 DEF vars, OpenApp, UpgradeAtStart, Stop
<1>2. ASSUME NEW e, NEW d, Trade(e, d) PROVE bundles' = bundles
  BY <1>2 DEF Trade
<1>3. ASSUME NEW e, CommitInFlight(e) PROVE bundles' = bundles
  BY <1>3 DEF CommitInFlight
<1>4. ASSUME NEW kind, BackUp(kind)
      PROVE  \A b \in bundles' : b.quality # "listable"
  <2>1. PICK q \in DumpQualities :
            LET own == NewBundle(stamp + 1, kind, q) IN Retain(own, bundles \cup {own})
    BY <1>4 DEF BackUp
  <2>2. bundles' \subseteq bundles \cup {NewBundle(stamp + 1, kind, q)}
    BY <2>1, RetentionKeepsCount
  <2>3. NewBundle(stamp + 1, kind, q).quality # "listable"
    BY DEF NewBundle, DumpsAsPresumed
  <2>4. QED
    BY <2>2, <2>3
<1>5. ASSUME NEW kind, NEW b, Begin(kind, b) PROVE bundles' = bundles
  BY <1>5 DEF Begin
<1>6. CASE SafetyBackup
  <2>1. \/ bundles' = bundles
        \/ \E q \in DumpQualities : bundles' = bundles \cup {NewBundle(stamp, "PRE_RESTORE", q)}
    BY <1>6 DEF SafetyBackup
  <2>2. \A q \in DumpQualities : NewBundle(stamp, "PRE_RESTORE", q).quality # "listable"
    BY DEF NewBundle, DumpsAsPresumed
  <2>3. QED
    BY <2>1, <2>2
<1>7. CASE Record
  BY <1>7, RetentionKeepsCount DEF Record
<1>8. CASE Validate \/ TestRestore \/ StopConnections
  BY <1>8 DEF Validate, TestRestore, StopConnections
<1>9. CASE Reset \/ Restore \/ Forward \/ Verify
  BY <1>9 DEF Reset, Restore, Forward, Verify
<1>10. CASE MoveAside \/ Copy \/ Revert
  BY <1>10 DEF MoveAside, Copy, Revert
<1>11. CASE UndoReset \/ UndoRestore
  BY <1>11 DEF UndoReset, UndoRestore
<1>12. QED
  BY <1>1, <1>2, <1>3, <1>4, <1>5, <1>6, <1>7, <1>8, <1>9, <1>10, <1>11 DEF Next, RestoreStep

\* What retention remembers still counts as held.
LEMMA KeptGrows ==
    ASSUME bundles \cup pruned \subseteq bundles' \cup pruned'
    PROVE  Kept \subseteq Kept'
  BY DEF Kept, Held

\* When the connections of the shop are stopped, its safety backup holds every
\* entry but those of the calls that were under way.
LEMMA StoppedShopIsKept ==
    ASSUME RestoreInv, DataFollowsPc, StopConnections, pc' \in Changing
    PROVE  committed \ InFlight \subseteq Kept
<1>1. committed \ InFlight \subseteq db.data \cup Kept
  BY DEF DataFollowsPc, DataSurvives, Kept
<1>2. pc = "stop_connections" /\ db = before.db /\ (IsLive \/ NoUsers)
  BY DEF StopConnections, RestoreInv, FoundFollowsPc, BeforeStop, EndsWith, Changing
<1>3. CASE IsLive
  <2>1. PICK b \in bundles : b.quality # "torn" /\ ImageOf(b.content, before.db)
    BY <1>2, <1>3 DEF RestoreInv, ProtectionFollowsPc, HasSafetyBackup
  <2>2. b.quality = "sound"
    BY <2>1 DEF DataFollowsPc, RestoreInv, TypeOK, Bundles
  <2>3. b.content.data \subseteq Kept
    BY <2>2 DEF Kept, Held
  <2>4. db.data \ InFlight \subseteq b.content.data
    BY <1>2, <2>1 DEF ImageOf
  <2>5. QED
    BY <1>1, <2>3, <2>4
<1>4. CASE NoUsers
  BY <1>1, <1>4 DEF NoUsers
<1>5. QED
  BY <1>2, <1>3, <1>4

\* Every step keeps every entry in the database or in a bundle.
LEMMA NextDataFollowsPc ==
    RestoreInv /\ DataFollowsPc /\ DumpsAsPresumed /\ [Next]_vars => DataFollowsPc'
<1> SUFFICES ASSUME RestoreInv, DataFollowsPc, DumpsAsPresumed, [Next]_vars
             PROVE  DataFollowsPc'
  OBVIOUS
<1>1. Kept \subseteq Kept'
  BY BundlesAreRemembered, KeptGrows
<1>2. committed \ InFlight \subseteq db.data \cup Kept
  BY DEF DataFollowsPc, DataSurvives, Kept
<1>3. /\ committed' \ InFlight \subseteq db'.data \cup Kept'
      /\ pc' \in Changing => committed' \ InFlight \subseteq Kept'
  <2>1. CASE pc \in Changing
    BY <1>1, <2>1, NothingCommitsWhileChanging DEF DataFollowsPc
  <2>2. CASE pc \notin Changing
    <3>1. /\ db.data \subseteq db'.data
          /\ committed' \ InFlight \subseteq (committed \ InFlight) \cup db'.data
          /\ pc' \in Changing => StopConnections
      BY <2>2, DataLeavesOnlyWhileChanging DEF RestoreInv
    <3>2. ASSUME pc' \in Changing
          PROVE  committed' \ InFlight \subseteq Kept'
      <4>1. committed' = committed
        BY <3>1, <3>2 DEF StopConnections, history
      <4>2. QED
        BY <1>1, <3>1, <3>2, <4>1, StoppedShopIsKept
    <3>3. QED
      BY <1>1, <1>2, <3>1, <3>2
  <2>3. QED
    BY <2>1, <2>2
<1>4. QED
  BY <1>3, QualitiesArePresumed DEF DataFollowsPc, DataSurvives, Kept

\* Through restores, failed restores, rollbacks and power cuts every entry is in
\* the database or in a bundle that restores, unless only bundles that retention
\* deleted held it, provided pg_restore --list rejects every dump whose rows
\* would not replay.
THEOREM DataIsKept ==
    ASSUME DumpsAsPresumed
    PROVE  Spec => []DataSurvives
<1>1. Init => DataFollowsPc
  <2> SUFFICES ASSUME Init PROVE DataFollowsPc
    OBVIOUS
  <2>1. PICK b \in bundles : bundles = {b} /\ b.quality = "sound" /\ b.content.data = committed
    BY DEF Init
  <2>2. pc = "closed"
    BY DEF Init
  <2>3. committed \subseteq UNION {Held(c) : c \in bundles \cup pruned}
    BY <2>1 DEF Held
  <2>4. QED
    BY <2>1, <2>2, <2>3 DEF DataFollowsPc, DataSurvives, Changing
<1>2. RestoreInv /\ DataFollowsPc /\ [Next]_vars => DataFollowsPc'
  BY NextDataFollowsPc
<1>3. DataFollowsPc => DataSurvives
  BY DEF DataFollowsPc
<1>4. QED
  BY <1>1, <1>2, <1>3, RestoreInvariant, PTL DEF Spec
=============================================================================
