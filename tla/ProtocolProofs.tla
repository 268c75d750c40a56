---------------------------- MODULE ProtocolProofs ----------------------------
(***************************************************************************)
(* The protocols beside the operator's tick, proved for every value of     *)
(* their constants: the parts of MCComponents that have variables of their *)
(* own.  A theorem about one part is about its specification; those at the *)
(* end of a topic are about the composition and state the properties of    *)
(* its run.  A theorem's hypothesis says what it assumes of the constants. *)
(***************************************************************************)
EXTENDS Protocols, FiniteSets, FiniteSetTheorems, TLAPS

-------------------------------------------------------------------------------
(* Moving the operator to another machine. *)

Contents == [Files -> Nat]

\* The invariant: as long as the new operator does not run the old one's files are all
\* changes; what was agreed on, and then what the new operator has, lacks what the old one
\* wrote since that export, and unless the old one was started again that is nothing.
Lacks(files) == files \in Contents /\ \A f \in Files : files[f] + stray.files[f] = changes[f]
SourceIsLatest ==
    /\ source = [state |-> source.state, files |-> source.files]
    /\ source.state \in {"running", "paused", "stopped"} /\ source.files \in Contents /\ changes \in Contents
    /\ stray = [started |-> stray.started, files |-> stray.files]
    /\ stray.started \in BOOLEAN /\ stray.files \in Contents
    /\ worker \in BOOLEAN
    /\ worker => agent = Migration!Idle /\ standby = "gone" /\ target.marker # Null /\ Lacks(target.files)
    /\ ~worker => source.files = changes /\ source.state # "stopped"
    /\ agreed # Null /\ ~worker => Lacks(agreed)
    /\ (worker \/ agreed # Null) /\ ~stray.started =>
          source.state # "running" /\ \A f \in Files : stray.files[f] = 0

\* What an import has done so far, and that nothing else writes the target then.
Importing == agent.step \in {"move", "mark", "delete"}
ImportIsWhole ==
    /\ packets \subseteq Contents
    /\ target = [files |-> target.files, identity |-> target.identity, marker |-> target.marker]
    /\ target.files = [f \in Files |-> target.files[f]]
    /\ target.marker \in Contents \cup {Null}
    /\ agent.step \in {"idle", "move", "mark", "delete"}
    /\ agent.step = "idle" <=> agent = Migration!Idle
    /\ Importing =>
          /\ agent.snapshot \in Contents /\ agent.left \subseteq Files /\ standby # "running"
          /\ \A f \in Files \ agent.left : target.files[f] = agent.snapshot[f]
          /\ agent = [step |-> agent.step, snapshot |-> agent.snapshot, left |-> agent.left]
    /\ agent.step \in {"mark", "delete"} => agent.left = {} /\ target.identity
    /\ agent.step \in {"move", "mark"} => target.marker = Null
    /\ target.marker # Null /\ ~worker => target.identity /\ target.files = target.marker /\ standby # "running"

MigrationOK == SourceIsLatest /\ ImportIsWhole

\* The old operator runs, the standby machine is empty and nobody has asked for anything.
LEMMA MigrationInit == ASSUME Null \notin Contents, Migration!Init PROVE MigrationOK
BY DEF Migration!Init, Migration!Idle, Migration!NoStray, MigrationOK, SourceIsLatest, ImportIsWhole, Importing, Contents, Lacks

\* What one operator or the other writes.
LEMMA MigrationChange ==
    ASSUME MigrationOK, NEW f \in Files, Migration!Change(f) PROVE MigrationOK'
<1>0. /\ SourceIsLatest /\ ImportIsWhole /\ changes' = [changes EXCEPT ![f] = @ + 1]
      /\ UNCHANGED <<standby, agent, packets, agreed, worker>>
  BY DEF Migration!Change, MigrationOK
<1>1. CASE /\ source.state = "running" /\ source' = [source EXCEPT !.files[f] = @ + 1]
           /\ stray' = [stray EXCEPT !.files[f] = @ + 1] /\ UNCHANGED target
  <2>1. /\ source' = [state |-> source.state, files |-> [source.files EXCEPT ![f] = @ + 1]]
        /\ stray' = [started |-> stray.started, files |-> [stray.files EXCEPT ![f] = @ + 1]]
    BY <1>0, <1>1 DEF SourceIsLatest
  <2>2. /\ source'.files \in Contents /\ changes' \in Contents /\ stray'.files \in Contents
        /\ source.files = changes => source'.files = changes'
    <3>1. source.files \in Contents /\ changes \in Contents /\ stray.files \in Contents /\ f \in Files
      BY <1>0 DEF SourceIsLatest
    <3>2. source'.files = [source.files EXCEPT ![f] = @ + 1] /\ stray'.files = [stray.files EXCEPT ![f] = @ + 1]
      BY <2>1
    <3>3. changes' = [changes EXCEPT ![f] = @ + 1]
      BY <1>0
    <3>4. \A c \in Contents : [c EXCEPT ![f] = @ + 1] \in Contents
      BY ONLY <3>1 DEF Contents
    <3>5. source.files = changes => source'.files = changes'
      BY ONLY <3>2, <3>3
    <3> QED BY ONLY <3>1, <3>2, <3>3, <3>4, <3>5
  <2>3. \A files : Lacks(files) => Lacks(files)'
    <3> SUFFICES ASSUME NEW files \in Contents, NEW g \in Files, files[g] + stray.files[g] = changes[g]
                 PROVE  files[g] + stray'.files[g] = changes'[g]
      BY DEF Lacks
    <3>1. stray.files \in Contents /\ changes \in Contents
      BY <1>0 DEF SourceIsLatest
    <3> QED BY <1>0, <2>1, <3>1 DEF Contents
  <2>4. worker \/ agreed # Null => stray.started
    BY <1>0, <1>1 DEF SourceIsLatest
  <2>5. SourceIsLatest'
    BY <1>0, <1>1, <2>1, <2>2, <2>3, <2>4 DEF SourceIsLatest, Lacks
  <2>6. ImportIsWhole'
    BY <1>0, <1>1 DEF ImportIsWhole, Importing
  <2> QED BY <2>5, <2>6 DEF MigrationOK
<1>2. CASE worker /\ target' = [target EXCEPT !.files[f] = @ + 1] /\ UNCHANGED <<source, stray>>
  <2>1. /\ target'.files = [target.files EXCEPT ![f] = @ + 1] /\ target'.identity = target.identity
        /\ target'.marker = target.marker
        /\ target' = [files |-> target'.files, identity |-> target'.identity, marker |-> target'.marker]
    BY <1>0, <1>2 DEF ImportIsWhole
  <2>2. Lacks(target.files) /\ stray.files \in Contents /\ changes \in Contents
    BY <1>0, <1>2 DEF SourceIsLatest
  <2>3. Lacks(target.files)' /\ changes' \in Contents
    BY <1>0, <1>2, <2>1, <2>2 DEF Lacks, Contents
  <2>4. agent = Migration!Idle /\ ~Importing
    BY <1>0, <1>2 DEF SourceIsLatest, Importing, Migration!Idle
  <2>5. SourceIsLatest'
    BY <1>0, <1>2, <2>1, <2>3 DEF SourceIsLatest
  <2>6. ImportIsWhole'
    BY <1>0, <1>2, <2>1, <2>3, <2>4 DEF ImportIsWhole, Importing, Lacks, Contents
  <2> QED BY <2>5, <2>6 DEF MigrationOK
<1> QED BY <1>1, <1>2 DEF Migration!Change

\* The export and its answer, the resumption, a reboot of the old machine and its end.
LEMMA MigrationSource ==
    ASSUME MigrationOK, Null \notin Contents,
           Migration!Export \/ Migration!Resume \/ Migration!SourceReboot \/ Migration!StopSource
    PROVE  MigrationOK'
<1>0. SourceIsLatest /\ ImportIsWhole /\ UNCHANGED <<target, standby, agent, worker, changes>>
  BY DEF Migration!Export, Migration!Resume, Migration!SourceReboot, Migration!StopSource, MigrationOK
<1>1. /\ source' = [state |-> source'.state, files |-> source.files]
      /\ packets' \subseteq packets \cup {source.files}
  BY <1>0 DEF Migration!Export, Migration!Resume, Migration!SourceReboot, Migration!StopSource, SourceIsLatest,
              Migration!SnapshotFiles
<1>t. /\ target' = target /\ agent' = agent /\ standby' = standby /\ worker' = worker /\ changes' = changes
      /\ source.files \in Contents /\ changes \in Contents /\ worker \in BOOLEAN /\ stray.started \in BOOLEAN
      /\ stray.files \in Contents /\ (source.state # "stopped" \/ worker)
  BY <1>0 DEF SourceIsLatest
<1>s. source'.files = source.files /\ source' = [state |-> source'.state, files |-> source'.files]
  BY ONLY <1>1
<1>2. ImportIsWhole'
  BY <1>0, <1>1 DEF ImportIsWhole, Importing, SourceIsLatest
<1>3. CASE Migration!Export
  <2>1. /\ source'.state = "paused" /\ agreed' \in {source.files, Null}
        /\ stray' = IF worker THEN stray ELSE Migration!NoStray
    BY <1>3 DEF Migration!Export, Migration!SnapshotFiles
  <2>2. CASE worker
    <3>1. stray' = stray /\ worker'
      BY <1>0, <2>1, <2>2
    <3> QED BY ONLY <1>0, <1>2, <1>s, <1>t, <2>1, <2>2, <3>1 DEF MigrationOK, SourceIsLatest, Lacks
  <2>3. CASE ~worker
    <3>1. stray' = [started |-> FALSE, files |-> [g \in Files |-> 0]] /\ source.files = changes
      BY <1>0, <2>1, <2>3 DEF Migration!NoStray, SourceIsLatest
    <3>2. stray'.files \in Contents /\ \A g \in Files : stray'.files[g] = 0
      BY <3>1 DEF Contents
    <3>3. Lacks(source.files)'
      BY <1>0, <1>1, <3>1, <3>2 DEF Lacks, SourceIsLatest, Contents
    <3>4. agreed' # Null => Lacks(agreed)'
      BY <1>s, <2>1, <3>3 DEF Lacks
    <3>5. stray' = [started |-> stray'.started, files |-> stray'.files] /\ stray'.started = FALSE
          /\ source.files = changes
      BY ONLY <3>1
    <3>6. ~worker' /\ source'.state = "paused" /\ source'.files = changes' /\ changes' \in Contents
      BY ONLY <1>s, <1>t, <2>1, <2>3, <3>5
    <3>7. SourceIsLatest'
      BY ONLY <1>s, <1>t, <3>2, <3>4, <3>5, <3>6 DEF SourceIsLatest
    <3> QED BY <1>2, <3>7 DEF MigrationOK
  <2> QED BY <1>2, <2>2, <2>3 DEF MigrationOK
<1>4. CASE Migration!Resume \/ Migration!SourceReboot
  <2>1. /\ source'.state = "running" /\ agreed' \in {agreed, Null} /\ source.state = "paused"
        /\ stray' = [stray EXCEPT !.started = TRUE]
    <3>1. source = [state |-> source.state, files |-> source.files] /\ source' = [source EXCEPT !.state = "running"]
      BY <1>0, <1>4 DEF Migration!Resume, Migration!SourceReboot, SourceIsLatest
    <3>2. source'.state = "running"
      BY ONLY <3>1
    <3> QED BY <1>4, <3>2 DEF Migration!Resume, Migration!SourceReboot
  <2>2. stray' = [started |-> TRUE, files |-> stray.files]
    <3>1. stray = [started |-> stray.started, files |-> stray.files]
      BY <1>0 DEF SourceIsLatest
    <3> QED BY ONLY <2>1, <3>1
  <2>3. /\ stray'.started = TRUE /\ stray'.files = stray.files
        /\ stray' = [started |-> stray'.started, files |-> stray'.files]
    BY ONLY <2>2
  <2>4. SourceIsLatest'
    BY ONLY <1>0, <1>s, <1>t, <2>1, <2>3 DEF SourceIsLatest, Lacks
  <2> QED BY <1>2, <2>4 DEF MigrationOK
<1>5. CASE Migration!StopSource
  <2>1. source'.state = "stopped" /\ worker /\ UNCHANGED <<agreed, stray>>
    BY <1>5 DEF Migration!StopSource
  <2>2. SourceIsLatest'
    BY ONLY <1>0, <1>s, <1>t, <2>1 DEF SourceIsLatest, Lacks
  <2> QED BY <1>2, <2>2 DEF MigrationOK
<1> QED BY <1>3, <1>4, <1>5

\* The standby operator writes where nothing is imported.
LEMMA MigrationStandby ==
    ASSUME MigrationOK, NEW f \in Files, Migration!StandbyWrites(f) PROVE MigrationOK'
<1> USE DEF Migration!StandbyWrites, MigrationOK, SourceIsLatest, ImportIsWhole, Importing, Contents, Migration!Idle, Lacks
<1>1. /\ target'.files = [target.files EXCEPT ![f] = Own] /\ target'.identity = target.identity
      /\ target'.marker = target.marker
      /\ target' = [files |-> target'.files, identity |-> target'.identity, marker |-> target'.marker]
  OBVIOUS
<1>2. ~worker /\ ~Importing /\ target.marker = Null
  OBVIOUS
<1> QED BY <1>1, <1>2

\* The import, step by step.
LEMMA MigrationImport ==
    ASSUME MigrationOK, NEW p \in Contents, Migration!Import(p) PROVE MigrationOK'
<1> USE DEF Migration!Import, Migration!Quiesced, MigrationOK, SourceIsLatest, ImportIsWhole, Importing, Contents,
            Migration!Idle, Lacks
<1>1. agent' = [step |-> "move", snapshot |-> p, left |-> Files] /\ standby' # "running"
  OBVIOUS
<1> QED BY <1>1

\* A file of the snapshot takes its place (restoreSnapshot, the renames).
LEMMA MigrationMove ==
    ASSUME MigrationOK, NEW f \in Files, Migration!MoveFile(f) PROVE MigrationOK'
<1> USE DEF Migration!MoveFile, MigrationOK, SourceIsLatest, ImportIsWhole, Importing, Contents, Migration!Idle, Lacks
<1>1. /\ target'.files = [target.files EXCEPT ![f] = agent.snapshot[f]] /\ target'.identity = target.identity
      /\ target'.marker = target.marker
      /\ target' = [files |-> target'.files, identity |-> target'.identity, marker |-> target'.marker]
  OBVIOUS
<1>2. agent' = [step |-> "move", snapshot |-> agent.snapshot, left |-> agent.left \ {f}]
  OBVIOUS
<1>3. SourceIsLatest'
  BY <1>1, <1>2
<1>4. \A g \in Files \ agent'.left : target'.files[g] = agent'.snapshot[g]
  BY <1>1, <1>2
<1>5. ImportIsWhole'
  <2>1. /\ packets' = packets /\ standby' = standby /\ worker' = worker /\ target'.marker = Null
        /\ agent'.step = "move" /\ agent'.snapshot \in Contents /\ agent'.left \subseteq Files /\ standby # "running"
    BY <1>1, <1>2
  <2>2. target'.files = [g \in Files |-> target'.files[g]]
    BY <1>1
  <2>3. agent' = [step |-> agent'.step, snapshot |-> agent'.snapshot, left |-> agent'.left] /\ agent'.step # "idle"
    BY <1>2
  <2>4. packets \subseteq Contents
    OBVIOUS
  <2> QED BY ONLY <1>1, <1>4, <2>1, <2>2, <2>3, <2>4 DEF ImportIsWhole, Importing, Migration!Idle
<1> QED BY <1>3, <1>5

\* The last steps of an import: the identity is sealed, the marker written and the standby
\* operator deleted; by then every file is the snapshot's.
LEMMA MigrationMark ==
    ASSUME MigrationOK, Migration!SealIdentity \/ Migration!WriteMarker \/ Migration!DeleteStandby PROVE MigrationOK'
<1> USE DEF Migration!SealIdentity, Migration!WriteMarker, Migration!DeleteStandby, MigrationOK, SourceIsLatest,
            ImportIsWhole, Importing, Contents, Migration!Idle, Lacks
<1>1. CASE Migration!SealIdentity
  <2>1. /\ target' = [files |-> target.files, identity |-> TRUE, marker |-> target.marker]
        /\ agent' = [step |-> "mark", snapshot |-> agent.snapshot, left |-> agent.left]
    BY <1>1
  <2>2. SourceIsLatest'
    BY <1>1, <2>1
  <2>3. /\ packets' = packets /\ standby' = standby /\ worker' = worker /\ target.marker = Null /\ standby # "running"
        /\ agent.left = {} /\ agent.snapshot \in Contents /\ \A f \in Files : target.files[f] = agent.snapshot[f]
        /\ target.files = [f \in Files |-> target.files[f]] /\ packets \subseteq Contents
    BY <1>1
  <2>4. ImportIsWhole'
    BY ONLY <2>1, <2>3 DEF ImportIsWhole, Importing, Migration!Idle
  <2> QED BY <2>2, <2>4
<1>2. CASE Migration!WriteMarker
  <2>1. /\ target' = [files |-> target.files, identity |-> target.identity, marker |-> agent.snapshot]
        /\ agent' = [step |-> "delete", snapshot |-> agent.snapshot, left |-> agent.left]
    BY <1>2
  <2>2. target.files = agent.snapshot
    BY <1>2
  <2> QED BY <1>2, <2>1, <2>2
<1>3. CASE Migration!DeleteStandby
  BY <1>3
<1> QED BY <1>1, <1>2, <1>3

\* Machines stop and start, and the new operator is deployed.
LEMMA MigrationMachine ==
    ASSUME MigrationOK, Null \notin Contents,
           Migration!AgentCrash \/ Migration!Reboot \/ Migration!Deploy
    PROVE  MigrationOK'
<1> USE DEF Migration!AgentCrash, Migration!Reboot, Migration!Deploy, MigrationOK, SourceIsLatest,
            ImportIsWhole, Importing, Contents, Migration!Idle, Lacks
<1>1. CASE Migration!AgentCrash
  BY <1>1
<1>2. CASE Migration!Reboot
  BY <1>2
<1>3. CASE Migration!Deploy
  BY <1>3
<1> QED BY <1>1, <1>2, <1>3

\* Every step keeps the invariant.
LEMMA MigrationStep ==
    ASSUME MigrationOK, Null \notin Contents, [Migration!Next]_Migration!vars PROVE MigrationOK'
<1>1. CASE UNCHANGED Migration!vars
  BY <1>1 DEF Migration!vars, MigrationOK, SourceIsLatest, ImportIsWhole, Importing, Lacks
<1>2. CASE Migration!Next
  <2>1. ASSUME NEW f \in Files, Migration!Change(f) \/ Migration!StandbyWrites(f) \/ Migration!MoveFile(f)
        PROVE  MigrationOK'
    BY <2>1, MigrationChange, MigrationStandby, MigrationMove
  <2>2. ASSUME NEW p \in packets, Migration!Import(p) PROVE MigrationOK'
    <3>1. PICK q : q = p
      OBVIOUS
    <3>2. q \in Contents /\ Migration!Import(q)
      BY <2>2, <3>1 DEF MigrationOK, ImportIsWhole
    <3> QED BY <3>2, MigrationImport
  <2> QED BY <1>2, <2>1, <2>2, MigrationSource, MigrationMark, MigrationMachine DEF Migration!Next
<1> QED BY <1>1, <1>2

\* The operator that runs has every change that was made but those the old one wrote after it
\* was started again behind the export, which is then the only way that both run; and what is
\* marked as imported is whole (migration.mjs, runAgent and restoreSnapshot), for any files,
\* any number of changes and any order in which packets, crashes and restarts of either
\* machine come.
THEOREM MovedOperatorIsLatest ==
    ASSUME Null \notin Contents
    PROVE  Migration!Spec => [](Migration!LatestStateOperates /\ Migration!ImportedIsWhole)
<1>1. Migration!Init => MigrationOK
  BY MigrationInit
<1>2. MigrationOK /\ [Migration!Next]_Migration!vars => MigrationOK'
  BY MigrationStep
<1>3. MigrationOK => Migration!LatestStateOperates /\ Migration!ImportedIsWhole
  <2> SUFFICES ASSUME MigrationOK PROVE Migration!LatestStateOperates /\ Migration!ImportedIsWhole
    OBVIOUS
  <2>1. worker /\ ~stray.started => target.files = changes
    BY DEF MigrationOK, SourceIsLatest, Lacks, Contents
  <2> QED BY <2>1 DEF MigrationOK, SourceIsLatest, ImportIsWhole, Lacks, Migration!LatestStateOperates,
                      Migration!ImportedIsWhole
<1> QED BY <1>1, <1>2, <1>3, PTL DEF Migration!Spec

-------------------------------------------------------------------------------
(* Replacing the vault. *)

RetirementBounds == DepositLimit \in Nat /\ VaultLimit \in Nat \ {0} /\ Gains \subseteq Int

Vault == [paused : BOOLEAN, cash : Int, account : Nat]
Intent == [status : {"none", "PREPARED", "CONFIRMED", "RETIRED"}, vault : Retirement!Vaults, paid : BOOLEAN]
RetirementTyped ==
    /\ vaults \in [Retirement!Vaults -> Vault] /\ config \in Retirement!Vaults
    /\ intents \in [Retirement!Deposits -> Intent] /\ owed \in [pending : Nat, equity : Int]
    /\ job \in [kind : {"none", "pause", "pin"}, seen : BOOLEAN] /\ retired \subseteq Retirement!Vaults

\* Vaults that were left are paused and empty, and the next ones were not used yet.
Empty(v) == vaults[v].cash = 0 /\ vaults[v].account = 0
OthersEmpty ==
    /\ \A v \in retired : v < config /\ vaults[v].paused /\ Empty(v)
    /\ \A v \in Retirement!Vaults : v > config => Empty(v)

\* A deposit that may still be completed is one to the vault in use.
IntentOK(d) ==
    /\ intents[d].status = "none" => ~intents[d].paid
    /\ intents[d].status = "PREPARED" => intents[d].vault = config
    /\ intents[d].status = "CONFIRMED" => intents[d].paid
    /\ intents[d].status = "RETIRED" => intents[d].vault \in retired /\ ~intents[d].paid
IntentsOK == \A d \in Retirement!Deposits : IntentOK(d)

\* The vault in use holds the pending and the unclaimed deposits, its account the equity.
Claimable(d) == intents[d].paid /\ intents[d].status = "PREPARED"
Unclaimed == {d \in Retirement!Deposits : Claimable(d)}
VaultHolds ==
    /\ vaults[config].account = owed.equity
    /\ vaults[config].cash = owed.pending + Cardinality(Unclaimed)

\* What was found for the change of the vault stays true while it holds the queue.
PinOK == job.kind = "pin" => config < VaultLimit /\ (job.seen => Retirement!VaultRetirable(config))

RetirementOK == RetirementTyped /\ OthersEmpty /\ IntentsOK /\ VaultHolds /\ PinOK

\* How many deposits are unclaimed, and how a deposit becomes or stops being one.
LEMMA UnclaimedCount ==
    ASSUME RetirementBounds
    PROVE  IsFiniteSet(Unclaimed) /\ Cardinality(Unclaimed) \in Nat /\ (Cardinality(Unclaimed) = 0 <=> Unclaimed = {})
<1>1. IsFiniteSet(Retirement!Deposits)
  BY FS_Interval DEF RetirementBounds, Retirement!Deposits
<1>2. Unclaimed \in SUBSET Retirement!Deposits
  BY DEF Unclaimed
<1>3. IsFiniteSet(Unclaimed)
  BY <1>1, <1>2, FS_Subset
<1> QED BY <1>3, FS_CardinalityType, FS_EmptySet

\* The count the model uses.
LEMMA SameCount == ASSUME NEW S PROVE Retirement!Cardinality(S) = Cardinality(S)
BY DEF Retirement!Cardinality, Cardinality

\* Nobody pays or completes: the unclaimed deposits are the same.
LEMMA UnclaimedSame ==
    ASSUME \A d \in Retirement!Deposits : Claimable(d)' <=> Claimable(d)
    PROVE  Unclaimed' = Unclaimed
BY DEF Unclaimed, Retirement!Deposits

\* One is paid.
LEMMA UnclaimedMore ==
    ASSUME RetirementBounds, NEW d \in Retirement!Deposits, ~Claimable(d), Claimable(d)',
           \A e \in Retirement!Deposits \ {d} : Claimable(e)' <=> Claimable(e)
    PROVE  Cardinality(Unclaimed') = Cardinality(Unclaimed) + 1
<1>1. Unclaimed' = Unclaimed \cup {d} /\ d \notin Unclaimed
  BY DEF Unclaimed, Retirement!Deposits
<1>2. IsFiniteSet(Unclaimed)
  BY UnclaimedCount
<1> QED BY <1>1, <1>2, FS_AddElement

\* One is completed.
LEMMA UnclaimedLess ==
    ASSUME RetirementBounds, NEW d \in Retirement!Deposits, Claimable(d), ~Claimable(d)',
           \A e \in Retirement!Deposits \ {d} : Claimable(e)' <=> Claimable(e)
    PROVE  Cardinality(Unclaimed') = Cardinality(Unclaimed) - 1
<1>1. Unclaimed' = Unclaimed \ {d} /\ d \in Unclaimed
  BY DEF Unclaimed, Retirement!Deposits
<1>2. IsFiniteSet(Unclaimed)
  BY UnclaimedCount
<1> QED BY <1>1, <1>2, FS_RemoveElement

\* Nothing has been deposited and the first vault is in use.
LEMMA RetirementInit == ASSUME RetirementBounds, Retirement!Init PROVE RetirementOK
<1>1. RetirementTyped /\ OthersEmpty /\ IntentsOK /\ PinOK
  BY DEF RetirementBounds, Retirement!Init, Retirement!Free, Retirement!Deposits, Retirement!Vaults, RetirementTyped,
         Vault, Intent, OthersEmpty, Empty, IntentsOK, IntentOK, PinOK
<1>2. Unclaimed = {}
  BY DEF Retirement!Init, Unclaimed, Claimable
<1>3. VaultHolds
  BY <1>2, FS_EmptySet DEF RetirementBounds, Retirement!Init, Retirement!Vaults, VaultHolds
<1> QED BY <1>1, <1>3 DEF RetirementOK

\* A deposit is prepared, paid on chain and completed.
LEMMA RetirementPrepare ==
    ASSUME RetirementOK, RetirementBounds, NEW d \in Retirement!Deposits, Retirement!Prepare(d) PROVE RetirementOK'
<1> USE DEF RetirementOK, Retirement!Prepare, Retirement!Free
<1>1. \A e \in Retirement!Deposits :
          intents'[e] = IF e = d THEN [status |-> "PREPARED", vault |-> config, paid |-> FALSE] ELSE intents[e]
  BY DEF RetirementTyped
<1>2. RetirementTyped'
  BY DEF RetirementTyped, Intent
<1>3. OthersEmpty' /\ PinOK'
  BY DEF OthersEmpty, Empty, PinOK, Retirement!VaultRetirable
<1>4. IntentsOK'
  BY <1>1 DEF IntentsOK, IntentOK
<1>5. Unclaimed' = Unclaimed
  BY <1>1, UnclaimedSame DEF Claimable
<1>6. VaultHolds'
  BY <1>5 DEF VaultHolds
<1> QED BY <1>2, <1>3, <1>4, <1>6

\* A payment arrives in the vault the deposit was prepared for, which is the one in use.
LEMMA RetirementPay ==
    ASSUME RetirementOK, RetirementBounds, NEW d \in Retirement!Deposits, Retirement!Pay(d) PROVE RetirementOK'
<1> USE DEF RetirementOK
<1> DEFINE v == intents[d].vault
<1>1. /\ intents[d].status # "none" /\ ~intents[d].paid /\ ~vaults[v].paused
      /\ vaults' = [vaults EXCEPT ![v].cash = @ + 1] /\ intents' = [intents EXCEPT ![d].paid = TRUE]
      /\ UNCHANGED <<config, owed, job, retired>>
  BY DEF Retirement!Pay
<1>2. v \in Retirement!Vaults /\ vaults[v] \in Vault
  BY DEF RetirementTyped, Intent
<1>3. \A u \in Retirement!Vaults : /\ vaults'[u].paused = vaults[u].paused /\ vaults'[u].account = vaults[u].account
                                   /\ vaults'[u].cash = IF u = v THEN vaults[u].cash + 1 ELSE vaults[u].cash
  BY <1>1, <1>2 DEF RetirementTyped, Vault
<1>4. \A e \in Retirement!Deposits : /\ intents'[e].status = intents[e].status /\ intents'[e].vault = intents[e].vault
                                     /\ intents'[e].paid = (e = d \/ intents[e].paid)
  BY <1>1 DEF RetirementTyped, Intent
<1>5. RetirementTyped'
  <2>1. [vaults[v] EXCEPT !.cash = @ + 1] \in Vault
    BY <1>2 DEF Vault
  <2>2. vaults' = [vaults EXCEPT ![v] = [vaults[v] EXCEPT !.cash = @ + 1]]
    BY <1>1
  <2>3. vaults' \in [Retirement!Vaults -> Vault]
    BY ONLY <2>1, <2>2, RetirementTyped DEF RetirementTyped
  <2>4. intents' \in [Retirement!Deposits -> Intent]
    BY <1>1 DEF RetirementTyped, Intent
  <2> QED BY <1>1, <2>3, <2>4 DEF RetirementTyped
<1>6. intents[d].status = "PREPARED" /\ v = config
  BY <1>1, <1>2 DEF RetirementTyped, Intent, IntentsOK, IntentOK, OthersEmpty
<1>7. OthersEmpty'
  <2>1. \A u \in retired : u \in Retirement!Vaults
    BY DEF RetirementTyped
  <2>2. \A u \in Retirement!Vaults : u < config \/ u > config => u # v
    BY <1>6 DEF RetirementTyped, Retirement!Vaults
  <2> QED BY <1>1, <1>3, <2>1, <2>2 DEF OthersEmpty, Empty
<1>8. IntentsOK'
  BY <1>1, <1>4, <1>6 DEF IntentsOK, IntentOK
<1>9. Cardinality(Unclaimed') = Cardinality(Unclaimed) + 1
  <2>1. ~Claimable(d) /\ Claimable(d)' /\ \A e \in Retirement!Deposits \ {d} : Claimable(e)' <=> Claimable(e)
    BY <1>1, <1>4, <1>6 DEF Claimable, RetirementTyped, Intent
  <2> QED BY <2>1, UnclaimedMore
<1>10. VaultHolds'
  <2>1. owed.pending \in Nat /\ Cardinality(Unclaimed) \in Nat /\ config \in Retirement!Vaults /\ vaults[config] \in Vault
    BY UnclaimedCount DEF RetirementTyped
  <2> QED BY <1>1, <1>3, <1>6, <1>9, <2>1 DEF VaultHolds, Vault
<1>11. PinOK'
  <2>1. config \in Retirement!Vaults
    BY DEF RetirementTyped
  <2> QED BY <1>1, <1>3, <1>6, <2>1 DEF PinOK, Retirement!VaultRetirable
<1> QED BY <1>5, <1>7, <1>8, <1>10, <1>11

\* A paid deposit is completed: the book takes over what the vault already holds.
LEMMA RetirementConfirm ==
    ASSUME RetirementOK, RetirementBounds, NEW d \in Retirement!Deposits, Retirement!Confirm(d) PROVE RetirementOK'
<1> USE DEF RetirementOK, Retirement!Free
<1>1. /\ job = [kind |-> "none", seen |-> FALSE] /\ intents[d].status = "PREPARED" /\ intents[d].paid
      /\ intents' = [intents EXCEPT ![d].status = "CONFIRMED"] /\ owed' = [owed EXCEPT !.pending = @ + 1]
      /\ UNCHANGED <<vaults, config, job, retired>>
  BY DEF Retirement!Confirm
<1>2. \A e \in Retirement!Deposits : /\ intents'[e].status = IF e = d THEN "CONFIRMED" ELSE intents[e].status
                                     /\ intents'[e].vault = intents[e].vault /\ intents'[e].paid = intents[e].paid
  BY <1>1 DEF RetirementTyped, Intent
<1>3. owed'.pending = owed.pending + 1 /\ owed'.equity = owed.equity
  BY <1>1 DEF RetirementTyped
<1>4. RetirementTyped'
  BY <1>1 DEF RetirementTyped, Intent
<1>5. OthersEmpty' /\ PinOK'
  BY <1>1 DEF OthersEmpty, Empty, PinOK
<1>6. IntentsOK'
  BY <1>1, <1>2 DEF IntentsOK, IntentOK
<1>7. Cardinality(Unclaimed') = Cardinality(Unclaimed) - 1
  <2>1. Claimable(d) /\ ~Claimable(d)' /\ \A e \in Retirement!Deposits \ {d} : Claimable(e)' <=> Claimable(e)
    BY <1>1, <1>2 DEF Claimable
  <2> QED BY <2>1, UnclaimedLess
<1>8. VaultHolds'
  <2>1. owed.pending \in Nat /\ Cardinality(Unclaimed) \in Nat
    BY UnclaimedCount DEF RetirementTyped
  <2> QED BY <1>1, <1>3, <1>7, <2>1 DEF VaultHolds
<1> QED BY <1>4, <1>5, <1>6, <1>8

\* A vault with more or less cash, or more or less in its account.
LEMMA CashSet ==
    ASSUME NEW f \in [Retirement!Vaults -> Vault], NEW v \in Retirement!Vaults, NEW n \in Int
    PROVE  LET g == [f EXCEPT ![v].cash = n]
           IN  /\ g \in [Retirement!Vaults -> Vault] /\ \A u \in Retirement!Vaults \ {v} : g[u] = f[u]
               /\ g[v].paused = f[v].paused /\ g[v].cash = n /\ g[v].account = f[v].account
<1>1. f[v] \in Vault
  OBVIOUS
<1>2. [f[v] EXCEPT !.cash = n] \in Vault
  BY <1>1 DEF Vault
<1> QED BY <1>1, <1>2 DEF Vault

\* The same for what is in the trading account.
LEMMA AccountSet ==
    ASSUME NEW f \in [Retirement!Vaults -> Vault], NEW v \in Retirement!Vaults, NEW n \in Nat
    PROVE  LET g == [f EXCEPT ![v].account = n]
           IN  /\ g \in [Retirement!Vaults -> Vault] /\ \A u \in Retirement!Vaults \ {v} : g[u] = f[u]
               /\ g[v].paused = f[v].paused /\ g[v].cash = f[v].cash /\ g[v].account = n
<1>1. f[v] \in Vault
  OBVIOUS
<1>2. [f[v] EXCEPT !.account = n] \in Vault
  BY <1>1 DEF Vault
<1> QED BY <1>1, <1>2 DEF Vault

\* What the operator does moves the same amount in the vault in use and in its books, and
\* nothing while the change of an empty vault holds the queue.
Moves(cash, gain) ==
    /\ vaults' \in [Retirement!Vaults -> Vault] /\ \A u \in Retirement!Vaults \ {config} : vaults'[u] = vaults[u]
    /\ vaults'[config].paused = vaults[config].paused /\ vaults'[config].cash = vaults[config].cash + cash
    /\ vaults'[config].account = vaults[config].account + gain
    /\ owed' \in [pending : Nat, equity : Int]
    /\ owed'.pending = owed.pending + cash /\ owed'.equity = owed.equity + gain
    /\ job.kind = "pin" => ~job.seen
    /\ UNCHANGED <<config, intents, job, retired>>

\* Such a move keeps the invariant.
LEMMA RetirementMoves ==
    ASSUME RetirementOK, RetirementBounds, NEW cash \in Int, NEW gain \in Int, Moves(cash, gain)
    PROVE  RetirementOK'
<1> USE DEF RetirementOK, Moves
<1>1. config \in Retirement!Vaults /\ vaults[config] \in Vault /\ owed.pending \in Nat /\ owed.equity \in Int
  BY DEF RetirementTyped
<1>2. RetirementTyped'
  BY DEF RetirementTyped
<1>3. OthersEmpty'
  <2>1. \A u \in retired : u \in Retirement!Vaults
    BY DEF RetirementTyped
  <2>2. \A u \in Retirement!Vaults : u < config \/ u > config => u # config
    BY <1>1 DEF Retirement!Vaults
  <2> QED BY <1>1, <2>1, <2>2 DEF OthersEmpty, Empty
<1>4. IntentsOK' /\ PinOK'
  BY DEF IntentsOK, IntentOK, PinOK
<1>5. Unclaimed' = Unclaimed
  BY UnclaimedSame DEF Claimable
<1>6. VaultHolds'
  <2>1. Cardinality(Unclaimed) \in Nat
    BY UnclaimedCount
  <2> QED BY <1>1, <1>5, <2>1 DEF VaultHolds, Vault
<1> QED BY <1>2, <1>3, <1>4, <1>6

\* The operator funds its account, redeems units and returns to the vault.
LEMMA RetirementOperator ==
    ASSUME RetirementOK, RetirementBounds,
           Retirement!Fund \/ Retirement!Redeem \/ Retirement!Return
    PROVE  RetirementOK'
<1> DEFINE k == vaults[config]
<1>1. /\ config \in Retirement!Vaults /\ k \in Vault /\ owed \in [pending : Nat, equity : Int]
      /\ vaults \in [Retirement!Vaults -> Vault]
  BY DEF RetirementOK, RetirementTyped
<1>2. k.cash \in Int /\ k.account \in Nat /\ k.cash - 1 \in Int /\ k.account + 1 \in Nat
  BY <1>1 DEF Vault
<1>3. job.kind = "pin" => ~job.seen
  BY DEF Retirement!Fund, Retirement!Redeem, Retirement!Return, Retirement!Free
<1>4. UNCHANGED <<config, intents, job, retired>>
  BY DEF Retirement!Fund, Retirement!Redeem, Retirement!Return
<1> HIDE DEF k
<1>5. CASE Retirement!Fund
  <2> DEFINE mid == [vaults EXCEPT ![config].cash = k.cash - 1]
  <2>1. /\ mid \in [Retirement!Vaults -> Vault] /\ \A u \in Retirement!Vaults \ {config} : mid[u] = vaults[u]
        /\ mid[config].paused = vaults[config].paused /\ mid[config].cash = k.cash - 1
        /\ mid[config].account = vaults[config].account
    BY <1>1, <1>2, CashSet
  <2>2. vaults' = [mid EXCEPT ![config].account = k.account + 1]
    BY <1>1, <1>5 DEF Retirement!Fund, k
  <2> HIDE DEF mid
  <2> DEFINE new == [mid EXCEPT ![config].account = k.account + 1]
  <2>3. /\ new \in [Retirement!Vaults -> Vault] /\ \A u \in Retirement!Vaults \ {config} : new[u] = mid[u]
        /\ new[config].paused = mid[config].paused /\ new[config].cash = mid[config].cash
        /\ new[config].account = k.account + 1
    BY <1>1, <1>2, <2>1, AccountSet
  <2>4. owed' = [pending |-> owed.pending - 1, equity |-> owed.equity + 1] /\ owed.pending > 0
    BY <1>5 DEF Retirement!Fund
  <2>5. Moves(-1, 1)
    BY <1>1, <1>2, <1>3, <1>4, <2>1, <2>2, <2>3, <2>4 DEF Moves, k
  <2> QED BY <2>5, RetirementMoves
<1>6. CASE Retirement!Redeem
  <2> DEFINE new == [vaults EXCEPT ![config].account = k.account - 1]
  <2>1. k.account - 1 \in Nat /\ vaults' = new /\ owed' = [owed EXCEPT !.equity = @ - 1]
    BY <1>1, <1>2, <1>6 DEF Retirement!Redeem, k
  <2>2. /\ new \in [Retirement!Vaults -> Vault] /\ \A u \in Retirement!Vaults \ {config} : new[u] = vaults[u]
        /\ new[config].paused = vaults[config].paused /\ new[config].cash = vaults[config].cash
        /\ new[config].account = k.account - 1
    BY <1>1, <2>1, AccountSet
  <2> HIDE DEF new
  <2>3. Moves(0, -1)
    BY <1>1, <1>2, <1>3, <1>4, <2>1, <2>2 DEF Moves, k
  <2> QED BY <2>3, RetirementMoves
<1>7. CASE Retirement!Return
  <2> DEFINE new == [vaults EXCEPT ![config].cash = k.cash - 1]
  <2>1. vaults' = new /\ owed' = [owed EXCEPT !.pending = @ - 1] /\ owed.pending > 0
    BY <1>1, <1>2, <1>7 DEF Retirement!Return, k
  <2>2. /\ new \in [Retirement!Vaults -> Vault] /\ \A u \in Retirement!Vaults \ {config} : new[u] = vaults[u]
        /\ new[config].paused = vaults[config].paused /\ new[config].cash = k.cash - 1
        /\ new[config].account = vaults[config].account
    BY <1>1, <1>2, CashSet
  <2> HIDE DEF new
  <2>3. Moves(-1, 0)
    BY <1>1, <1>2, <1>3, <1>4, <2>1, <2>2 DEF Moves, k
  <2> QED BY <2>3, RetirementMoves
<1> QED BY <1>5, <1>6, <1>7

\* What a trade wins or loses is in the account and in the books at once.
LEMMA RetirementTrade ==
    ASSUME RetirementOK, RetirementBounds, NEW gain \in Gains, Retirement!Trade(gain) PROVE RetirementOK'
<1> DEFINE k == vaults[config]
<1>1. /\ config \in Retirement!Vaults /\ k \in Vault /\ owed \in [pending : Nat, equity : Int]
      /\ vaults \in [Retirement!Vaults -> Vault] /\ gain \in Int /\ DepositLimit \in Nat
  BY DEF RetirementOK, RetirementTyped, RetirementBounds
<1>2. /\ k.cash \in Int /\ k.account \in Nat /\ k.account > 0 /\ k.account + gain \in Nat
      /\ vaults' = [vaults EXCEPT ![config].account = k.account + gain]
      /\ owed' = [owed EXCEPT !.equity = @ + gain] /\ UNCHANGED <<config, intents, job, retired>>
  BY <1>1 DEF Retirement!Trade, Vault
<1>3. job.kind = "pin" => ~job.seen
  <2>1. PinOK
    BY DEF RetirementOK
  <2>2. k.account # 0
    BY <1>2
  <2> QED BY <2>1, <2>2 DEF PinOK, Retirement!VaultRetirable
<1> HIDE DEF k
<1> DEFINE new == [vaults EXCEPT ![config].account = k.account + gain]
<1>4. /\ new \in [Retirement!Vaults -> Vault] /\ \A u \in Retirement!Vaults \ {config} : new[u] = vaults[u]
      /\ new[config].paused = vaults[config].paused /\ new[config].cash = vaults[config].cash
      /\ new[config].account = k.account + gain
  BY <1>1, <1>2, AccountSet
<1>5. vaults' = new
  BY <1>2
<1> HIDE DEF new
<1>6. Moves(0, gain)
  BY <1>1, <1>2, <1>3, <1>4, <1>5 DEF Moves, k
<1> QED BY <1>1, <1>6, RetirementMoves

\* The pause and the change of the vault.
LEMMA RetirementPause ==
    ASSUME RetirementOK, RetirementBounds, Retirement!BeginPause \/ Retirement!EndPause PROVE RetirementOK'
<1> USE DEF RetirementOK, Retirement!Free
<1>1. UNCHANGED <<config, intents, owed, retired>> /\ config \in Retirement!Vaults
  BY DEF Retirement!BeginPause, Retirement!EndPause, RetirementTyped
<1>2. /\ job' \in [kind : {"none", "pause"}, seen : BOOLEAN]
      /\ vaults' = vaults \/ vaults' = [vaults EXCEPT ![config] = [@ EXCEPT !.paused = TRUE]]
  <2>1. CASE Retirement!BeginPause
    BY <2>1 DEF Retirement!BeginPause
  <2>2. CASE Retirement!EndPause
    BY <2>2 DEF Retirement!EndPause
  <2> QED BY <2>1, <2>2
<1>3. \A u \in Retirement!Vaults : /\ vaults'[u].cash = vaults[u].cash /\ vaults'[u].account = vaults[u].account
                                   /\ vaults[u].paused => vaults'[u].paused
  BY <1>1, <1>2 DEF RetirementTyped, Vault
<1>4. RetirementTyped'
  <2>1. vaults' \in [Retirement!Vaults -> Vault]
    <3>1. [vaults[config] EXCEPT !.paused = TRUE] \in Vault /\ vaults \in [Retirement!Vaults -> Vault]
      BY <1>1 DEF RetirementTyped, Vault
    <3> QED BY ONLY <1>1, <1>2, <3>1
  <2> QED BY <1>1, <1>2, <2>1 DEF RetirementTyped
<1>5. OthersEmpty' /\ IntentsOK'
  <2>1. \A u \in retired : u \in Retirement!Vaults
    BY DEF RetirementTyped
  <2> QED BY <1>1, <1>3, <2>1 DEF OthersEmpty, Empty, IntentsOK, IntentOK
<1>6. Unclaimed' = Unclaimed
  BY <1>1, UnclaimedSame DEF Claimable
<1>7. VaultHolds' /\ PinOK'
  BY <1>1, <1>2, <1>3, <1>6 DEF VaultHolds, PinOK
<1> QED BY <1>4, <1>5, <1>7

\* pin() looks at the old vault, and decides from what it sees.
LEMMA RetirementBegins ==
    ASSUME RetirementOK, RetirementBounds, Retirement!BeginPin PROVE RetirementOK'
<1> USE DEF RetirementOK, Retirement!BeginPin
<1>1. RetirementTyped'
  BY DEF RetirementTyped, Retirement!VaultRetirable, Vault
<1>2. OthersEmpty' /\ IntentsOK' /\ PinOK'
  BY DEF OthersEmpty, Empty, IntentsOK, IntentOK, PinOK, Retirement!VaultRetirable
<1>3. Unclaimed' = Unclaimed
  BY UnclaimedSame DEF Claimable
<1>4. VaultHolds'
  BY <1>3 DEF VaultHolds
<1> QED BY <1>1, <1>2, <1>4

\* Whoever prepared a deposit to the old vault and did not pay it cannot any more, and
\* nobody has paid.
LEMMA RetirementEnds ==
    ASSUME RetirementOK, RetirementBounds, Retirement!EndPin, job.seen PROVE RetirementOK'
<1> USE DEF RetirementOK
<1>1. /\ job.kind = "pin" /\ job' = [kind |-> "none", seen |-> FALSE] /\ UNCHANGED <<vaults, owed>>
      /\ intents' = [d \in Retirement!Deposits |-> IF intents[d].status = "PREPARED"
                                              THEN [intents[d] EXCEPT !.status = "RETIRED"] ELSE intents[d]]
      /\ retired' = retired \cup {config} /\ config' = config + 1
  BY DEF Retirement!EndPin, Retirement!Free
<1>2. /\ config < VaultLimit /\ vaults[config].paused /\ Empty(config)
  BY <1>1 DEF PinOK, Retirement!VaultRetirable, Empty
<1>3. config \in Retirement!Vaults /\ config + 1 \in Retirement!Vaults /\ Empty(config + 1)
  BY <1>2 DEF RetirementTyped, RetirementBounds, Retirement!Vaults, OthersEmpty
<1>4. owed.pending = 0 /\ Unclaimed = {}
  <2>1. owed.pending \in Nat /\ Cardinality(Unclaimed) \in Nat /\ (Cardinality(Unclaimed) = 0 <=> Unclaimed = {})
    BY UnclaimedCount DEF RetirementTyped
  <2>2. owed.pending + Cardinality(Unclaimed) = 0
    BY <1>2 DEF VaultHolds, Empty
  <2> QED BY <2>1, <2>2
<1>5. \A d \in Retirement!Deposits : /\ intents'[d].vault = intents[d].vault /\ intents'[d].paid = intents[d].paid
                                     /\ intents'[d].status = IF intents[d].status = "PREPARED" THEN "RETIRED"
                                                             ELSE intents[d].status
  BY <1>1 DEF RetirementTyped, Intent
<1>6. RetirementTyped'
  BY <1>1, <1>3 DEF RetirementTyped, Intent
<1>7. OthersEmpty'
  BY <1>1, <1>2, <1>3 DEF OthersEmpty, Empty, RetirementTyped, Retirement!Vaults
<1>8. IntentsOK'
  BY <1>1, <1>4, <1>5 DEF IntentsOK, IntentOK, Unclaimed, Claimable
<1>9. Unclaimed' = {}
  BY <1>5 DEF Unclaimed, Claimable, Retirement!Deposits
<1>10. VaultHolds'
  BY <1>1, <1>2, <1>3, <1>4, <1>9, FS_EmptySet DEF VaultHolds, Empty
<1>11. PinOK'
  BY <1>1 DEF PinOK
<1> QED BY <1>6, <1>7, <1>8, <1>10, <1>11

\* A vault that was not empty stays in use.
LEMMA RetirementRefuses ==
    ASSUME RetirementOK, RetirementBounds, Retirement!EndPin, ~job.seen PROVE RetirementOK'
<1> USE DEF RetirementOK
<1>1. job' = [kind |-> "none", seen |-> FALSE] /\ UNCHANGED <<vaults, config, intents, owed, retired>>
  BY DEF Retirement!EndPin, Retirement!Free
<1>2. RetirementTyped' /\ OthersEmpty' /\ IntentsOK' /\ PinOK'
  BY <1>1 DEF RetirementTyped, OthersEmpty, Empty, IntentsOK, IntentOK, PinOK
<1>3. Unclaimed' = Unclaimed
  BY <1>1, UnclaimedSame DEF Claimable
<1> QED BY <1>1, <1>2, <1>3 DEF VaultHolds

\* Every step keeps the invariant.
LEMMA RetirementStep ==
    ASSUME RetirementOK, RetirementBounds, [Retirement!Next]_Retirement!vars PROVE RetirementOK'
<1>1. CASE UNCHANGED Retirement!vars
  <2>1. Unclaimed' = Unclaimed
    BY <1>1, UnclaimedSame DEF Claimable, Retirement!vars
  <2> QED BY <1>1, <2>1 DEF Retirement!vars, RetirementOK, RetirementTyped, OthersEmpty, Empty, IntentsOK, IntentOK,
                            VaultHolds, PinOK, Retirement!VaultRetirable
<1>2. CASE Retirement!Next
  BY <1>2, RetirementPrepare, RetirementPay, RetirementConfirm, RetirementOperator, RetirementTrade, RetirementPause,
     RetirementBegins, RetirementEnds, RetirementRefuses DEF Retirement!Next
<1> QED BY <1>1, <1>2

\* A retired deposit was not paid and never will be, nothing is left in a vault that was
\* replaced, and what the vault in use holds is what the books owe and the paid deposits
\* nobody has completed (vault-retirement.js and investments.mjs, pin), for any number of
\* vaults and deposits, paid and confirmed at any time.
THEOREM NothingIsLeftInTheVault ==
    ASSUME RetirementBounds
    PROVE  Retirement!Init /\ [][Retirement!Next]_Retirement!vars
               => [](Retirement!NothingIsLeftBehind /\ Retirement!VaultIsExplained)
<1>1. Retirement!Init => RetirementOK
  BY RetirementInit
<1>2. RetirementOK /\ [Retirement!Next]_Retirement!vars => RetirementOK'
  BY RetirementStep
<1>3. RetirementOK => Retirement!NothingIsLeftBehind /\ Retirement!VaultIsExplained
  <2> SUFFICES ASSUME RetirementOK PROVE Retirement!NothingIsLeftBehind /\ Retirement!VaultIsExplained
    OBVIOUS
  <2>1. Retirement!NothingIsLeftBehind
    BY DEF RetirementOK, OthersEmpty, Empty, IntentsOK, IntentOK, Retirement!NothingIsLeftBehind
  <2>2. /\ vaults[config].account = owed.equity /\ vaults[config].cash = owed.pending + Cardinality(Unclaimed)
        /\ owed.pending \in Nat /\ owed.equity \in Int /\ Cardinality(Unclaimed) \in Nat
    BY UnclaimedCount DEF RetirementOK, VaultHolds, RetirementTyped
  <2>3. vaults[config].cash + vaults[config].account = owed.pending + owed.equity + Cardinality(Unclaimed)
    BY <2>2
  <2>4. vaults[config].cash + vaults[config].account = owed.pending + owed.equity + Retirement!Cardinality(Unclaimed)
    BY ONLY <2>3, SameCount
  <2>5. Retirement!VaultIsExplained
    BY ONLY <2>4 DEF Retirement!VaultIsExplained, Unclaimed, Claimable
  <2> QED BY <2>1, <2>5
<1> QED BY <1>1, <1>2, <1>3, PTL

-------------------------------------------------------------------------------
(* Changing the terms of a strategy. *)

PolicyTerms == Policies \subseteq [period : Nat \ {0}, cutoff : Nat] /\ First \in Policies

Announced == [version : Nat, policy : Policies, after : Int]
DatabaseTyped ==
    /\ database = [version |-> database.version, policy |-> database.policy, pending |-> database.pending]
    /\ database.version \in Nat \ {0} /\ database.policy \in Policies
    /\ database.pending # Policy!None =>
          (database.pending \in Announced /\ database.pending.version = database.version + 1)

\* Every version but the first was announced, and the pending one is effective a whole
\* settlement after that.
IsAnnounced(version) == \E h \in history : h.version = version
HistoryOK ==
    /\ now \in Nat /\ history \subseteq [version : Nat, announcedAt : Nat, after : Int]
    /\ \A h \in history : /\ h.announcedAt <= now
                          /\ \/ h.version <= database.version
                             \/ database.pending # Policy!None /\ h.version = database.version + 1
    /\ \A v \in Nat : 2 <= v /\ v <= database.version => IsAnnounced(v)
    /\ database.pending # Policy!None =>
          \E h \in history : /\ h.version = database.version + 1 /\ h.after = database.pending.after
                             /\ database.pending.after = Policy!NextSettlement(database.policy, h.announcedAt) + 1

\* What was read from the database is still there, or old.
DraftOK ==
    draft # Policy!None =>
        /\ draft.version \in Nat \ {0} /\ draft.version <= database.version
        /\ (draft.version = database.version => draft.policy = database.policy)
CatalogOK ==
    catalog # Policy!None =>
        /\ catalog \in Announced /\ catalog.version >= 2
        /\ (catalog = database.pending \/ catalog.version <= database.version)

\* The operator's book has the public terms, or the pending ones.
HasBook == book # Policy!NoBook
BookOK ==
    /\ HasBook =>
          /\ book = [version |-> book.version, policy |-> book.policy, settling |-> book.settling]
          /\ book.version \in Nat \ {0} /\ book.policy \in Policies /\ book.settling \subseteq Redeemers
    /\ Policy!PublicTermsFollowBook
    /\ \A m \in metrics : HasBook /\ m.version \in Nat /\ m.version <= book.version

\* A redemption that is open was asked for under the terms of the book, or its terms'
\* successor had been announced; and it is due later than the versions that came since.
Asked == [status : {"requested", "settling", "paid"}, at : Int, asked : Nat, terms : Nat \ {0}, cutoff : Int, settled : Nat]
Overtaken(w, last) == \A version \in w.terms + 1..last : Policy!TookEffect(w, version)
RedemptionOK(i) ==
    LET w == withdrawals[i] IN
    /\ w # Policy!NoWithdrawal =>
          /\ w \in Asked /\ HasBook /\ w.asked <= now /\ w.terms <= book.version
          /\ (w.status # "paid" /\ w.terms = book.version) => w.at = Policy!NextSettlement(book.policy, w.asked)
          /\ (w.status # "paid" /\ w.terms < book.version) => Policy!Foretold(w)
          /\ (w.status = "paid" /\ w.settled > w.terms) => Policy!Foretold(w)
          /\ w.status # "paid" => Overtaken(w, book.version)
          /\ w.status = "paid" => Overtaken(w, w.settled)
    /\ (HasBook /\ i \in book.settling) => w.status = "settling"
RedemptionsOK ==
    /\ withdrawals = [i \in Redeemers |-> withdrawals[i]]
    /\ \A i \in Redeemers : RedemptionOK(i)

PolicyOK == DatabaseTyped /\ HistoryOK /\ DraftOK /\ CatalogOK /\ BookOK /\ RedemptionsOK

\* The next settlement is a time, and a request made later belongs to no earlier one
\* (NextSettlement of PolicyChanges).
LEMMA SettlementIsLater ==
    ASSUME NEW p \in [period : Nat \ {0}, cutoff : Nat], NEW s \in Nat, NEW t \in Nat, s <= t
    PROVE  /\ Policy!NextSettlement(p, s) \in Int /\ Policy!NextSettlement(p, t) \in Int
           /\ Policy!NextSettlement(p, s) <= Policy!NextSettlement(p, t)
<1> DEFINE P == p.period
           a == s \div P
           b == t \div P
<1>1. P \in Nat \ {0} /\ p.cutoff \in Nat
    OBVIOUS
<1>2. a \in Nat /\ b \in Nat /\ a <= b
    BY <1>1
<1> HIDE DEF a, b
<1>3. (a + 1) * P \in Int /\ (b + 1) * P \in Int
    BY <1>1, <1>2
<1>4. a = b \/ (a + 1) * P + P <= (b + 1) * P
    <2>1. CASE a < b
        <3>1. PICK d \in Nat : b = a + 1 + d
            <4>1. b - a - 1 \in Nat /\ b = a + 1 + (b - a - 1)
                BY <1>2, <2>1
            <4> QED
                BY <4>1
        <3>2. (b + 1) * P = (a + 1) * P + P + d * P /\ d * P >= 0 /\ d * P \in Int
            BY <1>1, <1>2, <3>1
        <3> QED
            BY <1>1, <1>3, <3>2
    <2> QED
        BY <1>2, <2>1
<1>5. /\ Policy!NextSettlement(p, s) = IF s >= (a + 1) * P - p.cutoff THEN (a + 1) * P + P ELSE (a + 1) * P
      /\ Policy!NextSettlement(p, t) = IF t >= (b + 1) * P - p.cutoff THEN (b + 1) * P + P ELSE (b + 1) * P
    BY DEF Policy!NextSettlement, a, b
<1> DEFINE A == (a + 1) * P
           B == (b + 1) * P
<1>6. A \in Int /\ B \in Int /\ (A = B \/ A + P <= B)
    BY <1>3, <1>4
<1> HIDE DEF A, B, P
<1>7. /\ Policy!NextSettlement(p, s) = IF s >= A - p.cutoff THEN A + P ELSE A
      /\ Policy!NextSettlement(p, t) = IF t >= B - p.cutoff THEN B + P ELSE B
    BY <1>5 DEF A, B
<1> QED
    BY <1>1, <1>6, <1>7

\* The first policy is public and there is no book.
LEMMA PolicyStarts ==
    ASSUME PolicyTerms, Policy!Init
    PROVE  PolicyOK
BY DEF PolicyTerms, Policy!Init, PolicyOK, DatabaseTyped, HistoryOK, DraftOK, CatalogOK, BookOK, RedemptionsOK,
       RedemptionOK, HasBook, Policy!PublicTermsFollowBook, Policy!None, Policy!NoBook, Policy!NoWithdrawal

\* What a step of the protocol may change.
LEMMA PolicySteps ==
    ASSUME [Policy!Next]_(Policy!vars)
    PROVE  \/ Policy!Read \/ Policy!NewBook \/ Policy!Fetch \/ Policy!Settle \/ Policy!Pay \/ Policy!Apply
           \/ Policy!Publish \/ Policy!Tick
           \/ \E p \in Policies : Policy!Propose(p)
           \/ \E m \in metrics : Policy!Deliver(m)
           \/ \E i \in Redeemers : Policy!Request(i) \/ Policy!Cancel(i)
           \/ UNCHANGED <<now, database, history, draft, book, catalog, withdrawals, metrics>>
BY DEF Policy!Next, Policy!vars

\* A new announcement is of the version after the public one, under the terms that are
\* public while it is made (proposePolicy of src/platform/service.js).
LEMMA AnnouncesTheNext ==
    ASSUME PolicyOK, draft # Policy!None, database.pending = Policy!None,
           ~ \E h \in history : h.version = draft.version + 1
    PROVE  draft.version = database.version /\ draft.policy = database.policy
<1>1. draft.version \in Nat \ {0} /\ draft.version <= database.version /\ database.version \in Nat
    BY DEF PolicyOK, DraftOK, DatabaseTyped
<1>2. CASE draft.version < database.version
    <2>1. draft.version + 1 \in Nat /\ 2 <= draft.version + 1 /\ draft.version + 1 <= database.version
        BY <1>1, <1>2
    <2>2. IsAnnounced(draft.version + 1)
        BY <2>1 DEF PolicyOK, HistoryOK
    <2> QED
        BY <2>2 DEF IsAnnounced
<1>3. draft.version = database.version
    BY <1>1, <1>2
<1> QED
    BY <1>3 DEF PolicyOK, DraftOK

\* What is taken over is what the operator's book already has (publishMetrics).
LEMMA TakesOverTheBook ==
    ASSUME PolicyOK, NEW m \in metrics, Policy!Activates(m)
    PROVE  /\ HasBook /\ database.pending # Policy!None
           /\ database.version = book.version - 1
           /\ database.pending.version = book.version /\ database.pending.policy = book.policy
<1>1. database.pending # Policy!None /\ database.pending.version = m.version
    BY DEF Policy!Activates
<1>2. HasBook /\ m.version \in Nat /\ m.version <= book.version
    BY DEF PolicyOK, BookOK
<1>3. database.version \in Nat /\ database.pending.version = database.version + 1 /\ book.version \in Nat
    BY <1>1, <1>2 DEF PolicyOK, DatabaseTyped, BookOK
<1>4. \/ database.version = book.version
      \/ /\ database.version = book.version - 1
         /\ database.pending.version = book.version /\ database.pending.policy = book.policy
    BY <1>2 DEF PolicyOK, BookOK, Policy!PublicTermsFollowBook, HasBook
<1> QED
    BY <1>1, <1>2, <1>3, <1>4

\* The operator changes to the terms that are announced, from the ones that are public
\* (the end of tick() in deploy/tee/operator/execution.mjs).
LEMMA AppliesTheAnnounced ==
    ASSUME PolicyOK, HasBook, catalog # Policy!None, catalog.version > book.version
    PROVE  /\ catalog = database.pending /\ catalog \in Announced /\ catalog.version = book.version + 1
           /\ database.version = book.version /\ database.policy = book.policy
<1>1. catalog \in Announced /\ (catalog = database.pending \/ catalog.version <= database.version)
    BY DEF PolicyOK, CatalogOK
<1>2. database.version \in Nat /\ book.version \in Nat /\ catalog.version \in Nat
    BY <1>1 DEF PolicyOK, DatabaseTyped, BookOK, Announced
<1>3. \/ database.version = book.version /\ database.policy = book.policy
      \/ database.version = book.version - 1 /\ database.pending.version = book.version
    BY DEF PolicyOK, BookOK, Policy!PublicTermsFollowBook, HasBook
<1>4. catalog = database.pending
    BY <1>1, <1>2, <1>3
<1>5. catalog.version = database.version + 1
    BY <1>4 DEF PolicyOK, DatabaseTyped
<1> QED
    BY <1>1, <1>2, <1>3, <1>4, <1>5

\* What the database has announced is the successor of what is public: each step keeps it.
LEMMA DatabaseKept ==
    ASSUME PolicyTerms, PolicyOK, [Policy!Next]_(Policy!vars)
    PROVE  DatabaseTyped'
<1> USE DEF PolicyTerms, DatabaseTyped
<1>0. DatabaseTyped
    BY DEF PolicyOK
<1>1. ASSUME NEW p \in Policies, Policy!Propose(p)
      PROVE  DatabaseTyped'
    <2>1. CASE UNCHANGED database
        BY <1>0, <2>1
    <2>2. CASE /\ database.pending = Policy!None /\ ~ \E h \in history : h.version = draft.version + 1
               /\ database' = [database EXCEPT !.pending =
                      [version |-> draft.version + 1, policy |-> p, after |-> Policy!EffectiveAfter(draft.policy)]]
        <3>1. draft.version = database.version /\ draft.policy = database.policy
            BY <1>1, <2>2, AnnouncesTheNext DEF Policy!Propose
        <3>2. now \in Nat /\ database.policy \in [period : Nat \ {0}, cutoff : Nat]
            BY DEF PolicyOK, HistoryOK
        <3>3. Policy!EffectiveAfter(draft.policy) \in Int
            BY <3>1, <3>2, SettlementIsLater DEF Policy!EffectiveAfter
        <3> QED
            BY <1>0, <2>2, <3>1, <3>3 DEF Announced
    <2> QED
        BY <1>1, <2>1, <2>2 DEF Policy!Propose
<1>2. ASSUME NEW m \in metrics, Policy!Deliver(m)
      PROVE  DatabaseTyped'
    BY <1>0, <1>2 DEF Policy!Deliver, Policy!Activates, Announced
<1>3. CASE UNCHANGED database
    BY <1>0, <1>3
<1> QED
    BY <1>1, <1>2, <1>3, PolicySteps DEF Policy!Read, Policy!NewBook, Policy!Fetch, Policy!Settle, Policy!Pay,
       Policy!Apply, Policy!Publish, Policy!Tick, Policy!Request, Policy!Cancel

\* Each version is announced once, and takes effect after a settlement that was to come:
\* each step keeps it.
LEMMA HistoryKept ==
    ASSUME PolicyTerms, PolicyOK, [Policy!Next]_(Policy!vars)
    PROVE  HistoryOK'
<1>0. HistoryOK /\ database.version \in Nat
    BY DEF PolicyOK, DatabaseTyped
<1>1. ASSUME NEW p \in Policies, Policy!Propose(p)
      PROVE  HistoryOK'
    <2>1. CASE UNCHANGED <<now, database, history>>
        BY <1>0, <2>1 DEF HistoryOK, IsAnnounced
    <2>2. CASE /\ database.pending = Policy!None /\ ~ \E h \in history : h.version = draft.version + 1
               /\ UNCHANGED now
               /\ database' = [database EXCEPT !.pending =
                      [version |-> draft.version + 1, policy |-> p, after |-> Policy!EffectiveAfter(draft.policy)]]
               /\ history' = history \cup {[version |-> draft.version + 1, announcedAt |-> now,
                                            after |-> Policy!EffectiveAfter(draft.policy)]}
        <3>1. draft.version = database.version /\ draft.policy = database.policy
            BY <1>1, <2>2, AnnouncesTheNext DEF Policy!Propose
        <3> DEFINE new == [version |-> database.version + 1, announcedAt |-> now,
                           after |-> Policy!NextSettlement(database.policy, now) + 1]
        <3>2. /\ database'.version = database.version /\ database'.policy = database.policy
              /\ database'.pending.version = database.version + 1
              /\ database'.pending.after = Policy!NextSettlement(database.policy, now) + 1
              /\ database'.pending # Policy!None
            BY <1>0, <2>2, <3>1 DEF PolicyOK, DatabaseTyped, Policy!EffectiveAfter, Policy!None
        <3>3. history' = history \cup {new} /\ now' = now /\ new.version = database.version + 1 /\ new.announcedAt = now
              /\ new.after = Policy!NextSettlement(database.policy, now) + 1
              /\ new \in [version : Nat, announcedAt : Nat, after : Int]
            <4>1. now \in Nat /\ database.policy \in [period : Nat \ {0}, cutoff : Nat]
                BY <1>0 DEF HistoryOK, PolicyOK, DatabaseTyped, PolicyTerms
            <4>2. Policy!NextSettlement(database.policy, now) \in Int
                BY <4>1, SettlementIsLater
            <4> QED
                BY <1>0, <2>2, <3>1, <4>1, <4>2 DEF Policy!EffectiveAfter
        <3> HIDE DEF new
        <3>4. /\ now' \in Nat /\ history' \subseteq [version : Nat, announcedAt : Nat, after : Int]
              /\ \A h \in history' : /\ h.announcedAt <= now'
                                     /\ \/ h.version <= database'.version
                                        \/ database'.pending # Policy!None /\ h.version = database'.version + 1
            BY <1>0, <2>2, <3>2, <3>3 DEF HistoryOK
        <3>5. \A v \in Nat : 2 <= v /\ v <= database'.version => IsAnnounced(v)'
            BY <1>0, <3>2, <3>3 DEF HistoryOK, IsAnnounced
        <3>6. \E h \in history' : /\ h.version = database'.version + 1 /\ h.after = database'.pending.after
                                  /\ database'.pending.after = Policy!NextSettlement(database'.policy, h.announcedAt) + 1
            BY <3>2, <3>3
        <3> QED
            BY <3>4, <3>5, <3>6 DEF HistoryOK, Policy!None, Policy!NextSettlement
    <2> QED
        BY <1>1, <2>1, <2>2 DEF Policy!Propose
<1>2. ASSUME NEW m \in metrics, Policy!Deliver(m)
      PROVE  HistoryOK'
    <2>1. /\ UNCHANGED <<now, history>> /\ database'.version = database.pending.version /\ database'.pending = Policy!None
          /\ database.pending # Policy!None
        BY <1>2 DEF Policy!Deliver, Policy!Activates
    <2>2. database.pending.version = database.version + 1
        BY <2>1 DEF PolicyOK, DatabaseTyped
    <2>3. IsAnnounced(database.version + 1)
        BY <1>0, <2>1 DEF HistoryOK, IsAnnounced
    <2>4. \A v \in Nat : 2 <= v /\ v <= database'.version => IsAnnounced(v)'
        <3> SUFFICES ASSUME NEW v \in Nat, 2 <= v, v <= database.version + 1
                     PROVE  IsAnnounced(v)
            BY <2>1, <2>2 DEF IsAnnounced
        <3>1. v <= database.version \/ v = database.version + 1
            BY <1>0
        <3> QED
            BY <1>0, <2>3, <3>1 DEF HistoryOK
    <2>5. \A h \in history : h.version \in Nat
        BY <1>0 DEF HistoryOK
    <2>6. \A h \in history' : /\ h.announcedAt <= now'
                              /\ h.version <= database'.version
        BY <1>0, <2>1, <2>2, <2>5 DEF HistoryOK
    <2> QED
        BY <1>0, <2>1, <2>4, <2>6 DEF HistoryOK, Policy!None
<1>3. CASE UNCHANGED <<database, history>> /\ now' \in {now, now + 1}
    <2>1. now' \in Nat /\ \A h \in history : h.announcedAt \in Nat /\ h.announcedAt <= now'
        BY <1>0, <1>3 DEF HistoryOK
    <2> QED
        BY <1>0, <1>3, <2>1 DEF HistoryOK, IsAnnounced, Policy!NextSettlement
<1> QED
    BY <1>1, <1>2, <1>3, PolicySteps DEF Policy!Read, Policy!NewBook, Policy!Fetch, Policy!Settle, Policy!Pay,
       Policy!Apply, Policy!Publish, Policy!Tick, Policy!Request, Policy!Cancel

\* What proposePolicy has read is not newer than the database: each step keeps it.
LEMMA DraftKept ==
    ASSUME PolicyTerms, PolicyOK, [Policy!Next]_(Policy!vars)
    PROVE  DraftOK'
<1>0. DraftOK /\ DatabaseTyped
    BY DEF PolicyOK
<1>1. CASE Policy!Read
    BY <1>0, <1>1 DEF Policy!Read, DraftOK, DatabaseTyped, Policy!None
<1>2. ASSUME NEW p \in Policies, Policy!Propose(p)
      PROVE  DraftOK'
    BY <1>2 DEF Policy!Propose, DraftOK, Policy!None
<1>3. ASSUME NEW m \in metrics, Policy!Deliver(m)
      PROVE  DraftOK'
    <2>1. database'.version = database.version + 1 /\ draft' = draft
        BY <1>0, <1>3 DEF Policy!Deliver, Policy!Activates, DatabaseTyped
    <2> QED
        BY <1>0, <2>1 DEF DraftOK, DatabaseTyped, Policy!None
<1>4. CASE UNCHANGED <<database, draft>>
    BY <1>0, <1>4 DEF DraftOK, Policy!None
<1> QED
    BY <1>1, <1>2, <1>3, <1>4, PolicySteps DEF Policy!NewBook, Policy!Fetch, Policy!Settle, Policy!Pay,
       Policy!Apply, Policy!Publish, Policy!Tick, Policy!Request, Policy!Cancel

\* What the operator has fetched was public: each step keeps it.
LEMMA CatalogKept ==
    ASSUME PolicyTerms, PolicyOK, [Policy!Next]_(Policy!vars)
    PROVE  CatalogOK'
<1>0. CatalogOK /\ DatabaseTyped
    BY DEF PolicyOK
<1>1. CASE Policy!Fetch
    BY <1>0, <1>1 DEF Policy!Fetch, CatalogOK, DatabaseTyped, Policy!None, Announced
<1>2. ASSUME NEW p \in Policies, Policy!Propose(p)
      PROVE  CatalogOK'
    <2>1. catalog' = catalog /\ database'.version = database.version
          /\ (database'.pending = database.pending \/ database.pending = Policy!None)
        BY <1>0, <1>2 DEF Policy!Propose, DatabaseTyped
    <2> QED
        BY <1>0, <2>1 DEF CatalogOK, Policy!None
<1>3. ASSUME NEW m \in metrics, Policy!Deliver(m)
      PROVE  CatalogOK'
    <2>1. /\ database'.version = database.version + 1 /\ catalog' = catalog /\ database.version \in Nat
          /\ database.pending.version = database.version + 1
        BY <1>0, <1>3 DEF Policy!Deliver, Policy!Activates, DatabaseTyped
    <2>2. catalog # Policy!None => catalog.version \in Nat
        BY <1>0 DEF CatalogOK, Announced
    <2> QED
        BY <1>0, <2>1, <2>2 DEF CatalogOK, Policy!None
<1>4. CASE UNCHANGED <<database, catalog>>
    BY <1>0, <1>4 DEF CatalogOK, Policy!None
<1> QED
    BY <1>1, <1>2, <1>3, <1>4, PolicySteps DEF Policy!Read, Policy!NewBook, Policy!Settle, Policy!Pay,
       Policy!Apply, Policy!Publish, Policy!Tick, Policy!Request, Policy!Cancel

\* The terms of the book are public or announced, and its metrics say so: each step keeps it.
LEMMA BookKept ==
    ASSUME PolicyTerms, PolicyOK, [Policy!Next]_(Policy!vars)
    PROVE  BookOK'
<1>0. BookOK /\ DatabaseTyped
    BY DEF PolicyOK
<1> USE DEF HasBook, BookOK, Policy!PublicTermsFollowBook, Policy!None, Policy!NoBook
<1>1. CASE Policy!NewBook
    BY <1>0, <1>1 DEF Policy!NewBook, DatabaseTyped
<1>2. ASSUME NEW p \in Policies, Policy!Propose(p)
      PROVE  BookOK'
    <2>1. /\ UNCHANGED <<book, metrics>> /\ database'.version = database.version /\ database'.policy = database.policy
          /\ (database'.pending = database.pending \/ database.pending = Policy!None)
        BY <1>0, <1>2 DEF Policy!Propose, DatabaseTyped
    <2> QED
        BY <1>0, <2>1
<1>3. ASSUME NEW m \in metrics, Policy!Deliver(m)
      PROVE  BookOK'
    <2>1. UNCHANGED <<book, metrics>> /\ database'.version = database.pending.version
          /\ database'.policy = database.pending.policy
        BY <1>3 DEF Policy!Deliver
    <2>2. database.pending.version = book.version /\ database.pending.policy = book.policy
        BY <1>3, TakesOverTheBook DEF Policy!Deliver
    <2> QED
        BY <1>0, <2>1, <2>2
<1>4. CASE Policy!Settle
    <2>1. /\ HasBook /\ book' = [book EXCEPT !.settling = Policy!Due] /\ Policy!Due \subseteq Redeemers
          /\ UNCHANGED <<database, metrics>>
        BY <1>4 DEF Policy!Settle, Policy!Due
    <2> HIDE DEF Policy!Due
    <2> QED
        BY <1>0, <2>1
<1>5. CASE Policy!Pay
    BY <1>0, <1>5 DEF Policy!Pay
<1>6. CASE Policy!Apply
    <2>1. /\ catalog = database.pending /\ catalog \in Announced /\ catalog.version = book.version + 1
          /\ database.version = book.version /\ database.policy = book.policy
        BY <1>6, AppliesTheAnnounced DEF Policy!Apply
    <2>2. book' = [book EXCEPT !.version = catalog.version, !.policy = catalog.policy] /\ HasBook
          /\ UNCHANGED <<database, metrics>>
        BY <1>6 DEF Policy!Apply
    <2>3. /\ book' = [version |-> book.version + 1, policy |-> catalog.policy, settling |-> book.settling]
          /\ catalog.policy \in Policies
        BY <1>0, <2>1, <2>2 DEF Announced
    <2>4. /\ book'.version = book.version + 1 /\ book'.policy = catalog.policy /\ book'.settling = book.settling
          /\ book' = [version |-> book'.version, policy |-> book'.policy, settling |-> book'.settling]
        BY ONLY <2>3
    <2>5. /\ book.version \in Nat \ {0} /\ book.settling \subseteq Redeemers
          /\ \A m \in metrics : m.version \in Nat /\ m.version <= book.version
        BY <1>0, <2>2
    <2>6. /\ HasBook' /\ book'.version \in Nat \ {0} /\ book'.policy \in Policies /\ book'.settling \subseteq Redeemers
          /\ \A m \in metrics' : m.version \in Nat /\ m.version <= book'.version
        BY <2>2, <2>3, <2>4, <2>5
    <2>7. Policy!PublicTermsFollowBook'
        <3>1. database.version = book'.version - 1
            BY <2>1, <2>4, <2>5
        <3> QED
            BY <2>1, <2>2, <2>4, <3>1
    <2> QED
        BY <2>4, <2>6, <2>7
<1>7. CASE Policy!Publish
    BY <1>0, <1>7 DEF Policy!Publish
<1>8. CASE Policy!Tick
    BY <1>0, <1>8 DEF Policy!Tick
<1>9. CASE UNCHANGED <<database, book, metrics>>
    BY <1>0, <1>9
<1> QED
    BY <1>1, <1>2, <1>3, <1>4, <1>5, <1>6, <1>7, <1>8, <1>9, PolicySteps
    DEF Policy!Read, Policy!Fetch, Policy!Request, Policy!Cancel

\* Redemptions whose record a step leaves alone, in a book of the same terms: whether the
\* step makes announcements or time passes (request, cancel and settle of execution.mjs).
LEMMA RedemptionStays ==
    ASSUME NEW i \in Redeemers, RedemptionOK(i), withdrawals[i]' = withdrawals[i], history \subseteq history',
           withdrawals[i] # Policy!NoWithdrawal => HasBook' /\ book'.version = book.version /\ book'.policy = book.policy,
           (HasBook' /\ i \in book'.settling) => (HasBook /\ i \in book.settling),
           now \in Nat, now' \in Nat, now <= now'
    PROVE  RedemptionOK(i)'
<1> DEFINE w == withdrawals[i]
<1>1. /\ Policy!Foretold(w) => Policy!Foretold(w)'
      /\ \A last : Overtaken(w, last) => Overtaken(w, last)'
    BY DEF Policy!Foretold, Overtaken, Policy!TookEffect
<1>2. w \in Asked => w.asked \in Nat
    BY DEF Asked
<1> QED
    BY <1>1, <1>2 DEF RedemptionOK, Policy!NoWithdrawal, Policy!NextSettlement, Policy!Foretold, Overtaken, Policy!TookEffect

\* A redemption keeps the terms it was asked under, unless their successor was announced
\* before: each step keeps it.
LEMMA RedemptionsKept ==
    ASSUME PolicyTerms, PolicyOK, [Policy!Next]_(Policy!vars)
    PROVE  RedemptionsOK'
<1>0. /\ RedemptionsOK /\ HistoryOK /\ now \in Nat
      /\ withdrawals = [i \in Redeemers |-> withdrawals[i]] /\ \A i \in Redeemers : RedemptionOK(i)
    BY DEF PolicyOK, HistoryOK, RedemptionsOK
<1>b. HasBook => /\ book.version \in Nat \ {0} /\ book.policy \in [period : Nat \ {0}, cutoff : Nat]
                 /\ book = [version |-> book.version, policy |-> book.policy, settling |-> book.settling]
    BY DEF PolicyOK, BookOK, PolicyTerms
<1>1. ASSUME withdrawals' = withdrawals, history \subseteq history', now' \in {now, now + 1}, UNCHANGED book
      PROVE  RedemptionsOK'
    <2>1. \A i \in Redeemers : RedemptionOK(i)'
        <3> TAKE i \in Redeemers
        <3>1. withdrawals[i] # Policy!NoWithdrawal => HasBook
            BY <1>0 DEF RedemptionOK
        <3> QED
            BY <1>0, <1>1, <3>1, RedemptionStays DEF HasBook
    <2> QED
        BY <1>0, <1>1, <2>1 DEF RedemptionsOK
<1>2. CASE Policy!NewBook
    <2>1. book'.settling = {} /\ UNCHANGED <<withdrawals, history, now>> /\ ~HasBook
        BY <1>2 DEF Policy!NewBook, HasBook
    <2>2. \A i \in Redeemers : withdrawals[i] = Policy!NoWithdrawal
        BY <1>0, <2>1 DEF RedemptionOK
    <2> QED
        BY <1>0, <2>1, <2>2, RedemptionStays DEF RedemptionsOK
<1>3. ASSUME NEW i \in Redeemers, Policy!Request(i)
      PROVE  RedemptionsOK'
    <2> DEFINE new == [status |-> "requested", at |-> Policy!NextSettlement(book.policy, now), asked |-> now,
                       terms |-> book.version, cutoff |-> Policy!NextSettlement(book.policy, now) - book.policy.cutoff,
                       settled |-> 0]
    <2>1. /\ HasBook /\ withdrawals[i] = Policy!NoWithdrawal /\ withdrawals' = [withdrawals EXCEPT ![i] = new]
          /\ UNCHANGED <<now, history, book>>
        BY <1>3 DEF Policy!Request, HasBook
    <2>2. Policy!NextSettlement(book.policy, now) \in Int
        BY <1>0, <1>b, <2>1, SettlementIsLater
    <2>3. /\ new \in Asked /\ new.status = "requested" /\ new.at = Policy!NextSettlement(book.policy, now)
          /\ new.asked = now /\ new.terms = book.version
        BY <1>0, <1>b, <2>1, <2>2 DEF Asked
    <2> HIDE DEF new
    <2>4. withdrawals' = [j \in Redeemers |-> withdrawals'[j]] /\ withdrawals'[i] = new
          /\ \A j \in Redeemers : j # i => withdrawals'[j] = withdrawals[j]
        BY <1>0, <2>1
    <2>5. HasBook /\ i \in book.settling => FALSE
        BY <1>0, <2>1 DEF RedemptionOK, Policy!NoWithdrawal
    <2>6. RedemptionOK(i)'
        <3>1. book.version <= book.version
            BY <1>b, <2>1
        <3> QED
            BY <1>0, <1>b, <2>1, <2>3, <2>4, <2>5, <3>1 DEF RedemptionOK, HasBook, Policy!NextSettlement, Overtaken
    <2>7. \A j \in Redeemers : j # i => RedemptionOK(j)'
        BY <1>0, <2>1, <2>4, RedemptionStays DEF HasBook
    <2> QED
        BY <2>4, <2>6, <2>7 DEF RedemptionsOK
<1>4. ASSUME NEW i \in Redeemers, Policy!Cancel(i)
      PROVE  RedemptionsOK'
    <2>1. /\ withdrawals[i].status = "requested" /\ withdrawals' = [withdrawals EXCEPT ![i] = Policy!NoWithdrawal]
          /\ UNCHANGED <<now, history, book>>
        BY <1>4 DEF Policy!Cancel
    <2>2. withdrawals' = [j \in Redeemers |-> withdrawals'[j]] /\ withdrawals'[i] = Policy!NoWithdrawal
          /\ \A j \in Redeemers : j # i => withdrawals'[j] = withdrawals[j]
        BY <1>0, <2>1
    <2>3. RedemptionOK(i)'
        BY <1>0, <2>1, <2>2 DEF RedemptionOK, HasBook, Policy!NoWithdrawal
    <2>4. \A j \in Redeemers : j # i => RedemptionOK(j)'
        <3> TAKE j \in Redeemers
        <3>1. withdrawals[j] # Policy!NoWithdrawal => HasBook
            BY <1>0 DEF RedemptionOK
        <3> QED
            BY <1>0, <2>1, <2>2, <3>1, RedemptionStays DEF HasBook
    <2> QED
        BY <2>2, <2>3, <2>4 DEF RedemptionsOK
<1>5. CASE Policy!Settle
    <2>1. /\ HasBook /\ book.settling = {} /\ book' = [book EXCEPT !.settling = Policy!Due] /\ UNCHANGED <<now, history>>
          /\ withdrawals' = [i \in Redeemers |-> IF i \in Policy!Due THEN [withdrawals[i] EXCEPT !.status = "settling"]
                                                                    ELSE withdrawals[i]]
        BY <1>5 DEF Policy!Settle, HasBook
    <2>2. HasBook' /\ book'.version = book.version /\ book'.policy = book.policy /\ book'.settling = Policy!Due
        BY <1>b, <2>1 DEF HasBook, Policy!NoBook
    <2>3. ASSUME NEW i \in Redeemers, i \notin Policy!Due
          PROVE  RedemptionOK(i)'
        <3>1. withdrawals'[i] = withdrawals[i]
            BY <2>1, <2>3
        <3> QED
            BY <1>0, <2>1, <2>2, <2>3, <3>1, RedemptionStays
    <2>4. ASSUME NEW i \in Redeemers, i \in Policy!Due
          PROVE  RedemptionOK(i)'
        <3> DEFINE w == withdrawals[i]
        <3>1. w.status = "requested" /\ w # Policy!NoWithdrawal
            BY <2>4 DEF Policy!Due, Policy!NoWithdrawal
        <3>2. w \in Asked /\ RedemptionOK(i)
            BY <1>0, <3>1 DEF RedemptionOK
        <3>3. withdrawals'[i] = [w EXCEPT !.status = "settling"]
            BY <2>1, <2>4
        <3>4. /\ withdrawals'[i] \in Asked /\ withdrawals'[i].status = "settling" /\ withdrawals'[i].at = w.at
              /\ withdrawals'[i].asked = w.asked /\ withdrawals'[i].terms = w.terms
            BY <3>2, <3>3 DEF Asked
        <3> QED
            BY <2>1, <2>2, <3>1, <3>2, <3>4 DEF RedemptionOK, Policy!Foretold, Policy!NextSettlement,
               Overtaken, Policy!TookEffect
    <2>5. withdrawals' = [i \in Redeemers |-> withdrawals'[i]]
        BY <2>1
    <2> QED
        BY <2>3, <2>4, <2>5 DEF RedemptionsOK
<1>6. CASE Policy!Pay
    <2>1. /\ HasBook /\ book' = [book EXCEPT !.settling = {}] /\ UNCHANGED <<now, history>>
          /\ withdrawals' = [i \in Redeemers |-> IF i \in book.settling
                 THEN [withdrawals[i] EXCEPT !.status = "paid", !.settled = book.version] ELSE withdrawals[i]]
        BY <1>6 DEF Policy!Pay, HasBook
    <2>2. HasBook' /\ book'.version = book.version /\ book'.policy = book.policy /\ book'.settling = {}
        BY <1>b, <2>1 DEF HasBook, Policy!NoBook
    <2>3. ASSUME NEW i \in Redeemers, i \notin book.settling
          PROVE  RedemptionOK(i)'
        <3>1. withdrawals'[i] = withdrawals[i]
            BY <2>1, <2>3
        <3>2. RedemptionOK(i) /\ history \subseteq history'
            BY <1>0, <2>1
        <3>4. now \in Nat /\ now' \in Nat /\ now <= now'
            <4>1. now \in Nat /\ now' = now
                BY ONLY <1>0, <2>1
            <4> QED
                BY ONLY <4>1
        <3>3. i \notin book'.settling
            BY <2>2
        <3> QED
            BY ONLY <1>0, <2>2, <3>1, <3>2, <3>3, <3>4, RedemptionStays
    <2>4. ASSUME NEW i \in Redeemers, i \in book.settling
          PROVE  RedemptionOK(i)'
        <3> DEFINE w == withdrawals[i]
        <3>0. RedemptionOK(i)
            BY <1>0
        <3>1. w.status = "settling" /\ w # Policy!NoWithdrawal
            <4>1. w.status = "settling"
                BY <2>1, <2>4, <3>0 DEF RedemptionOK
            <4> QED
                BY <4>1 DEF Policy!NoWithdrawal
        <3>2. w \in Asked
            BY <3>0, <3>1 DEF RedemptionOK
        <3>3. withdrawals'[i] = [w EXCEPT !.status = "paid", !.settled = book.version]
            BY <2>1, <2>4
        <3>4. /\ withdrawals'[i] \in Asked /\ withdrawals'[i].status = "paid" /\ withdrawals'[i].settled = book.version
              /\ withdrawals'[i].asked = w.asked /\ withdrawals'[i].terms = w.terms /\ withdrawals'[i].at = w.at
            BY <1>b, <2>1, <3>2, <3>3 DEF Asked
        <3>5. (w.terms < book.version => Policy!Foretold(w)) /\ Overtaken(w, book.version)
            BY <3>0, <3>1, <3>2 DEF RedemptionOK
        <3> QED
            BY <2>1, <2>2, <3>0, <3>1, <3>2, <3>4, <3>5 DEF RedemptionOK, Policy!Foretold, Overtaken, Policy!TookEffect
    <2>5. withdrawals' = [i \in Redeemers |-> withdrawals'[i]]
        BY <2>1
    <2> QED
        BY <2>3, <2>4, <2>5 DEF RedemptionsOK
<1>7. CASE Policy!Apply
    <2>1. /\ HasBook /\ catalog # Policy!None /\ catalog.version > book.version /\ book.settling = {}
          /\ book' = [book EXCEPT !.version = catalog.version, !.policy = catalog.policy]
          /\ UNCHANGED <<now, history, withdrawals>> /\ \A i \in Redeemers : Policy!Untouched(i)
        BY <1>7 DEF Policy!Apply, HasBook
    <2>2. /\ catalog = database.pending /\ catalog \in Announced /\ catalog.version = book.version + 1
          /\ database.version = book.version /\ database.policy = book.policy
        BY <2>1, AppliesTheAnnounced
    <2>3. PICK h \in history : /\ h.version = book.version + 1 /\ h.after = catalog.after
                               /\ catalog.after = Policy!NextSettlement(book.policy, h.announcedAt) + 1
        BY <1>0, <2>1, <2>2 DEF HistoryOK
    <2>4. h.announcedAt \in Nat /\ h.after \in Int
        BY <1>0 DEF HistoryOK
    <2>5. HasBook' /\ book'.version = book.version + 1 /\ book'.settling = {}
        BY <1>b, <2>1, <2>2 DEF HasBook, Policy!NoBook
    <2>6. ASSUME NEW i \in Redeemers
          PROVE  RedemptionOK(i)'
        <3> DEFINE w == withdrawals[i]
        <3>1. CASE w = Policy!NoWithdrawal
            BY <2>1, <2>5, <3>1 DEF RedemptionOK
        <3>2. CASE w # Policy!NoWithdrawal
            <4>1. /\ w \in Asked /\ w.asked \in Nat /\ w.asked <= now /\ w.terms \in Nat /\ w.at \in Int
                  /\ w.terms <= book.version /\ RedemptionOK(i)
                BY <1>0, <3>2 DEF RedemptionOK, Asked
            <4>2. CASE w.status = "paid"
                <5>1. (w.settled > w.terms => Policy!Foretold(w)) /\ Overtaken(w, w.settled)
                    BY <4>1, <4>2, <3>2 DEF RedemptionOK
                <5>2. w.terms <= book'.version
                    BY <1>b, <2>1, <2>5, <4>1
                <5> QED
                    BY <2>1, <2>5, <3>2, <4>1, <4>2, <5>1, <5>2 DEF RedemptionOK, Policy!Foretold, Overtaken, Policy!TookEffect
            <4>3. CASE w.status # "paid"
                <5>1. w.status \in {"requested", "settling"}
                    BY <4>1, <4>3 DEF Asked
                <5>2. w.at > catalog.after
                    BY <2>1, <5>1 DEF Policy!Untouched
                <5>3. Policy!Foretold(w)
                    <6>1. CASE w.terms < book.version
                        BY <3>2, <4>1, <4>3, <6>1 DEF RedemptionOK
                    <6>2. CASE w.terms = book.version
                        <7>1. w.at = Policy!NextSettlement(book.policy, w.asked)
                            BY <3>2, <4>1, <4>3, <6>2 DEF RedemptionOK
                        <7>2. CASE w.asked <= h.announcedAt
                            <8>1. /\ Policy!NextSettlement(book.policy, w.asked) \in Int
                                  /\ Policy!NextSettlement(book.policy, h.announcedAt) \in Int
                                  /\ Policy!NextSettlement(book.policy, w.asked)
                                         <= Policy!NextSettlement(book.policy, h.announcedAt)
                                BY <1>b, <2>1, <2>4, <4>1, <7>2, SettlementIsLater
                            <8> QED
                                BY <2>3, <5>2, <7>1, <8>1
                        <7>3. CASE h.announcedAt <= w.asked
                            BY <2>3, <6>2, <7>3 DEF Policy!Foretold
                        <7> QED
                            BY <2>4, <4>1, <7>2, <7>3
                    <6> QED
                        BY <1>b, <2>1, <4>1, <6>1, <6>2
                <5>4. w.terms < book'.version /\ w.terms <= book'.version
                    BY <1>b, <2>1, <2>5, <4>1
                <5>5. w.terms # book'.version
                    BY <1>b, <2>1, <2>5, <4>1
                <5>6. Overtaken(w, book'.version)
                    <6> SUFFICES ASSUME NEW version \in w.terms + 1..book.version + 1
                                 PROVE  Policy!TookEffect(w, version)
                        BY <2>5 DEF Overtaken
                    <6>1. Overtaken(w, book.version)
                        BY <3>2, <4>1, <4>3 DEF RedemptionOK
                    <6>2. CASE version \in w.terms + 1..book.version
                        BY <6>1, <6>2 DEF Overtaken
                    <6>3. CASE version = book.version + 1
                        BY <2>3, <5>2, <6>3 DEF Policy!TookEffect
                    <6> QED
                        BY <1>b, <2>1, <4>1, <6>2, <6>3
                <5> QED
                    BY <2>1, <2>5, <3>2, <4>1, <4>3, <5>3, <5>4, <5>5, <5>6 DEF RedemptionOK, Policy!Foretold, Overtaken, Policy!TookEffect
            <4> QED
                BY <4>2, <4>3
        <3> QED
            BY <3>1, <3>2
    <2> QED
        BY <1>0, <2>1, <2>6 DEF RedemptionsOK
<1>8. ASSUME NEW p \in Policies, Policy!Propose(p)
      PROVE  RedemptionsOK'
    BY <1>1, <1>8 DEF Policy!Propose
<1>9. ASSUME NEW m \in metrics, Policy!Deliver(m)
      PROVE  RedemptionsOK'
    BY <1>1, <1>9 DEF Policy!Deliver
<1> QED
    BY <1>1, <1>2, <1>3, <1>4, <1>5, <1>6, <1>7, <1>8, <1>9, PolicySteps
    DEF Policy!Read, Policy!Fetch, Policy!Publish, Policy!Tick

\* The public terms are those the operator trades on or those it left last, with the new
\* ones announced beside them; and a redemption is settled under changed terms only if it
\* is due after the time each of them was announced for, and the first of them had been
\* announced when it was asked for: for every set of policies, any number of changes, and
\* metrics that are late, lost, repeated or out of order (proposePolicy and publishMetrics
\* of src/platform/service.js, tick of execution.mjs).
THEOREM PublicTermsAreKept ==
    ASSUME PolicyTerms
    PROVE  Policy!Spec => [](Policy!PublicTermsFollowBook /\ Policy!RedemptionsKeepTheirTerms)
<1>1. Policy!Init => PolicyOK
    BY PolicyStarts
<1>2. PolicyOK /\ [Policy!Next]_(Policy!vars) => PolicyOK'
    BY DatabaseKept, HistoryKept, DraftKept, CatalogKept, BookKept, RedemptionsKept DEF PolicyOK
<1>3. PolicyOK => Policy!PublicTermsFollowBook /\ Policy!RedemptionsKeepTheirTerms
    BY DEF PolicyOK, BookOK, RedemptionsOK, RedemptionOK, Overtaken, Policy!RedemptionsKeepTheirTerms, Policy!NoWithdrawal
<1> QED
    BY <1>1, <1>2, <1>3, PTL DEF Policy!Spec

-------------------------------------------------------------------------------
(* Adding funds from the browser. *)

DepositTerms == DepositLimit \in Nat /\ \A d \in Nat, h \in BOOLEAN : Null # Wallet!Record(d, h)

Records == {Wallet!Record(d, h) : d \in Wallet!Deposits, h \in BOOLEAN}
Running == tab.at # "idle"
TabTyped ==
    /\ tab = [at |-> tab.at, deposit |-> tab.deposit, same |-> tab.same]
    /\ tab.at \in {"idle", "prepare", "approve", "wallet", "mine", "complete"} /\ tab.same \in BOOLEAN
    /\ tab.at \in {"approve", "wallet", "mine", "complete"} => tab.deposit \in Wallet!Deposits
DepositsTyped ==
    /\ account \in [signed : BOOLEAN, loaded : BOOLEAN] /\ TabTyped
    /\ saved \in Records \cup {Null} /\ pending \in Records \cup {Null}
    /\ prepared \in 0..DepositLimit /\ DOMAIN chain = Wallet!Deposits

\* A run belongs to the session that began it, until that ends.
SessionOK ==
    /\ account.loaded => account.signed
    /\ Running => (tab.same <=> account.signed)
    /\ ~Running => tab.same

\* What the page has in memory is what is stored, or nothing.
MemoryOK ==
    /\ account.loaded => pending = saved
    /\ account.signed => pending \in {Null, saved}

\* What a run may write over, and where it has left its record.
RunOK ==
    /\ tab.at = "prepare" /\ tab.same /\ account.loaded => ~Wallet!HasHash(saved)
    /\ tab.at \in {"approve", "wallet"} => saved = Wallet!Record(tab.deposit, FALSE)
    /\ tab.at \in {"mine", "complete"} /\ tab.same => saved = Wallet!Record(tab.deposit, TRUE)
    /\ tab.at = "wallet" /\ ~tab.same => tab.deposit \in gaps

DepositsOK == DepositsTyped /\ SessionOK /\ MemoryOK /\ RunOK /\ Wallet!SentCanComplete

\* A record is none, has no hash, or has one.
LEMMA RecordsDiffer ==
    ASSUME DepositTerms
    PROVE  /\ \A d \in Wallet!Deposits, h \in BOOLEAN :
                  /\ Wallet!Record(d, h) \in Records /\ Wallet!Record(d, h) # Null
                  /\ Wallet!HasHash(Wallet!Record(d, h)) <=> h
                  /\ Wallet!Record(d, h).deposit = d
           /\ \A r \in Records : r # Null /\ r.deposit \in Wallet!Deposits /\ r.hash \in BOOLEAN
                                 /\ r = Wallet!Record(r.deposit, r.hash)
           /\ ~Wallet!HasHash(Null)
BY DEF DepositTerms, Records, Wallet!Record, Wallet!HasHash, Wallet!Deposits

\* No deposit has been asked for.
LEMMA DepositsStart ==
    ASSUME DepositTerms, Wallet!Init
    PROVE  DepositsOK
<1>1. DepositsTyped
    BY DEF DepositTerms, Wallet!Init, DepositsTyped, TabTyped, Wallet!Idle
<1>2. SessionOK /\ MemoryOK /\ RunOK
    BY RecordsDiffer DEF Wallet!Init, SessionOK, MemoryOK, RunOK, Running, Wallet!Idle
<1>3. Wallet!SentCanComplete
    BY DEF Wallet!Init, Wallet!SentCanComplete
<1> QED
    BY <1>1, <1>2, <1>3 DEF DepositsOK

\* Each step of the run, of the page and of the chain keeps the invariant.
LEMMA DepositsKept ==
    ASSUME DepositTerms, DepositsOK, [Wallet!Next]_(Wallet!vars)
    PROVE  DepositsOK'
<1> USE DEF Wallet!Idle, Running
<1>0. DepositsTyped /\ TabTyped /\ SessionOK /\ MemoryOK /\ RunOK /\ Wallet!SentCanComplete
    BY DEF DepositsOK, DepositsTyped
<1>1. CASE Wallet!AddFunds
    <2>1. /\ account.signed /\ tab.at = "idle" /\ ~Wallet!HasHash(pending)
          /\ tab' = [at |-> "prepare", deposit |-> Null, same |-> TRUE]
          /\ UNCHANGED <<account, saved, pending, prepared, chain, asked, credited, gaps>>
        BY <1>1 DEF Wallet!AddFunds, Wallet!MayAdd
    <2>2. DepositsTyped' /\ SessionOK' /\ MemoryOK'
        BY <1>0, <2>1 DEF DepositsTyped, TabTyped, SessionOK, MemoryOK
    <2>3. RunOK' /\ Wallet!SentCanComplete'
        BY <1>0, <2>1 DEF RunOK, MemoryOK, Wallet!SentCanComplete
    <2> QED
        BY <2>2, <2>3 DEF DepositsOK
<1>2. CASE Wallet!Prepare
    <2> DEFINE d == prepared + 1
    <2>1. /\ tab.at = "prepare" /\ tab.same /\ prepared' = d /\ prepared < DepositLimit
          /\ pending' = Wallet!Record(d, FALSE) /\ saved' = Wallet!Record(d, FALSE)
          /\ tab' = [tab EXCEPT !.at = "approve", !.deposit = d]
          /\ gaps' = IF Wallet!HasHash(saved) /\ ~account.loaded THEN gaps \cup {saved.deposit} ELSE gaps
          /\ UNCHANGED <<account, chain, asked, credited>>
        BY <1>2 DEF Wallet!Prepare
    <2>2. d \in Wallet!Deposits /\ d \in 0..DepositLimit
        BY <1>0, <2>1 DEF DepositTerms, DepositsTyped, Wallet!Deposits
    <2> HIDE DEF d
    <2>3. tab'.at = "approve" /\ tab'.deposit = d /\ tab'.same
          /\ tab' = [at |-> tab'.at, deposit |-> tab'.deposit, same |-> tab'.same]
        BY <1>0, <2>1 DEF TabTyped
    <2>4. DepositsTyped' /\ SessionOK' /\ MemoryOK' /\ RunOK'
        BY <1>0, <2>1, <2>2, <2>3, RecordsDiffer DEF DepositsTyped, TabTyped, SessionOK, MemoryOK, RunOK
    <2>5. Wallet!SentCanComplete'
        <3> SUFFICES ASSUME NEW e \in Wallet!Deposits, chain[e] # "none", e \notin credited, e \notin gaps'
                     PROVE  FALSE
            BY <2>1 DEF Wallet!SentCanComplete
        <3>1. saved = Wallet!Record(e, TRUE) /\ e \notin gaps
            BY <1>0, <2>1 DEF Wallet!SentCanComplete
        <3>2. Wallet!HasHash(saved) /\ saved.deposit = e
            BY <3>1, RecordsDiffer
        <3> QED
            BY <1>0, <2>1, <3>2 DEF RunOK
    <2> QED
        BY <2>4, <2>5 DEF DepositsOK
<1>3. CASE Wallet!AskWallet
    <2>1. tab.at = "approve" /\ tab.same /\ tab' = [at |-> "wallet", deposit |-> tab.deposit, same |-> tab.same]
          /\ UNCHANGED <<account, saved, pending, prepared, chain, asked, credited, gaps>>
        BY <1>0, <1>3 DEF Wallet!AskWallet, TabTyped
    <2> QED
        BY <1>0, <2>1 DEF DepositsOK, DepositsTyped, TabTyped, SessionOK, MemoryOK, RunOK, Wallet!SentCanComplete
<1>4. CASE Wallet!WalletSends
    BY <1>0, <1>4
    DEF Wallet!WalletSends, DepositsOK, DepositsTyped, TabTyped, SessionOK, MemoryOK, RunOK, Wallet!SentCanComplete
<1>5. CASE Wallet!SaveHash
    <2>1. /\ tab.at = "wallet" /\ pending' = Wallet!Record(tab.deposit, TRUE)
          /\ saved' = IF account.signed THEN Wallet!Record(tab.deposit, TRUE) ELSE saved
          /\ tab' = [at |-> "mine", deposit |-> tab.deposit, same |-> tab.same]
          /\ UNCHANGED <<account, prepared, chain, asked, credited, gaps>>
        BY <1>0, <1>5 DEF Wallet!SaveHash, TabTyped
    <2>2. tab.deposit \in Wallet!Deposits
        BY <1>0, <2>1 DEF TabTyped
    <2>3. DepositsTyped' /\ SessionOK' /\ MemoryOK' /\ RunOK'
        BY <1>0, <2>1, <2>2, RecordsDiffer DEF DepositsTyped, TabTyped, SessionOK, MemoryOK, RunOK
    <2>4. Wallet!SentCanComplete'
        <3> SUFFICES ASSUME NEW e \in Wallet!Deposits, chain[e] # "none", e \notin credited, e \notin gaps
                     PROVE  saved' = Wallet!Record(e, TRUE)
            BY <2>1 DEF Wallet!SentCanComplete
        <3>1. saved = Wallet!Record(e, TRUE) \/ tab.deposit = e
            BY <1>0 DEF Wallet!SentCanComplete
        <3>2. saved # Wallet!Record(e, TRUE)
            <4>1. saved = Wallet!Record(tab.deposit, FALSE)
                BY <1>0, <2>1 DEF RunOK
            <4> QED
                BY <2>2, <4>1, RecordsDiffer
        <3>3. tab.same
            BY <1>0, <2>1, <3>1, <3>2 DEF RunOK, TabTyped
        <3> QED
            BY <1>0, <2>1, <3>1, <3>2, <3>3 DEF SessionOK
    <2> QED
        BY <2>3, <2>4 DEF DepositsOK
<1>6. ASSUME NEW d \in Wallet!Deposits, Wallet!Mined(d)
      PROVE  DepositsOK'
    BY <1>0, <1>6
    DEF Wallet!Mined, DepositsOK, DepositsTyped, TabTyped, SessionOK, MemoryOK, RunOK, Wallet!SentCanComplete
<1>7. CASE Wallet!Complete
    <2>1. tab.at = "mine" /\ account.signed /\ tab' = [at |-> "complete", deposit |-> tab.deposit, same |-> tab.same]
          /\ UNCHANGED <<account, saved, pending, prepared, chain, credited, gaps>>
        BY <1>0, <1>7 DEF Wallet!Complete, TabTyped
    <2> QED
        BY <1>0, <2>1 DEF DepositsOK, DepositsTyped, TabTyped, SessionOK, MemoryOK, RunOK, Wallet!SentCanComplete
<1>8. CASE Wallet!Resume
    <2>1. /\ account.signed /\ tab.at = "idle" /\ Wallet!HasHash(pending)
          /\ tab' = [at |-> "complete", deposit |-> pending.deposit, same |-> TRUE]
          /\ UNCHANGED <<account, saved, pending, prepared, chain, credited, gaps>>
        BY <1>8 DEF Wallet!Resume
    <2>2. pending # Null /\ pending.hash
        BY <2>1 DEF Wallet!HasHash
    <2>3. pending = saved /\ pending \in Records
        BY <1>0, <2>1, <2>2 DEF MemoryOK, DepositsTyped
    <2>4. saved = Wallet!Record(pending.deposit, TRUE) /\ pending.deposit \in Wallet!Deposits
        BY <2>2, <2>3, RecordsDiffer
    <2> QED
        BY <1>0, <2>1, <2>4 DEF DepositsOK, DepositsTyped, TabTyped, SessionOK, MemoryOK, RunOK, Wallet!SentCanComplete
<1>9. CASE Wallet!Finished
    <2>1. /\ tab.at = "complete" /\ tab.same /\ tab.deposit \in credited /\ saved' = Null /\ pending' = Null
          /\ account' = [account EXCEPT !.loaded = TRUE] /\ tab' = [at |-> "idle", deposit |-> Null, same |-> TRUE]
          /\ UNCHANGED <<prepared, chain, asked, credited, gaps>>
        BY <1>9 DEF Wallet!Finished
    <2>2. account.signed /\ saved = Wallet!Record(tab.deposit, TRUE) /\ tab.deposit \in Wallet!Deposits
        BY <1>0, <2>1 DEF SessionOK, RunOK, TabTyped
    <2>3. DepositsTyped' /\ SessionOK' /\ MemoryOK' /\ RunOK'
        BY <1>0, <2>1, <2>2 DEF DepositsTyped, TabTyped, SessionOK, MemoryOK, RunOK
    <2>4. Wallet!SentCanComplete'
        <3> SUFFICES ASSUME NEW e \in Wallet!Deposits, chain[e] # "none", e \notin credited, e \notin gaps
                     PROVE  FALSE
            BY <2>1 DEF Wallet!SentCanComplete
        <3>1. saved = Wallet!Record(e, TRUE)
            BY <1>0, <2>1 DEF Wallet!SentCanComplete
        <3>2. e = tab.deposit
            <4>1. Wallet!Record(e, TRUE) = Wallet!Record(tab.deposit, TRUE)
                BY <2>2, <3>1
            <4> QED
                BY ONLY <4>1 DEF Wallet!Record
        <3> QED
            BY <2>1, <3>2
    <2> QED
        BY <2>3, <2>4 DEF DepositsOK
<1>10. CASE Wallet!GiveUp
    <2>1. /\ tab.at = "wallet" => chain[tab.deposit] = "none"
          /\ tab' = [at |-> "idle", deposit |-> Null, same |-> TRUE]
          /\ UNCHANGED <<account, saved, pending, prepared, chain, asked, credited, gaps>>
        BY <1>10 DEF Wallet!GiveUp
    <2> QED
        BY <1>0, <2>1 DEF DepositsOK, DepositsTyped, TabTyped, SessionOK, MemoryOK, RunOK, Wallet!SentCanComplete
<1>11. CASE Wallet!Logout
    <2>1. /\ account' = [signed |-> FALSE, loaded |-> FALSE] /\ pending' = Null
          /\ tab' = [at |-> tab.at, deposit |-> tab.deposit, same |-> tab.at = "idle"]
          /\ gaps' = IF tab.at = "wallet" THEN gaps \cup {tab.deposit} ELSE gaps
          /\ UNCHANGED <<saved, prepared, chain, asked, credited>>
        BY <1>0, <1>11 DEF Wallet!Logout, Wallet!Cut, TabTyped
    <2> QED
        BY <1>0, <2>1 DEF DepositsOK, DepositsTyped, TabTyped, SessionOK, MemoryOK, RunOK, Wallet!SentCanComplete
<1>12. CASE Wallet!Login
    <2>1. /\ tab.at = "idle" /\ account' = [signed |-> TRUE, loaded |-> TRUE] /\ pending' = saved
          /\ UNCHANGED <<saved, tab, prepared, chain, asked, credited, gaps>>
        BY <1>12 DEF Wallet!Login
    <2> QED
        BY <1>0, <2>1 DEF DepositsOK, DepositsTyped, TabTyped, SessionOK, MemoryOK, RunOK, Wallet!SentCanComplete
<1>13. ASSUME NEW read \in BOOLEAN, Wallet!Reload(read)
       PROVE  DepositsOK'
    <2>1. /\ tab' = [at |-> "idle", deposit |-> Null, same |-> TRUE]
          /\ account' = [signed |-> account.signed, loaded |-> read /\ account.signed]
          /\ pending' = IF read /\ account.signed THEN saved ELSE Null
          /\ gaps' = IF tab.at = "wallet" THEN gaps \cup {tab.deposit} ELSE gaps
          /\ UNCHANGED <<saved, prepared, chain, asked, credited>>
        BY <1>0, <1>13 DEF Wallet!Reload, Wallet!Cut, DepositsTyped
    <2> QED
        BY <1>0, <2>1 DEF DepositsOK, DepositsTyped, TabTyped, SessionOK, MemoryOK, RunOK, Wallet!SentCanComplete
<1>14. ASSUME NEW d \in Wallet!Deposits, Wallet!Credit(d) \/ Wallet!Refuse(d)
       PROVE  DepositsOK'
    <2>1. credited \subseteq credited' /\ UNCHANGED <<account, saved, pending, tab, prepared, chain, gaps>>
        BY <1>14 DEF Wallet!Credit, Wallet!Refuse
    <2> QED
        BY <1>0, <2>1 DEF DepositsOK, DepositsTyped, TabTyped, SessionOK, MemoryOK, RunOK, Wallet!SentCanComplete
<1>15. CASE UNCHANGED Wallet!vars
    BY <1>0, <1>15
    DEF Wallet!vars, DepositsOK, DepositsTyped, TabTyped, SessionOK, MemoryOK, RunOK, Wallet!SentCanComplete
<1> QED
    BY <1>1, <1>2, <1>3, <1>4, <1>5, <1>6, <1>7, <1>8, <1>9, <1>10, <1>11, <1>12, <1>13, <1>14, <1>15 DEF Wallet!Next

\* A deposit the wallet sent can be completed: it is credited, or its hash is stored, or
\* the run that will store it is open; or it is one of the two gaps (a run cut between the
\* wallet and the page, a record written over unread): for any number of deposits, and
\* whenever the tab is reloaded or the session ends (PlatformContext.jsx, addFunds).
THEOREM SentDepositsComplete ==
    ASSUME DepositTerms
    PROVE  Wallet!Init /\ [][Wallet!Next]_(Wallet!vars) => []Wallet!SentCanComplete
<1>1. Wallet!Init => DepositsOK
    BY DepositsStart
<1>2. DepositsOK /\ [Wallet!Next]_(Wallet!vars) => DepositsOK'
    BY DepositsKept
<1>3. DepositsOK => Wallet!SentCanComplete
    BY DEF DepositsOK
<1> QED
    BY <1>1, <1>2, <1>3, PTL

-------------------------------------------------------------------------------
(* What the browser asks for once. *)

NoneIsNoClick == Null \notin Nat

Told == {"nothing", "confirmed", "refused"}
Clicks == [tries : 1..2, told : Told, times : Nat]
Sent == [click : Nat, id : Nat \X {0}, at : {"wire", "queue", "ok", "refused", "gone"}]
Open == win.at # "idle"
BrowserTyped ==
    /\ clicks \in Seq(Clicks) /\ attempts \in Seq(Sent) /\ queue \in Seq(Nat)
    /\ outbox \in DOMAIN clicks \cup {Null}
    /\ win = [at |-> win.at, click |-> win.click, attempt |-> win.attempt, same |-> win.same]
    /\ win.at \in {"idle", "attest", "wait"}
    /\ Open => win.click \in DOMAIN clicks
    /\ win.at = "wait" => win.attempt \in DOMAIN attempts /\ attempts[win.attempt].click = win.click

\* A copy belongs to a click and has its id; what waits in the queue waits there once.
CopiesOK ==
    /\ \A i \in DOMAIN attempts : attempts[i].click \in DOMAIN clicks /\ attempts[i].id = <<attempts[i].click, 0>>
    /\ \A k \in DOMAIN queue : queue[k] \in DOMAIN attempts /\ attempts[queue[k]].at = "queue"
    /\ \A k, l \in DOMAIN queue : queue[k] = queue[l] => k = l

\* What is recorded was done once, by a copy that was answered.
Answered(c) == \E i \in DOMAIN attempts : attempts[i].click = c /\ attempts[i].at = "ok"
Done(c) == <<c, 0>> \in done
RecordsOK ==
    /\ \A c \in DOMAIN clicks : clicks[c].times = IF Done(c) THEN 1 ELSE 0
    /\ \A c \in DOMAIN clicks : Done(c) <=> Answered(c)
    /\ \A c \in Nat : Done(c) => c \in DOMAIN clicks
    /\ poll # Null => poll \subseteq done
    /\ \A c \in DOMAIN clicks : clicks[c].told = "confirmed" => Done(c)

\* A click that was not tried again has one copy, which its run has sent.
Unsent(c) == \A i \in DOMAIN attempts : attempts[i].click # c
TriesOK ==
    \A c \in DOMAIN clicks : clicks[c].tries = 1 =>
        /\ \A i, j \in DOMAIN attempts : (attempts[i].click = c /\ attempts[j].click = c) => i = j
        /\ (win.at = "attest" /\ win.click = c) => Unsent(c)

\* What is not in the outbox any more is settled: confirmed, or refused for good unless it
\* was tried again.
RefusedForGood(c) == \A i \in DOMAIN attempts : attempts[i].click = c => attempts[i].at = "refused"
Settled(c) ==
    \/ clicks[c].told = "confirmed"
    \/ clicks[c].told = "refused" /\ (clicks[c].tries > 1 \/ RefusedForGood(c))
OutboxOK ==
    /\ \A c \in DOMAIN clicks : outbox = c \/ Settled(c)
    /\ Open => \/ outbox = win.click
               \/ outbox = Null /\ clicks[win.click].told = "confirmed"

BrowserOK == BrowserTyped /\ CopiesOK /\ RecordsOK /\ TriesOK /\ OutboxOK

\* Nobody has clicked.
LEMMA BrowserStarts ==
    ASSUME Browser!Init
    PROVE  BrowserOK
BY DEF Browser!Init, BrowserOK, BrowserTyped, Open, CopiesOK, RecordsOK, Done, TriesOK, OutboxOK, Browser!Idle

\* A later step of the run, or none, that sends nothing and tells nothing.
LEMMA BrowserGoesOn ==
    ASSUME BrowserOK, UNCHANGED <<clicks, attempts, queue, done>>,
           outbox' = outbox,
           win' = win \/ win' = [win EXCEPT !.same = win'.same] \/ win' = Browser!Idle,
           poll' \in {poll, Null, done}
    PROVE  BrowserOK'
<1>1. BrowserTyped' /\ TriesOK' /\ OutboxOK'
    BY DEF BrowserOK, BrowserTyped, Open, TriesOK, Unsent, OutboxOK, Settled, RefusedForGood, Browser!Idle
<1>2. CopiesOK' /\ RecordsOK'
    BY DEF BrowserOK, CopiesOK, RecordsOK, Done, Answered
<1> QED
    BY <1>1, <1>2 DEF BrowserOK

\* The run ends and tells what became of the click.
LEMMA BrowserTells ==
    ASSUME NoneIsNoClick, BrowserOK, NEW c \in DOMAIN clicks, NEW what \in {"confirmed", "refused"},
           UNCHANGED <<attempts, queue, done>>,
           clicks' = Browser!Told(c, what), outbox' = Null, outbox \in {c, Null},
           poll' \in {poll, Null}, win' \in {win, Browser!Idle},
           what = "confirmed" => Done(c),
           what = "refused" => /\ win' = Browser!Idle
                               /\ clicks[c].tries > 1 \/ RefusedForGood(c)
    PROVE  BrowserOK'
<1> DEFINE new == clicks'
<1>1. /\ clicks \in Seq(Clicks) /\ new \in Seq(Clicks) /\ DOMAIN new = DOMAIN clicks
      /\ new[c].tries = clicks[c].tries /\ new[c].times = clicks[c].times /\ new[c].told = what
      /\ \A d \in DOMAIN clicks : d # c => new[d] = clicks[d]
    <2>1. clicks \in Seq(Clicks) /\ new = [clicks EXCEPT ![c] = [clicks[c] EXCEPT !.told = what]]
        BY DEF BrowserOK, BrowserTyped, Browser!Told
    <2>2. clicks[c] \in Clicks
        BY <2>1
    <2>3. [clicks[c] EXCEPT !.told = what] \in Clicks
        BY <2>2 DEF Clicks, Told
    <2>4. /\ new \in Seq(Clicks) /\ DOMAIN new = DOMAIN clicks /\ new[c] = [clicks[c] EXCEPT !.told = what]
          /\ \A d \in DOMAIN clicks : d # c => new[d] = clicks[d]
        <3> HIDE DEF new
        <3> QED
            BY <2>1, <2>3
    <2> QED
        BY <2>1, <2>2, <2>4 DEF Clicks
<1> HIDE DEF new
<1>2. \A d \in DOMAIN clicks : new[d].tries = clicks[d].tries /\ new[d].times = clicks[d].times
    BY <1>1
<1>3. BrowserTyped'
    BY <1>1 DEF BrowserOK, BrowserTyped, Open, Browser!Idle, new
<1>4. CopiesOK'
    BY <1>1 DEF BrowserOK, CopiesOK, new
<1>5. RecordsOK'
    BY <1>1, <1>2 DEF BrowserOK, RecordsOK, Done, Answered, new
<1>6. TriesOK'
    BY <1>1, <1>2 DEF BrowserOK, TriesOK, Unsent, Browser!Idle, new
<1>7. OutboxOK'
    <2>1. Settled(c)'
        BY <1>1 DEF Settled, RefusedForGood, new
    <2>2. ASSUME NEW d \in DOMAIN clicks, d # c
          PROVE  Settled(d)'
        <3>1. outbox # d
            <4>1. d \in Nat
                BY <1>1
            <4> QED
                BY <2>2, <4>1 DEF NoneIsNoClick
        <3>2. Settled(d)
            BY <3>1 DEF BrowserOK, OutboxOK
        <3> QED
            BY <1>1, <2>2, <3>2 DEF Settled, RefusedForGood, new
    <2>3. Open' => clicks'[win'.click].told = "confirmed"
        <3> SUFFICES ASSUME Open' PROVE clicks'[win'.click].told = "confirmed"
            OBVIOUS
        <3>1. win' = win /\ what = "confirmed" /\ Open /\ win.click \in DOMAIN clicks
            BY DEF Open, Browser!Idle, BrowserOK, BrowserTyped
        <3>2. win.click = c \/ clicks[win.click].told = "confirmed"
            <4>1. win.click \in Nat
                BY <1>1, <3>1
            <4> QED
                BY <3>1, <4>1 DEF BrowserOK, OutboxOK, NoneIsNoClick
        <3> QED
            BY <1>1, <3>1, <3>2 DEF new
    <2> QED
        BY <1>1, <2>1, <2>2, <2>3 DEF OutboxOK, new
<1> QED
    BY <1>3, <1>4, <1>5, <1>6, <1>7 DEF BrowserOK

\* A copy changes its state: it joins the queue, or will never be made.
LEMMA CopyMoves ==
    ASSUME BrowserOK, NEW i \in DOMAIN attempts, NEW s \in {"queue", "refused", "gone"},
           attempts[i].at = "wire", attempts' = [attempts EXCEPT ![i].at = s],
           UNCHANGED <<outbox, win, poll, clicks, done>>,
           \/ s # "queue" /\ queue' = queue
           \/ s = "queue" /\ queue' = Append(queue, i)
    PROVE  BrowserOK'
<1> DEFINE new == attempts'
<1>1. /\ new \in Seq(Sent) /\ DOMAIN new = DOMAIN attempts /\ attempts \in Seq(Sent)
      /\ \A j \in DOMAIN attempts : /\ new[j].click = attempts[j].click /\ new[j].id = attempts[j].id
                                    /\ new[j].at = IF j = i THEN s ELSE attempts[j].at
    <2>1. attempts \in Seq(Sent) /\ new = [attempts EXCEPT ![i] = [attempts[i] EXCEPT !.at = s]]
        BY DEF BrowserOK, BrowserTyped
    <2>2. attempts[i] \in Sent
        BY <2>1
    <2>3. [attempts[i] EXCEPT !.at = s] \in Sent
        BY <2>2 DEF Sent
    <2>4. /\ new \in Seq(Sent) /\ DOMAIN new = DOMAIN attempts /\ new[i] = [attempts[i] EXCEPT !.at = s]
          /\ \A j \in DOMAIN attempts : j # i => new[j] = attempts[j]
        <3> HIDE DEF new
        <3> QED
            BY <2>1, <2>3
    <2> QED
        BY <2>1, <2>2, <2>4 DEF Sent
<1> HIDE DEF new
<1>2. queue' \in Seq(Nat) /\ \A k \in DOMAIN queue' : \/ (k \in DOMAIN queue /\ queue'[k] = queue[k])
                                                     \/ (s = "queue" /\ k = Len(queue) + 1 /\ queue'[k] = i)
    <2>1. queue \in Seq(Nat) /\ i \in Nat
        BY <1>1 DEF BrowserOK, BrowserTyped
    <2>2. CASE queue' = queue
        BY ONLY <2>1, <2>2
    <2>3. CASE s = "queue" /\ queue' = Append(queue, i)
        BY ONLY <2>1, <2>3
    <2> QED
        BY <2>2, <2>3
<1>3. BrowserTyped'
    BY <1>1, <1>2 DEF BrowserOK, BrowserTyped, Open, new
<1>4. CopiesOK'
    <2>1. \A k \in DOMAIN queue : queue[k] # i
        BY DEF BrowserOK, CopiesOK
    <2>2. \A k \in DOMAIN queue' : queue'[k] \in DOMAIN attempts /\ new[queue'[k]].at = "queue"
        <3> TAKE k \in DOMAIN queue'
        <3>1. CASE k \in DOMAIN queue /\ queue'[k] = queue[k]
            <4>1. queue[k] \in DOMAIN attempts /\ attempts[queue[k]].at = "queue" /\ queue[k] # i
                BY <2>1, <3>1 DEF BrowserOK, CopiesOK
            <4> QED
                BY <1>1, <3>1, <4>1
        <3>2. CASE s = "queue" /\ queue'[k] = i
            BY <1>1, <3>2
        <3> QED
            BY <1>2, <3>1, <3>2
    <2>3. \A k, l \in DOMAIN queue' : queue'[k] = queue'[l] => k = l
        BY <1>2, <2>1 DEF BrowserOK, CopiesOK
    <2> QED
        BY <1>1, <2>2, <2>3 DEF BrowserOK, CopiesOK, new
<1>5. \A c : Answered(c)' <=> Answered(c)
    BY <1>1 DEF Answered, new
<1>6. RecordsOK'
    BY <1>5 DEF BrowserOK, RecordsOK, Done
<1>7. TriesOK'
    BY <1>1 DEF BrowserOK, TriesOK, Unsent, new
<1>8. \A c \in DOMAIN clicks : Settled(c) => Settled(c)'
    BY <1>1 DEF Settled, RefusedForGood, new
<1>9. OutboxOK'
    BY <1>8 DEF BrowserOK, OutboxOK, Open
<1> QED
    BY <1>3, <1>4, <1>6, <1>7, <1>9 DEF BrowserOK

\* The first copy of the queue is answered: the change was made before, or is now, or is
\* refused (accountRequest of investments.mjs).
LEMMA CopyAnswered ==
    ASSUME BrowserOK, Browser!Serve
    PROVE  BrowserOK'
<1> DEFINE i == Head(queue)
           c == attempts[i].click
           new == attempts'
<1>1. /\ queue \in Seq(Nat) /\ attempts \in Seq(Sent) /\ clicks \in Seq(Clicks) /\ queue # <<>> /\ queue' = Tail(queue)
      /\ UNCHANGED <<signed, outbox, win, poll>>
    BY DEF BrowserOK, BrowserTyped, Browser!Serve
<1>2. 1 \in DOMAIN queue /\ i = queue[1]
    BY <1>1
<1>3. /\ queue' \in Seq(Nat) /\ \A k \in DOMAIN queue' : k + 1 \in DOMAIN queue /\ queue'[k] = queue[k + 1] /\ k # 0
                                                      /\ k \in Nat
    BY <1>1
<1>4. i \in DOMAIN attempts /\ attempts[i].at = "queue" /\ c \in DOMAIN clicks /\ attempts[i].id = <<c, 0>>
    BY <1>2 DEF BrowserOK, CopiesOK
<1>5. PICK s \in {"ok", "refused"} :
          /\ attempts' = [attempts EXCEPT ![i] = [attempts[i] EXCEPT !.at = s]]
          /\ \/ s = "ok" /\ Done(c) /\ UNCHANGED <<clicks, done>>
             \/ s = "ok" /\ ~Done(c) /\ done' = done \cup {<<c, 0>>}
                /\ clicks' = [clicks EXCEPT ![c] = [clicks[c] EXCEPT !.times = clicks[c].times + 1]]
             \/ s = "refused" /\ ~Done(c) /\ UNCHANGED <<clicks, done>>
    BY <1>4 DEF Browser!Serve, Done
<1>6. /\ new \in Seq(Sent) /\ DOMAIN new = DOMAIN attempts
      /\ \A j \in DOMAIN attempts : /\ new[j].click = attempts[j].click /\ new[j].id = attempts[j].id
                                    /\ new[j].at = IF j = i THEN s ELSE attempts[j].at
    <2>1. attempts[i] \in Sent
        BY <1>1, <1>4
    <2>2. [attempts[i] EXCEPT !.at = s] \in Sent
        BY <2>1 DEF Sent
    <2>3. /\ new \in Seq(Sent) /\ DOMAIN new = DOMAIN attempts /\ new[i] = [attempts[i] EXCEPT !.at = s]
          /\ \A j \in DOMAIN attempts : j # i => new[j] = attempts[j]
        <3> HIDE DEF new, i
        <3>1. new = [attempts EXCEPT ![i] = [attempts[i] EXCEPT !.at = s]]
            BY <1>5 DEF new
        <3> QED
            BY <1>1, <1>4, <2>2, <3>1
    <2> QED
        BY <1>1, <2>1, <2>3 DEF Sent
<1> HIDE DEF new, i, c
<1>7. /\ clicks' \in Seq(Clicks) /\ DOMAIN clicks' = DOMAIN clicks
      /\ \A d \in DOMAIN clicks : /\ clicks'[d].tries = clicks[d].tries /\ clicks'[d].told = clicks[d].told
                                  /\ clicks'[d].times = IF s = "ok" /\ ~Done(c) /\ d = c THEN clicks[d].times + 1
                                                                                    ELSE clicks[d].times
    <2>1. CASE UNCHANGED clicks /\ (s = "refused" \/ Done(c))
        BY <1>1, <2>1
    <2>2. CASE s = "ok" /\ ~Done(c) /\ clicks' = [clicks EXCEPT ![c] = [clicks[c] EXCEPT !.times = clicks[c].times + 1]]
        <3>1. clicks[c] \in Clicks
            BY <1>1, <1>4
        <3>2. [clicks[c] EXCEPT !.times = clicks[c].times + 1] \in Clicks
            BY <3>1 DEF Clicks
        <3>3. /\ clicks' \in Seq(Clicks) /\ DOMAIN clicks' = DOMAIN clicks
              /\ clicks'[c] = [clicks[c] EXCEPT !.times = clicks[c].times + 1]
              /\ \A d \in DOMAIN clicks : d # c => clicks'[d] = clicks[d]
            BY <1>1, <1>4, <2>2, <3>2
        <3> QED
            BY <2>2, <3>1, <3>3 DEF Clicks
    <2> QED
        BY <1>5, <2>1, <2>2
<1>8. \A d : Done(d)' <=> Done(d) \/ (s = "ok" /\ d = c)
    BY <1>5 DEF Done
<1>9. BrowserTyped'
    BY <1>1, <1>3, <1>6, <1>7 DEF BrowserOK, BrowserTyped, Open, new
<1>10. CopiesOK'
    <2>1. \A k \in DOMAIN queue' : queue'[k] # i
        BY <1>2, <1>3 DEF BrowserOK, CopiesOK
    <2>2. \A k \in DOMAIN queue' : queue'[k] \in DOMAIN attempts /\ new[queue'[k]].at = "queue"
        BY <1>3, <1>6, <2>1 DEF BrowserOK, CopiesOK
    <2>3. \A k, l \in DOMAIN queue' : queue'[k] = queue'[l] => k = l
        <3> SUFFICES ASSUME NEW k \in DOMAIN queue', NEW l \in DOMAIN queue', queue'[k] = queue'[l]
                     PROVE  k = l
            OBVIOUS
        <3>1. k + 1 = l + 1
            BY <1>3 DEF BrowserOK, CopiesOK
        <3> QED
            BY <1>3, <3>1
    <2> QED
        BY <1>6, <1>7, <2>2, <2>3 DEF BrowserOK, CopiesOK, new
<1>11. RecordsOK'
    <2>1. \A d : Answered(d)' <=> Answered(d) \/ (s = "ok" /\ d = c)
        <3>1. attempts[i].at # "ok" /\ attempts[i].click = c
            BY <1>4 DEF c
        <3> QED
            BY <1>4, <1>6, <3>1 DEF Answered, new
    <2>2. \A d \in DOMAIN clicks' : clicks'[d].times = IF Done(d)' THEN 1 ELSE 0
        BY <1>7, <1>8 DEF BrowserOK, RecordsOK
    <2>3. done \subseteq done'
        BY <1>5
    <2>4. (\A d \in DOMAIN clicks' : Done(d)' <=> Answered(d)') /\ (\A d \in Nat : Done(d)' => d \in DOMAIN clicks')
        BY <1>4, <1>7, <1>8, <2>1 DEF BrowserOK, RecordsOK
    <2>5. \A d \in DOMAIN clicks' : clicks'[d].told = "confirmed" => Done(d)'
        BY <1>7, <1>8 DEF BrowserOK, RecordsOK
    <2> QED
        BY <1>1, <2>2, <2>3, <2>4, <2>5 DEF BrowserOK, RecordsOK
<1>12. TriesOK'
    <2>1. TriesOK
        BY DEF BrowserOK
    <2>2. DOMAIN attempts' = DOMAIN attempts /\ \A j \in DOMAIN attempts : attempts'[j].click = attempts[j].click
        BY <1>6 DEF new
    <2>3. DOMAIN clicks' = DOMAIN clicks /\ \A d \in DOMAIN clicks : clicks'[d].tries = clicks[d].tries
        BY <1>7
    <2>4. win' = win
        BY <1>1
    <2> QED
        BY ONLY <2>1, <2>2, <2>3, <2>4 DEF TriesOK, Unsent
<1>13. \A d \in DOMAIN clicks : Settled(d) => Settled(d)'
    <2>1. \A d \in DOMAIN clicks : RefusedForGood(d) => RefusedForGood(d)'
        BY <1>4, <1>6 DEF RefusedForGood, new
    <2> QED
        BY <1>7, <2>1 DEF Settled
<1>14. OutboxOK'
    BY <1>1, <1>7, <1>13 DEF BrowserOK, OutboxOK, Open, BrowserTyped
<1> QED
    BY <1>9, <1>10, <1>11, <1>12, <1>14 DEF BrowserOK

\* A restart of the enclave loses the queue.
LEMMA QueueLost ==
    ASSUME BrowserOK, Browser!Restart
    PROVE  BrowserOK'
<1> DEFINE new == attempts'
<1>1. /\ attempts \in Seq(Sent) /\ queue' = <<>> /\ UNCHANGED <<signed, outbox, win, poll, clicks, done>>
      /\ new = [i \in DOMAIN attempts |->
                   IF attempts[i].at = "queue" THEN [attempts[i] EXCEPT !.at = "gone"] ELSE attempts[i]]
    BY DEF BrowserOK, BrowserTyped, Browser!Restart
<1>2. \A i \in DOMAIN attempts : attempts[i] \in Sent
    BY <1>1
<1> HIDE DEF new
<1>3. /\ new \in Seq(Sent) /\ DOMAIN new = DOMAIN attempts
      /\ \A j \in DOMAIN attempts : /\ new[j].click = attempts[j].click /\ new[j].id = attempts[j].id
                                    /\ new[j].at = IF attempts[j].at = "queue" THEN "gone" ELSE attempts[j].at
    <2>1. \A i \in DOMAIN attempts : [attempts[i] EXCEPT !.at = "gone"] \in Sent
        BY <1>2 DEF Sent
    <2>2. \A i \in DOMAIN attempts : new[i] = IF attempts[i].at = "queue" THEN [attempts[i] EXCEPT !.at = "gone"]
                                                                          ELSE attempts[i]
        BY <1>1
    <2>3. DOMAIN attempts = 1..Len(attempts) /\ Len(attempts) \in Nat
        BY <1>1
    <2>4. \A i \in DOMAIN attempts : new[i] \in Sent
        BY <1>2, <2>1, <2>2
    <2>5. new = [i \in 1..Len(attempts) |-> new[i]]
        BY <1>1, <2>3
    <2>6. new \in [1..Len(attempts) -> Sent]
        BY <2>3, <2>4, <2>5
    <2>7. new \in Seq(Sent) /\ DOMAIN new = DOMAIN attempts
        BY ONLY <2>3, <2>6
    <2>8. \A i \in DOMAIN attempts : attempts[i].at = "queue" =>
              /\ new[i].click = attempts[i].click /\ new[i].id = attempts[i].id /\ new[i].at = "gone"
        BY <1>2, <2>2 DEF Sent
    <2> QED
        BY <2>2, <2>7, <2>8
<1>4. BrowserTyped'
    BY <1>1, <1>3 DEF BrowserOK, BrowserTyped, Open, new
<1>5. \A c : Answered(c)' <=> Answered(c)
    BY <1>3 DEF Answered, new
<1>6. CopiesOK' /\ TriesOK'
    BY <1>1, <1>3 DEF BrowserOK, CopiesOK, TriesOK, Unsent, new
<1>7. RecordsOK'
    BY <1>1, <1>5 DEF BrowserOK, RecordsOK, Done
<1>8. OutboxOK'
    BY <1>1, <1>3 DEF BrowserOK, OutboxOK, Open, Settled, RefusedForGood, new
<1> QED
    BY <1>4, <1>6, <1>7, <1>8 DEF BrowserOK

\* Each step of the tab, the network and the server keeps the invariant.
LEMMA BrowserSteps ==
    ASSUME NoneIsNoClick, BrowserOK, [Browser!Next]_(Browser!vars)
    PROVE  BrowserOK'
<1>0. /\ clicks \in Seq(Clicks) /\ attempts \in Seq(Sent) /\ outbox \in DOMAIN clicks \cup {Null}
      /\ win = [at |-> win.at, click |-> win.click, attempt |-> win.attempt, same |-> win.same]
      /\ (win.at # "idle" => win.click \in DOMAIN clicks /\ outbox \in {win.click, Null})
      /\ (win.at = "wait" => win.attempt \in DOMAIN attempts /\ attempts[win.attempt].click = win.click)
    BY DEF BrowserOK, BrowserTyped, Open, OutboxOK
<1>1. CASE Browser!Click
    <2> DEFINE n == Len(clicks) + 1
               fresh == [tries |-> 1, told |-> "nothing", times |-> 0]
    <2>1. /\ win.at = "idle" /\ outbox = Null /\ clicks' = Append(clicks, fresh) /\ outbox' = Len(clicks')
          /\ win' = [at |-> "attest", click |-> Len(clicks'), attempt |-> Null, same |-> TRUE]
          /\ UNCHANGED <<poll, attempts, queue, done>>
        BY <1>1 DEF Browser!Click, Browser!Idle
    <2>2. fresh \in Clicks
        BY DEF Clicks, Told
    <2>3. /\ clicks' \in Seq(Clicks) /\ Len(clicks') = n /\ DOMAIN clicks' = DOMAIN clicks \cup {n}
          /\ clicks'[n] = fresh /\ n \notin DOMAIN clicks /\ n \in Nat
          /\ \A c \in DOMAIN clicks : clicks'[c] = clicks[c] /\ c \in Nat
        <3> HIDE DEF fresh
        <3> QED
            BY <1>0, <2>1, <2>2
    <2> HIDE DEF n
    <2>4. fresh.tries = 1 /\ fresh.told = "nothing" /\ fresh.times = 0
        OBVIOUS
    <2> HIDE DEF fresh
    <2>5. ~Done(n) /\ Unsent(n)
        BY <2>3 DEF BrowserOK, RecordsOK, CopiesOK, Unsent
    <2>6. BrowserTyped'
        BY <2>1, <2>3 DEF BrowserOK, BrowserTyped, Open
    <2>7. CopiesOK'
        BY <2>1, <2>3 DEF BrowserOK, CopiesOK
    <2>8. RecordsOK'
        BY <2>1, <2>3, <2>4, <2>5 DEF BrowserOK, RecordsOK, Done, Answered, Unsent
    <2>9. TriesOK'
        BY <2>1, <2>3, <2>5 DEF BrowserOK, TriesOK, Unsent
    <2>10. OutboxOK'
        <3>1. \A c \in DOMAIN clicks : Settled(c)
            BY <2>1, <2>3 DEF BrowserOK, OutboxOK, NoneIsNoClick
        <3>2. \A c \in DOMAIN clicks : Settled(c)'
            BY <2>1, <2>3, <3>1 DEF Settled, RefusedForGood
        <3> QED
            BY <2>1, <2>3, <3>2 DEF OutboxOK, Open
    <2> QED
        BY <2>6, <2>7, <2>8, <2>9, <2>10 DEF BrowserOK
<1>2. CASE Browser!Retry
    <2>1. /\ win.at = "idle" /\ outbox # Null /\ clicks' = [clicks EXCEPT ![outbox] = [clicks[outbox] EXCEPT !.tries = 2]]
          /\ win' = [at |-> "attest", click |-> outbox, attempt |-> Null, same |-> TRUE]
          /\ UNCHANGED <<outbox, poll, attempts, queue, done>>
        BY <1>2 DEF Browser!Retry, Browser!Idle
    <2>2. outbox \in DOMAIN clicks /\ clicks[outbox] \in Clicks
        BY <1>0, <2>1
    <2>3. [clicks[outbox] EXCEPT !.tries = 2] \in Clicks
        BY <2>2 DEF Clicks
    <2>4. /\ clicks' \in Seq(Clicks) /\ DOMAIN clicks' = DOMAIN clicks
          /\ clicks'[outbox] = [clicks[outbox] EXCEPT !.tries = 2]
          /\ \A c \in DOMAIN clicks : c # outbox => clicks'[c] = clicks[c]
        BY <1>0, <2>1, <2>2, <2>3
    <2>5. \A c \in DOMAIN clicks : /\ clicks'[c].told = clicks[c].told /\ clicks'[c].times = clicks[c].times
                                  /\ clicks'[c].tries = IF c = outbox THEN 2 ELSE clicks[c].tries
        BY <2>2, <2>4 DEF Clicks
    <2>6. BrowserTyped' /\ CopiesOK'
        BY <2>1, <2>2, <2>4 DEF BrowserOK, BrowserTyped, CopiesOK, Open
    <2>7. RecordsOK'
        BY <2>1, <2>4, <2>5 DEF BrowserOK, RecordsOK, Done, Answered
    <2>8. TriesOK'
        BY <2>1, <2>4, <2>5 DEF BrowserOK, TriesOK, Unsent
    <2>9. OutboxOK'
        BY <2>1, <2>2, <2>4, <2>5 DEF BrowserOK, OutboxOK, Open, Settled, RefusedForGood
    <2> QED
        BY <2>6, <2>7, <2>8, <2>9 DEF BrowserOK
<1>3. CASE Browser!Unattested
    <2>1. /\ win.at = "attest" /\ outbox' = Null /\ clicks' = Browser!Told(win.click, "refused") /\ win' = Browser!Idle
          /\ UNCHANGED <<poll, attempts, queue, done>>
        BY <1>3 DEF Browser!Unattested
    <2>2. win.click \in DOMAIN clicks /\ outbox \in {win.click, Null} /\ clicks[win.click] \in Clicks
        BY <1>0, <2>1
    <2>3. clicks[win.click].tries > 1 \/ RefusedForGood(win.click)
        <3>1. clicks[win.click].tries \in 1..2
            BY <2>2 DEF Clicks
        <3>2. clicks[win.click].tries = 1 => Unsent(win.click)
            BY <2>1, <2>2 DEF BrowserOK, TriesOK
        <3> QED
            BY <3>1, <3>2 DEF Unsent, RefusedForGood
    <2> DEFINE c == win.click
    <2>4. /\ c \in DOMAIN clicks /\ outbox \in {c, Null} /\ clicks' = Browser!Told(c, "refused")
          /\ (clicks[c].tries > 1 \/ RefusedForGood(c))
        BY <2>1, <2>2, <2>3
    <2> HIDE DEF c
    <2> QED
        BY <2>1, <2>4, BrowserTells
<1>4. CASE Browser!Sends
    <2> DEFINE n == Len(attempts) + 1
               copy == [click |-> win.click, id |-> <<win.click, 0>>, at |-> "wire"]
    <2>1. /\ win.at = "attest" /\ attempts' = Append(attempts, copy)
          /\ win' = [at |-> "wait", click |-> win.click, attempt |-> Len(attempts'), same |-> win.same]
          /\ UNCHANGED <<outbox, poll, clicks, queue, done>>
        BY <1>0, <1>4 DEF Browser!Sends, Browser!RequestId
    <2>2. win.click \in DOMAIN clicks /\ win.click \in Nat
        BY <1>0, <2>1
    <2>3. copy \in Sent
        BY <2>2 DEF Sent
    <2>4. copy.click = win.click /\ copy.id = <<win.click, 0>> /\ copy.at = "wire"
        OBVIOUS
    <2> HIDE DEF copy
    <2>5. /\ attempts' \in Seq(Sent) /\ Len(attempts') = n /\ DOMAIN attempts' = DOMAIN attempts \cup {n}
          /\ attempts'[n] = copy /\ n \notin DOMAIN attempts /\ n \in Nat
          /\ \A i \in DOMAIN attempts : attempts'[i] = attempts[i]
        BY <1>0, <2>1, <2>3
    <2> HIDE DEF n
    <2>6. BrowserTyped'
        BY <2>1, <2>2, <2>4, <2>5 DEF BrowserOK, BrowserTyped, Open
    <2>7. CopiesOK'
        BY <2>1, <2>2, <2>4, <2>5 DEF BrowserOK, CopiesOK
    <2>8. \A c : Answered(c)' <=> Answered(c)
        BY <2>4, <2>5 DEF Answered
    <2>9. RecordsOK'
        BY <2>1, <2>8 DEF BrowserOK, RecordsOK, Done
    <2>10. TriesOK'
        <3> SUFFICES ASSUME NEW c \in DOMAIN clicks, clicks[c].tries = 1,
                            NEW i \in DOMAIN attempts', NEW j \in DOMAIN attempts',
                            attempts'[i].click = c, attempts'[j].click = c
                     PROVE  i = j
            BY <2>1 DEF TriesOK
        <3>1. CASE c = win.click
            <4>1. Unsent(c)
                BY <2>1, <3>1 DEF BrowserOK, TriesOK
            <4> QED
                BY <2>5, <4>1 DEF Unsent
        <3>2. CASE c # win.click
            BY <2>4, <2>5, <3>2 DEF BrowserOK, TriesOK
        <3> QED
            BY <3>1, <3>2
    <2>11. OutboxOK'
        <3>1. outbox = win.click \/ clicks[win.click].told = "confirmed"
            BY <2>1 DEF BrowserOK, OutboxOK, Open
        <3>2. \A c \in DOMAIN clicks : c # win.click /\ Settled(c) => Settled(c)'
            BY <2>1, <2>4, <2>5 DEF Settled, RefusedForGood
        <3>3. clicks[win.click].told = "confirmed" => Settled(win.click)'
            BY <2>1 DEF Settled
        <3> QED
            BY <2>1, <2>2, <3>1, <3>2, <3>3 DEF BrowserOK, OutboxOK, Open
    <2> QED
        BY <2>6, <2>7, <2>9, <2>10, <2>11 DEF BrowserOK
<1>5. CASE Browser!Confirmed
    <2>1. /\ win.at = "wait" /\ attempts[win.attempt].at = "ok" /\ outbox' = Null /\ win' = Browser!Idle
          /\ clicks' = Browser!Told(win.click, "confirmed") /\ UNCHANGED <<poll, attempts, queue, done>>
        BY <1>5 DEF Browser!Confirmed
    <2> DEFINE c == win.click
    <2>2. /\ c \in DOMAIN clicks /\ outbox \in {c, Null} /\ clicks' = Browser!Told(c, "confirmed")
          /\ Answered(c)
        BY <1>0, <2>1 DEF Answered
    <2> HIDE DEF c
    <2>3. Done(c)
        BY <2>2 DEF BrowserOK, RecordsOK
    <2> QED
        BY <2>1, <2>2, <2>3, BrowserTells
<1>6. CASE Browser!Refused
    <2>1. /\ win.at = "wait" /\ attempts[win.attempt].at = "refused" /\ outbox' = Null /\ win' = Browser!Idle
          /\ clicks' = Browser!Told(win.click, "refused") /\ UNCHANGED <<poll, attempts, queue, done>>
        BY <1>6 DEF Browser!Refused
    <2> DEFINE c == win.click
               a == win.attempt
    <2>2. /\ c \in DOMAIN clicks /\ outbox \in {c, Null} /\ clicks' = Browser!Told(c, "refused")
          /\ a \in DOMAIN attempts /\ attempts[a].click = c /\ attempts[a].at = "refused" /\ clicks[c] \in Clicks
        BY <1>0, <2>1
    <2> HIDE DEF c, a
    <2>3. clicks[c].tries > 1 \/ RefusedForGood(c)
        <3>1. clicks[c].tries \in 1..2
            BY <2>2 DEF Clicks
        <3>2. clicks[c].tries = 1 => RefusedForGood(c)
            BY <2>2 DEF BrowserOK, TriesOK, RefusedForGood
        <3> QED
            BY <3>1, <3>2
    <2> QED
        BY <2>1, <2>2, <2>3, BrowserTells
<1>7. CASE Browser!ShowPortfolio
    <2>1. poll # Null /\ poll' = Null /\ UNCHANGED <<win, attempts, queue, done>>
        BY <1>7 DEF Browser!ShowPortfolio
    <2>2. CASE outbox # Null /\ <<outbox, 0>> \in poll /\ outbox' = Null /\ clicks' = Browser!Told(outbox, "confirmed")
        <3>1. outbox \in DOMAIN clicks
            BY <1>0, <2>2
        <3>2. Done(outbox)
            BY <2>1, <2>2 DEF BrowserOK, RecordsOK, Done
        <3> QED
            BY <2>1, <2>2, <3>1, <3>2, BrowserTells
    <2>3. CASE UNCHANGED <<outbox, clicks>>
        BY <2>1, <2>3, BrowserGoesOn
    <2> QED
        BY <1>7, <2>2, <2>3 DEF Browser!ShowPortfolio
<1>8. ASSUME NEW i \in DOMAIN attempts, Browser!CheckFails(i) \/ Browser!Enqueue(i) \/ Browser!Lose(i)
      PROVE  BrowserOK'
    BY <1>8, CopyMoves DEF Browser!CheckFails, Browser!Enqueue, Browser!Lose
<1>9. ASSUME Browser!NoAnswer \/ Browser!Changed \/ Browser!Login \/ Browser!Reload \/ Browser!ReadPortfolio
             \/ UNCHANGED Browser!vars
      PROVE  BrowserOK'
    BY <1>9, BrowserGoesOn
    DEF Browser!NoAnswer, Browser!Uncertain, Browser!Changed, Browser!Login, Browser!Reload, Browser!ReadPortfolio,
        Browser!vars
<1>10. CASE Browser!Logout
    <2>1. win' = [win EXCEPT !.same = win'.same] /\ poll' = Null /\ UNCHANGED <<outbox, clicks, attempts, queue, done>>
        BY <1>0, <1>10 DEF Browser!Logout
    <2> QED
        BY <2>1, BrowserGoesOn
<1> QED
    BY <1>1, <1>2, <1>3, <1>4, <1>5, <1>6, <1>7, <1>8, <1>9, <1>10, CopyAnswered, QueueLost DEF Browser!Next

\* However often the tab, its user or the network repeats, loses or delays it, what was
\* asked once is done at most once, and what was done is confirmed, in the outbox, or was
\* refused when it was tried again: for any number of clicks and copies
\* (privateRequest of PlatformContext.jsx, accountRequest of investments.mjs).
THEOREM AskedIsDoneOnce ==
    ASSUME NoneIsNoClick
    PROVE  Browser!Init /\ [][Browser!Next]_(Browser!vars) => [](Browser!AskedOnceDoneOnce /\ Browser!MadeIsKnown)
<1>1. Browser!Init => BrowserOK
    BY BrowserStarts
<1>2. BrowserOK /\ [Browser!Next]_(Browser!vars) => BrowserOK'
    BY BrowserSteps
<1>3. BrowserOK => Browser!AskedOnceDoneOnce /\ Browser!MadeIsKnown
    <2> SUFFICES ASSUME BrowserOK PROVE Browser!AskedOnceDoneOnce /\ Browser!MadeIsKnown
        OBVIOUS
    <2>1. Browser!AskedOnceDoneOnce
        BY DEF BrowserOK, RecordsOK, Browser!AskedOnceDoneOnce
    <2>2. ASSUME NEW c \in DOMAIN clicks, clicks[c].times > 0, RefusedForGood(c)
          PROVE  FALSE
        BY <2>2 DEF BrowserOK, RecordsOK, Answered, RefusedForGood
    <2>3. Browser!MadeIsKnown
        BY <2>2 DEF BrowserOK, OutboxOK, Settled, Browser!MadeIsKnown
    <2> QED
        BY <2>1, <2>3
<1> QED
    BY <1>1, <1>2, <1>3, PTL

-------------------------------------------------------------------------------
(* Whose money it is. *)

NoneIsNobody == Null \notin Users \cup Wallets \cup Names

Kinds == {"credentials", "strategist", "key", "prepare", "complete", "strategy"}
Topup == [user : Users, wallet : Wallets, id : Nat, status : {"PREPARED", "PAID", "CONFIRMED"}]
ReadTyped(r) ==
    /\ {"kind", "user", "wallet", "arg", "bound"} \subseteq DOMAIN r
    /\ r.kind \in Kinds /\ r.user \in Users /\ r.bound \in BOOLEAN
    /\ r.kind = "credentials" => r.arg \in Names
    /\ r.kind = "prepare" => r.arg \in Wallets
AccountsTyped ==
    /\ accounts \in [Users -> [exists : BOOLEAN, name : Names \cup {Null}]]
    /\ owner \in [Wallets -> Users \cup {Null}] /\ DOMAIN strategists \subseteq Users
    /\ strategists = [u \in DOMAIN strategists |-> strategists[u]]
    /\ named \subseteq Users \X Names /\ refills \subseteq Topup
    /\ \A r \in reads : ReadTyped(r)

\* A wallet of nobody, or of the account.
OwnOrNone(u, w) == w = Null \/ (w \in Wallets /\ owner[w] = u)
\* An account has one wallet; its rows and its requests have that or none.
OneWallet == \A v, w \in Wallets : (owner[v] = owner[w] /\ owner[v] # Null) => v = w
RowsOwn ==
    /\ \A u \in DOMAIN strategists : OwnOrNone(u, strategists[u])
    /\ \A row \in strategies \cup keys : row.user \in Users /\ OwnOrNone(row.user, row.wallet)
    /\ \A r \in reads : OwnOrNone(r.user, r.wallet)
    /\ \A s \in strategies : s = [slug |-> s.slug, user |-> s.user, wallet |-> s.wallet, status |-> s.status]
                             /\ s.status \in {"DRAFT", "FUNDING"} /\ (s.status = "FUNDING" <=> s.wallet # Null)
    /\ \A k \in keys : k = [user |-> k.user, wallet |-> k.wallet]

\* A deposit keeps its number, its account and its wallet; whoever completes it owns it,
\* and its wallet from when it is linked.
Numbered ==
    /\ IsFiniteSet(refills)
    /\ \A x \in refills : x.id \in 1..Cardinality(refills)
    /\ \A x, y \in refills : x.id = y.id => x = y
CompletedBy(r, x) == x.id = r.arg /\ x.user = r.user /\ (r.bound => owner[x.wallet] = r.user)
CompletionsOK == \A r \in reads : r.kind = "complete" => \E x \in refills : CompletedBy(r, x)

\* Without an account there are no credentials, and nothing else.
NamesOK == \A u \in Users : ~accounts[u].exists => accounts[u].name = Null
ExistOK ==
    /\ \A w \in Wallets : owner[w] # Null => accounts[owner[w]].exists
    /\ \A r \in reads : accounts[r.user].exists
    /\ \A u \in DOMAIN strategists : accounts[u].exists

AccountsOK ==
    /\ AccountsTyped /\ OneWallet /\ RowsOwn /\ Numbered /\ CompletionsOK /\ NamesOK /\ ExistOK
    /\ Accounts!CreditedToItsAccount /\ Accounts!CredentialsStay

\* The wallet of an account is the one that is linked to it (LEFT JOIN wallets).
LEMMA WalletIsLinked ==
    ASSUME NoneIsNobody, AccountsOK, NEW u \in Users
    PROVE  /\ Accounts!WalletOf(u) \in Wallets \cup {Null} /\ OwnOrNone(u, Accounts!WalletOf(u))
           /\ \A w \in Wallets : owner[w] = u => Accounts!WalletOf(u) = w
<1>1. CASE \E w \in Wallets : owner[w] = u
    <2>1. Accounts!WalletOf(u) \in Wallets /\ owner[Accounts!WalletOf(u)] = u
        <3>1. PICK w \in Wallets : owner[w] = u
            BY <1>1
        <3> QED
            BY <1>1, <3>1 DEF Accounts!WalletOf
    <2> QED
        BY <2>1 DEF NoneIsNobody, AccountsOK, OneWallet, OwnOrNone
<1>2. CASE ~ \E w \in Wallets : owner[w] = u
    BY <1>2 DEF Accounts!WalletOf, OwnOrNone
<1> QED
    BY <1>1, <1>2

\* A link stays.
LinksStay == \A w \in Wallets : owner[w] # Null => owner'[w] = owner[w]

\* Nobody has an account.
LEMMA AccountsStart ==
    ASSUME NoneIsNobody, Accounts!Init
    PROVE  AccountsOK
<1>1. AccountsTyped /\ OneWallet /\ RowsOwn /\ CompletionsOK /\ NamesOK /\ ExistOK
    BY DEF Accounts!Init, Accounts!NoAccount, AccountsTyped, OneWallet, RowsOwn, CompletionsOK, NamesOK, ExistOK
<1>2. Numbered
    BY FS_EmptySet DEF Accounts!Init, Numbered
<1>3. Accounts!CreditedToItsAccount /\ Accounts!CredentialsStay
    BY DEF Accounts!Init, Accounts!CreditedToItsAccount, Accounts!CredentialsStay
<1> QED
    BY <1>1, <1>2, <1>3 DEF AccountsOK

\* The deposit a request completes is the one of its number (IntentOf).
LEMMA CompletesItsDeposit ==
    ASSUME AccountsOK, NEW r \in reads, r.kind = "complete"
    PROVE  Accounts!IntentOf(r) \in refills /\ CompletedBy(r, Accounts!IntentOf(r))
<1>1. PICK x \in refills : CompletedBy(r, x)
    BY DEF AccountsOK, CompletionsOK
<1>2. \A y \in refills : y.id = r.arg => y = x
    BY <1>1 DEF AccountsOK, Numbered, CompletedBy
<1>3. Accounts!IntentOf(r) = x
    BY <1>1, <1>2 DEF Accounts!IntentOf, CompletedBy
<1> QED
    BY <1>1, <1>3

\* Credentials are chosen once (register and setCredentials): what a step does to accounts.
LEMMA NamesKept ==
    ASSUME AccountsOK, NEW u \in Users, NEW a \in [exists : BOOLEAN, name : Names \cup {Null}],
           accounts' = [accounts EXCEPT ![u] = a],
           a.exists,
           \/ a.name = accounts[u].name /\ named' = named
           \/ a.name \in Names /\ accounts[u].name = Null /\ named' = named \cup {<<u, a.name>>},
           NoneIsNobody
    PROVE  /\ accounts' \in [Users -> [exists : BOOLEAN, name : Names \cup {Null}]]
           /\ named' \subseteq Users \X Names /\ NamesOK' /\ Accounts!CredentialsStay'
           /\ \A v \in Users : accounts[v].exists => accounts'[v].exists
<1>1. /\ accounts \in [Users -> [exists : BOOLEAN, name : Names \cup {Null}]] /\ named \subseteq Users \X Names
      /\ NamesOK /\ Accounts!CredentialsStay
    BY DEF AccountsOK, AccountsTyped
<1>2. accounts'[u] = a /\ \A v \in Users : v # u => accounts'[v] = accounts[v]
    BY <1>1
<1>3. accounts' \in [Users -> [exists : BOOLEAN, name : Names \cup {Null}]] /\ named' \subseteq Users \X Names
    BY <1>1
<1>4. NamesOK'
    BY <1>1, <1>2 DEF NamesOK
<1>5. ASSUME NEW n \in named'
      PROVE  accounts'[n[1]].name = n[2]
    <2>1. CASE n \in named
        <3>1. accounts[n[1]].name = n[2] /\ n[1] \in Users /\ n[2] \in Names
            BY <1>1, <2>1 DEF Accounts!CredentialsStay
        <3>2. n[1] = u => a.name = accounts[u].name
            BY <3>1 DEF NoneIsNobody
        <3> QED
            BY <1>2, <3>1, <3>2
    <2>2. CASE n = <<u, a.name>>
        BY <1>2, <2>2
    <2> QED
        BY <1>5, <2>1, <2>2
<1> QED
    BY <1>2, <1>3, <1>4, <1>5 DEF Accounts!CredentialsStay

\* The count the model uses.
LEMMA SameNumber == ASSUME NEW S PROVE Accounts!Cardinality(S) = Cardinality(S)
BY DEF Accounts!Cardinality, Cardinality

\* A deposit gets a number of its own (prepare).
LEMMA DepositAdded ==
    ASSUME AccountsOK, NEW u \in Users, NEW w \in Wallets,
           refills' = refills \cup {[user |-> u, wallet |-> w, id |-> Accounts!Cardinality(refills) + 1,
                                     status |-> "PREPARED"]},
           UNCHANGED owner, reads' \subseteq reads
    PROVE  refills' \subseteq Topup /\ Numbered' /\ CompletionsOK' /\ Accounts!CreditedToItsAccount'
<1> DEFINE n == Cardinality(refills)
           x == [user |-> u, wallet |-> w, id |-> n + 1, status |-> "PREPARED"]
<1>1. refills \subseteq Topup /\ Numbered /\ CompletionsOK /\ Accounts!CreditedToItsAccount
    BY DEF AccountsOK, AccountsTyped
<1>2. IsFiniteSet(refills) /\ n \in Nat /\ \A y \in refills : y.id \in 1..n
    BY <1>1, FS_CardinalityType DEF Numbered
<1>3. x \in Topup /\ x.id = n + 1 /\ x.status = "PREPARED" /\ refills' = refills \cup {x}
    BY <1>2, SameNumber DEF Topup
<1> HIDE DEF x
<1>4. x \notin refills
    BY <1>2, <1>3
<1>5. IsFiniteSet(refills') /\ Cardinality(refills') = n + 1
    <2>1. IsFiniteSet(refills)
        BY <1>2
    <2>2. IsFiniteSet(refills \cup {x}) /\ Cardinality(refills \cup {x}) = Cardinality(refills) + 1
        BY ONLY <2>1, <1>4, FS_AddElement
    <2>3. refills' = refills \cup {x}
        BY <1>3
    <2> QED
        BY ONLY <2>2, <2>3
<1> HIDE DEF n
<1>6. \A y \in refills' : y.id \in 1..(n + 1)
    BY <1>2, <1>3
<1>7. \A y, z \in refills' : y.id = z.id => y = z
    <2>1. \A y \in refills : y.id # n + 1
        BY <1>2
    <2> QED
        BY <1>1, <1>3, <2>1 DEF Numbered
<1>8. Numbered'
    BY <1>5, <1>6, <1>7 DEF Numbered
<1>9. CompletionsOK'
    BY <1>1, <1>3 DEF CompletionsOK, CompletedBy
<1>10. Accounts!CreditedToItsAccount'
    BY <1>1, <1>3 DEF Accounts!CreditedToItsAccount
<1> QED
    BY <1>1, <1>3, <1>8, <1>9, <1>10

\* A deposit is paid, or confirmed when its wallet is the account's.
LEMMA DepositMoves ==
    ASSUME AccountsOK, NEW x \in refills, NEW s \in {"PAID", "CONFIRMED"},
           refills' = (refills \ {x}) \cup {[x EXCEPT !.status = s]},
           s = "CONFIRMED" => owner[x.wallet] = x.user,
           UNCHANGED owner, reads' \subseteq reads
    PROVE  refills' \subseteq Topup /\ Numbered' /\ CompletionsOK' /\ Accounts!CreditedToItsAccount'
<1> DEFINE n == Cardinality(refills)
           y == [x EXCEPT !.status = s]
           rest == refills \ {x}
<1>1. refills \subseteq Topup /\ Numbered /\ CompletionsOK /\ Accounts!CreditedToItsAccount
    BY DEF AccountsOK, AccountsTyped
<1>2. IsFiniteSet(refills) /\ n \in Nat /\ \A z \in refills : z.id \in 1..n
    BY <1>1, FS_CardinalityType DEF Numbered
<1>3. y \in Topup /\ y.id = x.id /\ y.status = s /\ y.user = x.user /\ y.wallet = x.wallet /\ refills' = rest \cup {y}
    BY <1>1 DEF Topup
<1> HIDE DEF y
<1>4. y \notin rest
    BY <1>1, <1>3 DEF Numbered
<1>5. IsFiniteSet(rest) /\ Cardinality(rest) = n - 1
    BY <1>2, FS_RemoveElement
<1> HIDE DEF n
<1>6. IsFiniteSet(refills') /\ Cardinality(refills') = n
    <2>1. IsFiniteSet(rest \cup {y}) /\ Cardinality(rest \cup {y}) = Cardinality(rest) + 1
        BY <1>4, <1>5, FS_AddElement
    <2>2. Cardinality(rest) + 1 = n
        BY ONLY <1>2, <1>5
    <2> QED
        BY ONLY <1>3, <2>1, <2>2
<1>7. \A z \in refills' : z.id \in 1..n
    BY <1>2, <1>3
<1>8. \A v, z \in refills' : v.id = z.id => v = z
    BY <1>1, <1>3 DEF Numbered
<1>9. Numbered'
    BY <1>6, <1>7, <1>8 DEF Numbered
<1>10. CompletionsOK'
    <2> SUFFICES ASSUME NEW r \in reads, r.kind = "complete"
                 PROVE  \E z \in refills' : CompletedBy(r, z)
        BY DEF CompletionsOK, CompletedBy
    <2>1. PICK z \in refills : CompletedBy(r, z)
        BY <1>1 DEF CompletionsOK
    <2> QED
        BY <1>3, <2>1 DEF CompletedBy
<1>11. Accounts!CreditedToItsAccount'
    BY <1>1, <1>3 DEF Accounts!CreditedToItsAccount
<1> QED
    BY <1>1, <1>3, <1>9, <1>10, <1>11

\* What a request has read when it begins.
LEMMA ReadBegins ==
    ASSUME NoneIsNobody, AccountsOK, NEW r, ReadTyped(r), OwnOrNone(r.user, r.wallet), ~r.bound, accounts[r.user].exists,
           r.kind = "complete" => \E x \in refills : x.id = r.arg /\ x.user = r.user,
           reads' = reads \cup {r}, UNCHANGED <<accounts, owner, strategists, strategies, keys, refills, named>>
    PROVE  AccountsOK'
<1>1. AccountsTyped' /\ OneWallet' /\ RowsOwn' /\ Numbered' /\ NamesOK' /\ ExistOK'
    BY DEF AccountsOK, AccountsTyped, ReadTyped, OneWallet, RowsOwn, OwnOrNone, Numbered, NamesOK, ExistOK
<1>2. CompletionsOK'
    BY DEF AccountsOK, CompletionsOK, CompletedBy
<1> QED
    BY <1>1, <1>2 DEF AccountsOK, Accounts!CreditedToItsAccount, Accounts!CredentialsStay

\* A wallet is linked: an account has no other, and no other account has it (verify and
\* bindWallet).
LEMMA WalletLinked ==
    ASSUME NoneIsNobody, AccountsOK, NEW u \in Users, NEW w \in Wallets,
           owner[w] \in {Null, u}, \A v \in Wallets : owner[v] = u => v = w,
           owner' = IF owner[w] = Null THEN [owner EXCEPT ![w] = u] ELSE owner
    PROVE  /\ owner' \in [Wallets -> Users \cup {Null}] /\ owner'[w] = u /\ OneWallet' /\ LinksStay
<1>1. owner \in [Wallets -> Users \cup {Null}] /\ OneWallet
    BY DEF AccountsOK, AccountsTyped
<1>2. owner'[w] = u /\ \A v \in Wallets : v # w => owner'[v] = owner[v]
    BY <1>1
<1>3. OneWallet' /\ LinksStay
    BY <1>1, <1>2 DEF OneWallet, LinksStay, NoneIsNobody
<1> QED
    BY <1>1, <1>2, <1>3

\* Each step keeps the invariant; what a request read before is still so when it uses it, or
\* is looked at again.
LEMMA AccountsKept ==
    ASSUME NoneIsNobody, AccountsOK, [Accounts!Next]_(Accounts!vars)
    PROVE  AccountsOK'
<1>0. /\ AccountsTyped /\ OneWallet /\ RowsOwn /\ Numbered /\ CompletionsOK /\ NamesOK /\ ExistOK
      /\ Accounts!CreditedToItsAccount /\ Accounts!CredentialsStay
    BY DEF AccountsOK
<1> USE DEF Accounts!Database
<1>n. /\ accounts \in [Users -> [exists : BOOLEAN, name : Names \cup {Null}]] /\ named \subseteq Users \X Names
      /\ owner \in [Wallets -> Users \cup {Null}] /\ DOMAIN strategists \subseteq Users /\ refills \subseteq Topup
      /\ strategists = [u \in DOMAIN strategists |-> strategists[u]] /\ \A r \in reads : ReadTyped(r) /\ r.user \in Users
    BY <1>0 DEF AccountsTyped, ReadTyped
\* Steps that change accounts only.
<1>a. ASSUME NEW u \in Users, NEW a \in [exists : BOOLEAN, name : Names \cup {Null}], a.exists,
             accounts' = [accounts EXCEPT ![u] = a],
             \/ a.name = accounts[u].name /\ named' = named
             \/ a.name \in Names /\ accounts[u].name = Null /\ named' = named \cup {<<u, a.name>>},
             UNCHANGED <<owner, strategists, strategies, keys, refills>>, reads' \subseteq reads
      PROVE  AccountsOK'
    <2>1. /\ accounts' \in [Users -> [exists : BOOLEAN, name : Names \cup {Null}]]
          /\ named' \subseteq Users \X Names /\ NamesOK' /\ Accounts!CredentialsStay'
          /\ \A v \in Users : accounts[v].exists => accounts'[v].exists
        BY <1>a, NamesKept
    <2>2. AccountsTyped' /\ OneWallet' /\ Numbered' /\ CompletionsOK' /\ Accounts!CreditedToItsAccount'
        BY <1>0, <1>a, <2>1
        DEF AccountsTyped, ReadTyped, OneWallet, Numbered, CompletionsOK, CompletedBy, Accounts!CreditedToItsAccount
    <2>3. RowsOwn'
        BY <1>0, <1>a DEF RowsOwn, OwnOrNone
    <2>4. ExistOK'
        BY <1>0, <1>n, <1>a, <2>1 DEF ExistOK, NoneIsNobody
    <2> QED
        BY <2>1, <2>2, <2>3, <2>4 DEF AccountsOK
\* Steps that change rows only.
<1>b. ASSUME RowsOwn', DOMAIN strategists' \subseteq Users, strategists' = [u \in DOMAIN strategists' |-> strategists'[u]],
             \A u \in DOMAIN strategists' : accounts[u].exists,
             UNCHANGED <<accounts, owner, refills, named>>, reads' \subseteq reads
      PROVE  AccountsOK'
    <2>1. AccountsTyped' /\ OneWallet' /\ Numbered' /\ CompletionsOK' /\ Accounts!CreditedToItsAccount'
        BY <1>0, <1>b
        DEF AccountsTyped, ReadTyped, OneWallet, Numbered, CompletionsOK, CompletedBy, Accounts!CreditedToItsAccount
    <2>2. NamesOK' /\ ExistOK' /\ Accounts!CredentialsStay'
        BY <1>0, <1>b DEF NamesOK, ExistOK, Accounts!CredentialsStay
    <2> QED
        BY <1>b, <2>1, <2>2 DEF AccountsOK
\* Steps that change deposits only.
<1>c. ASSUME refills' \subseteq Topup, Numbered', CompletionsOK', Accounts!CreditedToItsAccount',
             UNCHANGED <<accounts, owner, strategists, strategies, keys, named>>, reads' \subseteq reads
      PROVE  AccountsOK'
    <2>1. AccountsTyped' /\ OneWallet' /\ RowsOwn'
        BY <1>0, <1>c DEF AccountsTyped, ReadTyped, OneWallet, RowsOwn, OwnOrNone
    <2>2. NamesOK' /\ ExistOK' /\ Accounts!CredentialsStay'
        BY <1>0, <1>c DEF NamesOK, ExistOK, Accounts!CredentialsStay
    <2> QED
        BY <1>c, <2>1, <2>2 DEF AccountsOK
<1>1. ASSUME NEW u \in Users, NEW name \in Names, Accounts!Register(u, name)
      PROVE  AccountsOK'
    <2> DEFINE a == [exists |-> TRUE, name |-> name]
    <2>1. /\ ~accounts[u].exists /\ accounts' = [accounts EXCEPT ![u] = a]
          /\ named' = named \cup {<<u, name>>} /\ UNCHANGED <<owner, strategists, strategies, keys, reads, refills>>
        BY <1>1 DEF Accounts!Register
    <2>2. a \in [exists : BOOLEAN, name : Names \cup {Null}] /\ a.exists /\ a.name = name /\ accounts[u].name = Null
        BY <1>0, <2>1 DEF NamesOK
    <2> HIDE DEF a
    <2> QED
        BY <1>a, <2>1, <2>2
<1>2. ASSUME NEW w \in Wallets, NEW u \in Users, Accounts!Verify(w, u)
      PROVE  AccountsOK'
    <2> DEFINE a == [accounts[u] EXCEPT !.exists = TRUE]
    <2>1. /\ owner[w] = Null /\ ~accounts[u].exists /\ owner' = [owner EXCEPT ![w] = u]
          /\ accounts' = [accounts EXCEPT ![u] = a]
          /\ UNCHANGED <<strategists, strategies, keys, reads, refills, named>>
        BY <1>2 DEF Accounts!Verify
    <2>2. a \in [exists : BOOLEAN, name : Names \cup {Null}] /\ a.exists /\ a.name = accounts[u].name
        BY <1>n
    <2> HIDE DEF a
    <2>3. /\ accounts' \in [Users -> [exists : BOOLEAN, name : Names \cup {Null}]]
          /\ named' \subseteq Users \X Names /\ NamesOK' /\ Accounts!CredentialsStay'
          /\ \A v \in Users : accounts[v].exists => accounts'[v].exists
        BY <2>1, <2>2, NamesKept
    <2>4. \A v \in Wallets : owner[v] = u => v = w
        BY <1>0, <2>1 DEF ExistOK, NoneIsNobody
    <2>5. owner' \in [Wallets -> Users \cup {Null}] /\ owner'[w] = u /\ OneWallet' /\ LinksStay
        BY <2>1, <2>4, WalletLinked
    <2>6. AccountsTyped'
        BY <1>0, <2>1, <2>3, <2>5 DEF AccountsTyped, ReadTyped
    <2>7. RowsOwn'
        <3>1. \A v \in Users, x \in Wallets \cup {Null} : OwnOrNone(v, x) => OwnOrNone(v, x)'
            BY <2>5 DEF LinksStay, OwnOrNone, NoneIsNobody
        <3> QED
            BY <1>0, <1>n, <2>1, <2>5, <3>1 DEF RowsOwn, OwnOrNone, LinksStay, NoneIsNobody
    <2>8. Numbered' /\ CompletionsOK' /\ Accounts!CreditedToItsAccount'
        <3>1. \A x \in refills : x.wallet \in Wallets /\ x.user \in Users
            BY <1>n DEF Topup
        <3> QED
            BY <1>0, <1>n, <2>1, <2>5, <3>1
            DEF Numbered, CompletionsOK, CompletedBy, Accounts!CreditedToItsAccount, LinksStay, NoneIsNobody
    <2>9. ExistOK'
        <3>1. accounts'[u].exists /\ \A v \in Wallets : v # w => owner'[v] = owner[v]
            BY <1>n, <2>1, <2>2
        <3> QED
            BY <1>0, <1>n, <2>1, <2>3, <2>5, <3>1 DEF ExistOK, NoneIsNobody
    <2> QED
        BY <2>3, <2>5, <2>6, <2>7, <2>8, <2>9 DEF AccountsOK
<1>3. ASSUME NEW u \in Users, NEW request, Accounts!Reading(u, request), request.kind \in Kinds, request.bound = FALSE,
             {"kind", "user", "wallet", "arg", "bound"} \subseteq DOMAIN request,
             request.kind = "credentials" => request.arg \in Names,
             request.kind = "prepare" => request.arg \in Wallets
      PROVE  AccountsOK'
    <2> DEFINE r == [request EXCEPT !.user = u, !.wallet = Accounts!WalletOf(u)]
    <2>1. /\ accounts[u].exists /\ Accounts!Useful(u, request) /\ reads' = reads \cup {r}
          /\ UNCHANGED <<accounts, owner, strategists, strategies, keys, refills, named>>
        BY <1>3 DEF Accounts!Reading
    <2>2. /\ r.user = u /\ r.wallet = Accounts!WalletOf(u) /\ r.bound = request.bound /\ r.kind = request.kind
          /\ r.arg = request.arg /\ DOMAIN r = DOMAIN request
        BY <1>3
    <2>3. r.kind = "complete" => \E x \in refills : x.id = r.arg /\ x.user = u
        BY <2>1, <2>2 DEF Accounts!Useful
    <2> HIDE DEF r
    <2>4. ReadTyped(r) /\ r.bound = FALSE
        BY <1>3, <2>2 DEF ReadTyped
    <2>5. OwnOrNone(r.user, r.wallet)
        BY <2>2, WalletIsLinked
    <2> QED
        BY <2>1, <2>2, <2>3, <2>4, <2>5, ReadBegins
<1>4. ASSUME NEW u \in Users, Accounts!ManagerReads(u)
      PROVE  AccountsOK'
    <2> DEFINE r == [Accounts!Request("strategy") EXCEPT !.user = u, !.wallet = strategists[u]]
    <2>1. /\ u \in DOMAIN strategists /\ reads' = reads \cup {r}
          /\ UNCHANGED <<accounts, owner, strategists, strategies, keys, refills, named>>
        BY <1>4 DEF Accounts!ManagerReads
    <2>2. r.user = u /\ r.wallet = strategists[u] /\ r.bound = FALSE /\ r.kind = "strategy" /\ u \in Users
          /\ {"kind", "user", "wallet", "arg", "bound"} \subseteq DOMAIN r
        BY <1>n, <2>1 DEF Accounts!Request
    <2> HIDE DEF r
    <2>3. OwnOrNone(r.user, r.wallet) /\ accounts[r.user].exists /\ ReadTyped(r)
        BY <1>0, <2>1, <2>2 DEF RowsOwn, ExistOK, ReadTyped, Kinds
    <2> QED
        BY <2>1, <2>2, <2>3, ReadBegins
<1>5. ASSUME NEW r \in reads, Accounts!SetCredentials(r)
      PROVE  AccountsOK'
    <2> DEFINE u == r.user
               a == [accounts[u] EXCEPT !.name = r.arg]
    <2>1. /\ r.kind = "credentials" /\ accounts[u].name = Null /\ accounts' = [accounts EXCEPT ![u] = a]
          /\ named' = named \cup {<<u, r.arg>>} /\ reads' = reads \ {r}
          /\ UNCHANGED <<owner, strategists, strategies, keys, refills>>
        BY <1>5 DEF Accounts!SetCredentials, Accounts!MayChoose, Accounts!Answered
    <2>2. u \in Users /\ r.arg \in Names /\ accounts[u].exists
        BY <1>0, <1>n, <2>1 DEF ReadTyped, ExistOK
    <2>3. a \in [exists : BOOLEAN, name : Names \cup {Null}] /\ a.exists /\ a.name = r.arg
        BY <1>n, <2>2
    <2> HIDE DEF a, u
    <2> QED
        BY <1>a, <2>1, <2>2, <2>3
<1>6. ASSUME NEW r \in reads, Accounts!UpsertStrategist(r)
      PROVE  AccountsOK'
    <2>1. /\ strategists' = [u \in DOMAIN strategists \cup {r.user} |-> IF u = r.user THEN r.wallet ELSE strategists[u]]
          /\ reads' = reads \ {r} /\ UNCHANGED <<accounts, owner, strategies, keys, refills, named>>
        BY <1>6 DEF Accounts!UpsertStrategist, Accounts!Answered
    <2>2. RowsOwn'
        BY <1>0, <2>1 DEF RowsOwn, OwnOrNone
    <2> QED
        BY <1>0, <1>n, <1>b, <2>1, <2>2 DEF ExistOK
<1>7. ASSUME NEW r \in reads, Accounts!IssueApiKey(r)
      PROVE  AccountsOK'
    <2>1. /\ keys' = keys \cup {[user |-> r.user, wallet |-> r.wallet]}
          /\ reads' = reads \ {r} /\ UNCHANGED <<accounts, owner, strategists, strategies, refills, named>>
        BY <1>7 DEF Accounts!IssueApiKey, Accounts!Answered
    <2>2. RowsOwn'
        BY <1>0, <1>n, <2>1 DEF RowsOwn, OwnOrNone
    <2> QED
        BY <1>0, <1>n, <1>b, <2>1, <2>2 DEF ExistOK
<1>8. ASSUME NEW r \in reads, Accounts!CreateStrategy(r)
      PROVE  AccountsOK'
    <2>1. PICK s : /\ strategies' = strategies \cup {s}
                   /\ s = [slug |-> Accounts!Cardinality(strategies) + 1, user |-> r.user, wallet |-> r.wallet,
                           status |-> IF r.wallet = Null THEN "DRAFT" ELSE "FUNDING"]
                   /\ reads' = reads \ {r} /\ UNCHANGED <<accounts, owner, strategists, keys, refills, named>>
        BY <1>8 DEF Accounts!CreateStrategy, Accounts!Answered
    <2>2. /\ s.user = r.user /\ s.wallet = r.wallet
          /\ s = [slug |-> s.slug, user |-> s.user, wallet |-> s.wallet, status |-> s.status]
          /\ s.status \in {"DRAFT", "FUNDING"} /\ (s.status = "FUNDING" <=> s.wallet # Null)
        BY <2>1
    <2>3. RowsOwn'
        BY <1>0, <1>n, <2>1, <2>2 DEF RowsOwn, OwnOrNone
    <2> QED
        BY <1>0, <1>n, <1>b, <2>1, <2>3 DEF ExistOK
<1>9. ASSUME NEW r \in reads, Accounts!PrepareTopup(r)
      PROVE  AccountsOK'
    <2> DEFINE u == r.user
               w == r.arg
    <2>1. /\ r.kind = "prepare" /\ reads' = reads \ {r}
          /\ refills' = refills \cup {[user |-> u, wallet |-> w, id |-> Accounts!Cardinality(refills) + 1,
                                        status |-> "PREPARED"]}
          /\ UNCHANGED <<accounts, owner, strategists, strategies, keys, named>>
        BY <1>9 DEF Accounts!PrepareTopup, Accounts!Answered
    <2>2. u \in Users /\ w \in Wallets
        BY <1>n, <2>1 DEF ReadTyped
    <2> HIDE DEF u, w
    <2>3. refills' \subseteq Topup /\ Numbered' /\ CompletionsOK' /\ Accounts!CreditedToItsAccount'
        BY <2>1, <2>2, DepositAdded
    <2> QED
        BY <1>c, <2>1, <2>3
<1>10. ASSUME NEW x \in refills, Accounts!Pay(x)
       PROVE  AccountsOK'
    <2>1. /\ refills' = (refills \ {x}) \cup {[x EXCEPT !.status = "PAID"]}
          /\ UNCHANGED <<accounts, owner, strategists, strategies, keys, reads, named>>
        BY <1>10 DEF Accounts!Pay
    <2>2. refills' \subseteq Topup /\ Numbered' /\ CompletionsOK' /\ Accounts!CreditedToItsAccount'
        BY <2>1, DepositMoves
    <2> QED
        BY <1>c, <2>1, <2>2
<1>11. ASSUME NEW r \in reads, Accounts!BindWallet(r)
       PROVE  AccountsOK'
    <2>0. PICK x \in refills : x = Accounts!IntentOf(r) /\ CompletedBy(r, x)
        BY <1>11, CompletesItsDeposit DEF Accounts!BindWallet, Accounts!Completing
    <2> DEFINE w == x.wallet
               u == r.user
               given(row) == IF row.user = u /\ row.wallet = Null THEN [row EXCEPT !.wallet = w] ELSE row
               opened(row) == IF row.user = u /\ row.wallet = Null /\ row.status = "DRAFT"
                              THEN [row EXCEPT !.wallet = w, !.status = "FUNDING"] ELSE given(row)
               bound == [r EXCEPT !.bound = TRUE]
    <2>1. /\ r.kind = "complete" /\ Accounts!Linkable(u, w)
          /\ owner' = IF owner[w] = Null THEN [owner EXCEPT ![w] = u] ELSE owner
          /\ strategists' = [v \in DOMAIN strategists |-> IF v = u /\ strategists[v] = Null THEN w ELSE strategists[v]]
          /\ strategies' = {opened(s) : s \in strategies} /\ keys' = {given(k) : k \in keys}
          /\ reads' = (reads \ {r}) \cup {bound}
          /\ UNCHANGED <<accounts, refills, named>>
        BY <1>11, <2>0 DEF Accounts!BindWallet, Accounts!Completing
    <2>2. x \in refills /\ CompletedBy(r, x)
        BY <2>0
    <2>3. w \in Wallets /\ u \in Users /\ x.user = u /\ x.id = r.arg /\ accounts[u].exists
        BY <1>0, <1>n, <2>2 DEF Topup, CompletedBy, ExistOK
    <2>4. /\ ReadTyped(bound) /\ bound.user = u /\ bound.wallet = r.wallet /\ bound.arg = r.arg /\ bound.kind = r.kind
          /\ bound.bound
        BY <1>n DEF ReadTyped
    <2> HIDE DEF w, u, bound
    <2>5. owner[w] \in {Null, u} /\ \A v \in Wallets : owner[v] = u => v = w
        <3>1. Accounts!WalletOf(u) \in {Null, w}
            BY <2>1 DEF Accounts!Linkable
        <3> QED
            BY <2>1, <2>3, <3>1, WalletIsLinked DEF Accounts!Linkable, NoneIsNobody
    <2>6. owner' \in [Wallets -> Users \cup {Null}] /\ owner'[w] = u /\ OneWallet' /\ LinksStay
        BY <2>1, <2>3, <2>5, WalletLinked
    <2>7. AccountsTyped'
        <3>1. DOMAIN strategists' = DOMAIN strategists /\ strategists' = [v \in DOMAIN strategists' |-> strategists'[v]]
            BY <2>1
        <3>2. \A q \in reads' : ReadTyped(q)'
            BY <1>n, <2>1, <2>4 DEF ReadTyped
        <3> QED
            BY <1>n, <2>1, <2>6, <3>1, <3>2 DEF AccountsTyped
    <2>8. RowsOwn'
        <3>1. \A v \in Users : \A y : OwnOrNone(v, y) => OwnOrNone(v, y)'
            BY <2>6 DEF OwnOrNone, LinksStay, NoneIsNobody
        <3>2. OwnOrNone(u, w)'
            BY <2>3, <2>6 DEF OwnOrNone
        <3>3. (\A v \in DOMAIN strategists : OwnOrNone(v, strategists[v]))'
            BY <1>0, <1>n, <2>1, <3>1, <3>2 DEF RowsOwn
        <3>4. \A q \in reads' : OwnOrNone(q.user, q.wallet)'
            BY <1>0, <1>n, <2>1, <2>4, <3>1 DEF RowsOwn, u
        <3>5. ASSUME NEW k \in keys'
              PROVE  /\ k.user \in Users /\ OwnOrNone(k.user, k.wallet)'
                     /\ k = [user |-> k.user, wallet |-> k.wallet]
            <4>1. PICK row \in keys : k = given(row)
                BY <2>1, <3>5
            <4>2. row.user \in Users /\ OwnOrNone(row.user, row.wallet) /\ row = [user |-> row.user, wallet |-> row.wallet]
                BY <1>0 DEF RowsOwn
            <4>3. \/ k = row
                  \/ k = [user |-> u, wallet |-> w]
                BY <4>1, <4>2
            <4> QED
                BY <2>3, <3>1, <3>2, <4>2, <4>3
        <3>6. ASSUME NEW s \in strategies'
              PROVE  /\ s.user \in Users /\ OwnOrNone(s.user, s.wallet)'
                     /\ s = [slug |-> s.slug, user |-> s.user, wallet |-> s.wallet, status |-> s.status]
                     /\ s.status \in {"DRAFT", "FUNDING"} /\ (s.status = "FUNDING" <=> s.wallet # Null)
            <4>1. PICK row \in strategies : s = opened(row)
                BY <2>1, <3>6
            <4>2. /\ row.user \in Users /\ OwnOrNone(row.user, row.wallet)
                  /\ row = [slug |-> row.slug, user |-> row.user, wallet |-> row.wallet, status |-> row.status]
                  /\ row.status \in {"DRAFT", "FUNDING"} /\ (row.status = "FUNDING" <=> row.wallet # Null)
                BY <1>0 DEF RowsOwn
            <4>3. \/ s = row
                  \/ s = [slug |-> row.slug, user |-> u, wallet |-> w, status |-> "FUNDING"]
                BY <4>1, <4>2
            <4>4. w # Null
                BY <2>3 DEF NoneIsNobody
            <4> QED
                BY <2>3, <3>1, <3>2, <4>2, <4>3, <4>4
        <3> QED
            BY <3>3, <3>4, <3>5, <3>6 DEF RowsOwn
    <2>9. CompletionsOK'
        <3> SUFFICES ASSUME NEW q \in reads', q.kind = "complete"
                     PROVE  \E y \in refills : CompletedBy(q, y)'
            BY <2>1 DEF CompletionsOK
        <3>1. CASE q \in reads
            <4>1. PICK y \in refills : CompletedBy(q, y)
                BY <1>0, <3>1 DEF CompletionsOK
            <4>2. y.wallet \in Wallets /\ q.user \in Users
                BY <1>n, <3>1 DEF Topup
            <4> QED
                BY <2>6, <4>1, <4>2 DEF CompletedBy, LinksStay, NoneIsNobody
        <3>2. CASE q = bound
            BY <2>2, <2>3, <2>4, <2>6, <3>2 DEF CompletedBy, w
        <3> QED
            BY <2>1, <3>1, <3>2
    <2>10. Numbered' /\ Accounts!CreditedToItsAccount'
        <3>1. \A y \in refills : y.wallet \in Wallets /\ y.user \in Users
            BY <1>n DEF Topup
        <3>2. Accounts!CreditedToItsAccount'
            <4> SUFFICES ASSUME NEW y \in refills, y.status = "CONFIRMED"
                         PROVE  owner'[y.wallet] = y.user
                BY <2>1 DEF Accounts!CreditedToItsAccount
            <4>1. owner[y.wallet] = y.user /\ y.user # Null
                BY <1>0, <3>1 DEF Accounts!CreditedToItsAccount, NoneIsNobody
            <4> QED
                BY <2>6, <3>1, <4>1 DEF LinksStay
        <3>3. Numbered'
            BY <1>0, <2>1 DEF Numbered
        <3> QED
            BY <3>2, <3>3
    <2>11. NamesOK' /\ Accounts!CredentialsStay'
        BY <1>0, <2>1 DEF NamesOK, Accounts!CredentialsStay
    <2>12. ExistOK'
        <3>1. \A v \in Wallets : owner'[v] \in {owner[v], u}
            BY <1>n, <2>1, <2>3
        <3>2. \A q \in reads' : accounts[q.user].exists
            BY <1>0, <2>1, <2>3, <2>4 DEF ExistOK
        <3> QED
            BY <1>0, <2>1, <2>3, <3>1, <3>2 DEF ExistOK
    <2> QED
        BY <2>6, <2>7, <2>8, <2>9, <2>10, <2>11, <2>12 DEF AccountsOK
<1>12. ASSUME NEW r \in reads, Accounts!CompleteTopup(r)
       PROVE  AccountsOK'
    <2> DEFINE x == Accounts!IntentOf(r)
    <2>1. /\ r.kind = "complete" /\ r.wallet \in {Null, x.wallet} /\ (r.wallet = Null => r.bound)
          /\ refills' = (refills \ {x}) \cup {[x EXCEPT !.status = "CONFIRMED"]}
          /\ reads' = reads \ {r} /\ UNCHANGED <<accounts, owner, strategists, strategies, keys, named>>
        BY <1>12 DEF Accounts!CompleteTopup, Accounts!Completing, Accounts!Answered
    <2>2. x \in refills /\ CompletedBy(r, x)
        BY <2>1, CompletesItsDeposit
    <2> HIDE DEF x
    <2>3. owner[x.wallet] = x.user
        <3>1. CASE r.bound
            BY <2>2, <3>1 DEF CompletedBy
        <3>2. CASE r.wallet = x.wallet /\ r.wallet # Null
            BY <1>0, <2>2, <3>2 DEF RowsOwn, OwnOrNone, CompletedBy
        <3> QED
            BY <2>1, <3>1, <3>2
    <2>4. refills' \subseteq Topup /\ Numbered' /\ CompletionsOK' /\ Accounts!CreditedToItsAccount'
        BY <2>1, <2>2, <2>3, DepositMoves
    <2> QED
        BY <1>c, <2>1, <2>4
<1>13. ASSUME UNCHANGED <<accounts, owner, strategists, strategies, keys, refills, named>>, reads' \subseteq reads
       PROVE  AccountsOK'
    <2>1. RowsOwn'
        BY <1>0, <1>13 DEF RowsOwn, OwnOrNone
    <2> QED
        BY <1>0, <1>n, <1>b, <1>13, <2>1 DEF ExistOK
<1>14. ASSUME NEW r \in reads, Accounts!Lost(r)
       PROVE  AccountsOK'
    BY <1>13, <1>14 DEF Accounts!Lost, Accounts!Answered
<1>15. CASE UNCHANGED Accounts!vars
    BY <1>13, <1>15 DEF Accounts!vars
<1>16. ASSUME NEW u \in Users, NEW w \in Wallets, Accounts!PrepareRead(u, w)
       PROVE  AccountsOK'
    <2> DEFINE request == [Accounts!Request("prepare") EXCEPT !.arg = w]
    <2>1. /\ request.kind = "prepare" /\ request.bound = FALSE /\ request.arg = w
          /\ {"kind", "user", "wallet", "arg", "bound"} \subseteq DOMAIN request
        BY DEF Accounts!Request
    <2>2. Accounts!Reading(u, request)
        BY <1>16 DEF Accounts!PrepareRead
    <2> HIDE DEF request
    <2> QED
        BY <1>3, <2>1, <2>2 DEF Kinds
<1>17. ASSUME NEW u \in Users, NEW kind \in {"strategist", "key"}, Accounts!Reading(u, Accounts!Request(kind))
       PROVE  AccountsOK'
    <2> DEFINE request == Accounts!Request(kind)
    <2>1. /\ request.kind = kind /\ request.bound = FALSE /\ {"kind", "user", "wallet", "arg", "bound"} \subseteq DOMAIN request
        BY DEF Accounts!Request
    <2>2. Accounts!Reading(u, request)
        BY <1>17
    <2> HIDE DEF request
    <2> QED
        BY <1>3, <2>1, <2>2 DEF Kinds
<1>18. ASSUME NEW u \in Users, NEW name \in Names,
              Accounts!Reading(u, [Accounts!Request("credentials") EXCEPT !.arg = name])
       PROVE  AccountsOK'
    <2> DEFINE request == [Accounts!Request("credentials") EXCEPT !.arg = name]
    <2>1. /\ request.kind = "credentials" /\ request.bound = FALSE /\ request.arg = name
          /\ {"kind", "user", "wallet", "arg", "bound"} \subseteq DOMAIN request
        BY DEF Accounts!Request
    <2>2. Accounts!Reading(u, request)
        BY <1>18
    <2> HIDE DEF request
    <2> QED
        BY <1>3, <2>1, <2>2 DEF Kinds
<1>19. ASSUME NEW u \in Users, NEW x \in refills,
              Accounts!Reading(u, [Accounts!Request("complete") EXCEPT !.arg = x.id])
       PROVE  AccountsOK'
    <2> DEFINE request == [Accounts!Request("complete") EXCEPT !.arg = x.id]
    <2>1. /\ request.kind = "complete" /\ request.bound = FALSE /\ request.arg = x.id
          /\ {"kind", "user", "wallet", "arg", "bound"} \subseteq DOMAIN request
        BY DEF Accounts!Request
    <2>2. Accounts!Reading(u, request)
        BY <1>19
    <2> HIDE DEF request
    <2> QED
        BY <1>3, <2>1, <2>2 DEF Kinds
<1> QED
    BY <1>1, <1>2, <1>4, <1>5, <1>6, <1>7, <1>8, <1>9, <1>10, <1>11, <1>12, <1>14, <1>15, <1>16, <1>17, <1>18, <1>19
    DEF Accounts!Next

\* A confirmed deposit is of the account its wallet is linked to; an account has one
\* wallet, and its strategist, strategies and keys have that or none; and credentials are
\* set once: for any number of accounts and wallets, and requests that read their session
\* before what they do later (bindWallet, setCredentials and createStrategy of
\* src/platform/service.js, accountRequest of investments.mjs).
THEOREM AccountsKeepWhatIsTheirs ==
    ASSUME NoneIsNobody
    PROVE  Accounts!Spec => [](Accounts!CreditedToItsAccount /\ Accounts!WalletsAreOwn /\ Accounts!CredentialsStay)
<1>1. Accounts!Init => AccountsOK
    BY AccountsStart
<1>2. AccountsOK /\ [Accounts!Next]_(Accounts!vars) => AccountsOK'
    BY AccountsKept
<1>3. AccountsOK => Accounts!CreditedToItsAccount /\ Accounts!WalletsAreOwn /\ Accounts!CredentialsStay
    <2> SUFFICES ASSUME AccountsOK PROVE Accounts!WalletsAreOwn
        BY DEF AccountsOK
    <2>1. ASSUME NEW u \in Users
          PROVE  Accounts!Cardinality({w \in Wallets : owner[w] = u}) <= 1
        <3> DEFINE W == {w \in Wallets : owner[w] = u}
        <3>1. CASE W = {}
            BY <3>1, FS_EmptySet, SameNumber
        <3>2. CASE W # {}
            <4>1. PICK w : w \in W
                BY <3>2
            <4>2. W = {w}
                BY <4>1 DEF AccountsOK, OneWallet, NoneIsNobody
            <4>3. Cardinality({w}) = 1
                BY FS_Singleton
            <4> QED
                BY <4>2, <4>3, SameNumber
        <3> QED
            BY <3>1, <3>2
    <2>2. \A u \in Users : \A w : OwnOrNone(u, w) => w \in {Null, Accounts!WalletOf(u)}
        BY WalletIsLinked DEF OwnOrNone
    <2>3. /\ \A u \in DOMAIN strategists : u \in Users /\ OwnOrNone(u, strategists[u])
          /\ \A row \in strategies \cup keys : row.user \in Users /\ OwnOrNone(row.user, row.wallet)
          /\ \A s \in strategies : s.status = "FUNDING" <=> s.wallet # Null
        BY DEF AccountsOK, AccountsTyped, RowsOwn
    <2> QED
        BY <2>1, <2>2, <2>3 DEF Accounts!WalletsAreOwn
<1> QED
    BY <1>1, <1>2, <1>3, PTL DEF Accounts!Spec

-------------------------------------------------------------------------------
(* Sending to the enclave that is pinned. *)

ChannelTimes == Ttl \in Nat /\ Margin \in Nat /\ Patience \in Nat

\* The history has what is younger than a verification may take and last.
Recent(t) == clk - t < Patience + Ttl
RanAt(r, t) == Recent(t) => <<r, t>> \in records.ran
PinnedAt(r, t) == Recent(t) => <<r, t>> \in records.pinned
AskedAt(login, t) == Recent(t) => <<login, t>> \in records.asked

\* A verification of this login that expires then: asked for at a, quoted at q and judged
\* at j, by the pins of that time.
Steps(login, r, a, q, j) ==
    /\ a <= q /\ q <= j /\ j <= clk /\ j - a <= Patience
    /\ AskedAt(login, a) /\ RanAt(r, q) /\ PinnedAt(r, j)
Verified(login, expires) == \E r \in Releases : \E a, q, j \in Int : Steps(login, r, a, q, j) /\ expires = j + Ttl

ChannelTyped ==
    /\ clk \in Nat /\ remote.release \in Releases /\ pins \in Releases /\ expect \in Releases
    /\ enroll.release \in Releases
    /\ remote = [release |-> remote.release, genesis |-> remote.genesis, rollouts |-> remote.rollouts]
    /\ enroll = [at |-> enroll.at, release |-> enroll.release]
    /\ server = [at |-> server.at, since |-> server.since, answer |-> server.answer, expires |-> server.expires]
    /\ server.at \in {"idle", "quote", "judge", "reply"}
    /\ server.since \in Int /\ server.expires \in Int
    /\ cli = [login |-> cli.login, cached |-> cli.cached, waiting |-> cli.waiting] /\ cli.cached \in Int
    /\ records = [ran |-> records.ran, pinned |-> records.pinned, asked |-> records.asked, sent |-> records.sent]
AnswersOld == \A answer \in answers : answer.own = FALSE
PresentIsKnown == <<remote.release, clk>> \in records.ran /\ <<pins, clk>> \in records.pinned

\* The verification that runs.
ServerOK ==
    /\ server.at # "idle" => server.since <= clk /\ AskedAt(cli.login, server.since)
    /\ server.at = "judge" /\ server.answer.own = TRUE =>
          /\ server.answer.release \in Releases
          /\ \E q \in Int : server.since <= q /\ q <= clk /\ RanAt(server.answer.release, q)
    /\ server.at = "reply" => Verified(cli.login, server.expires)
TabOK == cli.cached = Channel!None \/ Verified(cli.login, cli.cached)

ChannelOK ==
    /\ ChannelTyped /\ AnswersOld /\ PresentIsKnown /\ ServerOK /\ TabOK
    /\ Channel!SentToThePinned

\* A verification lasts while its steps are remembered and nothing but the time changes.
LEMMA VerifiedStays ==
    ASSUME NEW login, NEW expires, Verified(login, expires),
           clk' = clk, records.ran \subseteq records'.ran, records.pinned \subseteq records'.pinned,
           records.asked \subseteq records'.asked
    PROVE  Verified(login, expires)'
BY DEF Verified, Steps, RanAt, PinnedAt, AskedAt, Recent

\* While it may be used its request, its quote and its pins are remembered.
LEMMA VerifiedIsRecent ==
    ASSUME ChannelTimes, clk \in Nat, NEW login, NEW expires, Verified(login, expires), expires > clk
    PROVE  /\ \E a \in records.asked : a[1] = login
           /\ \E r \in records.ran, p \in records.pinned : r[1] = p[1]
<1>1. PICK r \in Releases, a \in Int, q \in Int, j \in Int : Steps(login, r, a, q, j) /\ expires = j + Ttl
    BY DEF Verified
<1>2. Recent(a) /\ Recent(q) /\ Recent(j)
    BY <1>1 DEF Steps, Recent, ChannelTimes
<1>3. <<login, a>> \in records.asked /\ <<r, q>> \in records.ran /\ <<r, j>> \in records.pinned
    BY <1>1, <1>2 DEF Steps, AskedAt, RanAt, PinnedAt
<1> QED
    BY <1>3

\* The first release is deployed and pinned.
LEMMA ChannelStarts ==
    ASSUME ChannelTimes, FirstRelease \in Releases, Channel!Init
    PROVE  ChannelOK
<1>1. ChannelTyped
    BY DEF Channel!Init, Channel!Over, Channel!Asked, Channel!None, Channel!NotEnrolling, ChannelTyped
<1>2. server.at = "idle" /\ cli.cached = Channel!None /\ answers = {} /\ records.sent = {}
    BY DEF Channel!Init, Channel!Over, Channel!Asked
<1>3. PresentIsKnown
    BY DEF Channel!Init, PresentIsKnown
<1> QED
    BY <1>1, <1>2, <1>3 DEF ChannelOK, AnswersOld, ServerOK, TabOK, Channel!SentToThePinned

\* The browser: it sends with what lasts, or asks for a verification.
LEMMA BrowserSends ==
    ASSUME ChannelTimes, ChannelOK, Channel!Send
    PROVE  ChannelOK'
<1>0. /\ ChannelTyped /\ AnswersOld /\ PresentIsKnown /\ ServerOK /\ TabOK /\ Channel!SentToThePinned
      /\ UNCHANGED <<clk, remote, expect, pins, enroll, answers>>
    BY DEF ChannelOK, Channel!Send
<1>1. CASE Channel!Usable(clk)
    <2>1. /\ records'.ran = records.ran /\ records'.pinned = records.pinned /\ records'.asked = records.asked
          /\ records'.sent = records.sent \cup {<<cli.login, clk>>}
          /\ records' = [ran |-> records'.ran, pinned |-> records'.pinned, asked |-> records'.asked,
                         sent |-> records'.sent]
          /\ UNCHANGED <<server, cli>>
        BY <1>0, <1>1 DEF Channel!Send, Channel!SentNow, ChannelTyped
    <2>2. Verified(cli.login, cli.cached) /\ cli.cached > clk
        BY <1>0, <1>1 DEF Channel!Usable, Channel!None, TabOK, ChannelTyped, ChannelTimes
    <2>3. Channel!SentToThePinned'
        BY <1>0, <2>1, <2>2, VerifiedIsRecent DEF Channel!SentToThePinned, ChannelTyped
    <2>4. Verified(cli.login, cli.cached)'
        BY <1>0, <2>1, <2>2, VerifiedStays
    <2>5. server.at = "reply" => Verified(cli.login, server.expires)'
        BY <1>0, <2>1, VerifiedStays DEF ServerOK
    <2>6. ServerOK' /\ TabOK'
        BY <1>0, <2>1, <2>4, <2>5 DEF ServerOK, TabOK, AskedAt, RanAt, Recent
    <2>7. ChannelTyped' /\ AnswersOld' /\ PresentIsKnown'
        BY <1>0, <2>1 DEF ChannelTyped, AnswersOld, PresentIsKnown
    <2> QED
        BY <2>3, <2>6, <2>7 DEF ChannelOK
<1>2. CASE ~Channel!Usable(clk) /\ cli.waiting > 0
    <2>1. /\ UNCHANGED <<server, records>> /\ cli'.login = cli.login /\ cli'.cached = cli.cached
          /\ cli' = [login |-> cli'.login, cached |-> cli'.cached, waiting |-> cli'.waiting]
        BY <1>0, <1>2 DEF Channel!Send, ChannelTyped
    <2>2. \A l, e : Verified(l, e) => Verified(l, e)'
        BY <1>0, <2>1, VerifiedStays
    <2>3. ServerOK' /\ TabOK' /\ Channel!SentToThePinned'
        BY <1>0, <2>1, <2>2 DEF ServerOK, TabOK, AskedAt, RanAt, Recent, Channel!SentToThePinned
    <2>4. ChannelTyped' /\ AnswersOld' /\ PresentIsKnown'
        BY <1>0, <2>1 DEF ChannelTyped, AnswersOld, PresentIsKnown
    <2> QED
        BY <2>3, <2>4 DEF ChannelOK
<1>3. CASE ~Channel!Usable(clk) /\ ~(cli.waiting > 0)
    <2>1. /\ server' = Channel!Asked(clk) /\ cli'.login = cli.login /\ cli'.cached = cli.cached
          /\ cli' = [login |-> cli'.login, cached |-> cli'.cached, waiting |-> cli'.waiting]
          /\ records'.ran = records.ran /\ records'.pinned = records.pinned /\ records'.sent = records.sent
          /\ records'.asked = records.asked \cup {<<cli.login, clk>>}
          /\ records' = [ran |-> records'.ran, pinned |-> records'.pinned, asked |-> records'.asked,
                         sent |-> records'.sent]
        BY <1>0, <1>3 DEF Channel!Send, ChannelTyped
    <2>2. ChannelTyped' /\ AnswersOld' /\ PresentIsKnown'
        BY <1>0, <2>1 DEF ChannelTyped, AnswersOld, PresentIsKnown, Channel!Asked, Channel!None
    <2>3. ServerOK'
        BY <1>0, <2>1 DEF ServerOK, AskedAt, Recent, Channel!Asked, ChannelTyped
    <2>4. TabOK'
        BY <1>0, <2>1, VerifiedStays DEF TabOK
    <2>5. Channel!SentToThePinned'
        BY <1>0, <2>1 DEF Channel!SentToThePinned
    <2> QED
        BY <2>2, <2>3, <2>4, <2>5 DEF ChannelOK
<1> QED
    BY <1>1, <1>2, <1>3

\* It receives a verification in time, gives up, or another login begins.
LEMMA BrowserGoesOnOrNot ==
    ASSUME ChannelTimes, ChannelOK, Channel!Receive \/ Channel!Fail \/ Channel!Logout
    PROVE  ChannelOK'
<1>0. /\ ChannelTyped /\ AnswersOld /\ PresentIsKnown /\ ServerOK /\ TabOK /\ Channel!SentToThePinned
      /\ UNCHANGED <<clk, remote, expect, pins, enroll, answers>> /\ server' = Channel!Over
    BY DEF ChannelOK, Channel!Receive, Channel!Fail, Channel!Logout
<1>1. ServerOK' /\ AnswersOld'
    BY <1>0 DEF ServerOK, AnswersOld, Channel!Over, Channel!Asked
<1>2. CASE Channel!Receive
    <2>1. /\ server.at = "reply" /\ server.expires > clk /\ cli'.login = cli.login /\ cli'.cached = server.expires
          /\ cli' = [login |-> cli'.login, cached |-> cli'.cached, waiting |-> cli'.waiting]
          /\ records'.ran = records.ran /\ records'.pinned = records.pinned /\ records'.asked = records.asked
          /\ records'.sent = records.sent \cup {<<cli.login, clk>>}
          /\ records' = [ran |-> records'.ran, pinned |-> records'.pinned, asked |-> records'.asked,
                         sent |-> records'.sent]
        BY <1>0, <1>2 DEF Channel!Receive, Channel!SentNow, ChannelTyped
    <2>2. Verified(cli.login, server.expires)
        BY <1>0, <2>1 DEF ServerOK
    <2>3. Channel!SentToThePinned'
        BY <1>0, <2>1, <2>2, VerifiedIsRecent DEF Channel!SentToThePinned, ChannelTyped
    <2>4. \A l, e : Verified(l, e) => Verified(l, e)'
        BY <1>0, <2>1, VerifiedStays
    <2>5. TabOK'
        BY <2>1, <2>2, <2>4 DEF TabOK
    <2>6. ChannelTyped' /\ PresentIsKnown'
        BY <1>0, <2>1 DEF ChannelTyped, PresentIsKnown, Channel!Over, Channel!Asked, Channel!None
    <2> QED
        BY <1>1, <2>3, <2>5, <2>6 DEF ChannelOK
<1>3. CASE Channel!Fail
    <2>1. /\ cli'.login = cli.login /\ cli'.cached = cli.cached /\ records' = records
          /\ cli' = [login |-> cli'.login, cached |-> cli'.cached, waiting |-> cli'.waiting]
        BY <1>0, <1>3 DEF Channel!Fail, ChannelTyped
    <2>2. TabOK' /\ Channel!SentToThePinned'
        BY <1>0, <2>1, VerifiedStays DEF TabOK, Channel!SentToThePinned
    <2>3. ChannelTyped' /\ PresentIsKnown'
        BY <1>0, <2>1 DEF ChannelTyped, PresentIsKnown, Channel!Over, Channel!Asked, Channel!None
    <2> QED
        BY <1>1, <2>2, <2>3 DEF ChannelOK
<1>4. CASE Channel!Logout
    <2>1. records' = records /\ cli' = [login |-> cli.login + 1, cached |-> Channel!None, waiting |-> 0]
        BY <1>4 DEF Channel!Logout, Channel!Cleared
    <2> QED
        BY <1>0, <1>1, <2>1 DEF ChannelOK, ChannelTyped, PresentIsKnown, TabOK, Channel!SentToThePinned, Channel!Over,
           Channel!Asked, Channel!None
<1> QED
    BY <1>2, <1>3, <1>4

\* The server fetches a quote, which is the enclave's own only when it is new, and judges it
\* by the pins it has then.
LEMMA ServerVerifies ==
    ASSUME ChannelTimes, ChannelOK, Channel!Quote \/ Channel!Judge
    PROVE  ChannelOK'
<1>0. /\ ChannelTyped /\ AnswersOld /\ PresentIsKnown /\ ServerOK /\ TabOK /\ Channel!SentToThePinned
      /\ UNCHANGED <<clk, remote, expect, pins, enroll, cli, records>>
    BY DEF ChannelOK, Channel!Quote, Channel!Judge
<1>1. PresentIsKnown' /\ TabOK' /\ Channel!SentToThePinned'
    BY <1>0, VerifiedStays DEF PresentIsKnown, TabOK, Channel!SentToThePinned
<1>2. CASE Channel!Quote
    <2>1. PICK answer \in answers \cup {Channel!Given} :
              /\ server' = [server EXCEPT !.at = "judge", !.answer = answer]
              /\ answers' = answers \cup {[answer EXCEPT !.own = FALSE]}
        BY <1>2 DEF Channel!Quote
    <2>2. /\ server.at = "quote" /\ server'.at = "judge" /\ server'.answer = answer /\ server'.since = server.since
          /\ server'.expires = server.expires
          /\ server' = [at |-> server'.at, since |-> server'.since, answer |-> server'.answer,
                        expires |-> server'.expires]
        BY <1>0, <1>2, <2>1 DEF ChannelTyped, Channel!Quote
    <2>3. answer.own = TRUE => answer = Channel!Given
        BY <1>0 DEF AnswersOld
    <2>4. answer.own = TRUE => answer.release = remote.release
        BY <2>3 DEF Channel!Given
    <2>5. ServerOK'
        BY <1>0, <2>2, <2>4 DEF ServerOK, AskedAt, RanAt, Recent, PresentIsKnown, ChannelTyped
    <2>6. [answer EXCEPT !.own = FALSE].own = FALSE
        <3>1. answer = Channel!Given => [answer EXCEPT !.own = FALSE].own = FALSE
            BY DEF Channel!Given
        <3> QED
            BY <1>0, <3>1 DEF AnswersOld
    <2>7. ChannelTyped' /\ AnswersOld'
        BY <1>0, <2>1, <2>2, <2>6 DEF ChannelTyped, AnswersOld
    <2> QED
        BY <1>1, <2>5, <2>7 DEF ChannelOK
<1>3. CASE Channel!Judge
    <2>1. /\ server.at = "judge" /\ clk - server.since <= Patience /\ answers' = answers
          /\ server'.at = "reply" /\ server'.since = server.since /\ server'.expires = clk + Ttl
          /\ server' = [at |-> server'.at, since |-> server'.since, answer |-> server'.answer,
                        expires |-> server'.expires]
        BY <1>0, <1>3 DEF ChannelTyped, Channel!Judge
    <2>2. server.answer.own = TRUE /\ server.answer.release = pins
        BY <1>3 DEF Channel!Judge, Channel!Decoded, Channel!Accepted
    <2>3. PICK q \in Int : server.since <= q /\ q <= clk /\ RanAt(pins, q)
        BY <1>0, <2>1, <2>2 DEF ServerOK
    <2>4. Steps(cli.login, pins, server.since, q, clk) /\ pins \in Releases /\ server.since \in Int /\ clk \in Int
        BY <1>0, <2>1, <2>3 DEF Steps, ServerOK, PresentIsKnown, PinnedAt, ChannelTyped
    <2>5. Verified(cli.login, clk + Ttl)
        BY <2>4 DEF Verified
    <2>6. Verified(cli.login, clk + Ttl)'
        BY <1>0, <2>5 DEF Verified, Steps, AskedAt, RanAt, PinnedAt, Recent
    <2>7. ServerOK'
        BY <1>0, <2>1, <2>6 DEF ServerOK, AskedAt, Recent
    <2>8. ChannelTyped' /\ AnswersOld'
        BY <1>0, <2>1 DEF ChannelTyped, AnswersOld, ChannelTimes
    <2> QED
        BY <1>1, <2>7, <2>8 DEF ChannelOK
<1> QED
    BY <1>2, <1>3

\* Another release is deployed or pinned: what ran before is remembered.
LEMMA ReleasesChange ==
    ASSUME ChannelTimes, ChannelOK,
           \/ Channel!Initialize \/ Channel!Inspect \/ Channel!Enroll \/ Channel!Deploy
           \/ \E r \in Releases : Channel!Prepare(r) \/ \E keeps \in BOOLEAN : Channel!Rollout(r, keeps),
           FirstRelease \in Releases
    PROVE  ChannelOK'
<1>0. /\ ChannelTyped /\ AnswersOld /\ PresentIsKnown /\ ServerOK /\ TabOK /\ Channel!SentToThePinned
      /\ UNCHANGED <<clk, answers, server, cli>>
    BY DEF ChannelOK, Channel!Initialize, Channel!Inspect, Channel!Enroll, Channel!Deploy, Channel!Prepare,
           Channel!Rollout
<1>1. /\ records.ran \subseteq records'.ran /\ records.pinned \subseteq records'.pinned
      /\ records'.asked = records.asked /\ records'.sent = records.sent
      /\ records' = [ran |-> records'.ran, pinned |-> records'.pinned, asked |-> records'.asked, sent |-> records'.sent]
      /\ <<remote'.release, clk>> \in records'.ran /\ <<pins', clk>> \in records'.pinned
    BY <1>0 DEF Channel!Initialize, Channel!Inspect, Channel!Enroll, Channel!Deploy, Channel!Prepare,
       Channel!Rollout, ChannelTyped, PresentIsKnown
<1>2. /\ remote'.release \in Releases /\ pins' \in Releases /\ expect' \in Releases /\ enroll'.release \in Releases
      /\ remote' = [release |-> remote'.release, genesis |-> remote'.genesis, rollouts |-> remote'.rollouts]
      /\ enroll' = [at |-> enroll'.at, release |-> enroll'.release]
    BY <1>0 DEF Channel!Initialize, Channel!Inspect, Channel!Enroll, Channel!Deploy, Channel!Prepare,
       Channel!Rollout, ChannelTyped, Channel!NotEnrolling
<1>3. ChannelTyped' /\ AnswersOld' /\ PresentIsKnown'
    BY <1>0, <1>1, <1>2 DEF ChannelTyped, AnswersOld, PresentIsKnown
<1>4. TabOK' /\ (server.at = "reply" => Verified(cli.login, server.expires)')
    BY <1>0, <1>1, VerifiedStays DEF TabOK, ServerOK
<1>5. ServerOK'
    BY <1>0, <1>1, <1>4 DEF ServerOK, AskedAt, RanAt, Recent
<1>6. Channel!SentToThePinned'
    BY <1>0, <1>1 DEF Channel!SentToThePinned
<1> QED
    BY <1>3, <1>4, <1>5, <1>6 DEF ChannelOK

\* Time passes, and what is old is forgotten.
LEMMA TimePasses ==
    ASSUME ChannelTimes, ChannelOK, Channel!Tick
    PROVE  ChannelOK'
<1>0. /\ ChannelTyped /\ AnswersOld /\ PresentIsKnown /\ ServerOK /\ TabOK /\ clk' = clk + 1 /\ clk \in Nat
      /\ UNCHANGED <<remote, expect, pins, enroll, answers, server, cli>>
      /\ records' = [ran |-> Channel!Late(records.ran) \cup {<<remote.release, clk + 1>>},
                     asked |-> Channel!Late(records.asked),
                     pinned |-> Channel!Late(records.pinned) \cup {<<pins, clk + 1>>}, sent |-> {}]
    BY DEF ChannelOK, ChannelTyped, Channel!Tick
<1>1. ASSUME NEW x, NEW t \in Int
      PROVE  /\ RanAt(x, t) => RanAt(x, t)'
             /\ PinnedAt(x, t) => PinnedAt(x, t)'
             /\ AskedAt(x, t) => AskedAt(x, t)'
    BY <1>0 DEF RanAt, PinnedAt, AskedAt, Recent, Channel!Late, ChannelTimes
<1>2. ASSUME NEW login, NEW expires, Verified(login, expires)
      PROVE  Verified(login, expires)'
    <2>1. PICK r \in Releases, a \in Int, q \in Int, j \in Int : Steps(login, r, a, q, j) /\ expires = j + Ttl
        BY <1>2 DEF Verified
    <2>2. Steps(login, r, a, q, j)'
        BY <1>0, <1>1, <2>1 DEF Steps
    <2> QED
        BY <2>1, <2>2 DEF Verified
<1>3. TabOK' /\ (server.at = "reply" => Verified(cli.login, server.expires)')
    BY <1>0, <1>2 DEF TabOK, ServerOK
<1>4. ServerOK'
    BY <1>0, <1>1, <1>3 DEF ServerOK, ChannelTyped
<1>5. ChannelTyped' /\ AnswersOld' /\ PresentIsKnown' /\ Channel!SentToThePinned'
    BY <1>0 DEF ChannelTyped, AnswersOld, PresentIsKnown, Channel!SentToThePinned
<1> QED
    BY <1>3, <1>4, <1>5 DEF ChannelOK

\* Whenever a private request is sent its login had asked for a verification, and the
\* enclave had run and the server had pinned one and the same release, not longer ago than
\* a verification may take and last: for any releases, times, logins and rollouts, and
\* quotes that are old or late (attestedTee.js, verify; tee-attestation.js,
\* verifyPlatformTee).
THEOREM PrivateRequestsReachThePinned ==
    ASSUME ChannelTimes, FirstRelease \in Releases
    PROVE  Channel!Init /\ [][Channel!Next]_(Channel!vars) => []Channel!SentToThePinned
<1>1. Channel!Init => ChannelOK
    BY ChannelStarts
<1>2. ChannelOK /\ [Channel!Next]_(Channel!vars) => ChannelOK'
    <2>1. ASSUME ChannelOK, UNCHANGED Channel!vars
          PROVE  ChannelOK'
        <3>1. UNCHANGED <<clk, remote, expect, pins, enroll, answers, server, cli, records>>
            BY <2>1 DEF Channel!vars
        <3>2. \A l, e : Verified(l, e) => Verified(l, e)'
            BY <3>1, VerifiedStays
        <3>3. ChannelTyped' /\ AnswersOld' /\ PresentIsKnown' /\ Channel!SentToThePinned'
            BY <2>1, <3>1 DEF ChannelOK, ChannelTyped, AnswersOld, PresentIsKnown, Channel!SentToThePinned
        <3>4. ServerOK' /\ TabOK'
            BY <2>1, <3>1, <3>2 DEF ChannelOK, ServerOK, TabOK, AskedAt, RanAt, Recent
        <3> QED
            BY <3>3, <3>4 DEF ChannelOK
    <2> QED
        BY <2>1, BrowserSends, BrowserGoesOnOrNot, ServerVerifies, ReleasesChange, TimePasses DEF Channel!Next
<1>3. ChannelOK => Channel!SentToThePinned
    BY DEF ChannelOK
<1> QED
    BY <1>1, <1>2, <1>3, PTL

-------------------------------------------------------------------------------
(* One request a day. *)

NoneIsNoNumber == Null \notin Nat

Made ==
    [by : {"bot", "page"}, day : Nat \cup {Null}, once : BOOLEAN, basis : Nat \cup {Null},
     targets : Holdings \cup {Null}, sequence : Nat, copies : Int]
Entry == [id : Nat, status : {"QUEUED", "EXECUTED", "FAILED"}]
Answer == [sequence : Nat, unfinished : BOOLEAN]
BotTyped ==
    /\ made \in Seq(Made) /\ day \in Nat /\ page \in Nat \cup {Null}
    /\ asks \in [sequence : Nat, requests : Seq(Entry)] /\ asks.sequence = Len(asks.requests)
    /\ file \in [active : Holdings \cup {Null}, lastDay : Nat \cup {Null}, lastSequence : Nat \cup {Null},
                 pending : Nat \cup {Null}]
    /\ bot \in [at : {"off", "status", "decide", "poll"}, once : BOOLEAN, day : Nat \cup {Null},
                seen : Answer \cup {Null}]
    /\ bot.at # "off" => bot.day \in Nat /\ bot.day <= day
    /\ bot.at = "decide" => bot.seen \in Answer

\* What is pending was made by the program, and a program that waits waits for it.
HasPending == file.pending # Null
PendingOK ==
    /\ HasPending => file.pending \in DOMAIN made /\ made[file.pending].by = "bot"
    /\ bot.at = "poll" => HasPending

\* A request of the program was made on a day that has come; a decision from holdings is made
\* for the place after them, where they were executed.
Executed(i) == asks.requests[i].status = "EXECUTED"
OfBot(i) == made[asks.requests[i].id].by = "bot"
RequestOK(id) ==
    /\ made[id].by = "bot" => made[id].day \in Nat /\ made[id].day <= day
    /\ made[id].basis # Null =>
          /\ made[id].basis = made[id].sequence - 1 /\ made[id].basis \in DOMAIN asks.requests
          /\ Executed(made[id].basis) /\ OfBot(made[id].basis)
RequestsOK == \A id \in DOMAIN made : RequestOK(id)

\* The enclave has each request in its place.
InPlace == \A i \in DOMAIN asks.requests : asks.requests[i].id \in DOMAIN made /\ made[asks.requests[i].id].sequence = i

\* What the program made and does not wait for any more is finished, and what was executed
\* is not younger than the last day of the file.
FinishedBy(id, i) ==
    /\ asks.requests[i].id = id
    /\ \/ asks.requests[i].status = "FAILED"
       \/ Executed(i) /\ file.lastDay # Null /\ made[id].day <= file.lastDay
FinishedOK ==
    \A id \in DOMAIN made :
        made[id].by = "bot" /\ id # file.pending => \E i \in DOMAIN asks.requests : FinishedBy(id, i)

\* What comes after the last day of the file, unless it is a repetition.
After(d, once) == file.lastDay <= d /\ (~once => file.lastDay # d)
DaysOK ==
    file.lastDay # Null =>
        /\ file.lastDay <= day
        /\ HasPending => After(made[file.pending].day, made[file.pending].once)
        /\ ~HasPending /\ bot.at \in {"status", "decide"} => After(bot.day, bot.once)

HoldingsOK ==
    file.lastSequence # Null =>
        /\ file.lastSequence \in DOMAIN asks.requests /\ Executed(file.lastSequence) /\ OfBot(file.lastSequence)
        /\ made[asks.requests[file.lastSequence].id].targets = file.active

BotOK ==
    /\ BotTyped /\ PendingOK /\ RequestsOK /\ InPlace /\ FinishedOK /\ DaysOK /\ HoldingsOK
    /\ Bot!OncePerDay

\* The place of a request.
LEMMA PlaceFound ==
    ASSUME NEW requests \in Seq(Entry), NEW id
    PROVE  \/ Bot!Place(requests, id) = 0 /\ \A i \in DOMAIN requests : requests[i].id # id
           \/ Bot!Place(requests, id) \in DOMAIN requests /\ requests[Bot!Place(requests, id)].id = id
              /\ Bot!Place(requests, id) # 0
<1>1. 0 \notin DOMAIN requests
    OBVIOUS
<1>2. CASE \E i \in DOMAIN requests : requests[i].id = id
    BY <1>1, <1>2 DEF Bot!Place
<1>3. CASE ~ \E i \in DOMAIN requests : requests[i].id = id
    BY <1>3 DEF Bot!Place
<1> QED
    BY <1>2, <1>3

\* What a request says once it is made stays, whatever happens to its copies.
SameRequest(a, b) ==
    /\ a.by = b.by /\ a.day = b.day /\ a.once = b.once /\ a.basis = b.basis /\ a.targets = b.targets
    /\ a.sequence = b.sequence
\* Sending one more copy, or serving one, changes what is on its way and nothing else.
LEMMA CopiesChange ==
    ASSUME BotTyped, NEW id \in DOMAIN made, NEW n \in Int, made' = [made EXCEPT ![id].copies = n]
    PROVE  /\ made' \in Seq(Made) /\ DOMAIN made' = DOMAIN made /\ Len(made') = Len(made)
           /\ \A j \in DOMAIN made : SameRequest(made'[j], made[j])
<1>1. made \in Seq(Made) /\ made[id] \in Made
    BY DEF BotTyped
<1>2. [made[id] EXCEPT !.copies = n] \in Made
    BY <1>1 DEF Made
<1>3. /\ made' \in Seq(Made) /\ DOMAIN made' = DOMAIN made /\ Len(made') = Len(made)
      /\ \A j \in DOMAIN made : made'[j] = IF j = id THEN [made[id] EXCEPT !.copies = n] ELSE made[j]
    BY <1>1, <1>2
<1>4. SameRequest([made[id] EXCEPT !.copies = n], made[id])
    BY <1>1 DEF Made, SameRequest
<1> QED
    BY <1>3, <1>4 DEF SameRequest

\* Copies on their way, and the steps of the program that leave its file and the enclave.
LEMMA NothingDecided ==
    ASSUME NoneIsNoNumber, BotOK, BotTyped',
           DOMAIN made' = DOMAIN made, \A j \in DOMAIN made : SameRequest(made'[j], made[j]),
           asks' = asks, file' = file, day \in Nat, day' \in Nat, day <= day',
           bot'.at = "poll" => HasPending,
           ~HasPending /\ bot'.at \in {"status", "decide"} /\ file.lastDay # Null => After(bot'.day, bot'.once)
    PROVE  BotOK'
<1>0. BotTyped /\ PendingOK /\ RequestsOK /\ InPlace /\ FinishedOK /\ DaysOK /\ HoldingsOK /\ Bot!OncePerDay
    BY DEF BotOK
<1>1. PendingOK'
    BY <1>0 DEF PendingOK, HasPending, SameRequest
<1>2. InPlace' /\ \A i \in DOMAIN asks.requests : (Executed(i)' <=> Executed(i)) /\ (OfBot(i)' <=> OfBot(i))
    BY <1>0 DEF InPlace, Executed, OfBot, SameRequest
<1>3. RequestsOK'
    <2> SUFFICES ASSUME NEW id \in DOMAIN made PROVE RequestOK(id)'
        BY DEF RequestsOK
    <2>1. RequestOK(id) /\ SameRequest(made'[id], made[id])
        BY <1>0 DEF RequestsOK
    <2>2. made[id] \in Made
        BY <1>0 DEF BotTyped
    <2>3. made[id].day \in Nat \cup {Null}
        BY <2>2 DEF Made
    <2> QED
        BY <1>2, <2>1, <2>3 DEF RequestOK, SameRequest
<1>4. FinishedOK'
    BY <1>0, <1>2 DEF FinishedOK, FinishedBy, SameRequest
<1>5. DaysOK'
    <2>1. file.lastDay # Null => file.lastDay \in Nat
        BY <1>0 DEF BotTyped
    <2>2. HasPending => SameRequest(made'[file.pending], made[file.pending])
        BY <1>0 DEF PendingOK
    <2> QED
        BY <1>0, <2>1, <2>2 DEF DaysOK, HasPending, After, SameRequest
<1>6. HoldingsOK'
    BY <1>0, <1>2 DEF HoldingsOK, SameRequest, InPlace
<1>7. Bot!OncePerDay'
    BY <1>0, <1>2 DEF Bot!OncePerDay, SameRequest, InPlace
<1> QED
    BY <1>1, <1>2, <1>3, <1>4, <1>5, <1>6, <1>7 DEF BotOK

\* A new request, of the program or of the page: nobody has it yet.
LEMMA RequestMade ==
    ASSUME NoneIsNoNumber, BotOK, BotTyped', NEW r \in Made, made' = Append(made, r), asks' = asks, day' = day,
           bot' = bot,
           \/ file' = file /\ r.by = "page" /\ r.basis = Null
           \/ /\ ~HasPending /\ r.by = "bot" /\ r.day = bot.day /\ r.once = bot.once /\ bot.at = "decide"
              /\ r.basis = file.lastSequence
              /\ file.lastSequence # Null => r.sequence = file.lastSequence + 1
              /\ file'.pending = Len(made) + 1 /\ file'.active = file.active /\ file'.lastDay = file.lastDay
              /\ file'.lastSequence = file.lastSequence
    PROVE  BotOK'
<1>0. BotTyped /\ PendingOK /\ RequestsOK /\ InPlace /\ FinishedOK /\ DaysOK /\ HoldingsOK /\ Bot!OncePerDay
    BY DEF BotOK
<1>9. PICK n \in Nat : n = Len(made) + 1
    BY <1>0 DEF BotTyped
<1>1. /\ DOMAIN made' = DOMAIN made \cup {n} /\ n \notin DOMAIN made /\ made'[n] = r
      /\ \A j \in DOMAIN made : made'[j] = made[j]
    BY <1>0, <1>9 DEF BotTyped
<1>2. InPlace' /\ \A i \in DOMAIN asks.requests : (Executed(i)' <=> Executed(i)) /\ (OfBot(i)' <=> OfBot(i))
    BY <1>0, <1>1 DEF InPlace, Executed, OfBot
<1>3. PendingOK'
    BY <1>0, <1>1, <1>9 DEF PendingOK, HasPending, NoneIsNoNumber
<1>4. RequestsOK'
    <2>1. \A id \in DOMAIN made : RequestOK(id)'
        BY <1>0, <1>1, <1>2 DEF RequestsOK, RequestOK
    <2>2. r.by = "bot" => r.day \in Nat /\ r.day <= day
        BY <1>0 DEF BotTyped
    <2>3. r.basis # Null => r.basis = r.sequence - 1 /\ r.basis \in DOMAIN asks.requests /\ Executed(r.basis) /\ OfBot(r.basis)
        BY <1>0 DEF HoldingsOK, BotTyped
    <2>4. RequestOK(n)'
        BY <1>1, <1>2, <2>2, <2>3 DEF RequestOK
    <2> QED
        BY <1>1, <2>1, <2>4 DEF RequestsOK
<1>5. FinishedOK'
    <2> SUFFICES ASSUME NEW id \in DOMAIN made', made'[id].by = "bot", id # file'.pending
                 PROVE  \E i \in DOMAIN asks.requests : FinishedBy(id, i)'
        BY DEF FinishedOK
    <2>1. id \in DOMAIN made /\ made[id].by = "bot" /\ made'[id] = made[id]
        BY <1>1, <1>9
    <2>2. id # file.pending
        BY <2>1, <1>0 DEF HasPending, NoneIsNoNumber, BotTyped
    <2>3. PICK i \in DOMAIN asks.requests : FinishedBy(id, i)
        BY <1>0, <2>1, <2>2 DEF FinishedOK
    <2>4. file'.lastDay = file.lastDay
        OBVIOUS
    <2>5. FinishedBy(id, i)'
        BY <2>1, <2>3, <2>4, <1>2 DEF FinishedBy
    <2> QED
        BY <2>5
<1>6. DaysOK'
    <2>1. file'.lastDay = file.lastDay
        OBVIOUS
    <2>2. CASE file' = file
        <3>1. HasPending => made'[file.pending] = made[file.pending]
            BY <1>0, <1>1 DEF PendingOK
        <3> QED
            BY <1>0, <2>2, <3>1 DEF DaysOK, HasPending, After
    <2>3. CASE ~HasPending /\ file'.pending = n /\ r.day = bot.day /\ r.once = bot.once /\ bot.at = "decide"
        BY <1>0, <1>1, <2>1, <2>3 DEF DaysOK, HasPending, After, NoneIsNoNumber
    <2> QED
        BY <1>9, <2>2, <2>3
<1>7. HoldingsOK'
    BY <1>0, <1>1, <1>2 DEF HoldingsOK, InPlace
<1>8. Bot!OncePerDay'
    BY <1>0, <1>1 DEF Bot!OncePerDay, InPlace
<1> QED
    BY <1>2, <1>3, <1>4, <1>5, <1>6, <1>7, <1>8 DEF BotOK

\* The program has seen that its request was executed.
LEMMA BotPolls ==
    ASSUME NoneIsNoNumber, BotOK, Bot!Poll
    PROVE  BotOK'
<1>0. BotTyped /\ PendingOK /\ RequestsOK /\ InPlace /\ FinishedOK /\ DaysOK /\ HoldingsOK /\ Bot!OncePerDay
    BY DEF BotOK
<1> DEFINE p == file.pending
           i == Bot!Place(asks.requests, p)
<1>1. p \in DOMAIN made /\ made[p].by = "bot" /\ p # Null /\ HasPending /\ made[p] \in Made
    BY <1>0 DEF Bot!Poll, PendingOK, HasPending, BotTyped
<1>2. i \in DOMAIN asks.requests /\ asks.requests[i].id = p /\ Executed(i)
    BY <1>0, PlaceFound DEF Bot!Poll, Executed, BotTyped
<1>3. /\ file' = [active |-> made[p].targets, lastDay |-> made[p].day, lastSequence |-> made[p].sequence, pending |-> Null]
      /\ bot' = Bot!Off /\ UNCHANGED <<day, made, asks, page>>
    BY DEF Bot!Poll
<1>4. made[p].sequence = i /\ made[p].day \in Nat /\ made[p].day <= day
    BY <1>0, <1>1, <1>2 DEF InPlace, RequestsOK, RequestOK
<1> HIDE DEF p, i
<1>5. BotTyped' /\ PendingOK'
    BY <1>0, <1>1, <1>3, <1>4 DEF BotTyped, PendingOK, HasPending, Bot!Off, Made
<1>6. RequestsOK' /\ InPlace' /\ Bot!OncePerDay'
    BY <1>0, <1>3 DEF RequestsOK, RequestOK, InPlace, Executed, OfBot, Bot!OncePerDay
<1>7. FinishedOK'
    <2> SUFFICES ASSUME NEW id \in DOMAIN made, made[id].by = "bot"
                 PROVE  \E k \in DOMAIN asks.requests : FinishedBy(id, k)'
        BY <1>3 DEF FinishedOK
    <2>1. CASE id = p
        BY <1>2, <1>3, <1>4, <2>1 DEF FinishedBy, Executed, NoneIsNoNumber
    <2>2. CASE id # p
        <3>1. PICK k \in DOMAIN asks.requests : FinishedBy(id, k)
            BY <1>0, <2>2 DEF FinishedOK, p
        <3>2. file.lastDay # Null => file.lastDay <= made[p].day /\ file.lastDay \in Nat
            BY <1>0, <1>1 DEF DaysOK, After, p, BotTyped
        <3>3. made[id].day \in Nat
            BY <1>0 DEF RequestsOK, RequestOK
        <3>4. FinishedBy(id, k)'
            BY <1>3, <1>4, <3>1, <3>2, <3>3 DEF FinishedBy, Executed, NoneIsNoNumber
        <3> QED
            BY <3>4
    <2> QED
        BY <2>1, <2>2
<1>8. DaysOK'
    BY <1>3, <1>4 DEF DaysOK, HasPending, Bot!Off
<1>9. HoldingsOK'
    BY <1>0, <1>1, <1>2, <1>3, <1>4 DEF HoldingsOK, Executed, OfBot
<1> QED
    BY <1>5, <1>6, <1>7, <1>8, <1>9 DEF BotOK

\* The operator clears a request that failed.
LEMMA BotReset ==
    ASSUME NoneIsNoNumber, BotOK, Bot!Reset
    PROVE  BotOK'
<1>0. BotTyped /\ PendingOK /\ RequestsOK /\ InPlace /\ FinishedOK /\ DaysOK /\ HoldingsOK /\ Bot!OncePerDay
    BY DEF BotOK
<1> DEFINE p == file.pending
           i == Bot!Place(asks.requests, p)
<1>1. i \in DOMAIN asks.requests /\ asks.requests[i].id = p /\ asks.requests[i].status = "FAILED" /\ HasPending
    BY <1>0, PlaceFound DEF Bot!Reset, BotTyped, HasPending
<1>2. /\ file' = [active |-> Null, lastDay |-> file.lastDay, lastSequence |-> Null, pending |-> Null]
      /\ bot.at = "off" /\ UNCHANGED <<day, made, asks, bot, page>>
    BY DEF Bot!Reset, Bot!NoFile
<1> HIDE DEF p, i
<1>3. BotTyped' /\ PendingOK'
    BY <1>0, <1>2 DEF BotTyped, PendingOK, HasPending
<1>4. RequestsOK' /\ InPlace' /\ Bot!OncePerDay' /\ HoldingsOK'
    BY <1>0, <1>2 DEF RequestsOK, RequestOK, InPlace, Executed, OfBot, Bot!OncePerDay, HoldingsOK
<1>5. FinishedOK'
    <2> SUFFICES ASSUME NEW id \in DOMAIN made, made[id].by = "bot"
                 PROVE  \E k \in DOMAIN asks.requests : FinishedBy(id, k)'
        BY <1>2 DEF FinishedOK
    <2>1. CASE id = p
        BY <1>1, <1>2, <2>1 DEF FinishedBy
    <2>2. CASE id # p
        <3>1. PICK k \in DOMAIN asks.requests : FinishedBy(id, k)
            BY <1>0, <2>2 DEF FinishedOK, p
        <3>2. FinishedBy(id, k)'
            BY <1>2, <3>1 DEF FinishedBy, Executed
        <3> QED
            BY <3>2
    <2> QED
        BY <2>1, <2>2
<1>6. DaysOK'
    BY <1>0, <1>2 DEF DaysOK, HasPending
<1> QED
    BY <1>3, <1>4, <1>5, <1>6 DEF BotOK

\* The enclave accepts the request of the next place.
LEMMA BookAccepts ==
    ASSUME NoneIsNoNumber, BotOK, NEW id \in DOMAIN made, Bot!Accept(id)
    PROVE  BotOK'
<1>0. BotTyped /\ PendingOK /\ RequestsOK /\ InPlace /\ FinishedOK /\ DaysOK /\ HoldingsOK /\ Bot!OncePerDay
    BY DEF BotOK
<1> DEFINE e == [id |-> id, status |-> "QUEUED"]
<1>12. PICK n \in Nat : n = Len(asks.requests) + 1
    BY <1>0 DEF BotTyped
<1>1. /\ made[id].sequence = asks.sequence + 1 /\ made' = [made EXCEPT ![id].copies = @ - 1]
      /\ asks' = [asks EXCEPT !.sequence = made[id].sequence, !.requests = Append(@, e)]
      /\ UNCHANGED <<day, file, bot, page>>
    BY DEF Bot!Accept, Bot!Acceptable
<1>2. made[id].copies - 1 \in Int /\ id \in Nat /\ e \in Entry
    <2>1. made[id] \in Made /\ id \in Nat
        BY <1>0 DEF BotTyped
    <2> QED
        BY <2>1 DEF Made, Entry
<1>3. /\ made' \in Seq(Made) /\ DOMAIN made' = DOMAIN made
      /\ \A j \in DOMAIN made : SameRequest(made'[j], made[j])
    BY <1>0, <1>1, <1>2, CopiesChange
<1>4. /\ asks' \in [sequence : Nat, requests : Seq(Entry)] /\ asks'.sequence = Len(asks'.requests)
      /\ DOMAIN asks'.requests = DOMAIN asks.requests \cup {n} /\ n \notin DOMAIN asks.requests
      /\ n = asks.sequence + 1 /\ asks'.requests[n] = e
      /\ \A i \in DOMAIN asks.requests : asks'.requests[i] = asks.requests[i]
    <2>1. /\ asks.requests \in Seq(Entry) /\ asks.sequence = Len(asks.requests) /\ Len(asks.requests) \in Nat
          /\ asks \in [sequence : Nat, requests : Seq(Entry)]
        BY <1>0 DEF BotTyped
    <2>2. Append(asks.requests, e) \in Seq(Entry)
        BY <1>2, <2>1
    <2>3. /\ asks'.requests = Append(asks.requests, e) /\ asks'.sequence = asks.sequence + 1
          /\ asks' \in [sequence : Nat, requests : Seq(Entry)]
        <3>1. PICK s \in Nat : s = asks.sequence + 1
            BY <2>1
        <3>2. PICK A \in Seq(Entry) : A = Append(asks.requests, e)
            BY <2>2
        <3>3. asks' = [asks EXCEPT !.sequence = s, !.requests = A]
            BY <1>1, <3>1, <3>2
        <3> QED
            BY ONLY <2>1, <3>1, <3>2, <3>3
    <2> HIDE DEF e
    <2>4. /\ Len(asks'.requests) = n /\ DOMAIN asks'.requests = DOMAIN asks.requests \cup {n}
          /\ n \notin DOMAIN asks.requests /\ asks'.requests[n] = e
          /\ \A i \in DOMAIN asks.requests : asks'.requests[i] = asks.requests[i]
        BY <1>2, <1>12, <2>1, <2>3
    <2> QED
        BY <1>12, <2>1, <2>3, <2>4
<1>5. BotTyped' /\ PendingOK'
    BY <1>0, <1>1, <1>3, <1>4 DEF BotTyped, PendingOK, HasPending, SameRequest
<1>6. InPlace' /\ \A i \in DOMAIN asks.requests : (Executed(i)' <=> Executed(i)) /\ (OfBot(i)' <=> OfBot(i))
    BY <1>0, <1>1, <1>3, <1>4 DEF InPlace, Executed, OfBot, SameRequest
<1>7. RequestsOK'
    <2> SUFFICES ASSUME NEW j \in DOMAIN made PROVE RequestOK(j)'
        BY <1>3 DEF RequestsOK
    <2>1. RequestOK(j) /\ SameRequest(made'[j], made[j])
        BY <1>0, <1>3 DEF RequestsOK
    <2> QED
        BY <1>1, <1>4, <1>6, <2>1 DEF RequestOK, SameRequest
<1>8. FinishedOK'
    <2> SUFFICES ASSUME NEW j \in DOMAIN made, made[j].by = "bot", j # file.pending
                 PROVE  \E i \in DOMAIN asks'.requests : FinishedBy(j, i)'
        BY <1>1, <1>3 DEF FinishedOK, SameRequest
    <2>1. PICK i \in DOMAIN asks.requests : FinishedBy(j, i)
        BY <1>0 DEF FinishedOK
    <2>2. FinishedBy(j, i)' /\ i \in DOMAIN asks'.requests
        BY <1>1, <1>3, <1>4, <1>6, <2>1 DEF FinishedBy, SameRequest
    <2> QED
        BY <2>2
<1>9. DaysOK'
    <2>1. HasPending => SameRequest(made'[file.pending], made[file.pending])
        BY <1>0, <1>3 DEF PendingOK
    <2> QED
        BY <1>0, <1>1, <2>1 DEF DaysOK, HasPending, After, SameRequest
<1>10. HoldingsOK'
    BY <1>0, <1>1, <1>3, <1>4, <1>6 DEF HoldingsOK, InPlace, SameRequest
<1>11. Bot!OncePerDay'
    <2>1. ~Executed(n)'
        BY <1>4 DEF Executed
    <2>2. \A i \in DOMAIN asks.requests : /\ asks'.requests[i] = asks.requests[i]
                                          /\ SameRequest(made'[asks.requests[i].id], made[asks.requests[i].id])
        BY <1>0, <1>3, <1>4 DEF InPlace
    <2> QED
        BY <1>0, <1>4, <2>1, <2>2 DEF Bot!OncePerDay, SameRequest, Executed
<1> QED
    BY <1>5, <1>6, <1>7, <1>8, <1>9, <1>10, <1>11 DEF BotOK

\* A request is finished: executed or not, once.
LEMMA BookFinishes ==
    ASSUME NoneIsNoNumber, BotOK, NEW outcome \in {"EXECUTED", "FAILED"}, Bot!Finish(outcome)
    PROVE  BotOK'
<1>0. BotTyped /\ PendingOK /\ RequestsOK /\ InPlace /\ FinishedOK /\ DaysOK /\ HoldingsOK /\ Bot!OncePerDay
    BY DEF BotOK
<1>1. PICK i \in DOMAIN asks.requests :
          asks.requests[i].status = "QUEUED" /\ asks' = [asks EXCEPT !.requests[i].status = outcome]
    BY DEF Bot!Finish
<1>2. UNCHANGED <<day, made, file, bot, page>>
    BY DEF Bot!Finish
<1>3. /\ asks.requests \in Seq(Entry) /\ asks.requests[i] \in Entry
      /\ asks'.requests = [asks.requests EXCEPT ![i] = [@ EXCEPT !.status = outcome]] /\ asks'.sequence = asks.sequence
      /\ DOMAIN asks' = DOMAIN asks
    BY <1>0, <1>1 DEF BotTyped
<1>4. [asks.requests[i] EXCEPT !.status = outcome] \in Entry
    BY <1>3 DEF Entry
<1>5. /\ asks'.requests \in Seq(Entry) /\ Len(asks'.requests) = Len(asks.requests)
      /\ DOMAIN asks'.requests = DOMAIN asks.requests
      /\ asks'.requests[i].id = asks.requests[i].id /\ asks'.requests[i].status = outcome
      /\ \A j \in DOMAIN asks.requests \ {i} : asks'.requests[j] = asks.requests[j]
    BY <1>3, <1>4 DEF Entry
<1>6. BotTyped' /\ PendingOK'
    BY <1>0, <1>1, <1>2, <1>3, <1>5 DEF BotTyped, PendingOK, HasPending
<1>7. \A j \in DOMAIN asks.requests : /\ asks'.requests[j].id = asks.requests[j].id
                                      /\ OfBot(j)' <=> OfBot(j)
                                      /\ Executed(j) => Executed(j)'
    BY <1>1, <1>2, <1>5 DEF OfBot, Executed
<1>8. InPlace' /\ RequestsOK'
    BY <1>0, <1>2, <1>5, <1>7 DEF InPlace, RequestsOK, RequestOK
<1>9. FinishedOK'
    <2> SUFFICES ASSUME NEW j \in DOMAIN made, made[j].by = "bot", j # file.pending
                 PROVE  \E k \in DOMAIN asks.requests : FinishedBy(j, k)'
        BY <1>2, <1>5 DEF FinishedOK
    <2>1. PICK k \in DOMAIN asks.requests : FinishedBy(j, k)
        BY <1>0 DEF FinishedOK
    <2>2. k # i
        BY <1>1, <2>1 DEF FinishedBy, Executed
    <2>3. FinishedBy(j, k)'
        BY <1>2, <1>5, <2>1, <2>2 DEF FinishedBy, Executed
    <2> QED
        BY <2>3
<1>10. DaysOK' /\ HoldingsOK'
    BY <1>0, <1>2, <1>5, <1>7 DEF DaysOK, HasPending, After, HoldingsOK
<1>11. Bot!OncePerDay'
    <2>1. ASSUME NEW j \in DOMAIN asks.requests, j # i, Executed(j), OfBot(j), OfBot(i),
                 ~made[asks.requests[i].id].once
          PROVE  made[asks.requests[j].id].day # made[asks.requests[i].id].day
        <3> DEFINE a == asks.requests[j].id
                   b == asks.requests[i].id
        <3>1. /\ a \in DOMAIN made /\ b \in DOMAIN made /\ a # b /\ made[a].by = "bot" /\ made[b].by = "bot"
              /\ made[a].sequence = j /\ made[b].sequence = i
            BY <1>0, <2>1 DEF InPlace, OfBot
        <3>2. b = file.pending /\ HasPending
            <4>1. ASSUME b # file.pending
                  PROVE  FALSE
                <5>1. PICK k \in DOMAIN asks.requests : FinishedBy(b, k)
                    BY <1>0, <3>1, <4>1 DEF FinishedOK
                <5>2. k = i
                    BY <1>0, <3>1, <5>1 DEF FinishedBy, InPlace
                <5> QED
                    BY <1>1, <5>1, <5>2 DEF FinishedBy, Executed
            <4>2. b \in Nat
                BY <1>3 DEF Entry
            <4> QED
                BY <4>1, <4>2 DEF HasPending, NoneIsNoNumber
        <3>3. PICK k \in DOMAIN asks.requests : FinishedBy(a, k)
            BY <1>0, <3>1, <3>2 DEF FinishedOK
        <3>4. k = j
            BY <1>0, <3>1, <3>3 DEF FinishedBy, InPlace
        <3>5. file.lastDay # Null /\ made[a].day <= file.lastDay
            BY <2>1, <3>3, <3>4 DEF FinishedBy, Executed
        <3>6. file.lastDay <= made[b].day /\ file.lastDay # made[b].day
            BY <1>0, <2>1, <3>2, <3>5 DEF DaysOK, After
        <3>7. made[a].day \in Nat /\ made[b].day \in Nat /\ file.lastDay \in Nat
            BY <1>0, <3>1, <3>5 DEF RequestsOK, RequestOK, BotTyped
        <3> QED
            BY <3>5, <3>6, <3>7
    <2>2. ASSUME NEW j \in DOMAIN asks.requests, NEW k \in DOMAIN asks.requests, j # k,
                 OfBot(j), OfBot(k), ~made[asks.requests[j].id].once, ~made[asks.requests[k].id].once,
                 Executed(j)', Executed(k)'
          PROVE  made[asks.requests[j].id].day # made[asks.requests[k].id].day
        <3>1. CASE j = i
            BY <1>5, <2>1, <2>2, <3>1 DEF Executed
        <3>2. CASE k = i
            BY <1>5, <2>1, <2>2, <3>2 DEF Executed
        <3>3. CASE j # i /\ k # i
            BY <1>0, <1>5, <2>2, <3>3 DEF Executed, OfBot, Bot!OncePerDay
        <3> QED
            BY <3>1, <3>2, <3>3
    <2> QED
        BY <1>2, <1>5, <1>7, <2>2 DEF Bot!OncePerDay, Executed, OfBot
<1> QED
    BY <1>6, <1>8, <1>9, <1>10, <1>11 DEF BotOK

\* Each step of the program, the dashboard and the enclave keeps the invariant.
LEMMA BotSteps ==
    ASSUME NoneIsNoNumber, BotOK, [Bot!Next]_(Bot!vars)
    PROVE  BotOK'
<1>0. BotTyped /\ PendingOK /\ DaysOK /\ day \in Nat
    BY DEF BotOK, BotTyped
<1>1. ASSUME made' = made, BotTyped', asks' = asks, file' = file, day' \in Nat, day <= day',
             bot'.at = "poll" => HasPending,
             ~HasPending /\ bot'.at \in {"status", "decide"} /\ file.lastDay # Null => After(bot'.day, bot'.once)
      PROVE  BotOK'
    <2>1. DOMAIN made' = DOMAIN made /\ \A j \in DOMAIN made : SameRequest(made'[j], made[j])
        BY <1>1 DEF SameRequest
    <2> QED
        BY <1>0, <1>1, <2>1, NothingDecided
<1>2. ASSUME NEW once \in BOOLEAN, Bot!Start(once)
      PROVE  BotOK'
    <2>1. /\ bot' = [at |-> "status", once |-> once, day |-> day, seen |-> Null]
          /\ once <=> file.lastDay = day /\ file.pending = Null
          /\ UNCHANGED <<day, made, asks, file, page>>
        BY <1>2 DEF Bot!Start
    <2>2. BotTyped'
        BY <1>0, <2>1 DEF BotTyped
    <2>3. ~HasPending /\ file.lastDay # Null => After(day, once)
        BY <1>0, <2>1 DEF HasPending, After, DaysOK
    <2> QED
        BY <1>0, <1>1, <2>1, <2>2, <2>3
<1>3. CASE Bot!ReadStatus
    <2>1. /\ bot.at = "status" /\ UNCHANGED <<day, made, asks, file, page>>
          /\ bot' = [bot EXCEPT !.at = "decide", !.seen = [sequence |-> asks.sequence,
                                                          unfinished |-> Bot!Unfinished(asks.requests)]]
        BY <1>3 DEF Bot!ReadStatus
    <2>2. [sequence |-> asks.sequence, unfinished |-> Bot!Unfinished(asks.requests)] \in Answer
        BY <1>0 DEF BotTyped, Answer, Bot!Unfinished
    <2>3. bot'.at = "decide" /\ bot'.once = bot.once /\ bot'.day = bot.day /\ bot'.seen \in Answer
          /\ bot' \in [at : {"off", "status", "decide", "poll"}, once : BOOLEAN, day : Nat \cup {Null},
                       seen : Answer \cup {Null}]
        BY <1>0, <2>1, <2>2 DEF BotTyped
    <2>4. BotTyped'
        BY <1>0, <2>1, <2>3 DEF BotTyped
    <2>5. ~HasPending /\ file.lastDay # Null => After(bot.day, bot.once)
        BY <1>0, <2>1 DEF DaysOK
    <2> QED
        BY <1>0, <1>1, <2>1, <2>3, <2>4, <2>5
<1>4. ASSUME NEW active \in Holdings, Bot!Decide(active)
      PROVE  BotOK'
    <2> DEFINE r == Bot!Request("bot", bot.once, file.lastSequence, active, bot.seen.sequence + 1, 0)
    <2>1. /\ bot.at = "decide" /\ file.pending = Null /\ made' = Append(made, r)
          /\ file.lastSequence # Null => bot.seen.sequence = file.lastSequence
          /\ file' = [file EXCEPT !.pending = Len(made')] /\ UNCHANGED <<day, asks, bot, page>>
        BY <1>4 DEF Bot!Decide
    <2>2. /\ r \in Made /\ r.by = "bot" /\ r.day = bot.day /\ r.once = bot.once /\ r.basis = file.lastSequence
          /\ r.sequence = bot.seen.sequence + 1
        BY <1>0, <2>1 DEF BotTyped, Bot!Request, Made, Answer
    <2> HIDE DEF r
    <2>3. made' \in Seq(Made) /\ Len(made') = Len(made) + 1 /\ Len(made') \in Nat
        BY <1>0, <2>1, <2>2 DEF BotTyped
    <2>4. /\ file'.pending = Len(made) + 1 /\ file'.active = file.active /\ file'.lastDay = file.lastDay
          /\ file'.lastSequence = file.lastSequence
          /\ file' \in [active : Holdings \cup {Null}, lastDay : Nat \cup {Null}, lastSequence : Nat \cup {Null},
                        pending : Nat \cup {Null}]
        BY <1>0, <2>1, <2>3 DEF BotTyped
    <2>5. BotTyped'
        BY <1>0, <2>1, <2>3, <2>4 DEF BotTyped
    <2>6. ~HasPending /\ (file.lastSequence # Null => r.sequence = file.lastSequence + 1)
        BY <2>1, <2>2 DEF HasPending
    <2> QED
        BY <2>1, <2>2, <2>4, <2>5, <2>6, RequestMade
<1>5. CASE Bot!Send
    <2>1. /\ bot.at = "decide" /\ file.pending # Null /\ UNCHANGED <<day, asks, file, page>>
          /\ bot' = [bot EXCEPT !.at = "poll", !.seen = Null]
          /\ \/ made' = made
             \/ made' = [made EXCEPT ![file.pending].copies = @ + 1]
        BY <1>5 DEF Bot!Send
    <2>2. file.pending \in DOMAIN made /\ made[file.pending].copies + 1 \in Int
        <3>1. file.pending \in DOMAIN made /\ made[file.pending] \in Made
            BY <1>0, <2>1 DEF PendingOK, HasPending, BotTyped
        <3> QED
            BY <3>1 DEF Made
    <2>3. made' \in Seq(Made) /\ DOMAIN made' = DOMAIN made /\ \A j \in DOMAIN made : SameRequest(made'[j], made[j])
        <3>1. CASE made' = made
            BY <1>0, <3>1 DEF BotTyped, SameRequest
        <3>2. CASE made' = [made EXCEPT ![file.pending].copies = @ + 1]
            BY <1>0, <2>2, <3>2, CopiesChange
        <3> QED
            BY <2>1, <3>1, <3>2
    <2>4. bot'.at = "poll"
          /\ bot' \in [at : {"off", "status", "decide", "poll"}, once : BOOLEAN, day : Nat \cup {Null},
                       seen : Answer \cup {Null}] /\ bot'.day = bot.day
        BY <1>0, <2>1 DEF BotTyped
    <2>5. BotTyped'
        BY <1>0, <2>1, <2>3, <2>4 DEF BotTyped
    <2> QED
        BY <1>0, <2>1, <2>3, <2>4, <2>5, NothingDecided DEF HasPending
<1>6. CASE Bot!Stop
    <2>1. bot' = Bot!Off /\ UNCHANGED <<day, made, asks, file, page>>
        BY <1>6 DEF Bot!Stop
    <2>2. BotTyped' /\ bot'.at = "off"
        BY <1>0, <2>1 DEF BotTyped, Bot!Off
    <2> QED
        BY <1>0, <1>1, <2>1, <2>2
<1>7. CASE Bot!PageReads \/ Bot!NextDay \/ UNCHANGED Bot!vars
    <2>1. /\ UNCHANGED <<made, asks, file, bot>> /\ day' \in {day, day + 1} /\ page' \in {page, asks.sequence}
        BY <1>7 DEF Bot!PageReads, Bot!NextDay, Bot!vars
    <2>2. BotTyped' /\ day <= day' /\ day' \in Nat
        BY <1>0, <2>1 DEF BotTyped
    <2>3. bot.at = "poll" => HasPending
        BY <1>0 DEF PendingOK
    <2>4. ~HasPending /\ bot.at \in {"status", "decide"} /\ file.lastDay # Null => After(bot.day, bot.once)
        BY <1>0 DEF DaysOK
    <2> QED
        BY <1>0, <1>1, <2>1, <2>2, <2>3, <2>4
<1>8. CASE Bot!PageSends
    <2> DEFINE r == Bot!Request("page", FALSE, Null, Null, page + 1, 1)
    <2>1. page # Null /\ made' = Append(made, r) /\ page' = Null /\ UNCHANGED <<day, asks, file, bot>>
        BY <1>8 DEF Bot!PageSends
    <2>2. r \in Made /\ r.by = "page" /\ r.basis = Null
        BY <1>0, <2>1 DEF BotTyped, Bot!Request, Made
    <2> HIDE DEF r
    <2>3. made' \in Seq(Made)
        BY <1>0, <2>1, <2>2 DEF BotTyped
    <2>4. BotTyped'
        BY <1>0, <2>1, <2>3 DEF BotTyped
    <2> QED
        BY <2>1, <2>2, <2>4, RequestMade
<1>9. ASSUME NEW id \in DOMAIN made, Bot!Lose(id)
      PROVE  BotOK'
    <2>1. made' = [made EXCEPT ![id].copies = @ - 1] /\ UNCHANGED <<day, asks, file, bot, page>>
        BY <1>9 DEF Bot!Lose
    <2>2. made[id].copies - 1 \in Int
        <3>1. made[id] \in Made
            BY <1>0 DEF BotTyped
        <3> QED
            BY <3>1 DEF Made
    <2>3. made' \in Seq(Made) /\ DOMAIN made' = DOMAIN made /\ \A j \in DOMAIN made : SameRequest(made'[j], made[j])
        BY <1>0, <2>1, <2>2, CopiesChange
    <2>4. BotTyped'
        BY <1>0, <2>1, <2>3 DEF BotTyped
    <2>5. bot.at = "poll" => HasPending
        BY <1>0 DEF PendingOK
    <2>6. ~HasPending /\ bot.at \in {"status", "decide"} /\ file.lastDay # Null => After(bot.day, bot.once)
        BY <1>0 DEF DaysOK
    <2> QED
        BY <1>0, <2>1, <2>3, <2>4, <2>5, <2>6, NothingDecided
<1> QED
    BY <1>2, <1>3, <1>4, <1>5, <1>6, <1>7, <1>8, <1>9, BotPolls, BotReset, BookAccepts, BookFinishes DEF Bot!Next

\* A day's decision is carried out once, and a decision is taken from what was executed last
\* or not at all: for any holdings, number of days, requests and copies, whenever the program
\* is killed and started again (mean-reversion.mjs, runOnce; execution.mjs, accept).
THEOREM DecisionsAreMadeOnce ==
    ASSUME NoneIsNoNumber
    PROVE  Bot!Init /\ [][Bot!Next]_(Bot!vars) => [](Bot!OncePerDay /\ Bot!DecidesFromItsHoldings)
<1>1. Bot!Init => BotOK
    BY DEF Bot!Init, Bot!NoFile, Bot!Off, BotOK, BotTyped, PendingOK, RequestsOK, InPlace, FinishedOK, DaysOK,
       HoldingsOK, HasPending, Bot!OncePerDay
<1>2. BotOK /\ [Bot!Next]_(Bot!vars) => BotOK'
    BY BotSteps
<1>3. BotOK => Bot!OncePerDay /\ Bot!DecidesFromItsHoldings
    <2> SUFFICES ASSUME BotOK PROVE Bot!DecidesFromItsHoldings
        BY DEF BotOK
    <2>1. file.lastSequence # Null =>
              /\ asks.requests[file.lastSequence].status = "EXECUTED"
              /\ made[asks.requests[file.lastSequence].id].by = "bot"
              /\ made[asks.requests[file.lastSequence].id].targets = file.active
        BY DEF BotOK, HoldingsOK, Executed, OfBot
    <2>2. ASSUME NEW i \in DOMAIN asks.requests, made[asks.requests[i].id].basis # Null
          PROVE  /\ made[asks.requests[i].id].basis = i - 1 /\ asks.requests[i - 1].status = "EXECUTED"
                 /\ made[asks.requests[i - 1].id].by = "bot"
        BY <2>2 DEF BotOK, InPlace, RequestsOK, RequestOK, Executed, OfBot
    <2> QED
        BY <2>1, <2>2 DEF Bot!DecidesFromItsHoldings
<1> QED
    BY <1>1, <1>2, <1>3, PTL

-------------------------------------------------------------------------------
(* Targets set by hand. *)

NoneIsNoDialog ==
    /\ Null # "targets"
    /\ \A what, at, here, dialog, click, weights, read :
          Null # [what |-> what, at |-> at, here |-> here, dialog |-> dialog, click |-> click, weights |-> weights,
                  read |-> read]
    /\ \A dialog, weights, status : Null # [dialog |-> dialog, weights |-> weights, status |-> status]

Confirmed == [accepted : Nat, unanswered : Nat, blind : BOOLEAN]
Working == run # Null
Showing == desk # Null
TargetRun(d) == Working /\ run.what = "target" /\ run.dialog = d
OnItsWay(d) == {r \in wire : r.what = "target" /\ r.dialog = d}

\* What was not sent yet: a dialog that is open, or a run that reads before it sends.
UnsentDialog(d) ==
    IF TargetRun(d) THEN run.at \in {"read", "send"}
    ELSE Showing /\ desk.dialog = "targets" /\ d = Len(opens)

OfPage(p) == p = [dialog |-> p.dialog, weights |-> p.weights, status |-> p.status]
OfRun(r) ==
    r = [what |-> r.what, at |-> r.at, here |-> r.here, dialog |-> r.dialog, click |-> r.click,
         weights |-> r.weights, read |-> r.read]
DialogTyped ==
    /\ opens \in Seq(Confirmed) /\ IsFiniteSet(wire) /\ kept.sequence \in Nat
    /\ DOMAIN kept = {"status", "sequence", "open"}
    /\ \A r \in wire : r.what = "target" => r.dialog \in DOMAIN opens /\ r.read \in Nat
    /\ Showing => OfPage(desk)
    /\ Showing /\ desk.dialog = "targets" => Len(opens) # 0
    /\ Working =>
          /\ OfRun(run)
          /\ run.at \in {"read", "send", "wait", "ok"} /\ run.here \in BOOLEAN
          /\ run.at = "send" => run.what = "target"
          /\ run.what = "target" => run.dialog \in DOMAIN opens /\ (run.at = "send" => run.read \in Nat)

\* A dialog is not left for another one while its run goes on; what is not mounted any more
\* opens no dialog meanwhile.
DialogStays ==
    Working =>
        /\ run.here = FALSE => ~Showing \/ desk.dialog = Null
        /\ run.here = TRUE => Showing
        /\ run.here = TRUE /\ run.what = "target" => desk.dialog = "targets" /\ run.dialog = Len(opens)
        /\ Showing /\ desk.dialog = "targets" => run.here = TRUE /\ run.what = "target"

\* A dialog is accepted or on its way at most as often as it was confirmed.
Count(d) == opens[d].accepted + Cardinality(OnItsWay(d))
Counted(d) == Count(d) <= opens[d].unanswered + (IF UnsentDialog(d) THEN 0 ELSE 1)
NeverBlind == \A d \in DOMAIN opens : opens[d].blind = FALSE
DialogsOK == DialogTyped /\ DialogStays /\ NeverBlind /\ \A d \in DOMAIN opens : Counted(d)

\* What is on its way is finitely much.
LEMMA WireCounts ==
    ASSUME IsFiniteSet(wire), NEW d
    PROVE  /\ IsFiniteSet(OnItsWay(d)) /\ Cardinality(OnItsWay(d)) \in Nat
           /\ \A r : IsFiniteSet(OnItsWay(d) \cup {r})
                     /\ Cardinality(OnItsWay(d) \cup {r}) <= Cardinality(OnItsWay(d)) + 1
           /\ \A r \in OnItsWay(d) : IsFiniteSet(OnItsWay(d) \ {r})
                                     /\ Cardinality(OnItsWay(d) \ {r}) = Cardinality(OnItsWay(d)) - 1
<1>1. IsFiniteSet(OnItsWay(d))
    <2>1. OnItsWay(d) \in SUBSET wire
        BY DEF OnItsWay
    <2> QED
        BY <2>1, FS_Subset
<1>2. Cardinality(OnItsWay(d)) \in Nat
    BY <1>1, FS_CardinalityType
<1>3. ASSUME NEW r
      PROVE  IsFiniteSet(OnItsWay(d) \cup {r}) /\ Cardinality(OnItsWay(d) \cup {r}) <= Cardinality(OnItsWay(d)) + 1
    <2> DEFINE S == OnItsWay(d)
    <2>0. IsFiniteSet(S) /\ Cardinality(S) \in Nat
        BY <1>1, <1>2
    <2> HIDE DEF S
    <2>1. /\ IsFiniteSet(S \cup {r})
          /\ Cardinality(S \cup {r}) = Cardinality(S) \/ Cardinality(S \cup {r}) = Cardinality(S) + 1
        <3>1. CASE r \in S
            <4>1. S \cup {r} = S
                BY <3>1
            <4> QED
                BY ONLY <2>0, <4>1
        <3>2. CASE r \notin S
            BY ONLY <2>0, <3>2, FS_AddElement
        <3> QED
            BY <3>1, <3>2
    <2>2. IsFiniteSet(S \cup {r}) /\ Cardinality(S \cup {r}) <= Cardinality(S) + 1
        BY ONLY <2>0, <2>1
    <2> QED
        BY <2>2 DEF S
<1>4. ASSUME NEW r \in OnItsWay(d)
      PROVE  IsFiniteSet(OnItsWay(d) \ {r}) /\ Cardinality(OnItsWay(d) \ {r}) = Cardinality(OnItsWay(d)) - 1
    BY <1>1, <1>2, <1>4, FS_RemoveElement
<1> QED
    BY <1>1, <1>2, <1>3, <1>4

\* A step that sends, accepts and confirms nothing, and does not lead back to a dialog.
LEMMA NothingSent ==
    ASSUME DialogsOK, DialogTyped', DialogStays', UNCHANGED <<wire, opens>>,
           \A d \in DOMAIN opens : UnsentDialog(d)' => UnsentDialog(d)
    PROVE  DialogsOK'
<1>1. ASSUME NEW d \in DOMAIN opens
      PROVE  Counted(d)'
    <2>1. OnItsWay(d)' = OnItsWay(d) /\ Cardinality(OnItsWay(d)) \in Nat
        BY WireCounts DEF DialogsOK, DialogTyped, OnItsWay
    <2>2. opens[d] \in Confirmed /\ Counted(d) /\ (UnsentDialog(d)' => UnsentDialog(d))
        BY <1>1 DEF DialogsOK, DialogTyped
    <2> QED
        BY <2>1, <2>2 DEF Counted, Count, Confirmed
<1> QED
    BY <1>1 DEF DialogsOK, NeverBlind

\* The page comes and goes, reads the status, and opens and closes a dialog that is not sent.
LEMMA PageSteps ==
    ASSUME NoneIsNoDialog, DialogsOK,
           Hand!Leave \/ Hand!Open \/ Hand!Poll \/ Hand!AskRestart \/ Hand!Close
    PROVE  DialogsOK'
<1>0. DialogTyped /\ DialogStays /\ UNCHANGED <<kept, wire, opens>>
    BY DEF DialogsOK, Hand!Leave, Hand!Open, Hand!Poll, Hand!AskRestart, Hand!Close
<1> USE DEF Showing, Working, Hand!Mounted, Hand!Busy, Hand!Clear, Hand!Fresh, NoneIsNoDialog
<1>1. CASE Hand!Leave
    <2>0. desk' = Null /\ (run = Null => run' = Null)
          /\ (run # Null => run' = [what |-> run.what, at |-> run.at, here |-> FALSE, dialog |-> run.dialog,
                                    click |-> run.click, weights |-> run.weights, read |-> run.read])
        BY <1>0, <1>1 DEF Hand!Leave, DialogTyped, OfRun
    <2>1. /\ desk' = Null /\ (run = Null => run' = Null)
          /\ run # Null => /\ OfRun(run') /\ run'.what = run.what /\ run'.at = run.at /\ run'.here = FALSE
                           /\ run'.dialog = run.dialog /\ run'.read = run.read
        BY <2>0 DEF OfRun
    <2>2. run' = Null <=> run = Null
        BY <2>0
    <2>3. DialogTyped'
        BY <1>0, <2>1, <2>2 DEF DialogTyped
    <2>4. DialogStays'
        BY <1>0, <2>1, <2>2 DEF DialogStays
    <2>5. \A d \in DOMAIN opens : UnsentDialog(d)' => UnsentDialog(d)
        BY <1>0, <2>1, <2>2 DEF UnsentDialog, TargetRun
    <2> QED
        BY <1>0, <2>3, <2>4, <2>5, NothingSent
<1>2. CASE Hand!Open
    <2>1. desk = Null /\ run' = run /\ desk' = [dialog |-> Null, weights |-> 0, status |-> Null]
        BY <1>2 DEF Hand!Open
    <2>2. DialogTyped' /\ DialogStays'
        BY <1>0, <2>1 DEF DialogTyped, DialogStays, OfPage, OfRun
    <2>3. \A d \in DOMAIN opens : UnsentDialog(d)' => UnsentDialog(d)
        BY <1>0, <2>1 DEF UnsentDialog, TargetRun
    <2> QED
        BY <1>0, <2>2, <2>3, NothingSent
<1>3. CASE Hand!Poll
    <2>1. /\ desk # Null /\ run' = run
          /\ desk' = [dialog |-> desk.dialog, weights |-> desk.weights, status |-> kept]
        BY <1>0, <1>3 DEF Hand!Poll, DialogTyped, OfPage
    <2>2. desk'.dialog = desk.dialog /\ OfPage(desk')
        BY <2>1 DEF OfPage
    <2>4. DialogTyped' /\ DialogStays'
        <3>1. DialogTyped'
            BY <1>0, <2>1, <2>2 DEF DialogTyped
        <3>2. DialogStays'
            BY <1>0, <2>1, <2>2 DEF DialogStays
        <3> QED
            BY <3>1, <3>2
    <2>3. \A d \in DOMAIN opens : UnsentDialog(d)' => UnsentDialog(d)
        BY <1>0, <2>1 DEF UnsentDialog, TargetRun
    <2> QED
        BY <1>0, <2>4, <2>3, NothingSent
<1>4. CASE Hand!AskRestart
    <2>1. /\ desk # Null /\ run = Null /\ run' = run
          /\ desk' = [dialog |-> "restart", weights |-> desk.weights, status |-> desk.status]
        BY <1>0, <1>4 DEF Hand!AskRestart, DialogTyped, OfPage
    <2>2. DialogTyped' /\ DialogStays'
        BY <1>0, <2>1 DEF DialogTyped, DialogStays, OfPage, OfRun
    <2>3. \A d \in DOMAIN opens : UnsentDialog(d)' => UnsentDialog(d)
        BY <1>0, <2>1 DEF UnsentDialog, TargetRun
    <2> QED
        BY <1>0, <2>2, <2>3, NothingSent
<1>5. CASE Hand!Close
    <2>1. /\ desk # Null /\ run = Null /\ run' = run
          /\ desk' = [dialog |-> Null, weights |-> 0, status |-> desk.status]
        BY <1>0, <1>5 DEF Hand!Close, DialogTyped, OfPage
    <2>2. DialogTyped' /\ DialogStays'
        BY <1>0, <2>1 DEF DialogTyped, DialogStays, OfPage, OfRun
    <2>3. \A d \in DOMAIN opens : UnsentDialog(d)' => UnsentDialog(d)
        BY <1>0, <2>1 DEF UnsentDialog, TargetRun
    <2> QED
        BY <1>0, <2>2, <2>3, NothingSent
<1> QED
    BY <1>1, <1>2, <1>3, <1>4, <1>5

\* A new dialog has not been sent.
LEMMA DialogOpens ==
    ASSUME NoneIsNoDialog, DialogsOK, NEW weights, Hand!Review(weights)
    PROVE  DialogsOK'
<1>0. DialogTyped /\ DialogStays /\ NeverBlind /\ \A d \in DOMAIN opens : Counted(d)
    BY DEF DialogsOK
<1> DEFINE fresh == [accepted |-> 0, unanswered |-> 0, blind |-> FALSE]
<1>1. /\ desk # Null /\ desk.dialog = Null /\ run = Null
      /\ desk' = [dialog |-> "targets", weights |-> weights, status |-> desk.status]
      /\ opens' = Append(opens, fresh) /\ UNCHANGED <<run, kept, wire>>
    BY <1>0 DEF Hand!Review, Hand!MayReview, Hand!Clear, Hand!Mounted, Hand!Busy, DialogTyped, Showing, OfPage, OfRun
<1>2. PICK n \in Nat : n = Len(opens) + 1
    BY <1>0 DEF DialogTyped
<1>3. fresh \in Confirmed
    BY DEF Confirmed
<1>4. /\ opens' \in Seq(Confirmed) /\ DOMAIN opens' = DOMAIN opens \cup {n} /\ n \notin DOMAIN opens
      /\ Len(opens') = n /\ opens'[n] = fresh /\ \A d \in DOMAIN opens : opens'[d] = opens[d]
    BY <1>0, <1>1, <1>2, <1>3 DEF DialogTyped
<1>5. DialogTyped' /\ DialogStays' /\ NeverBlind'
    BY <1>0, <1>1, <1>2, <1>4 DEF DialogTyped, DialogStays, NeverBlind, Showing, Working, OfPage, OfRun
<1>6. Counted(n)'
    <2>1. OnItsWay(n)' = {}
        BY <1>0, <1>1, <1>4 DEF OnItsWay, DialogTyped
    <2>2. Cardinality(OnItsWay(n)') = 0
        BY <2>1, FS_EmptySet
    <2> QED
        BY <1>4, <2>2 DEF Counted, Count
<1>7. ASSUME NEW d \in DOMAIN opens
      PROVE  Counted(d)'
    <2>1. OnItsWay(d)' = OnItsWay(d) /\ Cardinality(OnItsWay(d)) \in Nat
        BY <1>0, <1>1, WireCounts DEF OnItsWay, DialogTyped
    <2>2. opens[d] \in Confirmed /\ opens'[d] = opens[d] /\ Counted(d) /\ ~UnsentDialog(d)'
        BY <1>0, <1>1, <1>2, <1>4, <1>7 DEF UnsentDialog, TargetRun, Working, DialogTyped
    <2> QED
        BY <2>1, <2>2 DEF Counted, Count, Confirmed
<1> QED
    BY <1>4, <1>5, <1>6, <1>7 DEF DialogsOK

\* A run begins and reads; one that restarts trading sends at once.
LEMMA RunBegins ==
    ASSUME NoneIsNoDialog, DialogsOK, Hand!Look \/ Hand!Submit \/ Hand!Restart \/ Hand!ReadStatus
    PROVE  DialogsOK'
<1>0. DialogTyped /\ DialogStays /\ NeverBlind /\ (\A d \in DOMAIN opens : Counted(d)) /\ UNCHANGED <<kept, opens>>
    BY DEF DialogsOK, Hand!Look, Hand!Submit, Hand!Restart, Hand!ReadStatus
<1> USE DEF Showing, Working, Hand!Mounted, Hand!Busy, Hand!Clear, NoneIsNoDialog
<1>1. CASE Hand!Look
    <2>1. /\ run = Null /\ desk # Null /\ desk.dialog = Null /\ UNCHANGED <<desk, wire>>
          /\ run' = [what |-> "look", at |-> "read", here |-> TRUE, dialog |-> Len(opens), click |-> 0,
                     weights |-> 0, read |-> Null]
        BY <1>1 DEF Hand!Look, Hand!Run
    <2>2. DialogTyped' /\ DialogStays'
        BY <1>0, <2>1 DEF DialogTyped, DialogStays, OfPage, OfRun
    <2>3. \A d \in DOMAIN opens : UnsentDialog(d)' => UnsentDialog(d)
        BY <1>0, <2>1 DEF UnsentDialog, TargetRun
    <2> QED
        BY <1>0, <2>1, <2>2, <2>3, NothingSent
<1>2. CASE Hand!Submit
    <2>1. /\ run = Null /\ desk # Null /\ desk.dialog = "targets" /\ UNCHANGED <<desk, wire>>
          /\ run' = [what |-> "target", at |-> "read", here |-> TRUE, dialog |-> Len(opens),
                     click |-> opens[Len(opens)].unanswered, weights |-> desk.weights, read |-> Null]
        BY <1>2 DEF Hand!Submit, Hand!Run
    <2>2. Len(opens) \in DOMAIN opens
        BY <1>0, <2>1 DEF DialogTyped
    <2>3. DialogTyped' /\ DialogStays'
        BY <1>0, <2>1, <2>2 DEF DialogTyped, DialogStays, OfPage, OfRun
    <2>4. \A d \in DOMAIN opens : UnsentDialog(d)' => UnsentDialog(d)
        BY <1>0, <2>1 DEF UnsentDialog, TargetRun
    <2> QED
        BY <1>0, <2>1, <2>3, <2>4, NothingSent
<1>3. CASE Hand!Restart
    <2>1. /\ run = Null /\ desk # Null /\ desk.dialog = "restart" /\ desk' = desk
          /\ run' = [what |-> "restart", at |-> "wait", here |-> TRUE, dialog |-> Len(opens), click |-> 0,
                     weights |-> 0, read |-> Null]
          /\ wire' = wire \cup {Hand!Sent(run')}
        BY <1>3 DEF Hand!Restart, Hand!Run
    <2>2. Hand!Sent(run').what = "restart" /\ IsFiniteSet(wire')
        BY <1>0, <2>1, FS_AddElement DEF Hand!Sent, DialogTyped
    <2>3. DialogTyped' /\ DialogStays'
        BY <1>0, <2>1, <2>2 DEF DialogTyped, DialogStays, OfPage, OfRun
    <2>4. ASSUME NEW d \in DOMAIN opens
          PROVE  Counted(d)'
        <3>1. OnItsWay(d)' = OnItsWay(d) /\ Cardinality(OnItsWay(d)) \in Nat
            BY <1>0, <2>1, <2>2, WireCounts DEF OnItsWay, DialogTyped
        <3>2. opens[d] \in Confirmed /\ Counted(d) /\ (UnsentDialog(d)' => UnsentDialog(d))
            BY <1>0, <2>1, <2>4 DEF DialogTyped, UnsentDialog, TargetRun
        <3> QED
            BY <1>0, <3>1, <3>2 DEF Counted, Count, Confirmed
    <2> QED
        BY <1>0, <2>3, <2>4 DEF DialogsOK, NeverBlind
<1>4. CASE Hand!ReadStatus
    <2>1. /\ run # Null /\ run.at = "read" /\ wire' = wire
          /\ desk' = IF run.here = TRUE
                     THEN [desk EXCEPT !.status = kept, !.dialog = IF run.what = "restart" THEN Null ELSE @] ELSE desk
          /\ run' = IF run.what = "target" THEN [run EXCEPT !.at = "send", !.read = kept.sequence] ELSE Null
        BY <1>0, <1>4 DEF Hand!ReadStatus, Hand!Here, DialogTyped
    <2>2. /\ desk' = Null <=> desk = Null
          /\ desk # Null => /\ OfPage(desk')
                            /\ desk'.dialog = desk.dialog \/ desk'.dialog = Null
                            /\ run.what # "restart" => desk'.dialog = desk.dialog
        <3>1. CASE run.here = TRUE
            <4>1. desk # Null /\ OfPage(desk)
                BY <1>0, <2>1, <3>1 DEF DialogTyped, DialogStays
            <4>2. PICK shown : shown = IF run.what = "restart" THEN Null ELSE desk.dialog
                OBVIOUS
            <4>3. desk' = [dialog |-> shown, weights |-> desk.weights, status |-> kept]
                BY <2>1, <3>1, <4>1, <4>2 DEF OfPage
            <4>4. OfPage(desk') /\ desk'.dialog = shown
                BY <4>3 DEF OfPage
            <4>5. desk' # Null
                BY <4>3 DEF NoneIsNoDialog
            <4> QED
                BY <4>1, <4>2, <4>4, <4>5
        <3>2. CASE run.here # TRUE
            BY <1>0, <2>1, <3>2 DEF DialogTyped, DialogStays
        <3> QED
            BY <3>1, <3>2
    <2>3. CASE run.what = "target"
        <3>1. /\ run' = [what |-> "target", at |-> "send", here |-> run.here, dialog |-> run.dialog,
                         click |-> run.click, weights |-> run.weights, read |-> kept.sequence]
              /\ run' # Null
            BY <1>0, <2>1, <2>3 DEF DialogTyped, OfPage, OfRun
        <3>2. DialogTyped' /\ DialogStays'
            BY <1>0, <2>1, <2>2, <2>3, <3>1 DEF DialogTyped, DialogStays, OfPage, OfRun
        <3>3. \A d \in DOMAIN opens : UnsentDialog(d)' => UnsentDialog(d)
            BY <1>0, <2>1, <2>2, <2>3, <3>1 DEF UnsentDialog, TargetRun
        <3> QED
            BY <1>0, <2>1, <3>2, <3>3, NothingSent
    <2>4. CASE run.what # "target"
        <3>1. DialogTyped' /\ DialogStays'
            BY <1>0, <2>1, <2>2, <2>4 DEF DialogTyped, DialogStays
        <3>2. \A d \in DOMAIN opens : UnsentDialog(d)' => UnsentDialog(d)
            BY <1>0, <2>1, <2>2, <2>4 DEF UnsentDialog, TargetRun, DialogStays
        <3> QED
            BY <1>0, <2>1, <3>1, <3>2, NothingSent
    <2> QED
        BY <2>3, <2>4
<1> QED
    BY <1>1, <1>2, <1>3, <1>4

\* What is confirmed is sent: the dialog has nothing unsent any more.
LEMMA RunSends ==
    ASSUME NoneIsNoDialog, DialogsOK, Hand!Send
    PROVE  DialogsOK'
<1>0. DialogTyped /\ DialogStays /\ NeverBlind /\ (\A d \in DOMAIN opens : Counted(d)) /\ UNCHANGED <<desk, kept, opens>>
    BY DEF DialogsOK, Hand!Send
<1>1. /\ run # Null /\ run.at = "send" /\ run.what = "target" /\ run.dialog \in DOMAIN opens /\ run.read \in Nat
      /\ run' = [what |-> "target", at |-> "wait", here |-> run.here, dialog |-> run.dialog, click |-> run.click,
                 weights |-> 0, read |-> run.read]
      /\ wire' = wire \cup {Hand!Sent(run')}
    BY <1>0 DEF Hand!Send, Hand!Busy, DialogTyped, Working, OfPage, OfRun
<1>2. run' # Null
    BY <1>1 DEF NoneIsNoDialog
<1>3. PICK r : r = [what |-> "target", dialog |-> run.dialog, click |-> run.click, read |-> run.read]
    OBVIOUS
<1>4. wire' = wire \cup {r} /\ r.what = "target" /\ r.dialog = run.dialog /\ r.read \in Nat
    BY <1>1, <1>3 DEF Hand!Sent
<1>5. DialogTyped' /\ DialogStays'
    <2>1. IsFiniteSet(wire')
        BY <1>0, <1>4, FS_AddElement DEF DialogTyped
    <2> QED
        BY <1>0, <1>1, <1>2, <1>4, <2>1 DEF DialogTyped, DialogStays, Working, Showing, OfPage, OfRun
<1>6. ASSUME NEW d \in DOMAIN opens
      PROVE  Counted(d)'
    <2>1. opens[d] \in Confirmed /\ Counted(d) /\ IsFiniteSet(wire)
        BY <1>0, <1>6 DEF DialogTyped
    <2>2. CASE d = run.dialog
        <3>1. OnItsWay(d)' = OnItsWay(d) \cup {r}
            BY <1>4, <2>2 DEF OnItsWay
        <3>2. Cardinality(OnItsWay(d)') <= Cardinality(OnItsWay(d)) + 1 /\ Cardinality(OnItsWay(d)) \in Nat
              /\ Cardinality(OnItsWay(d)') \in Nat
            BY <2>1, <3>1, WireCounts, FS_CardinalityType
        <3>3. UnsentDialog(d) /\ ~UnsentDialog(d)'
            BY <1>1, <1>2, <2>2 DEF UnsentDialog, TargetRun, Working
        <3> QED
            BY <1>0, <2>1, <3>2, <3>3 DEF Counted, Count, Confirmed
    <2>3. CASE d # run.dialog
        <3>1. OnItsWay(d)' = OnItsWay(d) /\ Cardinality(OnItsWay(d)) \in Nat
            BY <1>4, <2>1, <2>3, WireCounts DEF OnItsWay
        <3>2. UnsentDialog(d)' => UnsentDialog(d)
            BY <1>0, <1>1, <1>2, <2>3 DEF UnsentDialog, TargetRun, Working, Showing
        <3> QED
            BY <1>0, <2>1, <3>1, <3>2 DEF Counted, Count, Confirmed
    <2> QED
        BY <2>2, <2>3
<1> QED
    BY <1>0, <1>5, <1>6 DEF DialogsOK, NeverBlind

\* The answer closes the dialog; a failure leaves it open and is counted.
LEMMA RunEnds ==
    ASSUME NoneIsNoDialog, DialogsOK, Hand!Answered \/ Hand!Fails
    PROVE  DialogsOK'
<1>0. DialogTyped /\ DialogStays /\ NeverBlind /\ (\A d \in DOMAIN opens : Counted(d)) /\ UNCHANGED <<kept, wire>>
    BY DEF DialogsOK, Hand!Answered, Hand!Fails
<1> USE DEF Showing, Working, Hand!Busy
<1>1. CASE Hand!Answered
    <2>1. /\ run # Null /\ run.at = "ok" /\ opens' = opens
          /\ desk' = IF run.what = "target" /\ run.here = TRUE THEN [desk EXCEPT !.dialog = Null, !.weights = 0] ELSE desk
          /\ run' = [what |-> IF run.what = "target" THEN "look" ELSE run.what, at |-> "read", here |-> run.here,
                     dialog |-> run.dialog, click |-> run.click, weights |-> run.weights, read |-> Null]
        BY <1>0, <1>1 DEF Hand!Answered, Hand!Here, DialogTyped, OfPage, OfRun
    <2>2. run' # Null
        BY <2>1 DEF NoneIsNoDialog
    <2>3. /\ desk' = Null <=> desk = Null
          /\ desk # Null => /\ OfPage(desk')
                            /\ run.what = "target" /\ run.here = TRUE => desk'.dialog = Null
                            /\ ~(run.what = "target" /\ run.here = TRUE) => desk'.dialog = desk.dialog
        <3>1. CASE run.what = "target" /\ run.here = TRUE
            <4>1. desk # Null /\ OfPage(desk)
                BY <1>0, <2>1, <3>1 DEF DialogTyped, DialogStays
            <4>2. desk' = [dialog |-> Null, weights |-> 0, status |-> desk.status]
                BY <2>1, <3>1, <4>1 DEF OfPage
            <4>3. OfPage(desk') /\ desk'.dialog = Null
                BY <4>2 DEF OfPage
            <4>4. desk' # Null
                BY <4>2 DEF NoneIsNoDialog
            <4> QED
                BY <3>1, <4>1, <4>3, <4>4
        <3>2. CASE ~(run.what = "target" /\ run.here = TRUE)
            BY <1>0, <2>1, <3>2 DEF DialogTyped, DialogStays
        <3> QED
            BY <3>1, <3>2
    <2>4. DialogTyped' /\ DialogStays'
        BY <1>0, <2>1, <2>2, <2>3 DEF DialogTyped, DialogStays, NoneIsNoDialog, OfPage, OfRun
    <2>5. \A d \in DOMAIN opens : UnsentDialog(d)' => UnsentDialog(d)
        BY <1>0, <2>1, <2>2, <2>3 DEF UnsentDialog, TargetRun, DialogTyped, DialogStays, NoneIsNoDialog
    <2> QED
        BY <1>0, <2>1, <2>4, <2>5, NothingSent
<1>2. CASE Hand!Fails /\ ~(run.what = "target" /\ run.at \in {"wait", "ok"})
    <2>1. run # Null /\ run' = Null /\ opens' = opens /\ desk' = desk
        BY <1>2 DEF Hand!Fails
    <2>2. DialogTyped' /\ DialogStays'
        BY <1>0, <2>1 DEF DialogTyped, DialogStays
    <2>3. \A d \in DOMAIN opens : UnsentDialog(d)' => UnsentDialog(d)
        BY <1>0, <1>2, <2>1 DEF UnsentDialog, TargetRun, DialogStays, DialogTyped
    <2> QED
        BY <1>0, <2>1, <2>2, <2>3, NothingSent
<1>3. CASE Hand!Fails /\ run.what = "target" /\ run.at \in {"wait", "ok"}
    <2>1. PICK e \in DOMAIN opens : e = run.dialog
        BY <1>0, <1>3 DEF DialogTyped, Hand!Fails
    <2>2. run # Null /\ run' = Null /\ desk' = desk /\ opens' = [opens EXCEPT ![e].unanswered = @ + 1]
        BY <1>3, <2>1 DEF Hand!Fails
    <2>0. opens \in Seq(Confirmed)
        BY <1>0 DEF DialogTyped
    <2>3. opens[e] \in Confirmed /\ opens[e].unanswered \in Nat /\ opens \in Seq(Confirmed)
        <3>1. opens[e] \in Confirmed
            BY <2>0
        <3> QED
            BY <2>0, <3>1 DEF Confirmed
    <2>4. [opens[e] EXCEPT !.unanswered = opens[e].unanswered + 1] \in Confirmed
        BY <2>3 DEF Confirmed
    <2>5. /\ opens' \in Seq(Confirmed) /\ DOMAIN opens' = DOMAIN opens /\ Len(opens') = Len(opens)
          /\ \A d \in DOMAIN opens \ {e} : opens'[d] = opens[d]
          /\ opens'[e].unanswered = opens[e].unanswered + 1 /\ opens'[e].accepted = opens[e].accepted
          /\ opens'[e].blind = opens[e].blind
        BY <2>2, <2>3, <2>4 DEF Confirmed
    <2>6. DialogTyped' /\ DialogStays' /\ NeverBlind'
        BY <1>0, <2>2, <2>5 DEF DialogTyped, DialogStays, NeverBlind
    <2>7. ASSUME NEW d \in DOMAIN opens
          PROVE  Counted(d)'
        <3>0. IsFiniteSet(wire)
            BY <1>0 DEF DialogTyped
        <3>1. /\ OnItsWay(d)' = OnItsWay(d) /\ Cardinality(OnItsWay(d)) \in Nat
              /\ opens[d] \in Confirmed /\ Counted(d)
            <4>1. Cardinality(OnItsWay(d)) \in Nat
                BY <3>0, WireCounts
            <4>2. OnItsWay(d)' = OnItsWay(d)
                BY <1>0 DEF OnItsWay
            <4>3. opens[d] \in Confirmed /\ Counted(d)
                BY <1>0, <2>3
            <4> QED
                BY <4>1, <4>2, <4>3
        <3>2. CASE d = e
            <4>1. /\ opens[d].accepted \in Nat /\ opens[d].unanswered \in Nat
                  /\ opens'[d].accepted = opens[d].accepted /\ opens'[d].unanswered = opens[d].unanswered + 1
                BY <2>3, <2>5, <3>1, <3>2 DEF Confirmed
            <4>2. opens[d].accepted + Cardinality(OnItsWay(d)) <= opens[d].unanswered + 1
                BY <3>1, <4>1 DEF Counted, Count
            <4>3. opens'[d].accepted + Cardinality(OnItsWay(d)') <= opens'[d].unanswered
                BY <3>1, <4>1, <4>2
            <4>4. opens'[d].unanswered \in Nat
                BY <4>1
            <4>5. opens'[d].unanswered + 0 = opens'[d].unanswered /\ opens'[d].unanswered <= opens'[d].unanswered + 1
                  /\ opens'[d].accepted + Cardinality(OnItsWay(d)') \in Int
                BY <3>1, <4>1, <4>4
            <4>6. PICK n \in {0, 1} : n = (IF UnsentDialog(d) THEN 0 ELSE 1)'
                OBVIOUS
            <4>7. opens'[d].accepted + Cardinality(OnItsWay(d)') <= opens'[d].unanswered + n
                BY <3>1, <4>1, <4>3, <4>4, <4>5, <4>6
            <4> QED
                BY <4>6, <4>7 DEF Counted, Count
        <3>3. CASE d # e
            <4>1. UnsentDialog(d)' => UnsentDialog(d)
                BY <1>0, <1>3, <2>1, <2>2, <2>5, <3>3 DEF UnsentDialog, TargetRun, DialogStays, DialogTyped
            <4> QED
                BY <2>5, <3>1, <3>3, <4>1 DEF Counted, Count, Confirmed
        <3> QED
            BY <3>2, <3>3
    <2> QED
        BY <2>5, <2>6, <2>7 DEF DialogsOK
<1> QED
    BY <1>1, <1>2, <1>3

\* A request leaves the wire: refused, lost or served.
LEMMA RequestLeaves ==
    ASSUME NoneIsNoDialog, DialogsOK, NEW r \in wire, wire' = wire \ {r}, desk' = desk,
           DialogTyped', NEW e, NEW n \in {0, 1},
           n = 1 => r.what = "target" /\ e = r.dialog,
           DOMAIN opens' = DOMAIN opens, Len(opens') = Len(opens),
           \A d \in DOMAIN opens : /\ opens'[d].unanswered = opens[d].unanswered /\ opens'[d].blind = opens[d].blind
                                   /\ opens'[d].accepted = opens[d].accepted + (IF d = e THEN n ELSE 0),
           \/ run' = run
           \/ run # Null /\ run.at = "wait" /\ Hand!Sent(run) = r /\ n = 0 /\ run' = Null
           \/ /\ run # Null /\ run.at = "wait" /\ Hand!Sent(run) = r
              /\ run' = [what |-> run.what, at |-> "ok", here |-> run.here, dialog |-> run.dialog, click |-> run.click,
                         weights |-> run.weights, read |-> run.read]
    PROVE  DialogsOK'
<1>0. DialogTyped /\ DialogStays /\ NeverBlind /\ \A d \in DOMAIN opens : Counted(d)
    BY DEF DialogsOK
<1>1. run # Null => \A what, at, here, dialog, click, weights, read :
          Null # [what |-> what, at |-> at, here |-> here, dialog |-> dialog, click |-> click, weights |-> weights,
                  read |-> read]
    BY DEF NoneIsNoDialog
<1>2. DialogStays' /\ NeverBlind'
    BY <1>0, <1>1 DEF DialogStays, NeverBlind, Working, Showing
<1>3. ASSUME NEW d \in DOMAIN opens
      PROVE  Counted(d)'
    <2>1. /\ opens[d] \in Confirmed /\ Counted(d) /\ IsFiniteSet(OnItsWay(d)) /\ Cardinality(OnItsWay(d)) \in Nat
        BY <1>0, <1>3, WireCounts DEF DialogTyped
    <2>2. CASE r.what = "target" /\ r.dialog = d
        <3>1. OnItsWay(d)' = OnItsWay(d) \ {r} /\ r \in OnItsWay(d)
            BY <2>2 DEF OnItsWay
        <3>2. Cardinality(OnItsWay(d)') = Cardinality(OnItsWay(d)) - 1
            <4>1. IsFiniteSet(wire)
                BY <1>0 DEF DialogTyped
            <4>2. Cardinality(OnItsWay(d) \ {r}) = Cardinality(OnItsWay(d)) - 1
                BY <3>1, <4>1, WireCounts
            <4> QED
                BY <3>1, <4>2
        <3>3. (UnsentDialog(d)' => UnsentDialog(d)) \/ n = 0
            BY <1>0, <1>1 DEF UnsentDialog, TargetRun, Working, Showing
        <3>4. opens'[d].accepted <= opens[d].accepted + 1 /\ (n = 0 => opens'[d].accepted = opens[d].accepted)
            BY <2>1 DEF Confirmed
        <3> QED
            BY <2>1, <3>2, <3>3, <3>4 DEF Counted, Count, Confirmed
    <2>3. CASE ~(r.what = "target" /\ r.dialog = d)
        <3>1. OnItsWay(d)' = OnItsWay(d) /\ opens'[d].accepted = opens[d].accepted
            BY <2>1, <2>3 DEF OnItsWay, Confirmed
        <3>2. ASSUME run # Null, Hand!Sent(run) = r
              PROVE  ~TargetRun(d)
            BY <2>3, <3>2 DEF TargetRun, Hand!Sent
        <3>3. UnsentDialog(d)' => UnsentDialog(d)
            BY <1>0, <1>1, <3>2 DEF UnsentDialog, TargetRun, Working, Showing, DialogStays
        <3> QED
            BY <2>1, <3>1, <3>3 DEF Counted, Count, Confirmed
    <2> QED
        BY <2>2, <2>3
<1> QED
    BY <1>2, <1>3 DEF DialogsOK

\* The enclave accepts, restarts or refuses what was sent, or it is lost.
LEMMA RequestServed ==
    ASSUME NoneIsNoDialog, DialogsOK, NEW r \in wire,
           Hand!ServeTarget(r) \/ Hand!ServeRestart(r) \/ Hand!Refuse(r) \/ Hand!Lose(r)
    PROVE  DialogsOK'
<1>0. DialogTyped /\ DialogStays /\ NeverBlind /\ wire' = wire \ {r} /\ desk' = desk
    BY DEF DialogsOK, Hand!ServeTarget, Hand!ServeRestart, Hand!Refuse, Hand!Lose
<1>1. IsFiniteSet(wire')
    BY <1>0, FS_RemoveElement DEF DialogTyped
<1> DEFINE Waits == run # Null /\ run.at = "wait" /\ Hand!Sent(run) = r
           Tell == run' = [what |-> run.what, at |-> "ok", here |-> run.here, dialog |-> run.dialog,
                           click |-> run.click, weights |-> run.weights, read |-> run.read]
<1>2. Hand!Answer(r, "ok") => run' = run \/ (Waits /\ Tell)
    BY <1>0 DEF Hand!Answer, Hand!Busy, DialogTyped, Working, OfRun
<1>3. Waits /\ Tell => OfRun(run') /\ run' # Null
    BY DEF OfRun, NoneIsNoDialog
<1>4. CASE Hand!ServeTarget(r)
    <2>1. PICK e \in DOMAIN opens : e = r.dialog
        BY <1>0, <1>4 DEF Hand!ServeTarget, DialogTyped
    <2>2. r.what = "target" /\ r.read = kept.sequence /\ kept' = [kept EXCEPT !.sequence = @ + 1, !.open = TRUE]
        BY <1>0, <1>4 DEF Hand!ServeTarget, Hand!Acceptable, Hand!InOrder, Hand!Accepts, DialogTyped
    <2>3. opens' = [opens EXCEPT ![e].accepted = @ + 1, ![e].blind = @ \/ FALSE]
        BY <1>4, <2>1, <2>2 DEF Hand!ServeTarget
    <2>4. opens \in Seq(Confirmed) /\ opens[e] \in Confirmed
        BY <1>0 DEF DialogTyped
    <2>5. PICK it : it = [accepted |-> opens[e].accepted + 1, unanswered |-> opens[e].unanswered, blind |-> opens[e].blind]
        OBVIOUS
    <2>6. it \in Confirmed
        BY <2>4, <2>5 DEF Confirmed
    <2>7. opens'[e] = it /\ DOMAIN opens' = DOMAIN opens /\ \A d \in DOMAIN opens : d # e => opens'[d] = opens[d]
        <3>1. opens[e] = [accepted |-> opens[e].accepted, unanswered |-> opens[e].unanswered, blind |-> opens[e].blind]
              /\ opens[e].blind \in BOOLEAN
            BY <2>4 DEF Confirmed
        <3>2. opens' = [opens EXCEPT ![e] = [[opens[e] EXCEPT !.accepted = opens[e].accepted + 1]
                                              EXCEPT !.blind = opens[e].blind \/ FALSE]]
            BY <2>3, <2>4
        <3>3. [[opens[e] EXCEPT !.accepted = opens[e].accepted + 1] EXCEPT !.blind = opens[e].blind \/ FALSE] = it
            <4>1. (opens[e].blind \/ FALSE) = opens[e].blind
                BY <3>1
            <4>2. PICK more : more = [opens[e] EXCEPT !.accepted = opens[e].accepted + 1]
                OBVIOUS
            <4>3. more = [accepted |-> opens[e].accepted + 1, unanswered |-> opens[e].unanswered,
                          blind |-> opens[e].blind]
                BY ONLY <3>1, <4>2
            <4>4. [more EXCEPT !.blind = opens[e].blind] = more
                BY ONLY <4>3
            <4> QED
                BY ONLY <2>5, <4>1, <4>2, <4>3, <4>4
        <3> QED
            BY <2>4, <3>2, <3>3
    <2>8. /\ opens' \in Seq(Confirmed) /\ DOMAIN opens' = DOMAIN opens /\ Len(opens') = Len(opens) /\ opens'[e] = it
          /\ \A d \in DOMAIN opens : d # e => opens'[d] = opens[d]
        <3>1. opens' = [d \in DOMAIN opens |-> opens'[d]]
            BY <2>3
        <3> QED
            BY <2>4, <2>6, <2>7, <3>1
    <2>9. \A d \in DOMAIN opens : /\ opens'[d].unanswered = opens[d].unanswered /\ opens'[d].blind = opens[d].blind
                                  /\ opens'[d].accepted = opens[d].accepted + (IF d = e THEN 1 ELSE 0)
        <3>1. \A d \in DOMAIN opens : opens[d].accepted \in Nat
            <4>1. \A d \in DOMAIN opens : opens[d] \in Confirmed
                BY <2>4
            <4> QED
                BY <4>1 DEF Confirmed
        <3> QED
            BY <2>5, <2>8, <3>1
    <2>10. run' = run \/ (Waits /\ Tell)
        BY <1>2, <1>4 DEF Hand!ServeTarget
    <2>11. kept'.sequence \in Nat /\ DOMAIN kept' = {"status", "sequence", "open"}
        BY <1>0, <2>2 DEF DialogTyped
    <2>12. DialogTyped'
        BY <1>0, <1>1, <1>3, <2>8, <2>10, <2>11 DEF DialogTyped, Working, Showing
    <2> QED
        BY <1>0, <2>2, <2>1, <2>8, <2>9, <2>10, <2>12, RequestLeaves
<1>5. CASE Hand!ServeRestart(r) \/ Hand!Refuse(r) \/ Hand!Lose(r)
    <2>1. opens' = opens /\ \A d \in DOMAIN opens : opens[d].accepted + 0 = opens[d].accepted
        <3>1. opens' = opens
            BY <1>5 DEF Hand!ServeRestart, Hand!Refuse, Hand!Lose
        <3>2. \A d \in DOMAIN opens : opens[d] \in Confirmed
            BY <1>0 DEF DialogTyped
        <3> QED
            BY <3>1, <3>2 DEF Confirmed
    <2>2. run' = run \/ (Waits /\ run' = Null) \/ (Waits /\ Tell)
        BY <1>2, <1>5 DEF Hand!ServeRestart, Hand!Refuse, Hand!Lose, Hand!Busy
    <2>3. kept'.sequence \in Nat /\ DOMAIN kept' = {"status", "sequence", "open"}
        BY <1>0, <1>5 DEF Hand!ServeRestart, Hand!Refuse, Hand!Lose, DialogTyped
    <2>4. DialogTyped'
        BY <1>0, <1>1, <1>3, <2>1, <2>2, <2>3 DEF DialogTyped, Working, Showing
    <2>5. PICK n \in {0} : TRUE
        OBVIOUS
    <2>6. \A d \in DOMAIN opens : /\ opens'[d].unanswered = opens[d].unanswered /\ opens'[d].blind = opens[d].blind
                                  /\ opens'[d].accepted = opens[d].accepted + (IF d = Null THEN n ELSE 0)
        BY <2>1, <2>5
    <2>7. n \in {0, 1} /\ n # 1 /\ n = 0 /\ DOMAIN opens' = DOMAIN opens /\ Len(opens') = Len(opens)
        BY <2>1, <2>5
    <2> QED
        BY <1>0, <2>2, <2>4, <2>6, <2>7, RequestLeaves
<1> QED
    BY <1>4, <1>5

\* Nothing has been confirmed.
LEMMA DialogsStart ==
    ASSUME NoneIsNoDialog, Hand!Init
    PROVE  DialogsOK
<1>1. /\ desk = [dialog |-> Null, weights |-> 0, status |-> Null] /\ run = Null /\ wire = {} /\ opens = <<>>
      /\ kept = [status |-> "ACTIVE", sequence |-> 0, open |-> FALSE]
    BY DEF Hand!Init, Hand!Fresh
<1>2. IsFiniteSet(wire)
    BY <1>1, FS_EmptySet
<1>3. desk.dialog # "targets" /\ OfPage(desk)
    BY <1>1 DEF NoneIsNoDialog, OfPage
<1>4. opens \in Seq(Confirmed) /\ DOMAIN opens = {}
    BY <1>1
<1>5. DialogTyped
    BY <1>1, <1>2, <1>3, <1>4 DEF DialogTyped, Working
<1> QED
    BY <1>1, <1>4, <1>5 DEF DialogsOK, DialogStays, NeverBlind, Working

\* A program's request and what finishes one touch nothing the page sent.
LEMMA BookMoves ==
    ASSUME DialogsOK, UNCHANGED <<desk, run, wire, opens>>,
           kept' = kept \/ Hand!ProgramSubmits \/ \E status \in {"ACTIVE", "HALTED"} : Hand!Finish(status)
    PROVE  DialogsOK'
<1>1. DialogTyped /\ DialogStays
    BY DEF DialogsOK
<1>2. kept'.sequence \in Nat /\ DOMAIN kept' = {"status", "sequence", "open"}
    <2>1. kept.sequence \in Nat /\ DOMAIN kept = {"status", "sequence", "open"}
        BY <1>1 DEF DialogTyped
    <2>2. CASE kept' = kept
        BY <2>1, <2>2
    <2>3. CASE Hand!ProgramSubmits
        BY <2>1, <2>3 DEF Hand!ProgramSubmits, Hand!Accepts
    <2>4. CASE \E status \in {"ACTIVE", "HALTED"} : Hand!Finish(status)
        BY <2>1, <2>4 DEF Hand!Finish
    <2> QED
        BY <2>2, <2>3, <2>4
<1>3. DialogTyped'
    BY <1>1, <1>2 DEF DialogTyped, Working, Showing
<1>4. DialogStays'
    BY <1>1 DEF DialogStays, Working, Showing
<1>5. \A d \in DOMAIN opens : UnsentDialog(d)' => UnsentDialog(d)
    BY DEF UnsentDialog, TargetRun, Working, Showing
<1> QED
    BY <1>3, <1>4, <1>5, NothingSent

\* A confirmation is carried out once, unless its answer was lost and it was confirmed again,
\* and replaces no targets it had not read (ManagerConsole.jsx, submit; execution.mjs, accept).
THEOREM TargetsReplaceWhatWasRead ==
    ASSUME NoneIsNoDialog
    PROVE  Hand!Init /\ [][Hand!Next]_(Hand!vars) => []Hand!ReplacesWhatItRead
<1>1. Hand!Init => DialogsOK
    BY DialogsStart
<1>2. DialogsOK /\ [Hand!Next]_(Hand!vars) => DialogsOK'
    <2> SUFFICES ASSUME DialogsOK, [Hand!Next]_(Hand!vars)
                 PROVE  DialogsOK'
        OBVIOUS
    <2>1. CASE UNCHANGED Hand!vars
        BY <2>1, BookMoves DEF Hand!vars
    <2>2. CASE Hand!Next
        <3>1. CASE \/ Hand!Leave \/ Hand!Open \/ Hand!Poll \/ Hand!AskRestart \/ Hand!Close
                   \/ Hand!Look \/ Hand!Submit \/ Hand!Restart \/ Hand!ReadStatus
            BY <3>1, PageSteps, RunBegins
        <3>2. CASE Hand!Send \/ Hand!Answered \/ Hand!Fails \/ \E weights \in Grosses : Hand!Review(weights)
            BY <3>2, RunSends, RunEnds, DialogOpens
        <3>3. CASE Hand!ProgramSubmits \/ \E status \in {"ACTIVE", "HALTED"} : Hand!Finish(status)
            <4>1. UNCHANGED <<desk, run, wire, opens>>
                BY <3>3 DEF Hand!ProgramSubmits, Hand!Finish
            <4> QED
                BY <3>3, <4>1, BookMoves
        <3>4. CASE \E r \in wire : \/ Hand!ServeTarget(r) \/ Hand!ServeRestart(r) \/ Hand!Refuse(r)
                                  \/ Hand!Lose(r)
            BY <3>4, RequestServed
        <3> QED
            BY <2>2, <3>1, <3>2, <3>3, <3>4 DEF Hand!Next
    <2> QED
        BY <2>1, <2>2
<1>3. DialogsOK => Hand!ReplacesWhatItRead
    <2> SUFFICES ASSUME DialogsOK, NEW d \in DOMAIN opens
                 PROVE  opens[d].accepted <= 1 + opens[d].unanswered /\ ~opens[d].blind
        BY DEF Hand!ReplacesWhatItRead
    <2>1. opens[d] \in Confirmed /\ IsFiniteSet(wire) /\ Counted(d) /\ opens[d].blind = FALSE
        BY DEF DialogsOK, DialogTyped, NeverBlind
    <2>2. Cardinality(OnItsWay(d)) \in Nat
        BY <2>1, WireCounts
    <2> QED
        BY <2>1, <2>2 DEF Counted, Count, Confirmed
<1> QED
    BY <1>1, <1>2, <1>3, PTL

-------------------------------------------------------------------------------
(* Forms and what they were about. *)

NoneIsNoForm ==
    /\ \A terms, next : Null # [policy |-> terms, pending |-> next]
    /\ \A what, at, here, click : Null # [what |-> what, at |-> at, here |-> here, click |-> click]

FormKinds == {"profile", "step", "register", "announce"}
OfAccount(a) == a = [name |-> a.name, strategy |-> a.strategy]
OfStrategy(s) == s = [policy |-> s.policy, pending |-> s.pending]
OfForm(p) == p = [at |-> p.at, step |-> p.step, name |-> p.name, policy |-> p.policy, dialog |-> p.dialog]
OfClick(r) == r = [what |-> r.what, at |-> r.at, here |-> r.here, click |-> r.click]
OfLog(l) ==
    l = [clicks |-> l.clicks, review |-> l.review, unsure |-> l.unsure, outdated |-> l.outdated, untold |-> l.untold]
Asking == act # Null
Mine(r) == Asking /\ act.at = "wait" /\ act.click = r.click /\ act.what = r.what

FormsTyped ==
    /\ OfForm(form) /\ form.step \in Nat /\ form.dialog \in BOOLEAN
    /\ OfAccount(profile) /\ (profile.strategy # Null => OfStrategy(profile.strategy))
    /\ OfAccount(stored) /\ (stored.strategy # Null => OfStrategy(stored.strategy))
    /\ OfLog(log) /\ log.clicks \in Nat /\ log.unsure \in BOOLEAN /\ log.untold \in BOOLEAN /\ log.outdated = FALSE
    /\ Asking => /\ OfClick(act) /\ act.what \in FormKinds /\ act.at \in {"wait", "ok"} /\ act.here \in BOOLEAN
                 /\ act.click \in Nat /\ act.click <= log.clicks

\* A request is the answer of one click, and so of one run; a strategy whose conditions change
\* is there.
RequestIs(r) ==
    /\ r.what \in FormKinds /\ r.click \in Nat /\ r.click <= log.clicks
    /\ Asking /\ act.click = r.click => Mine(r)
    /\ r.what = "announce" => stored.strategy # Null
FormRequestsOK ==
    /\ \A r \in post : RequestIs(r)
    /\ \A r, q \in post : r.click = q.click => r = q

\* What is mounted while a run goes on, and what a dialog compares with.
PageOK ==
    /\ form.at = "work" => profile.strategy # Null
    /\ form.step > 0 => form.at = "new" /\ (Asking => act.here = TRUE /\ act.what = "register")
    /\ Asking /\ act.here = TRUE /\ act.what = "step" => form.at = "new"
    /\ form.dialog = TRUE =>
          /\ form.at = "work" /\ profile.strategy # Null /\ profile.strategy.pending = Null
          /\ Asking => act.here = TRUE /\ act.what = "announce"
StrategyStays ==
    /\ profile.strategy # Null => stored.strategy # Null
    /\ Asking /\ act.what = "register" /\ act.at = "ok" => stored.strategy # Null

\* While every announcement's answer came, the conditions shown are those in force, or a
\* change of them is.
Unchanging == profile.strategy # Null /\ profile.strategy.pending = Null
Shown(r) == Mine(r) /\ Unchanging /\ r.shown = profile.strategy.policy
ToldOK ==
    log.untold = FALSE =>
        /\ \A r \in post : r.what = "announce" => Shown(r)
        /\ Unchanging /\ ~(Asking /\ act.what = "announce" /\ act.at = "ok") => profile.strategy = stored.strategy

\* While every other answer came and nothing was edited meanwhile, the later steps of a
\* registration show the name that is saved.
Named(r) ==
    /\ Mine(r)
    /\ r.what = "register" => r.name = stored.name
    /\ r.what = "step" /\ act.here = TRUE => r.name = form.name
SureOK ==
    log.unsure = FALSE =>
        /\ \A r \in post : r.what # "announce" => Named(r)
        /\ Asking /\ act.what = "step" /\ act.here = TRUE /\ act.at = "ok" => form.name = stored.name
        /\ form.step > 0 => form.name = stored.name

FormsOK ==
    /\ FormsTyped /\ FormRequestsOK /\ PageOK /\ StrategyStays /\ ToldOK /\ SureOK
    /\ Forms!PublishedAsReviewed

\* What changes the page, or takes it from a run, changes nothing that was sent.
LEMMA FormChanges ==
    ASSUME NoneIsNoForm, FormsOK, UNCHANGED <<profile, stored, post>>,
           \/ act' = act
           \/ /\ act # Null /\ act' # Null /\ OfClick(act') /\ act'.what = act.what /\ act'.at = act.at
              /\ act'.here = FALSE /\ act'.click = act.click,
           OfForm(form'), form'.step \in Nat, form'.dialog \in BOOLEAN, PageOK',
           OfLog(log'), log'.clicks = log.clicks, log'.review = log.review, log'.outdated = log.outdated,
           log'.untold = log.untold, log'.unsure \in BOOLEAN,
           log'.unsure = FALSE => /\ log.unsure = FALSE
                                  /\ form'.step > 0 => form'.name = stored.name
                                  /\ Asking => form'.name = form.name \/ act'.here = FALSE
    PROVE  FormsOK'
<1>0. FormsTyped /\ FormRequestsOK /\ StrategyStays /\ ToldOK /\ SureOK /\ Forms!PublishedAsReviewed
    BY DEF FormsOK
<1>1. /\ Asking' <=> Asking
      /\ Asking => /\ act'.what = act.what /\ act'.at = act.at /\ act'.click = act.click
                   /\ act'.here = act.here \/ act'.here = FALSE
    BY DEF Asking
<1>2. FormsTyped'
    <2>1. Asking' => OfClick(act')
        BY <1>0, <1>1 DEF FormsTyped, Asking
    <2>2. Asking => act'.here \in BOOLEAN
        BY <1>0, <1>1 DEF FormsTyped
    <2> QED
        BY <1>0, <1>1, <2>1, <2>2 DEF FormsTyped
<1>3. FormRequestsOK'
    BY <1>0, <1>1 DEF FormRequestsOK, RequestIs, Mine
<1>4. StrategyStays'
    BY <1>0, <1>1 DEF StrategyStays
<1>5. ToldOK'
    BY <1>0, <1>1 DEF ToldOK, Shown, Mine, Unchanging
<1>6. SureOK'
    <2> SUFFICES ASSUME log'.unsure = FALSE
                 PROVE  /\ \A r \in post : r.what # "announce" => Named(r)'
                        /\ (Asking /\ act.what = "step" /\ act.here = TRUE /\ act.at = "ok" => form.name = stored.name)'
                        /\ (form.step > 0 => form.name = stored.name)'
        BY DEF SureOK
    <2>1. /\ \A r \in post : r.what # "announce" => Named(r)
          /\ Asking /\ act.what = "step" /\ act.here = TRUE /\ act.at = "ok" => form.name = stored.name
        BY <1>0 DEF SureOK
    <2>2. ASSUME NEW r \in post, r.what # "announce"
          PROVE  Named(r)'
        BY <1>1, <2>1, <2>2 DEF Named, Mine
    <2> QED
        BY <1>1, <2>1, <2>2
<1>7. Forms!PublishedAsReviewed'
    BY <1>0 DEF Forms!PublishedAsReviewed
<1> QED
    BY <1>2, <1>3, <1>4, <1>5, <1>6, <1>7 DEF FormsOK

\* The page is left for another one, whose forms are new; a run of the old one goes on.
LEMMA PageLeft ==
    ASSUME NoneIsNoForm, FormsOK, NEW at, Forms!Go(at)
    PROVE  FormsOK'
<1>0. FormsTyped /\ PageOK
    BY DEF FormsOK
<1>1. /\ UNCHANGED <<profile, stored, post, log>> /\ (at = "work" => profile.strategy # Null)
      /\ form' = [at |-> at, step |-> 0, name |-> profile.name, dialog |-> FALSE,
                  policy |-> IF at = "work" THEN profile.strategy.policy ELSE FirstPolicy]
      /\ act' = IF act # Null THEN [act EXCEPT !.here = FALSE] ELSE act
    BY DEF Forms!Go, Forms!Mount, Forms!Busy
<1>2. OfForm(form') /\ form'.at = at /\ form'.step = 0 /\ form'.dialog = FALSE
    BY <1>1 DEF OfForm
<1>3. ASSUME act # Null
      PROVE  /\ act' # Null /\ OfClick(act') /\ act'.what = act.what /\ act'.at = act.at
             /\ act'.here = FALSE /\ act'.click = act.click
    <2>1. act = [what |-> act.what, at |-> act.at, here |-> act.here, click |-> act.click]
        BY <1>0, <1>3 DEF FormsTyped, Asking, OfClick
    <2>2. act' = [what |-> act.what, at |-> act.at, here |-> FALSE, click |-> act.click]
        BY <1>1, <1>3, <2>1
    <2> QED
        BY <2>2 DEF OfClick, NoneIsNoForm
<1>4. act = Null => act' = act
    BY <1>1
<1>5. PageOK'
    BY <1>1, <1>2, <1>3, <1>4 DEF PageOK, Asking
<1>6. OfLog(log) /\ log.unsure \in BOOLEAN
    BY <1>0 DEF FormsTyped
<1>7. form'.step \in Nat /\ form'.dialog \in BOOLEAN /\ ~(form'.step > 0) /\ log' = log
    BY <1>1, <1>2
<1>8. \/ act' = act
      \/ /\ act # Null /\ act' # Null /\ OfClick(act') /\ act'.what = act.what /\ act'.at = act.at
         /\ act'.here = FALSE /\ act'.click = act.click
    BY <1>3, <1>4
<1>9. Asking => act'.here = FALSE
    BY <1>3 DEF Asking
<1> QED
    BY <1>1, <1>2, <1>5, <1>6, <1>7, <1>8, <1>9, FormChanges

\* The name is edited where it may be.
LEMMA NameEdited ==
    ASSUME NoneIsNoForm, FormsOK, NEW name, Forms!EditName(name)
    PROVE  FormsOK'
<1>0. FormsTyped /\ PageOK
    BY DEF FormsOK
<1>1. /\ UNCHANGED <<profile, act, stored, post>> /\ form' = [form EXCEPT !.name = name]
      /\ log' = [log EXCEPT !.unsure = @ \/ act # Null]
      /\ form.at = "profile" \/ form.step = 0
    BY DEF Forms!EditName, Forms!Busy
<1>2. form = [at |-> form.at, step |-> form.step, name |-> form.name, policy |-> form.policy, dialog |-> form.dialog]
    BY <1>0 DEF FormsTyped, OfForm
<1>3. form' = [at |-> form.at, step |-> form.step, name |-> name, policy |-> form.policy, dialog |-> form.dialog]
    BY <1>1, <1>2
<1>4. OfForm(form') /\ form'.at = form.at /\ form'.step = form.step /\ form'.dialog = form.dialog
    BY <1>3 DEF OfForm
<1>5. form.step \in Nat /\ ~(form.step > 0) /\ form.dialog \in BOOLEAN
    BY <1>0, <1>1 DEF FormsTyped, PageOK
<1>6. log = [clicks |-> log.clicks, review |-> log.review, unsure |-> log.unsure, outdated |-> log.outdated,
             untold |-> log.untold] /\ log.unsure \in BOOLEAN
    BY <1>0 DEF FormsTyped, OfLog
<1>7. log' = [clicks |-> log.clicks, review |-> log.review, unsure |-> log.unsure \/ act # Null,
              outdated |-> log.outdated, untold |-> log.untold]
    BY <1>1, <1>6
<1>8. /\ OfLog(log') /\ log'.clicks = log.clicks /\ log'.review = log.review /\ log'.outdated = log.outdated
      /\ log'.untold = log.untold /\ log'.unsure = (log.unsure \/ act # Null)
    BY <1>7 DEF OfLog
<1>9. log'.unsure \in BOOLEAN /\ (log'.unsure = FALSE => log.unsure = FALSE /\ ~Asking)
    BY <1>6, <1>8 DEF Asking
<1>10. PageOK'
    BY <1>0, <1>1, <1>4 DEF PageOK, Asking
<1> QED
    BY <1>1, <1>4, <1>5, <1>8, <1>9, <1>10, FormChanges

\* The conditions are edited, or a step or a dialog is opened or left.
LEMMA StepTaken ==
    ASSUME NoneIsNoForm, FormsOK,
           \/ \E policy \in Forms!Edits(form.policy) : Forms!EditPolicy(policy)
           \/ Forms!NextStep \/ Forms!PreviousStep \/ Forms!Compare \/ Forms!Close
    PROVE  FormsOK'
<1>0. FormsTyped /\ PageOK /\ SureOK
    BY DEF FormsOK
<1>1. form = [at |-> form.at, step |-> form.step, name |-> form.name, policy |-> form.policy, dialog |-> form.dialog]
      /\ form.step \in Nat /\ form.dialog \in BOOLEAN
    BY <1>0 DEF FormsTyped, OfForm
<1>2. UNCHANGED <<profile, act, stored, post, log>>
    BY DEF Forms!EditPolicy, Forms!NextStep, Forms!PreviousStep, Forms!Compare, Forms!Close
<1>3. /\ OfForm(form') /\ form'.name = form.name /\ form'.at = form.at
      /\ \/ form'.step = form.step /\ form'.dialog = form.dialog
         \/ ~Asking /\ form.at = "new" /\ form.step > 0 /\ form'.step \in Nat /\ form'.dialog = form.dialog
         \/ /\ ~Asking /\ form.at = "work" /\ profile.strategy.pending = Null /\ form'.step = form.step
            /\ form'.dialog = TRUE
         \/ ~Asking /\ form'.step = form.step /\ form'.dialog = FALSE
    <2>1. ASSUME NEW policy, Forms!EditPolicy(policy)
          PROVE  OfForm(form') /\ form'.name = form.name /\ form'.at = form.at /\ form'.step = form.step
                 /\ form'.dialog = form.dialog
        <3>1. form' = [at |-> form.at, step |-> form.step, name |-> form.name, policy |-> policy,
                       dialog |-> form.dialog]
            BY <1>1, <2>1 DEF Forms!EditPolicy
        <3> QED
            BY <3>1 DEF OfForm
    <2>2. CASE Forms!NextStep \/ Forms!PreviousStep
        <3>1. PICK n \in Nat : form' = [form EXCEPT !.step = n]
            BY <1>1, <2>2 DEF Forms!NextStep, Forms!PreviousStep
        <3>2. form' = [at |-> form.at, step |-> n, name |-> form.name, policy |-> form.policy, dialog |-> form.dialog]
            BY <1>1, <3>1
        <3>3. ~Asking /\ form.at = "new" /\ form.step > 0
            BY <1>1, <2>2 DEF Forms!NextStep, Forms!PreviousStep, Forms!Busy, Asking
        <3> QED
            BY <3>2, <3>3 DEF OfForm
    <2>3. CASE Forms!Compare
        <3>1. form' = [at |-> form.at, step |-> form.step, name |-> form.name, policy |-> form.policy, dialog |-> TRUE]
            BY <1>1, <2>3 DEF Forms!Compare
        <3>2. ~Asking /\ form.at = "work" /\ profile.strategy.pending = Null
            BY <2>3 DEF Forms!Compare, Forms!MayEdit, Forms!Busy, Asking
        <3> QED
            BY <3>1, <3>2 DEF OfForm
    <2>4. CASE Forms!Close
        <3>1. form' = [at |-> form.at, step |-> form.step, name |-> form.name, policy |-> form.policy, dialog |-> FALSE]
            BY <1>1, <2>4 DEF Forms!Close
        <3>2. ~Asking
            BY <2>4 DEF Forms!Close, Forms!Busy, Asking
        <3> QED
            BY <3>1, <3>2 DEF OfForm
    <2> QED
        BY <2>1, <2>2, <2>3, <2>4
<1>4. form'.step \in Nat /\ form'.dialog \in BOOLEAN
    BY <1>1, <1>3
<1>5. PageOK'
    BY <1>0, <1>1, <1>2, <1>3 DEF PageOK, Asking
<1>6. /\ OfLog(log) /\ log.unsure \in BOOLEAN
      /\ log.unsure = FALSE => (form'.step > 0 => form'.name = stored.name)
    BY <1>0, <1>1, <1>3 DEF FormsTyped, SureOK
<1> QED
    BY <1>2, <1>3, <1>4, <1>5, <1>6, FormChanges

\* A button sends one request, and nothing else is on its way that could be answered for it.
LEMMA FormSent ==
    ASSUME NoneIsNoForm, FormsOK,
           Forms!SaveProfile \/ Forms!FirstStep \/ Forms!Register \/ Forms!Announce
    PROVE  FormsOK'
<1>0. /\ FormsTyped /\ FormRequestsOK /\ PageOK /\ StrategyStays /\ ToldOK /\ SureOK /\ Forms!PublishedAsReviewed
      /\ log.clicks \in Nat
    BY DEF FormsOK, FormsTyped
<1>1. PICK n \in Nat : n = log.clicks + 1
    BY <1>0
<1>2. PICK what, shown :
          /\ what \in FormKinds /\ Forms!Ask(what, shown)
          /\ what = "profile" => form.at = "profile"
          /\ what = "step" => form.at = "new" /\ form.step = 0
          /\ what = "register" => form.at = "new" /\ form.step = 3
          /\ what = "announce" => form.at = "work" /\ form.dialog = TRUE /\ shown = profile.strategy.policy
    <2>1. CASE Forms!SaveProfile
        BY <2>1 DEF Forms!SaveProfile, FormKinds
    <2>2. CASE Forms!FirstStep
        BY <2>2 DEF Forms!FirstStep, FormKinds
    <2>3. CASE Forms!Register
        BY <2>3 DEF Forms!Register, FormKinds
    <2>4. CASE Forms!Announce
        <3>1. form.dialog = TRUE
            BY <1>0, <2>4 DEF Forms!Announce, FormsTyped
        <3> QED
            BY <2>4, <3>1 DEF Forms!Announce, FormKinds
    <2> QED
        BY <2>1, <2>2, <2>3, <2>4
<1>3. PICK s : s = [what |-> what, click |-> n, name |-> form.name, policy |-> form.policy, shown |-> shown]
    OBVIOUS
<1>4. /\ UNCHANGED <<form, profile, stored>> /\ ~Asking /\ post' = post \cup {s}
      /\ act' = [what |-> what, at |-> "wait", here |-> TRUE, click |-> n]
      /\ log' = [log EXCEPT !.clicks = n]
    BY <1>1, <1>2, <1>3 DEF Forms!Ask, Forms!Request, Forms!Busy, Asking
<1>5. s.what = what /\ s.click = n /\ s.name = form.name /\ s.shown = shown
    BY <1>3
<1>6. Asking' /\ OfClick(act') /\ act'.what = what /\ act'.at = "wait" /\ act'.here = TRUE /\ act'.click = n
    BY <1>4 DEF Asking, OfClick, NoneIsNoForm
<1>7. /\ OfLog(log') /\ log'.clicks = n /\ log'.review = log.review /\ log'.unsure = log.unsure
      /\ log'.outdated = log.outdated /\ log'.untold = log.untold
    <2>1. log = [clicks |-> log.clicks, review |-> log.review, unsure |-> log.unsure, outdated |-> log.outdated,
                 untold |-> log.untold]
        BY <1>0 DEF FormsTyped, OfLog
    <2>2. log' = [clicks |-> n, review |-> log.review, unsure |-> log.unsure, outdated |-> log.outdated,
                  untold |-> log.untold]
        BY <1>4, <2>1
    <2> QED
        BY <2>2 DEF OfLog
<1>8. FormsTyped'
    <2>1. n <= n
        BY <1>1
    <2>2. /\ OfForm(form') /\ form'.step \in Nat /\ form'.dialog \in BOOLEAN
          /\ OfAccount(profile') /\ (profile'.strategy # Null => OfStrategy(profile'.strategy))
          /\ OfAccount(stored') /\ (stored'.strategy # Null => OfStrategy(stored'.strategy))
        BY <1>0, <1>4 DEF FormsTyped
    <2>3. /\ OfLog(log') /\ log'.clicks \in Nat /\ log'.unsure \in BOOLEAN /\ log'.untold \in BOOLEAN
          /\ log'.outdated = FALSE
        BY <1>0, <1>1, <1>7 DEF FormsTyped
    <2>4. /\ OfClick(act') /\ act'.what \in FormKinds /\ act'.at \in {"wait", "ok"} /\ act'.here \in BOOLEAN
          /\ act'.click \in Nat /\ act'.click <= log'.clicks
        BY <1>1, <1>2, <1>6, <1>7, <2>1
    <2> QED
        BY <2>2, <2>3, <2>4 DEF FormsTyped
<1>9. Mine(s)' /\ \A r \in post : r.click # n /\ r.click \in Nat /\ r.click <= n
    BY <1>0, <1>1, <1>5, <1>6 DEF Mine, FormRequestsOK, RequestIs
<1>10. what = "announce" => Unchanging
    BY <1>0, <1>2 DEF PageOK, Unchanging
<1>11. FormRequestsOK'
    <2>1. ASSUME NEW r \in post
          PROVE  RequestIs(r)'
        BY <1>0, <1>1, <1>4, <1>6, <1>7, <1>9, <2>1 DEF FormRequestsOK, RequestIs
    <2>2. RequestIs(s)'
        <3>1. n <= n
            BY <1>1
        <3>2. what = "announce" => stored.strategy # Null
            BY <1>0, <1>10 DEF StrategyStays, Unchanging
        <3> QED
            BY <1>1, <1>2, <1>4, <1>5, <1>7, <1>9, <3>1, <3>2 DEF RequestIs
    <2>3. \A r, q \in post' : r.click = q.click => r = q
        BY <1>0, <1>4, <1>5, <1>9 DEF FormRequestsOK
    <2> QED
        BY <1>4, <2>1, <2>2, <2>3 DEF FormRequestsOK
<1>12. PageOK'
    <2>1. /\ form.at = "work" => profile.strategy # Null
          /\ form.step > 0 => form.at = "new"
          /\ form.dialog = TRUE => form.at = "work" /\ profile.strategy # Null /\ profile.strategy.pending = Null
        BY <1>0 DEF PageOK
    <2>2. form.step > 0 => what = "register"
        BY <1>2, <2>1 DEF FormKinds
    <2>3. form.dialog = TRUE => what = "announce"
        BY <1>2, <2>1 DEF FormKinds
    <2> QED
        BY <1>2, <1>4, <1>6, <2>1, <2>2, <2>3 DEF PageOK
<1>13. StrategyStays'
    BY <1>0, <1>4, <1>6 DEF StrategyStays
<1>14. ToldOK'
    <2> SUFFICES ASSUME log.untold = FALSE
                 PROVE  /\ \A r \in post' : r.what = "announce" => Shown(r)'
                        /\ Unchanging => profile.strategy = stored.strategy
        BY <1>4, <1>7 DEF ToldOK, Unchanging
    <2>1. \A r \in post : r.what # "announce"
        BY <1>0, <1>4 DEF ToldOK, Shown, Mine
    <2>2. what = "announce" => Shown(s)'
        BY <1>2, <1>4, <1>5, <1>9, <1>10 DEF Shown, Unchanging
    <2>3. Unchanging => profile.strategy = stored.strategy
        BY <1>0, <1>4 DEF ToldOK
    <2> QED
        BY <1>4, <1>5, <2>1, <2>2, <2>3
<1>15. SureOK'
    <2> SUFFICES ASSUME log.unsure = FALSE
                 PROVE  \A r \in post' : r.what # "announce" => Named(r)'
        BY <1>0, <1>4, <1>6, <1>7 DEF SureOK
    <2>1. \A r \in post : r.what = "announce"
        BY <1>0, <1>4 DEF SureOK, Named, Mine
    <2>2. what = "register" => form.name = stored.name
        BY <1>0, <1>2 DEF SureOK
    <2>3. Named(s)'
        BY <1>4, <1>5, <1>9, <2>2 DEF Named
    <2> QED
        BY <1>4, <2>1, <2>3
<1>16. Forms!PublishedAsReviewed'
    BY <1>0, <1>7 DEF Forms!PublishedAsReviewed
<1> QED
    BY <1>8, <1>11, <1>12, <1>13, <1>14, <1>15, <1>16 DEF FormsOK

\* A run ends: nothing is on its way that it did not give up on.
LEMMA RunOver ==
    ASSUME NoneIsNoForm, FormsOK, act' = Null, UNCHANGED <<stored, post>>,
           OfForm(form'), form'.step \in Nat, form'.dialog \in BOOLEAN,
           profile' = stored \/ (profile' = profile /\ form' = form),
           form'.at = "work" => profile'.strategy # Null,
           form'.step > 0 => form'.at = "new",
           form'.dialog = TRUE => profile' = profile /\ form' = form,
           OfLog(log'), log'.clicks = log.clicks, log'.review = log.review, log'.outdated = log.outdated,
           log'.untold \in BOOLEAN, log'.unsure \in BOOLEAN,
           log'.untold = FALSE => /\ log.untold = FALSE
                                  /\ Asking => act.at = "ok" \/ act.what # "announce"
                                  /\ Asking /\ act.what = "announce" => profile' = stored,
           log'.unsure = FALSE => /\ log.unsure = FALSE
                                  /\ Asking => act.at = "ok" \/ act.what = "announce"
                                  /\ form'.step > 0 => form'.name = stored.name
    PROVE  FormsOK'
<1>0. FormsTyped /\ FormRequestsOK /\ PageOK /\ StrategyStays /\ ToldOK /\ SureOK /\ Forms!PublishedAsReviewed
    BY DEF FormsOK
<1>1. ~Asking'
    BY DEF Asking
<1>2. FormsTyped'
    BY <1>0, <1>1 DEF FormsTyped
<1>3. FormRequestsOK'
    BY <1>0, <1>1 DEF FormRequestsOK, RequestIs
<1>4. PageOK'
    BY <1>0, <1>1 DEF PageOK
<1>5. StrategyStays'
    BY <1>0, <1>1 DEF StrategyStays
<1>6. ToldOK'
    <2> SUFFICES ASSUME log'.untold = FALSE
                 PROVE  /\ \A r \in post : r.what # "announce"
                        /\ Unchanging' => profile'.strategy = stored.strategy
        BY DEF ToldOK
    <2>1. \A r \in post : r.what # "announce"
        BY <1>0 DEF ToldOK, Shown, Mine
    <2>2. CASE profile' = stored
        BY <2>1, <2>2
    <2>3. CASE profile' = profile /\ ~(Asking /\ act.what = "announce")
        BY <1>0, <2>1, <2>3 DEF ToldOK, Unchanging
    <2> QED
        BY <2>2, <2>3
<1>7. SureOK'
    <2> SUFFICES ASSUME log'.unsure = FALSE
                 PROVE  \A r \in post : r.what = "announce"
        BY <1>1 DEF SureOK
    <2> QED
        BY <1>0 DEF SureOK, Named, Mine
<1>8. Forms!PublishedAsReviewed'
    BY <1>0 DEF Forms!PublishedAsReviewed
<1> QED
    BY <1>2, <1>3, <1>4, <1>5, <1>6, <1>7, <1>8 DEF FormsOK

\* A run ends with its answer, without one, or with the page it began on.
LEMMA RunsEnd ==
    ASSUME NoneIsNoForm, FormsOK, Forms!Reload \/ Forms!Answered \/ Forms!Fails
    PROVE  FormsOK'
<1>0. /\ FormsTyped /\ PageOK /\ StrategyStays /\ SureOK /\ UNCHANGED <<stored, post>> /\ act' = Null
      /\ OfForm(form) /\ form.step \in Nat /\ form.dialog \in BOOLEAN
    BY DEF FormsOK, FormsTyped, Forms!Reload, Forms!Answered, Forms!Fails
<1>1. /\ log = [clicks |-> log.clicks, review |-> log.review, unsure |-> log.unsure, outdated |-> log.outdated,
                untold |-> log.untold]
      /\ log.unsure \in BOOLEAN /\ log.untold \in BOOLEAN /\ OfLog(log)
    BY <1>0 DEF FormsTyped, OfLog
<1>2. ASSUME NEW unsure \in BOOLEAN, NEW untold \in BOOLEAN,
             log' = [log EXCEPT !.unsure = log.unsure \/ unsure, !.untold = log.untold \/ untold]
      PROVE  /\ OfLog(log') /\ log'.clicks = log.clicks /\ log'.review = log.review /\ log'.outdated = log.outdated
             /\ log'.unsure \in BOOLEAN /\ log'.untold \in BOOLEAN
             /\ log'.unsure = FALSE => log.unsure = FALSE /\ unsure = FALSE
             /\ log'.untold = FALSE => log.untold = FALSE /\ untold = FALSE
    <2>1. log' = [clicks |-> log.clicks, review |-> log.review, unsure |-> log.unsure \/ unsure,
                  outdated |-> log.outdated, untold |-> log.untold \/ untold]
        BY <1>1, <1>2
    <2>2. /\ OfLog(log') /\ log'.clicks = log.clicks /\ log'.review = log.review /\ log'.outdated = log.outdated
          /\ log'.unsure = (log.unsure \/ unsure) /\ log'.untold = (log.untold \/ untold)
        BY <2>1 DEF OfLog
    <2> QED
        BY <1>1, <2>2
<1>3. CASE Forms!Reload
    <2>1. /\ profile' = stored /\ log' = [log EXCEPT !.unsure = log.unsure \/ Asking, !.untold = log.untold \/ Asking]
          /\ form' = [at |-> "list", step |-> 0, name |-> stored.name, dialog |-> FALSE, policy |-> FirstPolicy]
        BY <1>3 DEF Forms!Reload, Forms!Busy, Forms!Mount, Asking
    <2>2. OfForm(form') /\ form'.at = "list" /\ form'.step = 0 /\ form'.dialog = FALSE
        BY <2>1 DEF OfForm
    <2>3. PICK busy \in BOOLEAN : busy = Asking
        BY DEF Asking
    <2>4. log' = [log EXCEPT !.unsure = log.unsure \/ busy, !.untold = log.untold \/ busy]
        BY <2>1, <2>3
    <2> QED
        <3>1. /\ OfLog(log') /\ log'.clicks = log.clicks /\ log'.review = log.review /\ log'.outdated = log.outdated
              /\ log'.unsure \in BOOLEAN /\ log'.untold \in BOOLEAN
              /\ log'.unsure = FALSE => log.unsure = FALSE /\ ~Asking
              /\ log'.untold = FALSE => log.untold = FALSE /\ ~Asking
            BY <1>2, <2>3, <2>4
        <3>2. form'.step \in Nat /\ ~(form'.step > 0) /\ form'.at # "work"
            BY <2>2
        <3>3. form'.dialog \in BOOLEAN /\ ~(form'.dialog = TRUE)
            BY <2>2
        <3> QED
            BY <1>0, <2>1, <2>2, <3>1, <3>2, <3>3, RunOver
<1>4. CASE Forms!Fails
    <2>1. /\ UNCHANGED <<form, profile>> /\ Asking
          /\ log' = [log EXCEPT !.unsure = log.unsure \/ act.what # "announce",
                                !.untold = log.untold \/ act.what = "announce"]
        BY <1>4 DEF Forms!Fails, Forms!Busy, Asking
    <2>2. PICK unsure \in BOOLEAN : unsure = (act.what # "announce")
        OBVIOUS
    <2>3. PICK untold \in BOOLEAN : untold = (act.what = "announce")
        OBVIOUS
    <2>4. log' = [log EXCEPT !.unsure = log.unsure \/ unsure, !.untold = log.untold \/ untold]
        BY <2>1, <2>2, <2>3
    <2>5. /\ form.at = "work" => profile.strategy # Null
          /\ form.step > 0 => form.at = "new"
          /\ log'.unsure = FALSE => (form.step > 0 => form.name = stored.name)
        BY <1>0, <1>2, <2>4 DEF PageOK, SureOK
    <2> QED
        BY <1>0, <1>2, <2>1, <2>2, <2>3, <2>4, <2>5, RunOver
<1>5. CASE Forms!Answered
    <2>1. Asking /\ act.at = "ok" /\ profile' = stored /\ log' = log /\ form' = Forms!After /\ act.what \in FormKinds
        BY <1>0, <1>5 DEF Forms!Answered, Forms!Busy, Asking, FormsTyped
    <2>2. form = [at |-> form.at, step |-> form.step, name |-> form.name, policy |-> form.policy, dialog |-> form.dialog]
        BY <1>0 DEF OfForm
    <2>3. CASE act.what = "step" /\ act.here = TRUE
        <3>1. form' = [form EXCEPT !.step = 1]
            BY <2>1, <2>3 DEF Forms!After, Forms!Here
        <3>2. form' = [at |-> form.at, step |-> 1, name |-> form.name, policy |-> form.policy, dialog |-> form.dialog]
            BY <2>2, <3>1
        <3>3. OfForm(form') /\ form'.at = form.at /\ form'.step = 1 /\ form'.name = form.name /\ form'.dialog = form.dialog
            BY <3>2 DEF OfForm
        <3>4. form.at = "new" /\ form.dialog # TRUE /\ (log.unsure = FALSE => form.name = stored.name)
            BY <1>0, <2>1, <2>3 DEF PageOK, SureOK
        <3> QED
            <4>1. form'.step \in Nat /\ form'.at # "work"
                BY <3>3, <3>4
            <4>2. form'.dialog \in BOOLEAN /\ ~(form'.dialog = TRUE)
                BY <1>0, <3>3, <3>4
            <4> QED
                BY <1>0, <1>1, <2>1, <2>3, <3>3, <3>4, <4>1, <4>2, RunOver
    <2>4. CASE act.what = "register"
        <3>1. form' = [at |-> "work", step |-> 0, name |-> stored.name, dialog |-> FALSE,
                       policy |-> stored.strategy.policy]
            BY <2>1, <2>4 DEF Forms!After, Forms!Mount
        <3>2. OfForm(form') /\ form'.at = "work" /\ form'.step = 0 /\ form'.dialog = FALSE
            BY <3>1 DEF OfForm
        <3>3. stored.strategy # Null
            BY <1>0, <2>1, <2>4 DEF StrategyStays
        <3> QED
            <4>1. form'.step \in Nat /\ ~(form'.step > 0)
                BY <3>2
            <4>2. form'.dialog \in BOOLEAN /\ ~(form'.dialog = TRUE)
                BY <3>2
            <4> QED
                BY <1>0, <1>1, <2>1, <2>4, <3>2, <3>3, <4>1, <4>2, RunOver
    <2>5. CASE act.what = "announce" /\ act.here = TRUE
        <3>1. form' = [form EXCEPT !.dialog = FALSE]
            BY <2>1, <2>5 DEF Forms!After, Forms!Here
        <3>2. form' = [at |-> form.at, step |-> form.step, name |-> form.name, policy |-> form.policy, dialog |-> FALSE]
            BY <2>2, <3>1
        <3>3. OfForm(form') /\ form'.at = form.at /\ form'.step = form.step /\ form'.name = form.name
              /\ form'.dialog = FALSE
            BY <3>2 DEF OfForm
        <3>4. ~(form.step > 0) /\ (form.at = "work" => stored.strategy # Null)
            BY <1>0, <2>1, <2>5 DEF PageOK, StrategyStays
        <3> QED
            BY <1>0, <1>1, <2>1, <2>5, <3>3, <3>4, RunOver
    <2>6. CASE act.what = "profile" \/ (act.here # TRUE /\ act.what \in {"step", "announce"})
        <3>1. form' = form
            <4>1. CASE act.what = "profile"
                BY <2>1, <4>1 DEF Forms!After
            <4>2. CASE act.here # TRUE /\ act.what \in {"step", "announce"}
                <5>1. act.here = FALSE
                    BY <1>0, <2>1, <4>2 DEF FormsTyped
                <5> QED
                    BY <2>1, <4>2, <5>1 DEF Forms!After, Forms!Here
            <4> QED
                BY <2>6, <4>1, <4>2
        <3>2. form.dialog # TRUE /\ ~(form.step > 0) /\ (form.at = "work" => stored.strategy # Null)
            BY <1>0, <2>1, <2>6 DEF PageOK, StrategyStays
        <3> QED
            BY <1>0, <1>1, <2>1, <3>1, <3>2, RunOver
    <2> QED
        BY <2>1, <2>3, <2>4, <2>5, <2>6 DEF FormKinds
<1> QED
    BY <1>3, <1>4, <1>5

\* A request leaves the wire; the run that waits for it is answered, or it is refused.
ToldOf(s) ==
    /\ Mine(s) /\ act' # Null /\ OfClick(act') /\ act'.what = act.what /\ act'.at = "ok"
    /\ act'.here = act.here /\ act'.click = act.click
Leaves(s) ==
    /\ s \in post /\ post' = post \ {s} /\ UNCHANGED <<form, profile>>
    /\ act' = act \/ ToldOf(s) \/ (Mine(s) /\ act' = Null)

\* What is served tells the run that waits for it.
LEMMA ServedIsTold ==
    ASSUME NoneIsNoForm, FormsOK, NEW s \in post, Forms!Served(s)
    PROVE  Leaves(s) /\ (Mine(s) => ToldOf(s))
<1>1. RequestIs(s) /\ (Asking => OfClick(act))
    BY DEF FormsOK, FormRequestsOK, FormsTyped
<1>2. CASE Asking /\ act.click = s.click
    <2>1. Mine(s)
        BY <1>1, <1>2 DEF RequestIs
    <2>2. act = [what |-> act.what, at |-> act.at, here |-> act.here, click |-> act.click]
        BY <1>1, <1>2 DEF OfClick
    <2>3. act' = [act EXCEPT !.at = "ok"]
        BY <1>2 DEF Forms!Served, Forms!Answer, Forms!Busy, Asking
    <2>4. act' = [what |-> act.what, at |-> "ok", here |-> act.here, click |-> act.click]
        BY <2>2, <2>3
    <2>5. ToldOf(s)
        BY <2>1, <2>4 DEF ToldOf, OfClick, NoneIsNoForm
    <2> QED
        BY <2>5 DEF Leaves, Forms!Served
<1>3. CASE ~(Asking /\ act.click = s.click)
    BY <1>3 DEF Leaves, Forms!Served, Forms!Answer, Forms!Busy, Asking, Mine
<1> QED
    BY <1>2, <1>3

\* What is still on its way has its run, and one that was served was the only one.
LEMMA StillOnItsWay ==
    ASSUME FormsOK, NEW s, Leaves(s), log'.clicks = log.clicks,
           stored.strategy # Null => stored'.strategy # Null
    PROVE  /\ FormRequestsOK' /\ PageOK'
           /\ \A r \in post' : r \in post /\ (Mine(r) => Mine(r)') /\ (Mine(s) => ~Mine(r))
           /\ Asking' => /\ OfClick(act') /\ act'.what \in FormKinds /\ act'.at \in {"wait", "ok"}
                         /\ act'.here \in BOOLEAN /\ act'.click \in Nat /\ act'.click <= log.clicks
                         /\ Asking /\ act'.what = act.what /\ act'.here = act.here
<1>0. FormsTyped /\ FormRequestsOK /\ PageOK /\ (Mine(s) => Asking)
    BY DEF FormsOK, Mine
<1>1. Asking' => /\ Asking /\ OfClick(act') /\ act'.what = act.what /\ act'.here = act.here /\ act'.click = act.click
                 /\ act'.at = act.at \/ act'.at = "ok"
    <2>1. CASE act' = act
        BY <1>0, <2>1 DEF FormsTyped, Asking
    <2>2. CASE ToldOf(s)
        BY <1>0, <2>2 DEF ToldOf
    <2>3. CASE act' = Null
        BY <2>3 DEF Asking
    <2> QED
        BY <2>1, <2>2, <2>3 DEF Leaves
<1>2. Asking' => /\ OfClick(act') /\ act'.what \in FormKinds /\ act'.at \in {"wait", "ok"}
                 /\ act'.here \in BOOLEAN /\ act'.click \in Nat /\ act'.click <= log.clicks
    BY <1>0, <1>1 DEF FormsTyped
<1>3. \A r \in post' : r \in post /\ r # s /\ r.click # s.click
    BY <1>0 DEF Leaves, FormRequestsOK
<1>4. \A r \in post' : (Mine(r) => Mine(r)') /\ (Mine(s) => ~Mine(r))
    BY <1>3 DEF Leaves, ToldOf, Mine, Asking
<1>5. ASSUME NEW r \in post'
      PROVE  RequestIs(r)'
    <2>1. RequestIs(r)
        BY <1>0, <1>3 DEF FormRequestsOK
    <2>2. Asking' /\ act'.click = r.click => Asking /\ act.click = r.click
        BY <1>1
    <2>3. Asking' /\ act'.click = r.click => Mine(r)'
        BY <1>4, <2>1, <2>2 DEF RequestIs
    <2> QED
        BY <2>1, <2>3 DEF RequestIs
<1>6. FormRequestsOK'
    BY <1>0, <1>3, <1>5 DEF FormRequestsOK
<1>7. PageOK'
    BY <1>0, <1>1 DEF PageOK, Leaves
<1> QED
    BY <1>1, <1>2, <1>3, <1>4, <1>6, <1>7

\* A name is saved: no registration is on its way, and no later step is shown, while every
\* answer came.
LEMMA NameSaved ==
    ASSUME NoneIsNoForm, FormsOK, NEW s \in post, Forms!UpsertStrategist(s)
    PROVE  FormsOK'
<1>0. FormsTyped /\ FormRequestsOK /\ PageOK /\ StrategyStays /\ ToldOK /\ SureOK /\ Forms!PublishedAsReviewed
    BY DEF FormsOK
<1>1. s.what \in {"profile", "step"} /\ log' = log /\ stored' = [stored EXCEPT !.name = s.name] /\ Forms!Served(s)
    BY DEF Forms!UpsertStrategist
<1>2. Leaves(s) /\ (Mine(s) => ToldOf(s)) /\ UNCHANGED <<form, profile>>
    BY <1>1, ServedIsTold DEF Leaves
<1>3. OfAccount(stored') /\ stored'.name = s.name /\ stored'.strategy = stored.strategy
    <2>1. stored = [name |-> stored.name, strategy |-> stored.strategy]
        BY <1>0 DEF FormsTyped, OfAccount
    <2>2. stored' = [name |-> s.name, strategy |-> stored.strategy]
        BY <1>1, <2>1
    <2> QED
        BY <2>2 DEF OfAccount
<1>4. /\ FormRequestsOK' /\ PageOK'
      /\ \A r \in post' : r \in post /\ (Mine(r) => Mine(r)') /\ (Mine(s) => ~Mine(r))
      /\ Asking' => /\ OfClick(act') /\ act'.what \in FormKinds /\ act'.at \in {"wait", "ok"}
                    /\ act'.here \in BOOLEAN /\ act'.click \in Nat /\ act'.click <= log.clicks
                    /\ Asking /\ act'.what = act.what /\ act'.here = act.here
    BY <1>1, <1>2, <1>3, StillOnItsWay
<1>5. FormsTyped'
    BY <1>0, <1>1, <1>2, <1>3, <1>4 DEF FormsTyped
<1>6. Asking' /\ act'.at = "ok" => (Asking /\ act.at = "ok") \/ (Mine(s) /\ act.what = s.what)
    BY <1>2 DEF Leaves, ToldOf, Mine, Asking
<1>7. StrategyStays'
    BY <1>0, <1>1, <1>2, <1>3, <1>4, <1>6 DEF StrategyStays
<1>8. ToldOK'
    <2>1. (Asking /\ act.what = "announce" /\ act.at = "ok") => (Asking /\ act.what = "announce" /\ act.at = "ok")'
        BY <1>1, <1>2 DEF Leaves, ToldOf, Mine, Asking
    <2> QED
        BY <1>0, <1>1, <1>2, <1>3, <1>4, <2>1 DEF ToldOK, Shown, Unchanging
<1>9. SureOK'
    <2> SUFFICES ASSUME log.unsure = FALSE
                 PROVE  /\ \A r \in post' : r.what = "announce"
                        /\ (Asking /\ act.what = "step" /\ act.here = TRUE /\ act.at = "ok" => form.name = stored.name)'
                        /\ ~(form.step > 0)
        BY <1>1, <1>2 DEF SureOK
    <2>1. Named(s) /\ Mine(s) /\ ToldOf(s)
        BY <1>0, <1>1, <1>2 DEF SureOK, Named
    <2>2. \A r \in post' : r.what = "announce"
        BY <1>0, <1>4, <2>1 DEF SureOK, Named
    <2>3. (Asking /\ act.what = "step" /\ act.here = TRUE /\ act.at = "ok" => form.name = stored.name)'
        BY <1>2, <1>3, <1>4, <2>1 DEF Named, Mine
    <2>4. ~(form.step > 0)
        BY <1>0, <1>1, <2>1 DEF PageOK, Mine
    <2> QED
        BY <2>2, <2>3, <2>4
<1>10. Forms!PublishedAsReviewed'
    BY <1>0, <1>1 DEF Forms!PublishedAsReviewed
<1> QED
    BY <1>4, <1>5, <1>7, <1>8, <1>9, <1>10 DEF FormsOK

\* A strategy is registered, under the name that is saved.
LEMMA StrategyMade ==
    ASSUME NoneIsNoForm, FormsOK, NEW s \in post, Forms!CreateStrategy(s)
    PROVE  FormsOK'
<1>0. FormsTyped /\ FormRequestsOK /\ PageOK /\ StrategyStays /\ ToldOK /\ SureOK /\ Forms!PublishedAsReviewed
    BY DEF FormsOK
<1>1. /\ s.what = "register" /\ stored.strategy = Null /\ Forms!Served(s)
      /\ stored' = [stored EXCEPT !.strategy = [policy |-> s.policy, pending |-> Null]]
      /\ log' = [log EXCEPT !.review = [reviewed |-> s.name, published |-> stored.name, unsure |-> log.unsure]]
    BY DEF Forms!CreateStrategy
<1>2. Leaves(s) /\ (Mine(s) => ToldOf(s)) /\ UNCHANGED <<form, profile>>
    BY <1>1, ServedIsTold DEF Leaves
<1>3. OfAccount(stored') /\ stored'.name = stored.name /\ stored'.strategy # Null /\ OfStrategy(stored'.strategy)
    <2>1. stored = [name |-> stored.name, strategy |-> stored.strategy]
        BY <1>0 DEF FormsTyped, OfAccount
    <2>2. stored' = [name |-> stored.name, strategy |-> [policy |-> s.policy, pending |-> Null]]
        BY <1>1, <2>1
    <2>3. OfAccount(stored') /\ stored'.name = stored.name /\ stored'.strategy = [policy |-> s.policy, pending |-> Null]
        BY <2>2 DEF OfAccount
    <2> QED
        BY <2>3 DEF OfStrategy, NoneIsNoForm
<1>4. /\ OfLog(log') /\ log'.clicks = log.clicks /\ log'.unsure = log.unsure /\ log'.outdated = log.outdated
      /\ log'.untold = log.untold
      /\ log'.review = [reviewed |-> s.name, published |-> stored.name, unsure |-> log.unsure]
    <2>1. PICK review : review = [reviewed |-> s.name, published |-> stored.name, unsure |-> log.unsure]
        OBVIOUS
    <2>2. log = [clicks |-> log.clicks, review |-> log.review, unsure |-> log.unsure, outdated |-> log.outdated,
                 untold |-> log.untold]
        BY <1>0 DEF FormsTyped, OfLog
    <2>3. log' = [clicks |-> log.clicks, review |-> review, unsure |-> log.unsure, outdated |-> log.outdated,
                  untold |-> log.untold]
        BY <1>1, <2>1, <2>2
    <2> QED
        BY <2>1, <2>3 DEF OfLog
<1>5. /\ FormRequestsOK' /\ PageOK'
      /\ \A r \in post' : r \in post /\ (Mine(r) => Mine(r)') /\ (Mine(s) => ~Mine(r))
      /\ Asking' => /\ OfClick(act') /\ act'.what \in FormKinds /\ act'.at \in {"wait", "ok"}
                    /\ act'.here \in BOOLEAN /\ act'.click \in Nat /\ act'.click <= log.clicks
                    /\ Asking /\ act'.what = act.what /\ act'.here = act.here
    BY <1>1, <1>2, <1>3, <1>4, StillOnItsWay
<1>6. FormsTyped'
    BY <1>0, <1>2, <1>3, <1>4, <1>5 DEF FormsTyped
<1>7. StrategyStays'
    BY <1>3 DEF StrategyStays
<1>8. profile.strategy = Null /\ \A r \in post : r.what # "announce"
    BY <1>0, <1>1 DEF StrategyStays, FormRequestsOK, RequestIs
<1>9. ToldOK'
    BY <1>2, <1>5, <1>8 DEF ToldOK, Unchanging
<1>10. SureOK'
    <2> SUFFICES ASSUME log.unsure = FALSE
                 PROVE  /\ post' = {}
                        /\ ~(Asking' /\ act'.what = "step")
                        /\ form.step > 0 => form.name = stored.name
        BY <1>2, <1>3, <1>4 DEF SureOK
    <2>1. Mine(s) /\ act.what = "register" /\ \A r \in post' : Mine(r)
        BY <1>0, <1>1, <1>5, <1>8 DEF SureOK, Named, Mine
    <2> QED
        BY <1>0, <1>5, <2>1 DEF SureOK
<1>11. Forms!PublishedAsReviewed'
    <2>1. log.unsure = FALSE => s.name = stored.name
        BY <1>0, <1>1 DEF SureOK, Named
    <2>2. log.unsure \in BOOLEAN
        BY <1>0 DEF FormsTyped
    <2> QED
        BY <1>4, <2>1, <2>2 DEF Forms!PublishedAsReviewed
<1> QED
    BY <1>5, <1>6, <1>7, <1>9, <1>10, <1>11 DEF FormsOK

\* A change is announced, compared with the conditions in force.
LEMMA ChangeProposed ==
    ASSUME NoneIsNoForm, FormsOK, NEW s \in post, Forms!ProposePolicy(s)
    PROVE  FormsOK'
<1>0. FormsTyped /\ FormRequestsOK /\ PageOK /\ StrategyStays /\ ToldOK /\ SureOK /\ Forms!PublishedAsReviewed
    BY DEF FormsOK
<1>1. /\ s.what = "announce" /\ stored.strategy.pending = Null /\ Forms!Served(s)
      /\ stored' = [stored EXCEPT !.strategy.pending = s.policy]
      /\ log' = [log EXCEPT !.outdated = @ \/ (~log.untold /\ s.shown # stored.strategy.policy)]
    BY DEF Forms!ProposePolicy
<1>2. Leaves(s) /\ (Mine(s) => ToldOf(s)) /\ UNCHANGED <<form, profile>>
    BY <1>1, ServedIsTold DEF Leaves
<1>3. OfAccount(stored') /\ stored'.name = stored.name /\ stored'.strategy # Null /\ OfStrategy(stored'.strategy)
      /\ stored.strategy # Null
    <2>1. stored = [name |-> stored.name, strategy |-> stored.strategy] /\ stored.strategy # Null
        BY <1>0, <1>1 DEF FormsTyped, OfAccount, FormRequestsOK, RequestIs
    <2>2. stored.strategy = [policy |-> stored.strategy.policy, pending |-> stored.strategy.pending]
        BY <1>0, <2>1 DEF FormsTyped, OfStrategy
    <2>3. PICK changed : changed = [policy |-> stored.strategy.policy, pending |-> s.policy]
        OBVIOUS
    <2>4. [stored.strategy EXCEPT !.pending = s.policy] = changed
        BY <2>2, <2>3
    <2>5. stored' = [stored EXCEPT !.strategy = changed]
        BY <1>1, <2>1, <2>4
    <2>6. stored' = [name |-> stored.name, strategy |-> changed]
        BY <2>1, <2>5
    <2>7. OfAccount(stored') /\ stored'.name = stored.name /\ stored'.strategy = changed
        BY <2>6 DEF OfAccount
    <2>8. changed # Null /\ OfStrategy(changed)
        BY <2>3 DEF OfStrategy, NoneIsNoForm
    <2> QED
        BY <2>1, <2>7, <2>8
<1>4. log.untold = FALSE => Shown(s) /\ Mine(s) /\ s.shown = stored.strategy.policy
    BY <1>0, <1>1 DEF ToldOK, Shown, Mine
<1>5. /\ OfLog(log') /\ log'.clicks = log.clicks /\ log'.review = log.review /\ log'.unsure = log.unsure
      /\ log'.untold = log.untold /\ log'.outdated = FALSE
    <2>1. (log.outdated \/ (~log.untold /\ s.shown # stored.strategy.policy)) = FALSE
        BY <1>0, <1>4 DEF FormsTyped
    <2>2. log = [clicks |-> log.clicks, review |-> log.review, unsure |-> log.unsure, outdated |-> log.outdated,
                 untold |-> log.untold]
        BY <1>0 DEF FormsTyped, OfLog
    <2>3. log' = [log EXCEPT !.outdated = FALSE]
        BY <1>1, <2>1
    <2>4. log' = [clicks |-> log.clicks, review |-> log.review, unsure |-> log.unsure, outdated |-> FALSE,
                  untold |-> log.untold]
        BY <2>2, <2>3
    <2> QED
        BY <2>4 DEF OfLog
<1>6. /\ FormRequestsOK' /\ PageOK'
      /\ \A r \in post' : r \in post /\ (Mine(r) => Mine(r)') /\ (Mine(s) => ~Mine(r))
      /\ Asking' => /\ OfClick(act') /\ act'.what \in FormKinds /\ act'.at \in {"wait", "ok"}
                    /\ act'.here \in BOOLEAN /\ act'.click \in Nat /\ act'.click <= log.clicks
                    /\ Asking /\ act'.what = act.what /\ act'.here = act.here
    BY <1>2, <1>3, <1>5, StillOnItsWay
<1>7. FormsTyped'
    BY <1>0, <1>2, <1>3, <1>5, <1>6 DEF FormsTyped
<1>8. StrategyStays'
    BY <1>3 DEF StrategyStays
<1>9. ToldOK'
    <2> SUFFICES ASSUME log.untold = FALSE
                 PROVE  /\ \A r \in post' : r.what # "announce"
                        /\ (Asking /\ act.what = "announce" /\ act.at = "ok")'
        BY <1>5 DEF ToldOK
    <2>1. Mine(s) /\ ToldOf(s)
        BY <1>2, <1>4
    <2>2. \A r \in post' : r.what # "announce"
        BY <1>0, <1>6, <2>1 DEF ToldOK, Shown
    <2>3. (Asking /\ act.what = "announce" /\ act.at = "ok")'
        BY <1>1, <2>1 DEF ToldOf, Mine, Asking
    <2> QED
        BY <2>2, <2>3
<1>10. SureOK'
    <2> SUFFICES ASSUME log.unsure = FALSE
                 PROVE  /\ \A r \in post' : r.what # "announce" => Named(r)'
                        /\ (Asking /\ act.what = "step" /\ act.at = "ok")'
                           => Asking /\ act.what = "step" /\ act.at = "ok"
        BY <1>0, <1>2, <1>3, <1>5, <1>6 DEF SureOK
    <2>1. ASSUME NEW r \in post', r.what # "announce"
          PROVE  Named(r)'
        <3>1. Named(r) /\ Mine(r)'
            BY <1>0, <1>6, <2>1 DEF SureOK, Named
        <3> QED
            BY <1>2, <1>3, <1>6, <3>1 DEF Named, Mine
    <2>2. (Asking /\ act.what = "step" /\ act.at = "ok")' => Asking /\ act.what = "step" /\ act.at = "ok"
        BY <1>1, <1>2 DEF Leaves, ToldOf, Mine, Asking
    <2> QED
        BY <2>1, <2>2
<1>11. Forms!PublishedAsReviewed'
    BY <1>0, <1>5 DEF Forms!PublishedAsReviewed
<1> QED
    BY <1>6, <1>7, <1>8, <1>9, <1>10, <1>11 DEF FormsOK

\* A request is refused or lost.
LEMMA RequestGone ==
    ASSUME NoneIsNoForm, FormsOK, NEW s \in post, Forms!Refuse(s) \/ Forms!Lose(s)
    PROVE  FormsOK'
<1>0. FormsTyped /\ FormRequestsOK /\ PageOK /\ StrategyStays /\ ToldOK /\ SureOK /\ Forms!PublishedAsReviewed
    BY DEF FormsOK
<1>1. /\ post' = post \ {s} /\ UNCHANGED <<form, profile, stored, log>>
      /\ act' = act \/ (Mine(s) /\ act' = Null)
    BY <1>0 DEF Forms!Refuse, Forms!Lose, Forms!Answer, Forms!Busy, Asking, FormRequestsOK, RequestIs
<1>2. Leaves(s)
    BY <1>1 DEF Leaves
<1>3. /\ FormRequestsOK' /\ PageOK'
      /\ \A r \in post' : r \in post /\ (Mine(r) => Mine(r)') /\ (Mine(s) => ~Mine(r))
      /\ Asking' => /\ OfClick(act') /\ act'.what \in FormKinds /\ act'.at \in {"wait", "ok"}
                    /\ act'.here \in BOOLEAN /\ act'.click \in Nat /\ act'.click <= log.clicks
                    /\ Asking /\ act'.what = act.what /\ act'.here = act.here
    BY <1>1, <1>2, StillOnItsWay
<1>4. FormsTyped'
    BY <1>0, <1>1, <1>3 DEF FormsTyped
<1>5. Asking' => act' = act
    BY <1>1 DEF Asking
<1>6. StrategyStays'
    BY <1>0, <1>1, <1>5, <1>3 DEF StrategyStays
<1>7. ToldOK'
    <2>1. (Asking /\ act.what = "announce" /\ act.at = "ok") => act' = act
        BY <1>1 DEF Mine
    <2>2. \A r \in post' : Shown(r) => Shown(r)'
        BY <1>1, <1>3 DEF Shown, Unchanging
    <2>3. Unchanging' <=> Unchanging
        BY <1>1 DEF Unchanging
    <2>4. (Asking /\ act.what = "announce" /\ act.at = "ok") => (Asking /\ act.what = "announce" /\ act.at = "ok")'
        BY <2>1 DEF Asking
    <2> QED
        BY <1>0, <1>1, <1>3, <2>2, <2>3, <2>4 DEF ToldOK
<1>8. SureOK'
    <2>1. ASSUME NEW r \in post', Named(r)
          PROVE  Named(r)'
        <3>1. Mine(r) /\ Mine(r)' /\ act' = act
            BY <1>3, <1>5, <2>1 DEF Named, Mine
        <3> QED
            BY <1>1, <2>1, <3>1 DEF Named
    <2> QED
        BY <1>0, <1>1, <1>3, <1>5, <2>1 DEF SureOK
<1>9. Forms!PublishedAsReviewed'
    BY <1>0, <1>1 DEF Forms!PublishedAsReviewed
<1> QED
    BY <1>3, <1>4, <1>6, <1>7, <1>8, <1>9 DEF FormsOK

\* An announced change takes effect: whoever was told of it shows that it is announced.
LEMMA ChangeActivated ==
    ASSUME NoneIsNoForm, FormsOK, Forms!Activate
    PROVE  FormsOK'
<1>0. FormsTyped /\ FormRequestsOK /\ PageOK /\ StrategyStays /\ ToldOK /\ SureOK /\ Forms!PublishedAsReviewed
    BY DEF FormsOK
<1>1. /\ stored.strategy # Null /\ stored.strategy.pending # Null /\ UNCHANGED <<form, profile, act, post, log>>
      /\ stored' = [stored EXCEPT !.strategy = [policy |-> stored.strategy.pending, pending |-> Null]]
    BY DEF Forms!Activate
<1>2. OfAccount(stored') /\ stored'.name = stored.name /\ stored'.strategy # Null /\ OfStrategy(stored'.strategy)
    <2>1. stored = [name |-> stored.name, strategy |-> stored.strategy]
        BY <1>0 DEF FormsTyped, OfAccount
    <2>2. stored' = [name |-> stored.name, strategy |-> [policy |-> stored.strategy.pending, pending |-> Null]]
        BY <1>1, <2>1
    <2>3. /\ OfAccount(stored') /\ stored'.name = stored.name
          /\ stored'.strategy = [policy |-> stored.strategy.pending, pending |-> Null]
        BY <2>2 DEF OfAccount
    <2> QED
        BY <2>3 DEF OfStrategy, NoneIsNoForm
<1>3. Asking' <=> Asking
    BY <1>1 DEF Asking
<1>4. FormsTyped'
    BY <1>0, <1>1, <1>2, <1>3 DEF FormsTyped
<1>5. FormRequestsOK'
    BY <1>0, <1>1, <1>2, <1>3 DEF FormRequestsOK, RequestIs, Mine
<1>6. PageOK'
    BY <1>0, <1>1, <1>3 DEF PageOK
<1>7. StrategyStays'
    BY <1>2 DEF StrategyStays
<1>8. ToldOK'
    <2>1. log.untold = FALSE => ~Unchanging \/ (Asking /\ act.what = "announce" /\ act.at = "ok")
        BY <1>0, <1>1 DEF ToldOK, Unchanging
    <2>2. \A r \in post : Shown(r) => Shown(r)'
        BY <1>1, <1>3 DEF Shown, Unchanging, Mine
    <2>3. Unchanging' <=> Unchanging
        BY <1>1 DEF Unchanging
    <2> QED
        BY <1>0, <1>1, <1>3, <2>1, <2>2, <2>3 DEF ToldOK
<1>9. SureOK'
    <2>1. \A r \in post : Named(r) => Named(r)'
        BY <1>1, <1>2, <1>3 DEF Named, Mine
    <2> QED
        BY <1>0, <1>1, <1>2, <1>3, <2>1 DEF SureOK
<1>10. Forms!PublishedAsReviewed'
    BY <1>0, <1>1 DEF Forms!PublishedAsReviewed
<1> QED
    BY <1>4, <1>5, <1>6, <1>7, <1>8, <1>9, <1>10 DEF FormsOK

\* Nothing has been sent, and the page shows what the platform has.
LEMMA FormsStart ==
    ASSUME NoneIsNoForm, Forms!Init
    PROVE  FormsOK
<1>1. PICK strategy \in {Null, [policy |-> FirstPolicy, pending |-> Null]} :
          stored = [name |-> FirstName, strategy |-> strategy]
    BY DEF Forms!Init
<1>2. /\ profile = stored /\ act = Null /\ post = {}
      /\ form = [at |-> "list", step |-> 0, name |-> stored.name, dialog |-> FALSE, policy |-> FirstPolicy]
      /\ log = [clicks |-> 0, review |-> Null, unsure |-> FALSE, outdated |-> FALSE, untold |-> FALSE]
    BY DEF Forms!Init, Forms!Mount
<1>3. OfAccount(stored) /\ stored.strategy = strategy /\ (strategy # Null => OfStrategy(strategy))
    BY <1>1 DEF OfAccount, OfStrategy
<1>4. OfForm(form) /\ form.at = "list" /\ form.step = 0 /\ form.dialog = FALSE
    BY <1>2 DEF OfForm
<1>5. OfLog(log) /\ log.clicks = 0 /\ log.review = Null /\ log.unsure = FALSE /\ log.outdated = FALSE
      /\ log.untold = FALSE
    BY <1>2 DEF OfLog
<1>6. ~Asking /\ ~(form.dialog = TRUE) /\ form.dialog \in BOOLEAN
    BY <1>2, <1>4 DEF Asking
<1>7. form.step \in Nat /\ ~(form.step > 0)
    BY <1>4
<1>8. FormsTyped
    BY <1>2, <1>3, <1>4, <1>5, <1>6, <1>7 DEF FormsTyped
<1>9. FormRequestsOK /\ PageOK /\ StrategyStays
    BY <1>2, <1>4, <1>6, <1>7 DEF FormRequestsOK, PageOK, StrategyStays
<1>10. ToldOK /\ SureOK /\ Forms!PublishedAsReviewed
    BY <1>2, <1>5, <1>6, <1>7 DEF ToldOK, SureOK, Forms!PublishedAsReviewed
<1> QED
    BY <1>8, <1>9, <1>10 DEF FormsOK

\* The name a registration was reviewed under is the one it is published under, unless it was
\* edited meanwhile or an answer was given up on; and new conditions are announced beside
\* those in force, unless an earlier announcement was not answered (ManagerConsole.jsx,
\* NewStrategy and StrategyWorkspace).
THEOREM FormsAreCurrent ==
    ASSUME NoneIsNoForm
    PROVE  Forms!Init /\ [][Forms!Next]_(Forms!vars) => [](Forms!PublishedAsReviewed /\ Forms!ComparedWithCurrent)
<1>1. Forms!Init => FormsOK
    BY FormsStart
<1>2. FormsOK /\ [Forms!Next]_(Forms!vars) => FormsOK'
    <2> SUFFICES ASSUME FormsOK, [Forms!Next]_(Forms!vars)
                 PROVE  FormsOK'
        OBVIOUS
    <2>1. CASE UNCHANGED Forms!vars
        BY <2>1 DEF Forms!vars, FormsOK, FormsTyped, FormRequestsOK, RequestIs, PageOK, StrategyStays, ToldOK, SureOK,
           Shown, Named, Mine, Asking, Unchanging, Forms!PublishedAsReviewed
    <2>2. CASE Forms!Next
        <3>1. CASE \E at \in {"list", "profile", "new", "work"} : Forms!Go(at)
            BY <3>1, PageLeft
        <3>2. CASE \E name \in PublicNames : Forms!EditName(name)
            BY <3>2, NameEdited
        <3>3. CASE \/ \E policy \in Forms!Edits(form.policy) : Forms!EditPolicy(policy)
                   \/ Forms!NextStep \/ Forms!PreviousStep \/ Forms!Compare \/ Forms!Close
            BY <3>3, StepTaken
        <3>4. CASE Forms!SaveProfile \/ Forms!FirstStep \/ Forms!Register \/ Forms!Announce
            BY <3>4, FormSent
        <3>5. CASE Forms!Reload \/ Forms!Answered \/ Forms!Fails
            BY <3>5, RunsEnd
        <3>6. CASE Forms!Activate
            BY <3>6, ChangeActivated
        <3>7. CASE \E s \in post : \/ Forms!UpsertStrategist(s) \/ Forms!CreateStrategy(s) \/ Forms!ProposePolicy(s)
                                   \/ Forms!Refuse(s) \/ Forms!Lose(s)
            BY <3>7, NameSaved, StrategyMade, ChangeProposed, RequestGone
        <3> QED
            BY <2>2, <3>1, <3>2, <3>3, <3>4, <3>5, <3>6, <3>7 DEF Forms!Next
    <2> QED
        BY <2>1, <2>2
<1>3. FormsOK => Forms!PublishedAsReviewed /\ Forms!ComparedWithCurrent
    BY DEF FormsOK, FormsTyped, Forms!ComparedWithCurrent
<1> QED
    BY <1>1, <1>2, <1>3, PTL

-------------------------------------------------------------------------------
(* Each part in the composition. *)

\* A behaviour of the composition is one of its part, whatever the others are.
LEMMA PartStays ==
    ASSUME [ProtocolNext]_<<part, protocolVars>>
    PROVE  part' = part
BY DEF ProtocolNext

\* A behaviour of the move of the operator in the composition is one of its specification.
LEMMA MigrationAlone ==
    ASSUME Null \notin Contents
    PROVE  ProtocolSpec => [](part = "migration" => Migration!LatestStateOperates /\ Migration!ImportedIsWhole)
<1>1. ProtocolInit => (part = "migration" => Migration!Init)
    BY DEF ProtocolInit, InitMigration
<1>2. [ProtocolNext]_<<part, protocolVars>> => (part = "migration" => [Migration!Next]_(Migration!vars))
    BY DEF ProtocolNext, protocolVars, migrationVars, Migration!vars
<1>3. [ProtocolNext]_<<part, protocolVars>> => ((part = "migration") <=> (part = "migration")')
    BY PartStays
<1>4. Migration!Init /\ [][Migration!Next]_(Migration!vars) => [](Migration!LatestStateOperates /\ Migration!ImportedIsWhole)
    BY MovedOperatorIsLatest, PTL DEF Migration!Spec
<1> QED
    BY <1>1, <1>2, <1>3, <1>4, PTL DEF ProtocolSpec

\* A behaviour of the retirement of a vault in the composition is one of its specification.
LEMMA RetirementAlone ==
    ASSUME RetirementBounds
    PROVE  ProtocolSpec => [](part = "retirement" => Retirement!NothingIsLeftBehind /\ Retirement!VaultIsExplained)
<1>1. ProtocolInit => (part = "retirement" => Retirement!Init)
    BY DEF ProtocolInit, InitRetirement
<1>2. [ProtocolNext]_<<part, protocolVars>> => (part = "retirement" => [Retirement!Next]_(Retirement!vars))
    BY DEF ProtocolNext, protocolVars, retirementVars, Retirement!vars
<1>3. [ProtocolNext]_<<part, protocolVars>> => ((part = "retirement") <=> (part = "retirement")')
    BY PartStays
<1>4. Retirement!Init /\ [][Retirement!Next]_(Retirement!vars) => [](Retirement!NothingIsLeftBehind /\ Retirement!VaultIsExplained)
    BY NothingIsLeftInTheVault
<1> QED
    BY <1>1, <1>2, <1>3, <1>4, PTL DEF ProtocolSpec

\* A behaviour of a change of terms in the composition is one of its specification.
LEMMA PolicyAlone ==
    ASSUME PolicyTerms
    PROVE  ProtocolSpec => [](part = "policy" => Policy!PublicTermsFollowBook /\ Policy!RedemptionsKeepTheirTerms)
<1>1. ProtocolInit => (part = "policy" => Policy!Init)
    BY DEF ProtocolInit, InitPolicy
<1>2. [ProtocolNext]_<<part, protocolVars>> => (part = "policy" => [Policy!Next]_(Policy!vars))
    BY DEF ProtocolNext, protocolVars, policyVars, Policy!vars
<1>3. [ProtocolNext]_<<part, protocolVars>> => ((part = "policy") <=> (part = "policy")')
    BY PartStays
<1>4. Policy!Init /\ [][Policy!Next]_(Policy!vars) => [](Policy!PublicTermsFollowBook /\ Policy!RedemptionsKeepTheirTerms)
    BY PublicTermsAreKept, PTL DEF Policy!Spec
<1> QED
    BY <1>1, <1>2, <1>3, <1>4, PTL DEF ProtocolSpec

\* A behaviour of the forms in the composition is one of its specification.
LEMMA FormsAlone ==
    ASSUME NoneIsNoForm
    PROVE  ProtocolSpec => [](part = "forms" => Forms!PublishedAsReviewed /\ Forms!ComparedWithCurrent)
<1>1. ProtocolInit => (part = "forms" => Forms!Init)
    BY DEF ProtocolInit, InitForms
<1>2. [ProtocolNext]_<<part, protocolVars>> => (part = "forms" => [Forms!Next]_(Forms!vars))
    BY DEF ProtocolNext, protocolVars, formsVars, Forms!vars
<1>3. [ProtocolNext]_<<part, protocolVars>> => ((part = "forms") <=> (part = "forms")')
    BY PartStays
<1>4. Forms!Init /\ [][Forms!Next]_(Forms!vars) => [](Forms!PublishedAsReviewed /\ Forms!ComparedWithCurrent)
    BY FormsAreCurrent
<1> QED
    BY <1>1, <1>2, <1>3, <1>4, PTL DEF ProtocolSpec

\* A behaviour of the accounts in the composition is one of its specification.
LEMMA AccountsAlone ==
    ASSUME NoneIsNobody
    PROVE  ProtocolSpec => [](part = "accounts" => Accounts!CreditedToItsAccount /\ Accounts!WalletsAreOwn /\ Accounts!CredentialsStay)
<1>1. ProtocolInit => (part = "accounts" => Accounts!Init)
    BY DEF ProtocolInit, InitAccounts
<1>2. [ProtocolNext]_<<part, protocolVars>> => (part = "accounts" => [Accounts!Next]_(Accounts!vars))
    BY DEF ProtocolNext, protocolVars, accountsVars, Accounts!vars
<1>3. [ProtocolNext]_<<part, protocolVars>> => ((part = "accounts") <=> (part = "accounts")')
    BY PartStays
<1>4. Accounts!Init /\ [][Accounts!Next]_(Accounts!vars) => [](Accounts!CreditedToItsAccount /\ Accounts!WalletsAreOwn /\ Accounts!CredentialsStay)
    BY AccountsKeepWhatIsTheirs, PTL DEF Accounts!Spec
<1> QED
    BY <1>1, <1>2, <1>3, <1>4, PTL DEF ProtocolSpec

\* A behaviour of the daily program in the composition is one of its specification.
LEMMA BotAlone ==
    ASSUME NoneIsNoNumber
    PROVE  ProtocolSpec => [](part = "bot" => Bot!OncePerDay /\ Bot!DecidesFromItsHoldings)
<1>1. ProtocolInit => (part = "bot" => Bot!Init)
    BY DEF ProtocolInit, InitBot
<1>2. [ProtocolNext]_<<part, protocolVars>> => (part = "bot" => [Bot!Next]_(Bot!vars))
    BY DEF ProtocolNext, protocolVars, botVars, Bot!vars
<1>3. [ProtocolNext]_<<part, protocolVars>> => ((part = "bot") <=> (part = "bot")')
    BY PartStays
<1>4. Bot!Init /\ [][Bot!Next]_(Bot!vars) => [](Bot!OncePerDay /\ Bot!DecidesFromItsHoldings)
    BY DecisionsAreMadeOnce
<1> QED
    BY <1>1, <1>2, <1>3, <1>4, PTL DEF ProtocolSpec

\* A behaviour of what the browser asks for in the composition is one of its specification.
LEMMA BrowserAlone ==
    ASSUME NoneIsNoClick
    PROVE  ProtocolSpec => [](part = "browser" => Browser!AskedOnceDoneOnce /\ Browser!MadeIsKnown)
<1>1. ProtocolInit => (part = "browser" => Browser!Init)
    BY DEF ProtocolInit, InitBrowser
<1>2. [ProtocolNext]_<<part, protocolVars>> => (part = "browser" => [Browser!Next]_(Browser!vars))
    BY DEF ProtocolNext, protocolVars, browserVars, Browser!vars
<1>3. [ProtocolNext]_<<part, protocolVars>> => ((part = "browser") <=> (part = "browser")')
    BY PartStays
<1>4. Browser!Init /\ [][Browser!Next]_(Browser!vars) => [](Browser!AskedOnceDoneOnce /\ Browser!MadeIsKnown)
    BY AskedIsDoneOnce
<1> QED
    BY <1>1, <1>2, <1>3, <1>4, PTL DEF ProtocolSpec

\* A behaviour of adding funds in the composition is one of its specification.
LEMMA WalletAlone ==
    ASSUME DepositTerms
    PROVE  ProtocolSpec => [](part = "wallet" => Wallet!SentCanComplete)
<1>1. ProtocolInit => (part = "wallet" => Wallet!Init)
    BY DEF ProtocolInit, InitWallet
<1>2. [ProtocolNext]_<<part, protocolVars>> => (part = "wallet" => [Wallet!Next]_(Wallet!vars))
    BY DEF ProtocolNext, protocolVars, walletVars, Wallet!vars
<1>3. [ProtocolNext]_<<part, protocolVars>> => ((part = "wallet") <=> (part = "wallet")')
    BY PartStays
<1>4. Wallet!Init /\ [][Wallet!Next]_(Wallet!vars) => [](Wallet!SentCanComplete)
    BY SentDepositsComplete
<1> QED
    BY <1>1, <1>2, <1>3, <1>4, PTL DEF ProtocolSpec

\* A behaviour of the channel to the enclave in the composition is one of its specification.
LEMMA ChannelAlone ==
    ASSUME ChannelTimes, FirstRelease \in Releases
    PROVE  ProtocolSpec => [](part = "channel" => Channel!SentToThePinned)
<1>1. ProtocolInit => (part = "channel" => Channel!Init)
    BY DEF ProtocolInit, InitChannel
<1>2. [ProtocolNext]_<<part, protocolVars>> => (part = "channel" => [Channel!Next]_(Channel!vars))
    BY DEF ProtocolNext, protocolVars, channelVars, Channel!vars
<1>3. [ProtocolNext]_<<part, protocolVars>> => ((part = "channel") <=> (part = "channel")')
    BY PartStays
<1>4. Channel!Init /\ [][Channel!Next]_(Channel!vars) => [](Channel!SentToThePinned)
    BY PrivateRequestsReachThePinned
<1> QED
    BY <1>1, <1>2, <1>3, <1>4, PTL DEF ProtocolSpec

\* A behaviour of targets set by hand in the composition is one of its specification.
LEMMA HandAlone ==
    ASSUME NoneIsNoDialog
    PROVE  ProtocolSpec => [](part = "hand" => Hand!ReplacesWhatItRead)
<1>1. ProtocolInit => (part = "hand" => Hand!Init)
    BY DEF ProtocolInit, InitHand
<1>2. [ProtocolNext]_<<part, protocolVars>> => (part = "hand" => [Hand!Next]_(Hand!vars))
    BY DEF ProtocolNext, protocolVars, handVars, Hand!vars
<1>3. [ProtocolNext]_<<part, protocolVars>> => ((part = "hand") <=> (part = "hand")')
    BY PartStays
<1>4. Hand!Init /\ [][Hand!Next]_(Hand!vars) => [](Hand!ReplacesWhatItRead)
    BY TargetsReplaceWhatWasRead
<1> QED
    BY <1>1, <1>2, <1>3, <1>4, PTL DEF ProtocolSpec

\* Whoever operates has every change but those a source that was started again behind the
\* export has written since, an import is whole once it is marked, and a vault the operator
\* leaves holds nothing (migration.mjs, runAgent; vault-retirement.js; investments.mjs, pin).
THEOREM NothingIsEverLost ==
    ASSUME Null \notin Contents, RetirementBounds
    PROVE  ProtocolSpec => []NothingIsLost
BY MigrationAlone, RetirementAlone, PTL DEF NothingIsLost

\* Public terms follow the operator's book; a redemption is settled under changed terms only
\* if it is due after the time they were announced for and the first of them was announced
\* when it was asked for, which is less than "changes apply after existing redemptions
\* settle"; and what the strategist publishes is what the forms showed (service.js,
\* publishMetrics; execution.mjs, tick; ManagerConsole.jsx).
THEOREM PublishedTermsAreKept ==
    ASSUME PolicyTerms, NoneIsNoForm
    PROVE  ProtocolSpec => []TermsAreKept
BY PolicyAlone, FormsAlone, PTL DEF TermsAreKept

\* Deposits, rows and credentials stay with the account they belong to (service.js, bindWallet
\* and setCredentials; investments.mjs, accountRequest).
THEOREM MoneyStaysWithItsAccount ==
    ASSUME NoneIsNobody
    PROVE  ProtocolSpec => []AccountsOwnTheirMoney
BY AccountsAlone, PTL DEF AccountsOwnTheirMoney

\* What is asked once is done once, and what was done is known: the bot's target of a day, a
\* request the browser repeats, a deposit it sent, targets set by hand; and it is asked of the
\* enclave that is pinned (mean-reversion.mjs, PlatformContext.jsx, ManagerConsole.jsx,
\* attestedTee.js).
THEOREM RequestsAreAppliedOnce ==
    ASSUME NoneIsNoNumber, NoneIsNoClick, DepositTerms, ChannelTimes, FirstRelease \in Releases, NoneIsNoDialog
    PROVE  ProtocolSpec => []RequestsApplyOnce
BY BotAlone, BrowserAlone, WalletAlone, ChannelAlone, HandAlone, PTL DEF RequestsApplyOnce

===============================================================================
