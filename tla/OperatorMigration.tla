--------------------------- MODULE OperatorMigration ---------------------------
(***************************************************************************)
(* Moving the operator to another confidential machine                     *)
(* (deploy/tee/operator/migration.mjs, identity.mjs): an agent beside each *)
(* operator, packets the client may lose, repeat or deliver late, and      *)
(* machines that stop between two writes.  What the people who move it     *)
(* check is docs/phala-account-migration.md, and external.                 *)
(*                                                                         *)
(* A file's content is the number of changes made to it.  Each file is     *)
(* renamed into place, whole, from a directory that is not looked at.      *)
(***************************************************************************)
EXTENDS Naturals

CONSTANTS Files, None, Own, ChangeLimit, ResumeLimit

VARIABLES
    source,    \* the old operator's container and files
    target,    \* the new machine's disk: files, identity, marker
    standby,   \* the container that was started there first
    agent,     \* the import under way there, or Idle
    packets,   \* the snapshots the client has got
    agreed,    \* the answer to the last export, since the source was last resumed
    worker,    \* whether the new operator runs
    changes,   \* history: all changes that were made, by either operator
    stray,     \* history: whether the source was started after the last export before the
               \* new operator, and the changes it has made since that export
    resumed    \* history: how often the source was started again

vars == <<source, target, standby, agent, packets, agreed, worker, changes, stray, resumed>>

Idle == [step |-> "idle", snapshot |-> None, left |-> {}]
NoStray == [started |-> FALSE, files |-> [f \in Files |-> 0]]

Init ==
    /\ source = [state |-> "running", files |-> [f \in Files |-> 0]]
    /\ target = [files |-> [f \in Files |-> None], identity |-> FALSE, marker |-> None]
    /\ standby = "running" /\ agent = Idle /\ packets = {} /\ agreed = None /\ worker = FALSE
    /\ changes = [f \in Files |-> 0] /\ resumed = 0 /\ stray = NoStray

--------------------------------------------------------------------------------
(* The source. *)

Change(f) ==
    /\ changes[f] < ChangeLimit
    /\ changes' = [changes EXCEPT ![f] = @ + 1]
    /\ \/ /\ source.state = "running" /\ source' = [source EXCEPT !.files[f] = @ + 1]
          /\ stray' = [stray EXCEPT !.files[f] = @ + 1] /\ UNCHANGED target
       \/ worker /\ target' = [target EXCEPT !.files[f] = @ + 1] /\ UNCHANGED <<source, stray>>
    /\ UNCHANGED <<standby, agent, packets, agreed, worker, resumed>>

SnapshotFiles == source.files
\* EXPORT pauses the operator before it reads; its answer may be lost.
Export ==
    /\ source.state # "stopped" /\ source' = [source EXCEPT !.state = "paused"]
    /\ stray' = IF worker THEN stray ELSE NoStray
    /\ \/ packets' = packets \cup {SnapshotFiles} /\ agreed' = SnapshotFiles
       \/ UNCHANGED packets /\ agreed' = None
    /\ UNCHANGED <<target, standby, agent, worker, changes, resumed>>
\* RESUME, which may come late.  Those who ask for it export again before they go on (external).
Resume ==
    /\ source.state = "paused" /\ resumed < ResumeLimit
    /\ source' = [source EXCEPT !.state = "running"] /\ agreed' = None
    /\ resumed' = resumed + 1 /\ stray' = [stray EXCEPT !.started = TRUE]
    /\ UNCHANGED <<target, standby, agent, packets, worker, changes>>
\* A machine that starts again starts its service, the paused operator too: its normal
\* startup is disabled only after the cutover (docs/phala-account-migration.md:18; external).
\* Nobody is told.
SourceReboot ==
    /\ source.state = "paused" /\ resumed < ResumeLimit
    /\ source' = [source EXCEPT !.state = "running"]
    /\ resumed' = resumed + 1 /\ stray' = [stray EXCEPT !.started = TRUE]
    /\ UNCHANGED <<target, standby, agent, packets, agreed, worker, changes>>
\* "Disable normal startup on the source CVM and stop it after cutover" (external).
StopSource ==
    /\ worker /\ source.state # "stopped" /\ source' = [source EXCEPT !.state = "stopped"]
    /\ UNCHANGED <<target, standby, agent, packets, agreed, worker, changes, stray, resumed>>

--------------------------------------------------------------------------------
(* The target. *)

\* The standby operator has files of its own; it writes while it runs.
StandbyWrites(f) ==
    /\ standby = "running" /\ target.files[f] # Own
    /\ target' = [target EXCEPT !.files[f] = Own]
    /\ UNCHANGED <<source, standby, agent, packets, agreed, worker, changes, stray, resumed>>

\* IMPORT: with the marker there is nothing to do, but for another snapshot to refuse.
\* Fault variant: the standby operator runs on until it is removed.
Quiesced_Running == standby
Quiesced == IF standby = "running" THEN "paused" ELSE standby
Import(snapshot) ==
    /\ agent = Idle /\ target.marker = None /\ standby # "gone"
    /\ agent' = [step |-> "move", snapshot |-> snapshot, left |-> Files]
    /\ standby' = Quiesced
    /\ UNCHANGED <<source, target, packets, agreed, worker, changes, stray, resumed>>

MoveFile(f) ==
    /\ agent.step = "move" /\ f \in agent.left
    /\ target' = [target EXCEPT !.files[f] = agent.snapshot[f]] /\ agent' = [agent EXCEPT !.left = @ \ {f}]
    /\ UNCHANGED <<source, standby, packets, agreed, worker, changes, stray, resumed>>
SealIdentity ==
    /\ agent.step = "move" /\ agent.left = {}
    /\ target' = [target EXCEPT !.identity = TRUE] /\ agent' = [agent EXCEPT !.step = "mark"]
    /\ UNCHANGED <<source, standby, packets, agreed, worker, changes, stray, resumed>>
WriteMarker ==
    /\ agent.step = "mark"
    /\ target' = [target EXCEPT !.marker = agent.snapshot] /\ agent' = [agent EXCEPT !.step = "delete"]
    /\ UNCHANGED <<source, standby, packets, agreed, worker, changes, stray, resumed>>
\* Its container is removed, so that it does not go on with what it had in memory.
DeleteStandby ==
    /\ agent.step = "delete" /\ standby' = "gone" /\ agent' = Idle
    /\ UNCHANGED <<source, target, packets, agreed, worker, changes, stray, resumed>>

AgentCrash ==
    /\ agent # Idle /\ agent' = Idle
    /\ UNCHANGED <<source, target, standby, packets, agreed, worker, changes, stray, resumed>>
\* The machine starts its containers again; an operator that finds an identity without a
\* manifest does not start (resolveOperatorSecret()), nor one that cannot open its files.
Reboot ==
    /\ ~worker /\ agent' = Idle
    /\ standby' \in IF target.identity THEN {"refused"} ELSE {"running", "refused"}
    /\ UNCHANGED <<source, target, packets, agreed, worker, changes, stray, resumed>>

\* The worker is deployed once STATUS agrees with the export (external), in place of what
\* was there, and starts only with the identity.
Deploy ==
    /\ ~worker /\ agent = Idle /\ agreed # None /\ target.marker = agreed /\ target.identity
    /\ worker' = TRUE /\ standby' = "gone"
    /\ UNCHANGED <<source, target, agent, packets, agreed, changes, stray, resumed>>

Next ==
    \/ \E f \in Files : Change(f) \/ StandbyWrites(f) \/ MoveFile(f)
    \/ Export \/ Resume \/ SourceReboot \/ StopSource
    \/ \E p \in packets : Import(p)
    \/ SealIdentity \/ WriteMarker \/ DeleteStandby \/ AgentCrash \/ Reboot \/ Deploy

Spec == Init /\ [][Next]_vars

--------------------------------------------------------------------------------
(* Properties. *)

\* "Never operate the source and destination financial workers simultaneously"
\* (phala-account-migration.md:63): both run only if the source was started again after the
\* snapshot that was moved was read, and all that the new operator then lacks is what the old
\* one has written since.  The agents ask for no more than the pause (migration.mjs:84, :123):
\* RESUME does not look at the destination and a reboot of the source ends the pause, so that
\* from the export until the source is stopped its machine must not restart.
LatestStateOperates ==
    /\ ~worker => source.files = changes
    /\ worker => \A f \in Files : target.files[f] + stray.files[f] = changes[f]
    /\ worker /\ ~stray.started => source.state # "running" /\ target.files = changes

\* What is marked as imported is one snapshot, whole, with the identity to use it, however
\* often the import was interrupted and whatever was imported before.
ImportedIsWhole == target.marker # None /\ ~worker => target.identity /\ target.files = target.marker
================================================================================
