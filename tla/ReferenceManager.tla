-------------------------- MODULE ReferenceManager --------------------------
(***************************************************************************)
(* scripts/manager.ts, the commands that work on the table                 *)
(* algorithm_versions of PostgreSQL: register and activate.  Every command *)
(* is a process of its own, no command uses a transaction, and one SQL     *)
(* statement is one atomic step.  The commands detect and validate write   *)
(* nothing: detect reads the law with a Prisma model that the schema does  *)
(* not have and throws, and without detections the foreign key refuses     *)
(* every validation.                                                       *)
(***************************************************************************)
EXTENDS Integers, Sequences, FiniteSets

CONSTANTS
  Managers,       \* processes
  Versions,       \* algorithm versions
  NoVersion,      \* no version
  MaxCommands     \* bound: commands that are started

ASSUME ManagerAssumption == NoVersion \notin Versions /\ MaxCommands \in Nat

VARIABLES
  algorithm,   \* algorithm_versions: "absent", "inactive" or "active"
  activating,  \* the version a process is activating, after its first UPDATE
  commands,    \* commands started so far
  alone,       \* history: activations with no other beside them since they began
  settled      \* history: what such an activation has activated, until the next

managerVars == <<algorithm, activating, commands, alone, settled>>

ManagerTypeOK ==
  /\ algorithm \in [Versions -> {"absent", "inactive", "active"}]
  /\ activating \in [Managers -> Versions \cup {NoVersion}]
  /\ commands \in 0..MaxCommands
  /\ alone \subseteq Managers
  /\ settled \in Versions \cup {NoVersion}

ManagerInit ==
  /\ algorithm = [v \in Versions |-> "absent"]
  /\ activating = [p \in Managers |-> NoVersion]
  /\ commands = 0
  /\ alone = {} /\ settled = NoVersion

-----------------------------------------------------------------------------
Activating == {p \in Managers : activating[p] # NoVersion}

StartCommand(p) ==
  /\ p \notin Activating
  /\ commands < MaxCommands
  /\ commands' = commands + 1

(* INSERT ... ON CONFLICT (version) DO NOTHING; is_active is false.        *)
registerAlgorithm(p, v) ==
  /\ StartCommand(p)
  /\ algorithm' = [algorithm EXCEPT ![v] = IF @ = "absent" THEN "inactive" ELSE @]
  /\ UNCHANGED <<activating, alone, settled>>

(* Mutant: only a version that is activated again is deactivated before.   *)
DeactivateOwn(p, v) ==
  /\ StartCommand(p)
  /\ algorithm' = [algorithm EXCEPT ![v] = IF @ = "active" THEN "inactive" ELSE @]
  /\ activating' = [activating EXCEPT ![p] = v]
  /\ alone' = IF Activating = {} THEN {p} ELSE {}
  /\ settled' = NoVersion

(* setActiveAlgorithm, the first UPDATE.                                   *)
Deactivate(p, v) ==
  /\ StartCommand(p)
  /\ algorithm' = [w \in Versions |-> IF algorithm[w] = "active" THEN "inactive" ELSE algorithm[w]]
  /\ activating' = [activating EXCEPT ![p] = v]
  /\ alone' = IF Activating = {} THEN {p} ELSE {}
  /\ settled' = NoVersion

(* The second: a version that is not registered matches no row.            *)
Activate(p) ==
  /\ p \in Activating
  /\ algorithm' = [algorithm EXCEPT ![activating[p]] = IF @ = "absent" THEN @ ELSE "active"]
  /\ activating' = [activating EXCEPT ![p] = NoVersion]
  /\ alone' = alone \ {p}
  /\ settled' = IF p \in alone THEN activating[p] ELSE NoVersion
  /\ UNCHANGED commands

(* The process dies, or its second statement fails.                        *)
ManagerAborts(p) ==
  /\ p \in Activating
  /\ activating' = [activating EXCEPT ![p] = NoVersion]
  /\ alone' = alone \ {p}
  /\ UNCHANGED <<algorithm, commands, settled>>

ManagerNext ==
  \E p \in Managers :
    \/ \E v \in Versions : registerAlgorithm(p, v) \/ Deactivate(p, v)
    \/ Activate(p) \/ ManagerAborts(p)

ManagerSpec == ManagerInit /\ [][ManagerNext]_managerVars

-----------------------------------------------------------------------------
(* Overlapping activations leave two versions active, and one that died    *)
(* leaves none.  The next activation that runs alone repairs both: from    *)
(* its end until another activation begins, no version but its own is      *)
(* active, whatever is registered meanwhile (manager.ts                    *)
(* setActiveAlgorithm, two UPDATEs without a transaction).                 *)
OneActiveVersion ==
  settled # NoVersion => {v \in Versions : algorithm[v] = "active"} \subseteq {settled}
=============================================================================
