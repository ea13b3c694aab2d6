---------------------------- MODULE AgentRegistry ----------------------------
(***************************************************************************)
(* The agent registry and its hot reload: AgentRegistry.scan               *)
(* (services/agent_registry.py) run at start-up (main.lifespan) and, in a  *)
(* worker thread, by AgentHotReloader._watch (services/hot_reload.py),     *)
(* while somebody edits the agents directory.                              *)
(*                                                                         *)
(* An agent is a subdirectory; its configuration is a version number, or   *)
(* Broken when loading it raises.  A scan lists the directory, then reads  *)
(* one subdirectory after the other; edits happen in between.              *)
(*                                                                         *)
(* The watcher is watchfiles.awatch: from its first iteration on it        *)
(* collects changes, also while a reload runs, and hands them over in      *)
(* batches.  Renaming a directory reports the directory's path only.       *)
(*                                                                         *)
(* ...Unreset, ...Unchecked, ...Tolerant, ...Late are variants with a slip,*)
(* used by no specification.                                               *)
(***************************************************************************)
EXTENDS Integers, FiniteSets

CONSTANTS
  NAgents,     \* how many directory names there are; scan takes them in order
  None,        \* no such directory
  Broken,      \* a directory whose configuration does not load
  MaxEdits     \* bound: how many edits a behaviour has

Agent == 1 .. NAgents

ASSUME AgentsAndBounds == NAgents \in Nat /\ MaxEdits \in Nat
ASSUME NoneAndBroken == None \notin Int /\ Broken \notin Int /\ None # Broken

Config == 0 .. MaxEdits

VARIABLES
  disk,      \* agent -> its version on disk, Broken or None
  registry,  \* _instances: agent -> the version loaded, or None
  pc,        \* "boot", "bootScan", "booted", "watch", "reload"
  listing,   \* the directories this scan has still to read
  found,     \* what it has loaded so far
  pending,   \* kinds of change the watcher has collected: "config", "other"
  edits,     \* edits so far
  seen,      \* what each agent was on disk since this scan began
  missed     \* has a change since then been lost on the watcher?

vars == <<disk, registry, pc, listing, found, pending, edits, seen, missed>>

Empty == [a \in Agent |-> None]
OnDisk == {a \in Agent : disk[a] # None}

Init ==
  /\ disk \in [Agent -> {None, Broken, 0}]
  /\ registry = Empty
  /\ pc = "boot"
  /\ listing = {}
  /\ found = Empty
  /\ pending = {}
  /\ edits = 0
  /\ seen = [a \in Agent |-> {}]
  /\ missed = FALSE

-----------------------------------------------------------------------------
(* AgentRegistry.scan                                                      *)

FoundUnreset == found
FoundReset == Empty

(* sorted(iterdir()): the names are fixed here, the contents are not.      *)
List ==
  /\ listing' = OnDisk
  /\ found' = FoundReset
  /\ seen' = [a \in Agent |-> {disk[a]}]
  /\ missed' = FALSE

BootScan ==
  /\ pc = "boot"
  /\ List
  /\ pc' = "bootScan"
  /\ UNCHANGED <<disk, registry, pending, edits>>

Scanning == pc \in {"bootScan", "reload"}

(* The directories are read in the order of their names.                   *)
Turn(a) == a \in listing /\ \A b \in listing : a <= b

ReadOneUnchecked(a) ==
  /\ Scanning /\ Turn(a)
  /\ found' = [found EXCEPT ![a] = disk[a]]
  /\ listing' = listing \ {a}
  /\ UNCHANGED <<disk, registry, pc, pending, edits, seen, missed>>

(* A directory that is gone by now has no config.toml and is skipped.      *)
ReadOne(a) ==
  /\ Scanning /\ Turn(a)
  /\ disk[a] # Broken
  /\ found' = [found EXCEPT ![a] = disk[a]]
  /\ listing' = listing \ {a}
  /\ UNCHANGED <<disk, registry, pc, pending, edits, seen, missed>>

AbandonTolerant(a) ==
  /\ listing' = listing \ {a}
  /\ UNCHANGED pc

(* The exception leaves scan: start-up fails, _watch logs it and goes on.  *)
Abandon(a) ==
  /\ listing' = {}
  /\ pc' = IF pc = "reload" THEN "watch" ELSE "boot"

ReadBroken(a) ==
  /\ Scanning /\ Turn(a)
  /\ disk[a] = Broken
  /\ Abandon(a)
  /\ UNCHANGED <<disk, registry, found, pending, edits, seen, missed>>

(* One assignment replaces the whole registry.                             *)
Swap ==
  /\ Scanning /\ listing = {}
  /\ registry' = found
  /\ pc' = IF pc = "reload" THEN "watch" ELSE "booted"
  /\ UNCHANGED <<disk, listing, found, pending, edits, seen, missed>>

-----------------------------------------------------------------------------
(* AgentHotReloader                                                        *)

Watching == pc \in {"watch", "reload"}

(* The task made by start() gets to its first iteration of awatch.         *)
StartWatch ==
  /\ pc = "booted"
  /\ pc' = "watch"
  /\ pending' = {}
  /\ UNCHANGED <<disk, registry, listing, found, edits, seen, missed>>

(* Only changes of .md and .toml files make a batch worth a reload.        *)
Reload ==
  /\ pc = "watch"
  /\ "config" \in pending
  /\ pending' = {}
  /\ List
  /\ pc' = "reload"
  /\ UNCHANGED <<disk, registry, edits>>

Ignore ==
  /\ pc = "watch"
  /\ pending = {"other"}
  /\ pending' = {}
  /\ UNCHANGED <<disk, registry, pc, listing, found, edits, seen, missed>>

-----------------------------------------------------------------------------
(* The agents directory                                                    *)

NotifyLate(kind) ==
  pending' = IF pc = "watch" THEN pending \cup {kind} ELSE pending

(* The watcher collects whatever changes while it exists.                  *)
Notify(kind) ==
  pending' = IF Watching THEN pending \cup {kind} ELSE pending

Change(new, kind) ==
  /\ edits < MaxEdits
  /\ edits' = edits + 1
  /\ disk' = new
  /\ seen' = [a \in Agent |-> seen[a] \cup {new[a]}]
  /\ Notify(kind)
  /\ missed' = (missed \/ ~Watching \/ kind = "other")
  /\ UNCHANGED <<registry, pc, listing, found>>

(* A new version, a first version, one that does not load, or no directory *)
Edit(a) ==
  \E v \in {edits + 1, Broken, None} :
    v # disk[a] /\ Change([disk EXCEPT ![a] = v], "config")

Rename(a, b) ==
  /\ disk[a] # None /\ disk[b] = None
  /\ Change([disk EXCEPT ![a] = None, ![b] = disk[a]], "other")

-----------------------------------------------------------------------------
Reloader ==
  \/ BootScan
  \/ \E a \in Agent : ReadOne(a)
  \/ \E a \in Agent : ReadBroken(a)
  \/ Swap
  \/ StartWatch
  \/ Reload
  \/ Ignore

Next ==
  \/ Reloader
  \/ \E a \in Agent : Edit(a)
  \/ \E a, b \in Agent : Rename(a, b)

Spec == Init /\ [][Next]_vars

(* The event loop and its worker thread get on; nobody has to edit.        *)
FairSpec == Spec /\ WF_vars(Reloader)
-----------------------------------------------------------------------------
(* Every variable has its type (_instances and the locals of scan).        *)
TypeOK ==
  /\ disk \in [Agent -> Config \cup {None, Broken}]
  /\ registry \in [Agent -> Config \cup {None}]
  /\ pc \in {"boot", "bootScan", "booted", "watch", "reload"}
  /\ listing \in SUBSET Agent
  /\ found \in [Agent -> Config \cup {None}]
  /\ pending \in SUBSET {"config", "other"}
  /\ edits \in 0 .. MaxEdits
  /\ seen \in [Agent -> SUBSET (Config \cup {None, Broken})]
  /\ missed \in BOOLEAN

(* A new registry is what one whole scan read: each agent in it, or absent *)
(* from it, was so on disk at some time during that scan.  So a reader     *)
(* never sees half a scan, nor a scan that met a broken configuration, nor *)
(* an agent removed before the scan began.                                 *)
RegistryIsOneScan ==
  [][registry' # registry => \A a \in Agent : registry'[a] \in seen[a]]_registry

Loads == \A a \in Agent : disk[a] # Broken

(* While there is nothing left to do, an agent that loads is served as it  *)
(* is on disk: no reported change is forgotten, also not one made while a  *)
(* reload was reading.                                                     *)
QuietMeansCurrent ==
  pc = "watch" /\ pending = {} /\ Loads /\ ~missed => registry = disk

(* Once the directory stays as it is, loads, and the watcher was told of   *)
(* every change, the registry comes to be what it says and stays so.       *)
ReportedChangesApply == <>[](Loads /\ ~missed) => <>[](registry = disk)

(* "Config changes apply without restart": once the directory stays as it  *)
(* is and loads, the registry comes to be what it says and stays so.       *)
ChangesApply == <>[]Loads => <>[](registry = disk)
=============================================================================
