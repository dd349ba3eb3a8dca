--------------------------- MODULE BridgeInstall ---------------------------
(***************************************************************************)
(* Finding and installing the SDK bridge                                   *)
(* (auth-cursor/go/bridge_install.go: resolveBridgeBinary, installBridge,  *)
(* stampInstalledBridge, verifyInstalledBridge).                           *)
(*                                                                         *)
(* Every start of a bridge looks for the pinned release under one root     *)
(* directory and installs it when it is missing or does not verify.        *)
(* Starts run at once: one for each proxy of a process, and those of other *)
(* processes; a process may die at any point and come back with the same   *)
(* process id.  A step is one operation on the file system.  A tree is     *)
(* what lies in the root directory or was moved out of it.                 *)
(***************************************************************************)
EXTENDS Integers, FiniteSets

CONSTANTS
  Starters,  \* calls of startBridge
  Pids,      \* process ids
  PidOf,     \* [Starters -> Pids]
  NoTree     \* nothing under a name

ASSUME InstallAssumption == PidOf \in [Starters -> Pids]

VARIABLES
  root,     \* the tree in the root directory
  aside,    \* [Pids -> the tree in root.replaced-<pid>]
  starter   \* [Starters -> the call and its variables]

installVars == <<root, aside, starter>>

\* The pinned release, or something else: an older or an altered binary.
Contents == {"pinned", "other"}

\* "archive": archive.sha256 names the pinned archive; "bin": what bin.sha256 is the sum of.
Tree == [content : Contents, archive : BOOLEAN, bin : Contents \cup {"none"}]

ASSUME TreeAssumption == NoTree \notin Tree

Pcs == {"idle", "looking", "verifying", "hashing", "staging", "staged", "setAside",
        "movingIn", "restoring", "checking", "removing", "stampSum", "stampArchive",
        "stampBin", "installed", "fallback", "resolved", "failed", "crashed"}

\* "moved": a tree was set aside.  "sum": a binary's sum held in a variable.
\* "trust": how the path was found.  "alone" and "staged" are histories: nobody else was at
\* work since this start began, and its archive was downloaded, verified and unpacked.
Starter == [pc : Pcs, moved : BOOLEAN, sum : Contents \cup {"none"},
            trust : {"none", "verified", "installed", "unverified"},
            alone : BOOLEAN, staged : BOOLEAN]

InstallTypeOK ==
  /\ root \in Tree \cup {NoTree}
  /\ aside \in [Pids -> Tree \cup {NoTree}]
  /\ starter \in [Starters -> Starter]

\* verifyInstalledBridge would accept the tree.
Verifies(t) == t # NoTree /\ t.archive /\ t.bin = t.content

-----------------------------------------------------------------------------
Working(s) == starter[s].pc \notin {"idle", "resolved", "failed", "crashed"}

\* A step of a start is seen by the others that are at work.
StarterBecomes(s, value) ==
  starter' = [t \in Starters |->
    IF t = s THEN value
    ELSE IF Working(t) THEN [starter[t] EXCEPT !.alone = FALSE] ELSE starter[t]]

At(s, pc) == StarterBecomes(s, [starter[s] EXCEPT !.pc = pc])

OnlyStarter == UNCHANGED <<root, aside>>

(* resolveBridgeBinary *)

Begin(s) ==
  /\ starter[s].pc = "idle"
  /\ StarterBecomes(s, [starter[s] EXCEPT !.pc = "looking",
       !.alone = \A t \in Starters \ {s} : ~Working(t)])
  /\ OnlyStarter

\* fileExists(installed).
Look(s) ==
  /\ starter[s].pc = "looking"
  /\ At(s, IF root # NoTree THEN "verifying" ELSE "staging")
  /\ OnlyStarter

\* Variant: the stamps alone are believed.
VerifyStamps_Only(s) ==
  /\ starter[s].pc = "verifying"
  /\ StarterBecomes(s, [starter[s] EXCEPT
       !.pc = IF root # NoTree /\ root.archive THEN "resolved" ELSE "staging",
       !.trust = IF root # NoTree /\ root.archive THEN "verified" ELSE "none"])
  /\ OnlyStarter

\* verifyInstalledBridge: the stamps, then the binary's sum.
VerifyStamps(s) ==
  /\ starter[s].pc = "verifying"
  /\ IF root # NoTree /\ root.archive /\ root.bin # "none"
     THEN StarterBecomes(s, [starter[s] EXCEPT !.pc = "hashing", !.sum = root.bin])
     ELSE At(s, "staging")
  /\ OnlyStarter

VerifyBinary(s) ==
  /\ starter[s].pc = "hashing"
  /\ IF root # NoTree /\ root.content = starter[s].sum
     THEN StarterBecomes(s, [starter[s] EXCEPT !.pc = "resolved", !.trust = "verified"])
     ELSE At(s, "staging")
  /\ OnlyStarter

(* installBridge *)

\* The archive is downloaded, verified against the pinned sum and unpacked beside the root.
Stage(s) ==
  /\ starter[s].pc = "staging"
  /\ StarterBecomes(s, [starter[s] EXCEPT !.pc = "staged", !.staged = TRUE])
  /\ OnlyStarter

StageFails(s) ==
  /\ starter[s].pc = "staging"
  /\ At(s, "fallback")
  /\ OnlyStarter

\* Variant: the tree is moved in without a look at what is there.
StatRoot_Never(s) ==
  /\ starter[s].pc = "staged"
  /\ At(s, "movingIn")
  /\ OnlyStarter

\* os.Stat(root).
StatRoot(s) ==
  /\ starter[s].pc = "staged"
  /\ At(s, IF root # NoTree THEN "setAside" ELSE "movingIn")
  /\ OnlyStarter

\* The tree is moved out of the way.  A rename onto a directory that is not empty fails.
SetAside(s) ==
  LET p == PidOf[s] IN
  /\ starter[s].pc = "setAside"
  /\ IF root # NoTree /\ aside[p] = NoTree
     THEN /\ StarterBecomes(s, [starter[s] EXCEPT !.pc = "movingIn", !.moved = TRUE])
          /\ aside' = [aside EXCEPT ![p] = root]
          /\ root' = NoTree
     ELSE At(s, "fallback") /\ OnlyStarter

\* What the archive unpacks to has no stamps.
Unpacked == [content |-> "pinned", archive |-> FALSE, bin |-> "none"]

\* The unpacked tree is moved in; the name must be free.
MoveIn(s) ==
  /\ starter[s].pc = "movingIn"
  /\ IF root = NoTree
     THEN /\ At(s, IF starter[s].moved THEN "removing" ELSE "stampSum")
          /\ root' = Unpacked
     ELSE /\ At(s, IF starter[s].moved THEN "restoring" ELSE "checking")
          /\ UNCHANGED root
  /\ UNCHANGED aside

\* What was set aside is put back, if the name is free again.
Restore(s) ==
  LET p == PidOf[s] IN
  /\ starter[s].pc = "restoring"
  /\ At(s, "checking")
  /\ IF root = NoTree /\ aside[p] # NoTree
     THEN root' = aside[p] /\ aside' = [aside EXCEPT ![p] = NoTree]
     ELSE OnlyStarter

\* A concurrent install, the benign case.
Check(s) ==
  /\ starter[s].pc = "checking"
  /\ At(s, IF root # NoTree THEN "installed" ELSE "fallback")
  /\ OnlyStarter

\* os.RemoveAll(replaced).
RemoveAside(s) ==
  /\ starter[s].pc = "removing"
  /\ At(s, "stampSum")
  /\ aside' = [aside EXCEPT ![PidOf[s]] = NoTree]
  /\ UNCHANGED root

(* stampInstalledBridge: each write needs the directory to be there. *)

StampSum(s) ==
  /\ starter[s].pc = "stampSum"
  /\ IF root # NoTree
     THEN StarterBecomes(s, [starter[s] EXCEPT !.pc = "stampArchive", !.sum = root.content])
     ELSE At(s, "fallback")
  /\ OnlyStarter

StampArchive(s) ==
  /\ starter[s].pc = "stampArchive"
  /\ IF root # NoTree
     THEN At(s, "stampBin") /\ root' = [root EXCEPT !.archive = TRUE]
     ELSE At(s, "fallback") /\ UNCHANGED root
  /\ UNCHANGED aside

StampBin(s) ==
  /\ starter[s].pc = "stampBin"
  /\ IF root # NoTree
     THEN At(s, "installed") /\ root' = [root EXCEPT !.bin = starter[s].sum]
     ELSE At(s, "fallback") /\ UNCHANGED root
  /\ UNCHANGED aside

\* installBridge has returned nil; the binary must be there.
Installed(s) ==
  /\ starter[s].pc = "installed"
  /\ IF root # NoTree
     THEN StarterBecomes(s, [starter[s] EXCEPT !.pc = "resolved", !.trust = "installed"])
     ELSE At(s, "failed")
  /\ OnlyStarter

\* It has failed: a tree that is there is used, with a warning.
Fallback(s) ==
  /\ starter[s].pc = "fallback"
  /\ IF root # NoTree
     THEN StarterBecomes(s, [starter[s] EXCEPT !.pc = "resolved", !.trust = "unverified"])
     ELSE At(s, "failed")
  /\ OnlyStarter

\* The process dies; directories stay as they are.
Crash(p) ==
  /\ \E s \in Starters : PidOf[s] = p /\ Working(s)
  /\ starter' = [s \in Starters |->
       IF PidOf[s] = p /\ Working(s) THEN [starter[s] EXCEPT !.pc = "crashed"] ELSE starter[s]]
  /\ OnlyStarter

-----------------------------------------------------------------------------
\* A root nobody installed yet, a tree of the plugin, or a binary altered after its stamp.
InstallInit ==
  /\ root \in {NoTree} \cup {t \in Tree : ~Verifies(t)}
  /\ aside = [p \in Pids |-> NoTree]
  /\ starter = [s \in Starters |->
       [pc |-> "idle", moved |-> FALSE, sum |-> "none", trust |-> "none",
        alone |-> FALSE, staged |-> FALSE]]

InstallStep(s) ==
  \/ Look(s) \/ VerifyStamps(s) \/ VerifyBinary(s)
  \/ Stage(s) \/ StageFails(s) \/ StatRoot(s) \/ SetAside(s) \/ MoveIn(s) \/ Restore(s)
  \/ Check(s) \/ RemoveAside(s) \/ StampSum(s) \/ StampArchive(s) \/ StampBin(s)
  \/ Installed(s) \/ Fallback(s)

InstallNext ==
  \/ \E s \in Starters : Begin(s) \/ InstallStep(s)
  \/ \E p \in Pids : Crash(p)

InstallSpec == InstallInit /\ [][InstallNext]_installVars

-----------------------------------------------------------------------------
\* bridge_install.go:158: the old binary must not inherit the stamp written for this download.
OldBinaryNotStamped == Verifies(root) => root.content = "pinned"

\* A start that nobody disturbs and whose download succeeds installs the pinned release,
\* stamped, whatever it finds and wherever an earlier start crashed; only a tree set aside under
\* its own process id, which a crash may leave, stands in its way.
RecoversAlone ==
  \A s \in Starters : (starter[s].alone /\ starter[s].staged) =>
    /\ starter[s].pc = "installed" => Verifies(root) /\ root.content = "pinned"
    /\ starter[s].pc = "fallback" => aside[PidOf[s]] # NoTree
=============================================================================
