------------------------------ MODULE Quarantine ------------------------------
(***************************************************************************)
(* The quarantine of one file on a Linux host (playbooks.py): the executor *)
(* moves the approved file into its vault record and back, and may die at  *)
(* every system call; meanwhile other programs write to the file, replace  *)
(* it or remove it, also through descriptors they hold open while it is in *)
(* the vault.  Only the executor reaches the vault directory.              *)
(*                                                                         *)
(* A file is an inode.  Its content is the approved evidence or not, which *)
(* is what its hash tells.  An OSError ends a call where it stands, as a   *)
(* crash does.  Path, hash and identifier are those of one approved job;   *)
(* the allowlist and the argument checks have passed.                      *)
(*                                                                         *)
(* A definition standing before the one whose parameters it shares, and    *)
(* used nowhere, is a mutated form of it (PROJECT.json, "mutants").        *)
(***************************************************************************)
EXTENDS Naturals

CONSTANTS
  Files,       \* inodes
  first,       \* the one at the path when the job is approved
  None,
  MaxTouches,  \* bound: changes by other programs
  MaxCrashes   \* bound: deaths of the executor

ASSUME QuarantineAssumption ==
  /\ first \in Files /\ None \notin Files
  /\ MaxTouches \in Nat /\ MaxCrashes \in Nat

VARIABLES
  at,        \* the file at the path, or None
  vault,     \* the payload of the record, or None
  content,   \* of each file; "unused" before it is created
  mode,      \* "original" or "locked" (0400)
  manifest,  \* manifest.json of the record, or NoManifest
  pc,        \* the next system call of the running call
  source,    \* the file that quarantine holds open
  outcome,   \* how the last call ended
  written,   \* files other programs wrote to
  unread,    \* those written since the executor last read them
  touches,   \* number of changes by other programs
  crashes

hostVars == <<at, vault, content, mode>>
vars == <<hostVars, manifest, pc, source, outcome, written, unread,
          touches, crashes>>

Contents == {"unused", "evidence", "other"}
Manifests == [state : {"prepared", "quarantined", "evidence_changed", "restored"},
              inode : Files, mode : {"original", "locked"}]
NoManifest == [state |-> "none"]
Quarantining == {"recheck", "open", "prepare", "move", "compare", "rehash",
                 "changed", "finish"}
Restoring == {"find", "check", "unlock", "return", "close"}

TypeOK ==
  /\ at \in Files \cup {None} /\ vault \in Files \cup {None}
  /\ content \in [Files -> Contents]
  /\ mode \in [Files -> {"original", "locked"}]
  /\ manifest \in Manifests \cup {NoManifest}
  /\ pc \in {"idle"} \cup Quarantining \cup Restoring
  /\ source \in Files \cup {None}
  /\ outcome \in {"none", "applied", "rolled_back", "refused", "unrestored"}
  /\ written \in SUBSET Files /\ unread \in SUBSET Files
  /\ touches \in 0..MaxTouches /\ crashes \in 0..MaxCrashes

Init ==
  /\ at = first /\ vault = None
  /\ content = [f \in Files |-> IF f = first THEN "evidence" ELSE "unused"]
  /\ mode = [f \in Files |-> "original"]
  /\ manifest = NoManifest
  /\ pc = "idle" /\ source = None /\ outcome = "none"
  /\ written = {} /\ unread = {} /\ touches = 0 /\ crashes = 0

-----------------------------------------------------------------------------
(* Steps of a call.                                                        *)

GoTo(step) == pc' = step /\ UNCHANGED outcome
End(how) == pc' = "idle" /\ outcome' = how

\* "refused" and "unrestored": the exception that ends quarantine and restore.
Refuse == End("refused")
Give == End("unrestored")

\* _hash of file f: go on if it is the evidence, else fail.
Verify(f, step, Failure) ==
  /\ unread' = unread \ {f}
  /\ IF content[f] = "evidence" THEN GoTo(step) ELSE Failure

\* _rename_noreplace: a file is moved only to a free place.
MoveIn == at # None /\ vault = None /\ vault' = at /\ at' = None
MoveOutReplacing == vault # None /\ at' = vault /\ vault' = None
LinksOut == vault # None /\ at = None /\ at' = vault /\ vault' = vault
MoveOut == vault # None /\ at = None /\ at' = vault /\ vault' = None

\* The state the manifest records.
State == manifest.state

\* _write_manifest replaces the manifest at once.
Record(state) == manifest' = [manifest EXCEPT !.state = state]

-----------------------------------------------------------------------------
(* quarantine.                                                             *)

Quarantine ==
  /\ pc = "idle"
  /\ \/ /\ State # "restored"
        /\ pc' = IF vault # None THEN "recheck" ELSE "open"
        /\ outcome' = "none"
     \/ State = "restored" /\ Refuse
  /\ UNCHANGED <<hostVars, manifest, source, written, unread, touches, crashes>>

\* Recover a completed move after a crash.
Recheck ==
  /\ pc = "recheck"
  /\ Verify(vault, "finish", Refuse)
  /\ mode' = IF pc' = "finish" THEN [mode EXCEPT ![vault] = "locked"] ELSE mode
  /\ UNCHANGED <<at, vault, content, manifest, source, written, touches, crashes>>

Open ==
  /\ pc = "open"
  /\ \/ /\ at # None
        /\ source' = at
        /\ Verify(at, "prepare", Refuse)
     \/ /\ at = None
        /\ Refuse /\ UNCHANGED <<source, unread>>
  /\ UNCHANGED <<hostVars, manifest, written, touches, crashes>>

DescribesLater(state) == UNCHANGED manifest

\* The manifest written before the move.
Describe(state) ==
  manifest' = [state |-> state, inode |-> source, mode |-> mode[source]]

Prepare ==
  /\ pc = "prepare"
  /\ Describe("prepared")
  /\ GoTo("move")
  /\ UNCHANGED <<hostVars, source, written, unread, touches, crashes>>

Move ==
  /\ pc = "move"
  /\ \/ MoveIn /\ GoTo("compare")
     \/ at = None /\ Refuse /\ UNCHANGED <<at, vault>>
  /\ UNCHANGED <<content, mode, manifest, source, written, unread, touches, crashes>>

\* Another file was at the path by then: put it back unless the path is taken.
Compare ==
  /\ pc = "compare"
  /\ \/ /\ vault = source
        /\ mode' = [mode EXCEPT ![source] = "locked"]
        /\ GoTo("rehash")
        /\ UNCHANGED <<at, vault>>
     \/ /\ vault # source
        /\ \/ MoveOut
           \/ at # None /\ UNCHANGED <<at, vault>>
        /\ Refuse
        /\ UNCHANGED mode
  /\ UNCHANGED <<content, manifest, source, written, unread, touches, crashes>>

\* Where the second verification goes on when the file was changed.
IfChanged == "changed"

Rehash ==
  /\ pc = "rehash"
  /\ Verify(source, "finish", GoTo(IfChanged))
  /\ UNCHANGED <<hostVars, manifest, source, written, touches, crashes>>

Changed ==
  /\ pc = "changed"
  /\ Record("evidence_changed")
  /\ Refuse
  /\ UNCHANGED <<hostVars, source, written, unread, touches, crashes>>

Finish ==
  /\ pc = "finish"
  /\ Record("quarantined")
  /\ End("applied")
  /\ UNCHANGED <<hostVars, source, written, unread, touches, crashes>>

-----------------------------------------------------------------------------
(* restore.                                                                *)

Restore ==
  /\ pc = "idle"
  /\ \/ State \in {"none", "evidence_changed"} /\ Give
     \/ State = "restored" /\ End("rolled_back")
     \/ /\ State \in {"prepared", "quarantined"}
        /\ pc' = IF vault = None THEN "find" ELSE "check"
        /\ outcome' = "none"
  /\ UNCHANGED <<hostVars, manifest, source, written, unread, touches, crashes>>

NeverFinds == FALSE

\* The missing payload is the file at the path.
Returned == at # None /\ at = manifest.inode

\* The payload is gone: restored before, or never moved.
Find ==
  /\ pc = "find"
  /\ \/ Returned /\ Verify(at, "close", Give)
     \/ ~Returned /\ Give /\ UNCHANGED unread
  /\ UNCHANGED <<hostVars, manifest, source, written, touches, crashes>>

Check ==
  /\ pc = "check"
  /\ Verify(vault, "unlock", Give)
  /\ UNCHANGED <<hostVars, manifest, source, written, touches, crashes>>

\* The mode a file is given back with.
RestoredMode == manifest.mode

Unlock ==
  /\ pc = "unlock"
  /\ mode' = [mode EXCEPT ![vault] = RestoredMode]
  /\ GoTo("return")
  /\ UNCHANGED <<at, vault, content, manifest, source, written, unread, touches, crashes>>

Return ==
  /\ pc = "return"
  /\ \/ MoveOut /\ GoTo("close") /\ UNCHANGED mode
     \/ /\ at # None
        /\ mode' = [mode EXCEPT ![vault] = "locked"]
        /\ Give
        /\ UNCHANGED <<at, vault>>
  /\ UNCHANGED <<content, manifest, source, written, unread, touches, crashes>>

Close ==
  /\ pc = "close"
  /\ Record("restored")
  /\ End("rolled_back")
  /\ UNCHANGED <<hostVars, source, written, unread, touches, crashes>>

Call ==
  \/ Quarantine \/ Recheck \/ Open \/ Prepare \/ Move \/ Compare \/ Rehash
  \/ Changed \/ Finish
  \/ Restore \/ Find \/ Check \/ Unlock \/ Return \/ Close

-----------------------------------------------------------------------------
(* The rest of the host.                                                   *)

Crash ==
  /\ pc # "idle" /\ crashes < MaxCrashes
  /\ crashes' = crashes + 1
  /\ End("none")
  /\ UNCHANGED <<hostVars, manifest, source, written, unread, touches>>

Touch == touches < MaxTouches /\ touches' = touches + 1

\* A program writes to the file, wherever it is by now.
Write(f, c) ==
  /\ Touch
  /\ f \in {at, vault} /\ c # "unused"
  /\ content' = [content EXCEPT ![f] = c]
  /\ written' = written \cup {f} /\ unread' = unread \cup {f}
  /\ UNCHANGED <<at, vault, mode, manifest, pc, source, outcome, crashes>>

\* A program puts a new file at the path.
Replace(f, c) ==
  /\ Touch
  /\ content[f] = "unused" /\ c # "unused"
  /\ at' = f
  /\ content' = [content EXCEPT ![f] = c]
  /\ UNCHANGED <<vault, mode, manifest, pc, source, outcome, written, unread, crashes>>

Remove ==
  /\ Touch
  /\ at # None /\ at' = None
  /\ UNCHANGED <<vault, content, mode, manifest, pc, source, outcome, written,
                 unread, crashes>>

Next ==
  \/ Call \/ Crash \/ Remove
  \/ \E f \in Files, c \in Contents : Write(f, c) \/ Replace(f, c)

Spec == Init /\ [][Next]_vars

-----------------------------------------------------------------------------
(* The inductive invariant.                                                *)

\* What each pending call relies on.
CallInv ==
  /\ pc # "idle" => outcome = "none"
  /\ pc \in {"recheck", "compare", "rehash", "changed", "finish", "check",
             "unlock", "return"} => vault # None
  /\ pc \in {"open", "prepare", "move", "find", "close"} => vault = None
  /\ pc \in {"prepare", "move", "compare", "rehash", "changed"} => source # None
  /\ pc \in {"open", "prepare"} => State # "restored"
  /\ pc \in {"move", "compare", "rehash", "changed"} =>
       State = "prepared" /\ manifest.inode = source
  /\ pc \in {"rehash", "changed"} => vault = source
  /\ pc \in {"recheck", "finish", "check", "unlock", "return", "find", "close"} =>
       State \notin {"none", "restored"}
  /\ pc = "compare" => mode[vault] = "original"
  /\ pc = "prepare" => mode[source] = "original"
  /\ pc = "return" => mode[vault] = "original"
  /\ pc = "finish" => content[vault] = "evidence" \/ vault \in unread

\* The path, the vault and the manifest.
PlaceInv ==
  /\ at # None => at # vault /\ mode[at] = "original" /\ content[at] # "unused"
  /\ vault # None => content[vault] # "unused"
  /\ \A f \in Files : content[f] = "unused" => mode[f] = "original" /\ f # source
  /\ vault # None => State \notin {"none", "restored"}
  /\ State # "none" => manifest.mode = "original"
  /\ outcome = "applied" => vault # None /\ State = "quarantined"
  /\ outcome = "rolled_back" => vault = None /\ State = "restored"

\* While nothing else touches the file, every call works on the first one.
AloneInv ==
  touches = 0 =>
    /\ content[first] = "evidence"
    /\ <<at, vault>> \in {<<first, None>>, <<None, first>>}
    /\ source \in {first, None}
    /\ State # "none" => manifest.inode = first /\ State # "evidence_changed"
    /\ pc # "changed"
    /\ outcome = "unrestored" => State = "none"

IInv == TypeOK /\ CallInv /\ PlaceInv /\ AloneInv

-----------------------------------------------------------------------------
(* Properties.                                                             *)

\* "Payload contents are never deleted", "Restoration never overwrites an existing
\* path": no step of the executor, nor its death, makes a file disappear.
NothingIsLost ==
  [][touches' = touches => {at, vault} \ {None} \subseteq {at', vault'}]_vars

\* "persists a manifest before the move": whatever is in the vault, a manifest that
\* does not call it restored says where it came from.
VaultIsDescribed == vault # None => State \notin {"none", "restored"}

\* A receipt of success is true: the file is in the vault and on record there, or it
\* has left it.
SuccessIsReal ==
  /\ outcome = "applied" => vault # None /\ State = "quarantined"
  /\ outcome = "rolled_back" => vault = None /\ State = "restored"

\* What is reported as quarantined is the approved evidence, unless it was written to,
\* through a descriptor held open, after the executor read it for the last time.
QuarantinedIsEvidence ==
  [][outcome' = "applied" /\ outcome # "applied" =>
       content[vault'] = "evidence" \/ vault' \in unread]_vars

\* Whatever is at the path, given back or never taken, has its own mode.
PathKeepsMode == at # None => mode[at] = "original"

\* "Local manifests recover interrupted quarantine/restoration moves": when nothing
\* else touches the file, a restore fails only if nothing was ever quarantined.
RestoreRecovers == touches = 0 /\ outcome = "unrestored" => State = "none"
=============================================================================
