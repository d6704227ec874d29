----------------------------- MODULE SkillTrust -----------------------------
(***************************************************************************)
(* The skills of a workspace: a directory that anyone may edit while it is *)
(* read, a store outside the workspace that remembers the digest the user  *)
(* trusted, and the registry that loads packages only under that digest.   *)
(* A snapshot reads the files one after another, so what it hashes may be  *)
(* a content the directory never had.  A digest is modelled by what it     *)
(* binds, the bytes that were read of every file.                          *)
(***************************************************************************)
EXTENDS Naturals, Sequences

CONSTANTS Caller,    \* concurrent calls of the skills service
          NFiles,    \* files in the skill directory
          Content,   \* versions of a file
          MaxEdits   \* bound: changes of the directory

VARIABLES directory, \* the directory's files now
          store,     \* the digest in the trust store, NoDigest for none
          loaded,    \* what the loaded packages were read from
          edits,     \* how often the directory has changed
          shown,     \* the digest the last inspection returned
          approved,  \* digests a call of trust has confirmed
          owner,     \* the call that holds the registry's lock, or "free"
          request    \* what each call is doing

skillVars == <<directory, edits, store, loaded, shown, approved, owner, request>>

File == 1..NFiles
NoDigest == <<>>
Digest == [File -> Content]
Nothing == [step |-> "idle", at |-> 1, got |-> NoDigest, want |-> NoDigest]

Init == /\ directory \in Digest
        /\ store = NoDigest /\ loaded = NoDigest
        /\ edits = 0 /\ shown = NoDigest /\ approved = {}
        /\ owner = "free"
        /\ request = [c \in Caller |-> Nothing]

Goto(c, step, want) ==
  request' = [request EXCEPT ![c] = [step |-> step, at |-> 1, got |-> NoDigest, want |-> want]]
Finish(c) == /\ request' = [request EXCEPT ![c] = Nothing]
             /\ owner' = IF owner = c THEN "free" ELSE owner
HasRead(c, step) == request[c].step = step /\ request[c].at > NFiles

-----------------------------------------------------------------------------
(* The workspace changes under its readers.                                *)
EditDirectory ==
    /\ edits < MaxEdits
    /\ edits' = edits + 1
    /\ \E f \in File, v \in Content :
         /\ directory[f] # v
         /\ directory' = [directory EXCEPT ![f] = v]
    /\ UNCHANGED <<store, loaded, shown, approved, owner, request>>

(* snapshot_directory on its thread: the next file is read and hashed.     *)
ReadFile(c) ==
  /\ request[c].step \in {"viewing", "trusting", "before", "after"}
  /\ request[c].at <= NFiles
  /\ request' = [request EXCEPT ![c].got = Append(@, directory[request[c].at]),
                                ![c].at = @ + 1]
  /\ UNCHANGED <<directory, edits, store, loaded, shown, approved, owner>>

(* A file or the store cannot be read or written, or a manifest is         *)
(* malformed: the call raises and what is active stays.                    *)
Raise(c) ==
  /\ request[c].step # "idle"
  /\ Finish(c)
  /\ UNCHANGED <<directory, edits, store, loaded, shown, approved>>

(* inspect: takes no lock, and shows the digest with the packages.         *)
Inspect(c) ==
  /\ request[c].step = "idle"
  /\ Goto(c, "viewing", NoDigest)
  /\ UNCHANGED <<directory, edits, store, loaded, shown, approved, owner>>
Show(c) ==
  /\ HasRead(c, "viewing")
  /\ shown' = request[c].got
  /\ Finish(c)
  /\ UNCHANGED <<directory, edits, store, loaded, approved>>

Lock(c) == /\ request[c].step = "idle" /\ owner = "free"
           /\ owner' = c

(* trust, of what was shown last: the directory is read again and must     *)
(* still be that.                                                          *)
Trust(c) ==
  /\ Lock(c) /\ shown # NoDigest
  /\ Goto(c, "trusting", shown)
  /\ UNCHANGED <<directory, edits, store, loaded, shown, approved>>
Unchanged(d, now) == now = d
Confirm(c) ==
  /\ HasRead(c, "trusting")
  /\ IF Unchanged(request[c].want, request[c].got)
       THEN /\ request' = [request EXCEPT ![c].step = "saving"]
            /\ approved' = approved \union {request[c].want}
            /\ owner' = owner
       ELSE Finish(c) /\ approved' = approved
  /\ UNCHANGED <<directory, edits, store, loaded, shown>>
(* The store is replaced; a call that was cancelled meanwhile ends here,   *)
(* the others go on to load what they trusted.                             *)
SaveTrust(c) ==
  /\ request[c].step = "saving"
  /\ store' = request[c].want
  /\ IF owner = c THEN Goto(c, "before", NoDigest) /\ owner' = owner ELSE Finish(c)
  /\ UNCHANGED <<directory, edits, loaded, shown, approved>>

(* _reload_locked: a first snapshot must have the trusted digest, and a    *)
(* second one, read after the packages were parsed, must repeat it.        *)
Reload(c) ==
  /\ Lock(c)
  /\ Goto(c, "before", NoDigest)
  /\ UNCHANGED <<directory, edits, store, loaded, shown, approved>>
Compare(c) ==
  /\ HasRead(c, "before")
  /\ IF request[c].got = store
       THEN Goto(c, "after", request[c].got) /\ UNCHANGED <<loaded, owner>>
       ELSE loaded' = NoDigest /\ Finish(c)
  /\ UNCHANGED <<directory, edits, store, shown, approved>>
(* Mutant: what was read again is loaded, without the comparison. *)
LoadAnyway(c) ==
  /\ HasRead(c, "after")
  /\ loaded' = request[c].got
  /\ Finish(c)
  /\ UNCHANGED <<directory, edits, store, shown, approved>>

Load(c) ==
  /\ HasRead(c, "after")
  /\ loaded' = IF Unchanged(request[c].want, request[c].got)
                 THEN request[c].want ELSE NoDigest
  /\ Finish(c)
  /\ UNCHANGED <<directory, edits, store, shown, approved>>

(* revoke: the store forgets the digest first, the registry its packages   *)
(* when the thread has returned.                                           *)
Revoke(c) ==
  /\ Lock(c)
  /\ Goto(c, "revoking", NoDigest)
  /\ UNCHANGED <<directory, edits, store, loaded, shown, approved>>
Forget(c) ==
  /\ request[c].step = "revoking"
  /\ store' = NoDigest
  /\ IF owner = c THEN Goto(c, "clearing", NoDigest) /\ owner' = owner ELSE Finish(c)
  /\ UNCHANGED <<directory, edits, loaded, shown, approved>>
Clear(c) ==
  /\ request[c].step = "clearing"
  /\ loaded' = NoDigest
  /\ Finish(c)
  /\ UNCHANGED <<directory, edits, store, shown, approved>>

(* The caller is cancelled: the lock is free at once, while a thread that  *)
(* is about to write the store still does.                                 *)
Cancel(c) ==
  /\ owner = c
  /\ owner' = "free"
  /\ request' = IF request[c].step \in {"trusting", "saving", "revoking"}
                  THEN request ELSE [request EXCEPT ![c] = Nothing]
  /\ UNCHANGED <<directory, edits, store, loaded, shown, approved>>

(* The kernel starts again: only the directory and the store are left.     *)
Restart ==
  /\ loaded' = NoDigest
  /\ owner' = "free"
  /\ request' = [c \in Caller |-> Nothing]
  /\ UNCHANGED <<directory, edits, store, shown, approved>>

Next == \/ EditDirectory \/ Restart
        \/ \E c \in Caller :
             \/ ReadFile(c) \/ Raise(c)
             \/ Inspect(c) \/ Show(c)
             \/ Trust(c) \/ Confirm(c) \/ SaveTrust(c)
             \/ Reload(c) \/ Compare(c) \/ Load(c)
             \/ Revoke(c) \/ Forget(c) \/ Clear(c)
             \/ Cancel(c)

Spec == Init /\ [][Next]_skillVars

-----------------------------------------------------------------------------
(* Whatever the registry has loaded is, byte for byte, something that      *)
(* inspect has shown and a call of trust has confirmed: no edit between    *)
(* the review, the confirmation, the parsing of the packages and their     *)
(* activation (skills/registry.py:_reload_locked), and no cancelled or     *)
(* raced call, makes content active that nobody reviewed.                  *)
OnlyReviewedIsLoaded == loaded # NoDigest => loaded \in approved
=============================================================================
