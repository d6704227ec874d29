---------------------------- MODULE LegacySkills ----------------------------
(***************************************************************************)
(* The skills of the first generation (tools/base.py, tools/skill_trust.py *)
(* and the SkillService of agent/runtime.py): Python files of a workspace  *)
(* that anyone may edit, a store outside it that remembers per file the    *)
(* manifest the user trusted, and a registry that loads a file only under  *)
(* that manifest.  Mutations and turns exclude each other by the lock of   *)
(* the runtime; listing the skills takes no lock and may reload them.      *)
(*                                                                         *)
(* A manifest is modelled by what its digest binds, the content that was   *)
(* read of every file; files appear and disappear (Gone).  A call is what  *)
(* it still has to do (todo), carried out by one snapshot after another.   *)
(***************************************************************************)
EXTENDS Naturals, Sequences

CONSTANTS Caller,    \* threads that may call the registry
          NFiles,    \* files the skills directory may hold
          Content,   \* versions of a file
          MaxEdits   \* bound: changes of the directory

VARIABLES files,      \* the directory now
          changes,    \* how often it has changed
          entries,    \* the trust store: per file the manifest trusted for it
          candidates, \* custom_skill_candidates of the registry
          tools,      \* per file the manifest its registered tools come from
          confirmed,  \* <<file, manifest>> that a call of trust has confirmed
          work        \* what each thread is doing

legacySkillVars == <<files, changes, entries, candidates, tools, confirmed, work>>

File == 1..NFiles
Gone == "gone"
\* Also stands for no entry and for no tool: nothing is trusted when it is empty.
NoManifest == [f \in File |-> Gone]
NoEntries == [f \in File |-> NoManifest]

(* What discover() returns: the files it found, one digest for them all,   *)
(* and those among them whose entry in the store is this digest.           *)
NoCandidates == [digest |-> NoManifest, names |-> {}, trusted |-> {}]

(* start: nobody else calls yet; reads: what the snapshot that is being     *)
(* read is for, of which left is still to be read; queue: the trusted files *)
(* still to be loaded, code what one was compiled from; want: the manifest  *)
(* the user asks to trust.                                                  *)
Idle == [start |-> FALSE, todo |-> <<>>, reads |-> "nothing", left |-> {},
         got |-> NoManifest, found |-> NoCandidates, queue |-> {},
         code |-> NoManifest, want |-> NoManifest]

(* The start, the mutations and the turns exclude each other, so one thread *)
(* stands for all that make such calls; the others only list.               *)
Main == CHOOSE c \in Caller : TRUE
Starting == [c \in Caller |-> IF c = Main THEN [Idle EXCEPT !.start = TRUE, !.todo = <<"reload">>]
                              ELSE Idle]

Init == /\ files \in [File -> Content \cup {Gone}]
        /\ changes = 0
        /\ entries = NoEntries /\ tools = NoEntries
        /\ candidates = NoCandidates
        /\ confirmed = {}
        /\ work = Starting

Goto(c, w) == work' = [work EXCEPT ![c] = w]
Finish(c) == Goto(c, Idle)
\* The next thing to do, when no snapshot is being read.
Does(c, task) == /\ work[c].todo # <<>> /\ work[c].reads = "nothing"
                 /\ Head(work[c].todo) = task
Reading(w, why) == [w EXCEPT !.reads = why, !.got = NoManifest,
                             !.left = {f \in File : files[f] # Gone}]
\* A refresh and a trust begin with listing the files of a snapshot.
Ready(w) == IF Head(w.todo) \in {"refresh", "trust"} THEN Reading(w, Head(w.todo)) ELSE w
Done(w) == LET rest == Tail(w.todo)
           IN IF rest = <<>> THEN Idle
              ELSE Ready([Idle EXCEPT !.start = w.start, !.want = w.want, !.todo = rest])
HasRead(c, why) == work[c].reads = why /\ work[c].left = {}

-----------------------------------------------------------------------------
(* The directory changes under its readers: by an editor, or by the code    *)
(* of a skill that is being imported.                                       *)
EditFiles ==
  /\ changes < MaxEdits
  /\ changes' = changes + 1
  /\ \E f \in File, v \in Content \cup {Gone} :
       /\ files[f] # v
       /\ files' = [files EXCEPT ![f] = v]
  /\ UNCHANGED <<entries, candidates, tools, confirmed, work>>

(* What SkillService and the turns call, as the steps of the registry they  *)
(* are made of; every answer ends with a listing.                           *)
Begin(c, todo, want) ==
  /\ work[c] = Idle
  /\ \A d \in Caller : ~work[d].start
  /\ Goto(c, Ready([Idle EXCEPT !.todo = todo, !.want = want]))
  /\ UNCHANGED <<files, changes, entries, candidates, tools, confirmed>>

(* list_custom_skills(), get_schemas() and execute_tool() refresh first.    *)
List(c) == Begin(c, <<"refresh">>, NoManifest)
Reload(c) == c = Main /\ Begin(c, <<"reload", "refresh">>, NoManifest)
Revoke(c) == c = Main /\ Begin(c, <<"revoke", "reload", "refresh">>, NoManifest)
(* The digest may be of any listing, however long ago.                      *)
Trust(c) ==
  /\ c = Main
  /\ \E want \in [File -> Content \cup {Gone}] \ {NoManifest} :
       Begin(c, <<"refresh", "check", "trust", "reload", "refresh">>, want)

(* directory_manifest_snapshot: the files that were listed are read and     *)
(* hashed one after another.                                                *)
NextFile(c) == CHOOSE f \in work[c].left : \A g \in work[c].left : f <= g

ReadFile(c) ==
  /\ work[c].left # {} /\ files[NextFile(c)] # Gone
  /\ Goto(c, [work[c] EXCEPT !.got[NextFile(c)] = files[NextFile(c)],
                             !.left = @ \ {NextFile(c)}])
  /\ UNCHANGED <<files, changes, entries, candidates, tools, confirmed>>

(* discover(), after its snapshot: the store is read, one that cannot be    *)
(* read counts as empty, and the files are listed again, so a name may be   *)
(* there that the digest does not bind.                                     *)
Readable == {entries, NoEntries}
Discovered(c, stored) ==
  LET names == {f \in File : files[f] # Gone}
  IN IF names = {} THEN NoCandidates
     ELSE [digest |-> work[c].got, names |-> names,
           trusted |-> {f \in names : stored[f] = work[c].got /\ stored[f] # NoManifest}]

-----------------------------------------------------------------------------
(* refresh_custom_skill_trust: unless what is found now is what the         *)
(* registry has, the skills are loaded again.  A directory that cannot be   *)
(* read has no candidates.                                                  *)
Refreshed(c, found) ==
  /\ Goto(c, IF found = candidates THEN Done(work[c])
             ELSE [Idle EXCEPT !.start = work[c].start, !.want = work[c].want,
                               !.todo = <<"reload">> \o Tail(work[c].todo)])
  /\ UNCHANGED <<files, changes, entries, candidates, tools, confirmed>>
Refresh(c) == /\ HasRead(c, "refresh")
              /\ \E stored \in Readable : Refreshed(c, Discovered(c, stored))

(* reload_custom_skills: the custom tools go first, then what is found      *)
(* becomes the candidates and the trusted ones are loaded one by one.       *)
Unload(c) ==
  /\ Does(c, "reload")
  /\ tools' = NoEntries
  /\ Goto(c, Reading(work[c], "reload"))
  /\ UNCHANGED <<files, changes, entries, candidates, confirmed>>

LoadNext(w, found, queue) ==
  IF queue = {} THEN Done(w)
  ELSE [Reading(w, "load") EXCEPT !.found = found, !.queue = queue]

Adopted(c, found) ==
  /\ candidates' = found
  /\ Goto(c, LoadNext(work[c], found, found.trusted))
  /\ UNCHANGED <<files, changes, entries, tools, confirmed>>
Adopt(c) == /\ HasRead(c, "reload")
            /\ \E stored \in Readable : Adopted(c, Discovered(c, stored))

(* _load_skill_module: the file is compiled from the bytes of a snapshot    *)
(* that repeats the trusted digest, and its tools are registered when a     *)
(* second snapshot, after its code was run, repeats it too.                 *)
ThisFile(c) == CHOOSE f \in work[c].queue : \A g \in work[c].queue : f <= g
Skip(c) ==
  /\ Goto(c, LoadNext(work[c], work[c].found, work[c].queue \ {ThisFile(c)}))
  /\ UNCHANGED <<files, changes, entries, candidates, tools, confirmed>>

Verified(w) == w.got = w.found.digest
Import(c) ==
  /\ HasRead(c, "load") /\ Verified(work[c])
  /\ work[c].got[ThisFile(c)] # Gone
  /\ Goto(c, [Reading(work[c], "again") EXCEPT !.code = work[c].got])
  /\ UNCHANGED <<files, changes, entries, candidates, tools, confirmed>>

Register(c) ==
  /\ HasRead(c, "again") /\ work[c].got = work[c].found.digest
  /\ tools' = [tools EXCEPT ![ThisFile(c)] = work[c].code]
  /\ Goto(c, LoadNext(work[c], work[c].found, work[c].queue \ {ThisFile(c)}))
  /\ UNCHANGED <<files, changes, entries, candidates, confirmed>>

(* A file is left out, and the next is tried, when a digest differs, a file *)
(* or its hash file is missing, or its code raises.  A directory that holds *)
(* a link, or a file that is gone when its turn comes, fails any snapshot.  *)
Fails(c) ==
  /\ \/ work[c].reads = "refresh" /\ Refreshed(c, NoCandidates)
     \/ work[c].reads = "reload" /\ Adopted(c, NoCandidates)
     \/ work[c].reads \in {"load", "again"} /\ Skip(c)
     \/ /\ work[c].reads = "trust" /\ Finish(c)
        /\ UNCHANGED <<files, changes, entries, candidates, tools, confirmed>>

-----------------------------------------------------------------------------
(* _trust compares the digest with the candidates, trust_all with what is   *)
(* on disk; then one write of the store trusts every file, or a failed one  *)
(* none.                                                                    *)
Check(c) ==
  /\ Does(c, "check")
  /\ Goto(c, IF candidates.names # {} /\ candidates.digest = work[c].want
               THEN Done(work[c]) ELSE Idle)
  /\ UNCHANGED <<files, changes, entries, candidates, tools, confirmed>>

TrustAll(c) ==
  /\ HasRead(c, "trust")
  /\ LET found == Discovered(c, entries)
     IN IF found.names # {} /\ found.digest = work[c].want
          THEN /\ entries' = [f \in File |-> IF f \in found.names THEN found.digest ELSE NoManifest]
               /\ confirmed' = confirmed \cup {<<f, work[c].want>> : f \in found.names}
               /\ Goto(c, [Done(work[c]) EXCEPT !.want = NoManifest])
          ELSE Finish(c) /\ UNCHANGED <<entries, confirmed>>
  /\ UNCHANGED <<files, changes, candidates, tools>>

(* revoke_all writes nothing when the store cannot be read.                 *)
RevokeAll(c) ==
  /\ Does(c, "revoke")
  /\ entries' \in {NoEntries, entries}
  /\ Goto(c, Done(work[c]))
  /\ UNCHANGED <<files, changes, candidates, tools, confirmed>>

(* The store cannot be written: the call raises, nothing is trusted or      *)
(* revoked.                                                                 *)
StoreFails(c) ==
  /\ HasRead(c, "trust") \/ Does(c, "revoke")
  /\ Finish(c)
  /\ UNCHANGED <<files, changes, entries, candidates, tools, confirmed>>

(* The process starts again with the directory and the store.               *)
Restart ==
  /\ tools' = NoEntries /\ candidates' = NoCandidates
  /\ work' = Starting
  /\ UNCHANGED <<files, changes, entries, confirmed>>

Next == \/ EditFiles \/ Restart
        \/ \E c \in Caller :
             \/ List(c) \/ Reload(c) \/ Revoke(c) \/ Trust(c)
             \/ ReadFile(c) \/ Fails(c)
             \/ Refresh(c) \/ Unload(c) \/ Adopt(c)
             \/ Import(c) \/ Register(c)
             \/ Check(c) \/ TrustAll(c) \/ RevokeAll(c) \/ StoreFails(c)

Spec == Init /\ [][Next]_legacySkillVars

-----------------------------------------------------------------------------
(* The tools of a skill file come from bytes, read together with the whole  *)
(* directory, that a call of trust has confirmed for this very file:        *)
(* neither an edit between listing, trust and import nor two reloads at     *)
(* once register code that nobody reviewed (tools/base.py:                  *)
(* _load_skill_module).                                                     *)
OnlyConfirmedIsRegistered ==
  \A f \in File : tools[f] # NoManifest => <<f, tools[f]>> \in confirmed
=============================================================================
