--------------------------- MODULE LegacySessions ---------------------------
(* The sessions of the first generation: ConversationManager keeps them in   *)
(* memory (agent/context_manager.py) and SessionStore writes each to a file  *)
(* of its own and then to index.json (agent/session_store.py).  The process  *)
(* may be killed between any two writes; a write replaces its file whole, or *)
(* fails and leaves it.                                                      *)
EXTENDS Naturals, SequencesExt

CONSTANTS Session, \* session ids, each used once
          None,
          MaxText  \* bound: changes of one session

VARIABLES mem,      \* ConversationManager.sessions, None for those not in it
          foreground, \* active_session_id
          file,     \* <id>.json
          index,    \* index.json: the ids it lists and the active one
          todo,     \* the groups of writes the running operation has still to do
          doing,    \* the session a delete has removed the file of, or None
          up,       \* the process runs
          kept,     \* per session, the version of its last save that succeeded
          dropped   \* the sessions whose deletion was reported done

sessionVars == <<mem, foreground, file, index, todo, doing, up, kept, dropped>>

Version == 0..MaxText
Members == {s \in Session : mem[s] # None}
Fresh == {s \in Session : mem[s] = None /\ file[s] = None /\ s \notin index.listed
                          /\ kept[s] = None /\ s \notin dropped}

SessionsTypeOK ==
    /\ mem \in [Session -> Version \cup {None}]
    /\ file \in [Session -> Version \cup {None}]
    /\ foreground \in Session \cup {None}
    /\ index.listed \subseteq Session /\ index.active \in Session \cup {None}
    /\ doing \in Session \cup {None} /\ up \in BOOLEAN
    /\ kept \in [Session -> Version \cup {None}] /\ dropped \subseteq Session

Init ==
    /\ mem = [s \in Session |-> None] /\ file = [s \in Session |-> None]
    /\ kept = [s \in Session |-> None]
    /\ foreground = None /\ doing = None /\ todo = << >> /\ up = FALSE /\ dropped = {}
    /\ index = [listed |-> {}, active |-> None]

----------------------------------------------------------------------------
(* Writes.  A group is the writes of one try: one that fails ends the group.  *)

(* Mutant: the index lists a session before its file is there. *)
SaveIndexFirst(s) == <<[to |-> "index", of |-> s], [to |-> "file", of |-> s]>>
(* save_session(): the file and then the index, in which only the session in  *)
(* the foreground becomes the active one.                                     *)
Save(s) == <<[to |-> "file", of |-> s], [to |-> "index", of |-> s]>>
SaveEach(sessions) == LET order == SetToSeq(sessions)
                      IN  [i \in 1..Len(order) |-> Save(order[i])]

(* Nothing else happens in the process until an operation's writes are done. *)
Free == up /\ todo = << >> /\ doing = None

NextGroups == IF Len(todo[1]) = 1 THEN Tail(todo) ELSE <<Tail(todo[1])>> \o Tail(todo)

Write ==
    /\ up /\ todo # << >>
    /\ LET w == todo[1][1] IN
          \/ /\ w.to = "file"
             /\ file' = [file EXCEPT ![w.of] = mem[w.of]]
             /\ UNCHANGED <<index, kept>>
          \/ /\ w.to = "index"
             /\ index' = [listed |-> index.listed \cup {w.of},
                          active |-> IF w.of = foreground THEN w.of ELSE index.active]
             /\ kept' = [kept EXCEPT ![w.of] = mem[w.of]]
             /\ UNCHANGED file
    /\ todo' = NextGroups
    /\ UNCHANGED <<mem, foreground, doing, up, dropped>>

(* The exception is caught and printed. *)
WriteFails ==
    /\ up /\ todo # << >>
    /\ todo' = Tail(todo)
    /\ UNCHANGED <<mem, foreground, file, index, doing, up, kept, dropped>>

----------------------------------------------------------------------------
(* Operations of the manager and of the session service.                    *)

Create(s) ==
    /\ Free /\ s \in Fresh
    /\ mem' = [mem EXCEPT ![s] = 0]
    /\ foreground' = s
    /\ todo' = <<Save(s)>>
    /\ UNCHANGED <<file, index, doing, up, kept, dropped>>

(* A message, a summary, a trim or a clear, saved at once by the autosave or  *)
(* left for a later save by its throttle.                                     *)
Change ==
    /\ Free /\ foreground # None /\ mem[foreground] < MaxText
    /\ mem' = [mem EXCEPT ![foreground] = @ + 1]
    /\ todo' \in {<<Save(foreground)>>, << >>}
    /\ UNCHANGED <<foreground, file, index, doing, up, kept, dropped>>

(* Both sessions are saved in one try. *)
Switch(s) ==
    /\ Free /\ s \in Members \ {foreground}
    /\ foreground' = s
    /\ todo' = <<Save(foreground) \o Save(s)>>
    /\ UNCHANGED <<mem, file, index, doing, up, kept, dropped>>

(* The console renames the session in the foreground: its file and its entry  *)
(* are written over with the new name alone, and then it is saved.            *)
RenameActive ==
    /\ Free /\ foreground # None /\ file[foreground] # None
    /\ todo' = <<Save(foreground)>>
    /\ UNCHANGED <<mem, foreground, file, index, doing, up, kept, dropped>>

(* save_all(): a renamed session, a new workspace, a shutdown. *)
SaveAll ==
    /\ Free
    /\ todo' = SaveEach(Members)
    /\ UNCHANGED <<mem, foreground, file, index, doing, up, kept, dropped>>

(* delete(): the file goes first and the index entry next; an index that      *)
(* cannot be written is an error, and the session stays in memory.            *)
Delete(s) ==
    /\ Free /\ s \in Members /\ Members # {s}
    /\ file' = [file EXCEPT ![s] = None]
    /\ kept' = [kept EXCEPT ![s] = None]
    /\ doing' = s
    /\ UNCHANGED <<mem, foreground, index, todo, up, dropped>>

(* The service saves every session after a deletion, the console the one in   *)
(* the foreground alone.  The order that picks a new one is left out.         *)
Unlisted(saved) ==
    /\ up /\ doing # None
    /\ index' = [listed |-> index.listed \ {doing},
                 active |-> IF index.active = doing THEN None ELSE index.active]
    /\ mem' = [mem EXCEPT ![doing] = None]
    /\ foreground' \in IF foreground = doing THEN Members \ {doing} ELSE {foreground}
    /\ todo' = SaveEach(saved)
    /\ dropped' = dropped \cup {doing}
    /\ doing' = None
    /\ UNCHANGED <<file, up, kept>>

Unlist == Unlisted(Members \ {doing})
ConsoleUnlist == Unlisted({foreground'})

UnlistFails ==
    /\ up /\ doing # None
    /\ doing' = None
    /\ UNCHANGED <<mem, foreground, file, index, todo, up, kept, dropped>>

----------------------------------------------------------------------------
(* The process is killed, and started again.                                *)

Crash ==
    /\ up
    /\ up' = FALSE
    /\ mem' = [s \in Session |-> None]
    /\ foreground' = None /\ todo' = << >> /\ doing' = None
    /\ UNCHANGED <<file, index, kept, dropped>>

(* load_all(): the sessions of the index, or every file when it lists none.   *)
Candidates == IF index.listed # {} THEN index.listed
              ELSE {s \in Session : file[s] # None}
Loadable == {s \in Candidates : file[s] # None}

Start ==
    /\ ~up /\ Loadable # {}
    /\ up' = TRUE
    /\ mem' = [s \in Session |-> IF s \in Loadable THEN file[s] ELSE None]
    /\ foreground' \in IF index.active \in Loadable THEN {index.active} ELSE Loadable
    /\ UNCHANGED <<file, index, todo, doing, kept, dropped>>

(* With none to load, a first session is made and saved. *)
StartAnew(s) ==
    /\ ~up /\ Loadable = {} /\ s \in Fresh
    /\ up' = TRUE
    /\ mem' = [mem EXCEPT ![s] = 0]
    /\ foreground' = s
    /\ todo' = <<Save(s)>>
    /\ UNCHANGED <<file, index, doing, kept, dropped>>

Next == \/ \E s \in Session : Create(s) \/ Switch(s) \/ Delete(s) \/ StartAnew(s)
        \/ Write \/ WriteFails \/ Change \/ SaveAll \/ Unlist \/ ConsoleUnlist
        \/ UnlistFails \/ RenameActive \/ Crash \/ Start

Spec == Init /\ [][Next]_sessionVars

----------------------------------------------------------------------------
(* Whenever the process is killed, the next start finds every session whose   *)
(* save succeeded, at that version or a later one, unless its deletion had    *)
(* begun; and none whose deletion was reported done.                          *)
RestartIsFaithful ==
    /\ \A s \in Session : kept[s] # None => s \in Loadable /\ file[s] >= kept[s]
    /\ dropped \cap Loadable = {}
=============================================================================
