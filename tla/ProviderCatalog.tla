--------------------------- MODULE ProviderCatalog ---------------------------
(***************************************************************************)
(* The provider catalogs of the kernels over one document and one secret   *)
(* store: ProviderService (services/providers.py) over                     *)
(* DocumentProviderCatalog and KernelConfigStore                           *)
(* (services/config_document.py), opened by bootstrap.open_kernel.  A      *)
(* mutation checks the revision of its own live catalog, then saves: it    *)
(* reads the revision of the document, reads the document again to         *)
(* compare, and replaces the file on a thread; only then the live catalog  *)
(* is swapped.  The locks are those of one process: what another kernel    *)
(* does with the document comes between any two of these steps, and a save *)
(* replaces what it wrote.  A caller may be cancelled, a process may stop  *)
(* and open the document again.                                            *)
(***************************************************************************)
EXTENDS Naturals, FiniteSets

CONSTANTS Process,  \* the kernels that are open on the document
          Call, Profile, Secret, MaxRev   \* MaxRev bounds the revisions

VARIABLES live,      \* ProviderService._snapshot, of each process
          document,  \* the file: its revision, catalog and default profile
          secrets,   \* the secrets that are present
          holder,    \* the call that holds ProviderService._lock, of each process
          change,    \* how far each call is
          torn,      \* history: processes a caller of which was cancelled in its write
          fresh      \* history: processes nobody else has written after, since
                     \* they last read or wrote the catalog in the document

vars == <<live, document, secrets, holder, change, torn, fresh>>

Absent == "absent"
EmptyCatalog == [profiles |-> [p \in {} |-> Absent], role |-> Absent]
Idle == [pc |-> "idle", by |-> Absent, kind |-> "create", profile |-> Absent,
         secret |-> Absent, expected |-> 0, seen |-> 0, catalog |-> EmptyCatalog, default |-> Absent, created |-> FALSE]

(* A missing document counts as an empty one of revision 0. *)
Init ==
    /\ live = [o \in Process |-> [rev |-> 0, catalog |-> EmptyCatalog]]
    /\ document = [rev |-> 0, catalog |-> EmptyCatalog, default |-> Absent]
    /\ secrets = {} /\ holder = [o \in Process |-> Absent]
    /\ torn = {} /\ fresh = Process
    /\ change = [c \in Call |-> Idle]

At(c, pc) == change[c].pc = pc
By(c) == change[c].by
Go(c, pc) == change' = [change EXCEPT ![c].pc = pc]
Over == [Idle EXCEPT !.pc = "over"]   \* answered or cancelled: nothing is left of the call
Leave(c) == change' = [change EXCEPT ![c] = Over]
End(c) == Leave(c) /\ holder' = [holder EXCEPT ![By(c)] = Absent]

(* A call of one of the processes, with the revision of the live catalog   *)
(* its caller has seen.  A profile may refer to a secret; one that is not  *)
(* valid is refused at once.                                               *)
Enter(c) ==
    /\ At(c, "idle")
    /\ \/ Leave(c)
       \/ \E k \in {"create", "update", "delete", "map", "unmap", "configure"},
             o \in Process, p \in Profile, s \in Secret \cup {Absent} :
             /\ k \in {"delete", "map", "unmap"} => s = Absent
             /\ change' = [change EXCEPT ![c] = [Idle EXCEPT
                   !.pc = "queued", !.by = o, !.kind = k, !.profile = p, !.secret = s,
                   !.expected = live[o].rev]]
    /\ UNCHANGED <<live, document, secrets, holder, torn, fresh>>

----------------------------------------------------------------------------
(* What each mutation asks of the live catalog and makes of it.            *)

Own(m) == live[m.by].catalog
Profiles(m) == DOMAIN Own(m).profiles
With(m) == [q \in Profiles(m) \cup {m.profile} |->
              IF q = m.profile THEN m.secret ELSE Own(m).profiles[q]]
Without(m) == [q \in Profiles(m) \ {m.profile} |-> Own(m).profiles[q]]

Allowed(m) ==
    /\ m.kind \in {"create", "update"} => m.secret \in secrets \cup {Absent}
    /\ m.kind \in {"create", "configure"} => m.profile \notin Profiles(m)
    /\ m.kind \in {"update", "delete", "map"} => m.profile \in Profiles(m)
    /\ m.kind = "delete" => Own(m).role # m.profile
    /\ m.kind = "unmap" => Own(m).role # Absent

Candidate(m) ==
    [profiles |-> CASE m.kind \in {"create", "update", "configure"} -> With(m)
                    [] m.kind = "delete" -> Without(m)
                    [] OTHER -> Own(m).profiles,
     role |-> CASE m.kind \in {"map", "configure"} -> m.profile
                [] m.kind = "unmap" -> Absent
                [] OTHER -> Own(m).role]

(* The service lock, the checks, and for configure the staging of a new    *)
(* secret: one that is present already is not replaced.  The secret ports  *)
(* do not suspend.                                                         *)
Begin(c) ==
    LET m == change[c] IN
    /\ At(c, "queued") /\ holder[m.by] = Absent
    /\ \/ Leave(c) /\ UNCHANGED <<holder, secrets>>
       \/ \E made \in BOOLEAN, default \in {Absent, m.profile} :
             /\ m.expected = live[m.by].rev /\ m.expected < MaxRev /\ Allowed(m)
             /\ made => m.kind = "configure" /\ m.secret \in Secret \ secrets
             /\ default # Absent => m.kind = "configure"
             /\ secrets' = IF made THEN secrets \cup {m.secret} ELSE secrets
             /\ holder' = [holder EXCEPT ![m.by] = c]
             /\ change' = [change EXCEPT ![c] = [m EXCEPT
                   !.pc = "reading", !.catalog = Candidate(m), !.default = default,
                   !.created = made]]
    /\ UNCHANGED <<live, document, torn, fresh>>

(* A save that fails; configure deletes the secret it created, which may   *)
(* fail in turn and is then reported (the kernel goes degraded).           *)
Fail(c) ==
    /\ End(c)
    /\ \/ change[c].created /\ secrets' = secrets \ {change[c].secret}
       \/ UNCHANGED secrets
    /\ UNCHANGED <<live, document, torn, fresh>>

(* The first load: the revision that update will expect. *)
ReadRevision(c) ==
    /\ At(c, "reading")
    /\ \/ Fail(c)
       \/ /\ change' = [change EXCEPT ![c].pc = "comparing", ![c].seen = document.rev]
          /\ UNCHANGED <<live, document, secrets, holder, torn, fresh>>

(* KernelConfigStore.update: the second load and the comparison, with the   *)
(* revision its own save has just read.                                    *)
Compare(c) ==
    /\ At(c, "comparing")
    /\ \/ Fail(c)
       \/ /\ document.rev = change[c].seen /\ document.rev < MaxRev
          /\ change' = [change EXCEPT ![c].pc = "writing",
                ![c].default = IF @ = Absent THEN document.default ELSE @]
          /\ UNCHANGED <<live, document, secrets, holder, torn, fresh>>

(* os.replace on the thread, which goes on for a caller that is gone.  The  *)
(* document is replaced whole, whoever has written it after the comparison. *)
Write(c) ==
    /\ \/ At(c, "writing") /\ Go(c, "written")
       \/ At(c, "orphaned") /\ Leave(c)
    /\ document' = [rev |-> change[c].seen + 1, catalog |-> change[c].catalog,
                    default |-> change[c].default]
    /\ fresh' = {By(c)}
    /\ UNCHANGED <<live, secrets, holder, torn>>

(* Mutant: the catalog is swapped although the write failed. *)
WriteFailsUnseen(c) ==
    /\ At(c, "writing") /\ Go(c, "written")
    /\ UNCHANGED <<live, document, secrets, holder, torn, fresh>>

WriteFails(c) == At(c, "writing") /\ Fail(c)

Swap(c) ==
    /\ At(c, "written") /\ End(c)
    /\ live' = [live EXCEPT ![By(c)] = [rev |-> live[By(c)].rev + 1,
                                        catalog |-> change[c].catalog]]
    /\ UNCHANGED <<document, secrets, torn, fresh>>

(* The caller's task is cancelled; nothing is compensated. *)
Cancel(c) ==
    /\ change[c].pc \in {"queued", "reading", "comparing", "writing", "written"}
    /\ IF At(c, "writing") THEN Go(c, "orphaned") ELSE Leave(c)
    /\ holder' = [holder EXCEPT ![By(c)] = IF @ = c THEN Absent ELSE @]
    /\ torn' = IF At(c, "writing") \/ At(c, "written") THEN torn \cup {By(c)} ELSE torn
    /\ UNCHANGED <<live, document, secrets, fresh>>

----------------------------------------------------------------------------
(* store_secret takes no lock; delete_secret does, and spares a secret the *)
(* live catalog of its process refers to.                                  *)
StoreSecret(s) ==
    /\ secrets' = secrets \cup {s}
    /\ UNCHANGED <<live, document, holder, change, torn, fresh>>

DeleteSecret(o, s) ==
    /\ holder[o] = Absent
    /\ LET profiles == live[o].catalog.profiles
       IN \A p \in DOMAIN profiles : profiles[p] # s
    /\ secrets' = secrets \ {s}
    /\ UNCHANGED <<live, document, holder, change, torn, fresh>>

(* A process ends, in the middle of anything, and open_kernel starts it    *)
(* anew: load_from_repository validates the catalog and takes it with      *)
(* revision 0 (bootstrap.py, providers.py).                                *)
Restart(o) ==
    /\ live' = [live EXCEPT ![o] = [rev |-> 0, catalog |-> document.catalog]]
    /\ holder' = [holder EXCEPT ![o] = Absent]
    /\ change' = [c \in Call |-> IF By(c) = o THEN Over ELSE change[c]]
    /\ torn' = torn \ {o} /\ fresh' = fresh \cup {o}
    /\ UNCHANGED <<document, secrets>>

Next ==
    \/ \E c \in Call : \/ Enter(c) \/ Begin(c) \/ ReadRevision(c) \/ Compare(c)
                       \/ Write(c) \/ WriteFails(c) \/ Swap(c) \/ Cancel(c)
    \/ \E s \in Secret : StoreSecret(s) \/ \E o \in Process : DeleteSecret(o, s)
    \/ \E o \in Process : Restart(o)

Spec == Init /\ [][Next]_vars

----------------------------------------------------------------------------
(* With no mutation inside, the live catalog of a process is the persisted *)
(* one, through failed saves, raced saves of two kernels and restarts,     *)
(* unless a caller was cancelled in the middle of its write, or another    *)
(* kernel has written since (ProviderService._save and configure).  What   *)
(* such a write drops of the other kernel's catalog is lost: the revision  *)
(* a save compares with is the one it has read itself.                     *)
LiveIsPersisted ==
    \A o \in fresh \ torn : holder[o] = Absent => live[o].catalog = document.catalog
=============================================================================
