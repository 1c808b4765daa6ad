---------------------------- MODULE RestoreJournal ----------------------------
(***************************************************************************)
(* The restore of a backup (storage/backup.py) and the lock that keeps it  *)
(* apart from the service (storage/maintenance.py).  A restore stages the  *)
(* new generation beside the live files, writes a journal, moves each live *)
(* file aside and the staged one in its place, and commits by rewriting    *)
(* the journal.  Whoever next takes the exclusive lock rolls an            *)
(* uncommitted generation back.                                            *)
(*                                                                         *)
(* One action is one rename, or one write of the journal, so a process may *)
(* end between any two of them; an error that leaves the function is such  *)
(* an end.  The directories of a generation are new with it, and only its  *)
(* own journal leads to them: the ones of earlier generations are kept by  *)
(* the code and left out here.                                             *)
(***************************************************************************)
EXTENDS Naturals

CONSTANTS
    N,          \* files are numbered in the order of _entries; the database is 1
    Sidecar,    \* the database's -wal and -shm
    Bundles,    \* the sets of files a backup may cover
    Content,
    Process,    \* services, restores, backups, recovery commands
    None

File == 1..N

ASSUME FileAssumption == N \in Nat \ {0} /\ Sidecar \subseteq 2..N
ASSUME BundleAssumption == \A b \in Bundles : {1} \cup Sidecar \subseteq b /\ b \subseteq File
ASSUME NoneAssumption == None \notin Content /\ None \notin Process

VARIABLES
    live, staged, old, failed,  \* what is at each of a file's four places
    journal,                    \* the journal on disk
    exclusive, shared,          \* holders of the maintenance lock
    proc

places == <<live, staged, old, failed>>
vars == <<places, journal, exclusive, shared, proc>>

NoFiles == [e \in File |-> None]
Draft == [covered : SUBSET File, originals : SUBSET File]
NoDraft == [covered |-> {}, originals |-> {}]

Pc == {"idle", "loading", "staging", "journal", "aside", "install", "commit",
       "discard", "putback", "closing", "migrating", "serving", "reading"}
Intent == {"restore", "start", "recover", "raise"}
Idle == [pc |-> "idle", intent |-> "recover", at |-> 1, draft |-> NoDraft]

TypeOK ==
    /\ live \in [File -> Content \cup {None}]
    /\ staged \in [File -> Content \cup {None}]
    /\ old \in [File -> Content \cup {None}]
    /\ failed \in [File -> Content \cup {None}]
    /\ journal \in [state : {"none", "prepared", "committed", "rolled_back"}, draft : Draft]
    /\ exclusive \in Process \cup {None}
    /\ shared \in SUBSET Process
    /\ proc \in [Process -> [pc : Pc, intent : Intent, at : File, draft : Draft]]

Init ==
    /\ live \in [File -> Content \cup {None}]
    /\ \A e \in Sidecar : live[e] = None
    /\ staged = NoFiles /\ old = NoFiles /\ failed = NoFiles
    /\ journal = [state |-> "none", draft |-> NoDraft]
    /\ exclusive = None
    /\ shared = {}
    /\ proc = [p \in Process |-> Idle]

-----------------------------------------------------------------------------
Covered == journal.draft.covered
Originals == journal.draft.originals

At(p, pc) == proc[p].pc = pc

Goto(p, pc, i) == proc' = [proc EXCEPT ![p].pc = pc, ![p].at = i]

Enter(p, pc, intent) ==
    proc' = [proc EXCEPT ![p] = [pc |-> pc, intent |-> intent, at |-> @.at,
                                 draft |-> @.draft]]

Drafted(p, draft) ==
    proc' = [proc EXCEPT ![p] = [pc |-> "journal", intent |-> @.intent, at |-> @.at,
                                 draft |-> draft]]

(* The process ends or leaves the lock; the lock is freed either way. *)
Release(p) ==
    /\ proc' = [proc EXCEPT ![p] = Idle]
    /\ exclusive' = IF exclusive = p THEN None ELSE exclusive
    /\ shared' = shared \ {p}

(* A rollback visits the files in reverse order. *)
RollBack(p, intent) ==
    proc' = [proc EXCEPT ![p] = [pc |-> "discard", intent |-> intent, at |-> N,
                                 draft |-> @.draft]]

(* After its recovery, a process goes on with what it took the lock for. *)
GoOn(p, intent) ==
    \/ /\ intent = "restore"
       /\ Enter(p, "staging", intent)
       /\ UNCHANGED <<exclusive, shared>>
    \/ /\ intent = "start"
       /\ Enter(p, "migrating", intent)
       /\ UNCHANGED <<exclusive, shared>>
    \/ intent \in {"recover", "raise"} /\ Release(p)

-----------------------------------------------------------------------------
(* Taking the lock. *)

(* Exclusively: for a restore, a start-up that migrates, or a recovery. *)
Lock(p, intent) ==
    /\ At(p, "idle") /\ exclusive = None /\ shared = {}
    /\ exclusive' = p
    /\ Enter(p, "loading", intent)
    /\ UNCHANGED <<places, journal, shared>>

Recover(p) ==
    /\ At(p, "loading")
    /\ \/ /\ journal.state = "prepared"
          /\ RollBack(p, proc[p].intent)
          /\ UNCHANGED <<exclusive, shared>>
       \/ /\ journal.state # "prepared"
          /\ GoOn(p, proc[p].intent)
    /\ UNCHANGED <<places, journal>>

(* Fault: the journal is not looked at. *)
FaultShare(p, pc) ==
    /\ At(p, "idle") /\ exclusive = None
    /\ shared' = shared \cup {p}
    /\ proc' = [proc EXCEPT ![p].pc = pc]
    /\ UNCHANGED <<places, journal, exclusive>>

(* Shared: for a backup, or a service that may not migrate; it refuses to  *)
(* go on beside an unfinished restore.                                     *)
Share(p, pc) ==
    /\ At(p, "idle") /\ exclusive = None /\ journal.state # "prepared"
    /\ shared' = shared \cup {p}
    /\ proc' = [proc EXCEPT ![p].pc = pc]
    /\ UNCHANGED <<places, journal, exclusive>>

(* A start-up migrates, makes a database if there is none, and keeps the   *)
(* lock shared while it serves.                                            *)
Migrate(p) ==
    /\ At(p, "migrating")
    /\ \/ live[1] # None /\ UNCHANGED live
       \/ live[1] = None /\ \E c \in Content : live' = [live EXCEPT ![1] = c]
    /\ exclusive' = None
    /\ shared' = shared \cup {p}
    /\ proc' = [proc EXCEPT ![p].pc = "serving"]
    /\ UNCHANGED <<staged, old, failed, journal>>

(* The service creates a directory it needs; SQLite creates and removes    *)
(* the sidecars of its database.                                           *)
Serve(p) ==
    /\ At(p, "serving")
    /\ \E e \in File, c \in Content \cup {None} :
          /\ live[e] = None \/ e \in Sidecar
          /\ e \in Sidecar => c \in {None, live[1]}
          /\ live' = [live EXCEPT ![e] = c]
    /\ UNCHANGED <<staged, old, failed, journal, exclusive, shared, proc>>

(* The process stops, is killed, or an error ends what it was doing. *)
End(p) ==
    /\ ~At(p, "idle")
    /\ Release(p)
    /\ UNCHANGED <<places, journal>>

-----------------------------------------------------------------------------
(* A restore. *)

(* The backup is verified and unpacked into the generation's directories. *)
Stage(p) ==
    /\ At(p, "staging")
    /\ \E b \in Bundles, c \in Content :
          /\ staged' = [e \in File |-> IF e \in b \ Sidecar THEN c ELSE None]
          /\ Drafted(p, [covered |-> b, originals |-> {e \in b : live[e] # None}])
    /\ old' = NoFiles /\ failed' = NoFiles
    /\ UNCHANGED <<live, journal, exclusive, shared>>

Prepare(p) ==
    /\ At(p, "journal")
    /\ journal' = [state |-> "prepared", draft |-> proc[p].draft]
    /\ Goto(p, "aside", 1)
    /\ UNCHANGED <<places, exclusive, shared>>

(* An error of a move, before or after the rename took effect, starts the  *)
(* rollback.                                                               *)
Aside(p) ==
    LET e == proc[p].at
        moves == e \in Covered /\ live[e] # None
    IN  /\ At(p, "aside")
        /\ moves => old[e] = None
        /\ old' = IF moves THEN [old EXCEPT ![e] = live[e]] ELSE old
        /\ live' = IF moves THEN [live EXCEPT ![e] = None] ELSE live
        /\ Goto(p, "install", e) \/ RollBack(p, "raise")
        /\ UNCHANGED <<staged, failed, journal, exclusive, shared>>

Install(p) ==
    LET e == proc[p].at
        moves == staged[e] # None
    IN  /\ At(p, "install")
        /\ moves => live[e] = None
        /\ live' = IF moves THEN [live EXCEPT ![e] = staged[e]] ELSE live
        /\ staged' = [staged EXCEPT ![e] = None]
        /\ \/ e < N /\ Goto(p, "aside", e + 1)
           \/ e = N /\ Goto(p, "commit", e)
           \/ RollBack(p, "raise")
        /\ UNCHANGED <<old, failed, journal, exclusive, shared>>

MoveFails(p) ==
    /\ At(p, "aside") \/ At(p, "install")
    /\ RollBack(p, "raise")
    /\ UNCHANGED <<places, journal, exclusive, shared>>

(* Fault: an error of the last write starts the rollback, too. *)
FaultCommit(p) ==
    /\ At(p, "commit")
    /\ journal' = [journal EXCEPT !.state = "committed"]
    /\ \/ Release(p)
       \/ RollBack(p, "raise") /\ UNCHANGED <<exclusive, shared>>
    /\ UNCHANGED places

(* Whether its write took effect or not, a failed commit is left to the    *)
(* next recovery.                                                          *)
Commit(p) ==
    /\ At(p, "commit")
    /\ journal' = [journal EXCEPT !.state = "committed"]
    /\ Release(p)
    /\ UNCHANGED places

-----------------------------------------------------------------------------
(* A rollback, of this process's restore or of one that was interrupted. *)

(* The live file belongs to the new generation. *)
New(e) ==
    /\ e \in Covered /\ live[e] # None
    /\ old[e] # None \/ (e \notin Originals /\ staged[e] = None)

Discard(p) ==
    LET e == proc[p].at
    IN  /\ At(p, "discard")
        /\ New(e) => failed[e] = None
        /\ failed' = IF New(e) THEN [failed EXCEPT ![e] = live[e]] ELSE failed
        /\ live' = IF New(e) THEN [live EXCEPT ![e] = None] ELSE live
        /\ Goto(p, "putback", e)
        /\ UNCHANGED <<staged, old, journal, exclusive, shared>>

(* Fault: the loop runs past the first file. *)
FaultPutBack(p) ==
    LET e == proc[p].at
        moves == e \in Covered /\ old[e] # None
    IN  /\ At(p, "putback")
        /\ moves => live[e] = None
        /\ live' = IF moves THEN [live EXCEPT ![e] = old[e]] ELSE live
        /\ old' = IF moves THEN [old EXCEPT ![e] = None] ELSE old
        /\ Goto(p, "discard", e - 1)
        /\ UNCHANGED <<staged, failed, journal, exclusive, shared>>

PutBack(p) ==
    LET e == proc[p].at
        moves == e \in Covered /\ old[e] # None
    IN  /\ At(p, "putback")
        /\ moves => live[e] = None
        /\ live' = IF moves THEN [live EXCEPT ![e] = old[e]] ELSE live
        /\ old' = IF moves THEN [old EXCEPT ![e] = None] ELSE old
        /\ \/ e > 1 /\ Goto(p, "discard", e - 1)
           \/ e = 1 /\ Goto(p, "closing", e)
        /\ UNCHANGED <<staged, failed, journal, exclusive, shared>>

RolledBack(p) ==
    /\ At(p, "closing")
    /\ journal' = [journal EXCEPT !.state = "rolled_back"]
    /\ GoOn(p, proc[p].intent)
    /\ UNCHANGED places

-----------------------------------------------------------------------------
Next ==
    \E p \in Process :
       \/ \E intent \in {"restore", "start", "recover"} : Lock(p, intent)
       \/ \E pc \in {"serving", "reading"} : Share(p, pc)
       \/ Recover(p) \/ Migrate(p) \/ Serve(p) \/ End(p)
       \/ Stage(p) \/ Prepare(p) \/ Aside(p) \/ Install(p) \/ MoveFails(p) \/ Commit(p)
       \/ Discard(p) \/ PutBack(p) \/ RolledBack(p)

Spec == Init /\ [][Next]_vars

-----------------------------------------------------------------------------
(* Properties. *)

(* What the managed files are: the live ones, or while a restore is not    *)
(* committed, what its rollback would make of them.                        *)
Effective ==
    [e \in File |-> IF journal.state # "prepared" \/ e \notin Covered THEN live[e]
                    ELSE IF old[e] # None THEN old[e]
                    ELSE IF e \in Originals THEN live[e]
                    ELSE None]

Store == INSTANCE AtomicStore WITH content <- Effective, users <- shared

(* A restore takes effect at once or not at all, wherever it or a rollback *)
(* is cut off, and never under a process that has the files open.          *)
ImplementsStore == Store!Spec

(* Who has the files open finds one generation in its place: no half of a  *)
(* restore, and no -wal or -shm of another database.                       *)
OpensWholeGeneration ==
    shared # {} =>
        /\ live = Effective
        /\ \A e \in Sidecar : live[e] \in {None, live[1]}

(* A move never finds its destination taken (_move would refuse, and every *)
(* later recovery with it).                                                *)
NothingInTheWay ==
    \A p \in Process :
        LET e == proc[p].at
        IN  /\ At(p, "aside") /\ e \in Covered /\ live[e] # None => old[e] = None
            /\ At(p, "install") /\ staged[e] # None => live[e] = None
            /\ At(p, "discard") /\ New(e) => failed[e] = None
            /\ At(p, "putback") /\ e \in Covered /\ old[e] # None => live[e] = None

(* A restore is whole for who opens the files, and possible for who moves  *)
(* them.                                                                   *)
RestoreIsWhole == OpensWholeGeneration /\ NothingInTheWay

-----------------------------------------------------------------------------
(* The inductive invariant: why a restore is atomic. *)

Forward == {"aside", "install", "commit"}
Backward == {"discard", "putback", "closing"}
Unmoved == {"staging", "journal", "migrating"}
Exclusive == {"loading"} \cup Unmoved \cup Forward \cup Backward
Sharing == {"serving", "reading"}

LockInv ==
    /\ \A p \in Process : proc[p].pc \in Exclusive => exclusive = p
    /\ \A p \in Process : p \in shared <=> proc[p].pc \in Sharing
    /\ exclusive # None => shared = {}

(* Files are only moved under a prepared journal, and opened under none.   *)
JournalInv ==
    /\ \A p \in Process : proc[p].pc \in Forward \cup Backward => journal.state = "prepared"
    /\ \A p \in Process : proc[p].pc \in Unmoved \cup Sharing => journal.state # "prepared"

(* The new file of a generation with content c. *)
Fresh(e, c) == IF e \in Sidecar THEN None ELSE c

(* The staged files are those of one generation, and the rest is clear. *)
Ready(draft) ==
    /\ draft.covered \in Bundles
    /\ draft.originals = {e \in draft.covered : live[e] # None}
    /\ old = NoFiles /\ failed = NoFiles
    /\ \E c \in Content : \A e \in File :
          staged[e] = IF e \in draft.covered THEN Fresh(e, c) ELSE None

StagedInv == \A p \in Process : At(p, "journal") => Ready(proc[p].draft)

(* Where the two generations of a file can be, and that there is room to   *)
(* move the new one out of the way.                                        *)
PlacesInv ==
    journal.state = "prepared" =>
        /\ Covered \in Bundles /\ Originals \subseteq Covered
        /\ \A e \in File :
              /\ e \notin Covered => staged[e] = None
              /\ e \in Originals => old[e] # None \/ live[e] # None
              /\ e \in Covered \ Originals =>
                    old[e] = None /\ (live[e] = None \/ staged[e] = None)
              /\ New(e) => failed[e] = None

(* The files before the one at hand are exchanged, those behind are not. *)
Exchanging(pc, i) ==
    LET done(e) == e < i \/ pc = "commit"
        begun(e) == done(e) \/ (e = i /\ pc = "install")
    IN  /\ failed = NoFiles
        /\ \E c \in Content : \A e \in Covered :
              /\ done(e) => live[e] = Fresh(e, c) /\ staged[e] = None
              /\ ~done(e) => staged[e] = Fresh(e, c)
              /\ begun(e) => (e \in Originals <=> old[e] # None)
              /\ begun(e) /\ ~done(e) => live[e] = None
              /\ ~begun(e) => old[e] = None /\ (e \in Originals <=> live[e] # None)

ForwardInv ==
    \A p \in Process : proc[p].pc \in Forward => Exchanging(proc[p].pc, proc[p].at)

(* The files behind the one at hand are restored. *)
Restoring(pc, i) ==
    \A e \in Covered :
       /\ e > i \/ pc = "closing" =>
             old[e] = None /\ (e \notin Originals => live[e] = None)
       /\ e = i /\ pc = "putback" =>
             /\ e \in Originals => old[e] = None \/ live[e] = None
             /\ e \notin Originals => live[e] = None

BackwardInv ==
    \A p \in Process : proc[p].pc \in Backward => Restoring(proc[p].pc, proc[p].at)

LogsInv == \A e \in Sidecar : Effective[e] \in {None, Effective[1]}

IInv ==
    /\ TypeOK /\ LockInv /\ JournalInv /\ StagedInv /\ PlacesInv
    /\ ForwardInv /\ BackwardInv /\ LogsInv
=============================================================================
