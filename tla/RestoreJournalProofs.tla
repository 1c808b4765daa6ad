------------------------- MODULE RestoreJournalProofs -------------------------
(* Proofs about RestoreJournal, for any number of files and processes.      *)
EXTENDS RestoreJournal, TLAPS

Step(p) ==
    \/ \E intent \in {"restore", "start", "recover"} : Lock(p, intent)
    \/ \E pc \in {"serving", "reading"} : Share(p, pc)
    \/ Recover(p) \/ Migrate(p) \/ Serve(p) \/ End(p)
    \/ Stage(p) \/ Prepare(p) \/ Aside(p) \/ Install(p) \/ MoveFails(p) \/ Commit(p)
    \/ Discard(p) \/ PutBack(p) \/ RolledBack(p)

LEMMA InitType == Init => TypeOK
<1> SUFFICES ASSUME Init PROVE TypeOK
    OBVIOUS
<1> USE FileAssumption DEF Init, File
<1>1. /\ NoDraft \in Draft /\ "none" \in {"none", "prepared", "committed", "rolled_back"}
      /\ NoFiles \in [1..N -> Content \cup {None}]
    BY DEF NoDraft, Draft, NoFiles
<1>2. Idle \in [pc : Pc, intent : Intent, at : 1..N, draft : Draft]
    BY <1>1 DEF Idle, Pc, Intent
<1> QED
    BY <1>1, <1>2 DEF TypeOK

ProcType == [pc : Pc, intent : Intent, at : File, draft : Draft]

LEMMA GotoType ==
    ASSUME TypeOK, NEW p \in Process, NEW pc \in Pc, NEW i \in File, Goto(p, pc, i)
    PROVE  /\ proc' \in [Process -> ProcType]
           /\ proc'[p].pc = pc /\ proc'[p].at = i
           /\ proc'[p].intent = proc[p].intent /\ proc'[p].draft = proc[p].draft
           /\ \A q \in Process \ {p} : proc'[q] = proc[q]
    BY DEF TypeOK, Goto, ProcType

LEMMA EnterType ==
    ASSUME TypeOK, NEW p \in Process, NEW pc \in Pc, NEW intent \in Intent,
           Enter(p, pc, intent)
    PROVE  /\ proc' \in [Process -> ProcType]
           /\ proc'[p].pc = pc /\ proc'[p].intent = intent
           /\ proc'[p].at = proc[p].at /\ proc'[p].draft = proc[p].draft
           /\ \A q \in Process \ {p} : proc'[q] = proc[q]
    BY DEF TypeOK, Enter, ProcType

LEMMA StageEffect ==
    ASSUME TypeOK, NEW p \in Process, Stage(p)
    PROVE  \E b \in Bundles, c \in Content :
              /\ staged' = [e \in File |-> IF e \in b \ Sidecar THEN c ELSE None]
              /\ proc' \in [Process -> ProcType]
              /\ proc'[p].pc = "journal"
              /\ proc'[p].draft = [covered |-> b, originals |-> {e \in b : live[e] # None}]
              /\ \A q \in Process \ {p} : proc'[q] = proc[q]
<1>1. PICK b \in Bundles, c \in Content :
         /\ staged' = [e \in File |-> IF e \in b \ Sidecar THEN c ELSE None]
         /\ Drafted(p, [covered |-> b, originals |-> {e \in b : live[e] # None}])
    BY DEF Stage
<1> DEFINE draft == [covered |-> b, originals |-> {e \in b : live[e] # None}]
<1>2. draft \in Draft
    BY BundleAssumption DEF Draft
<1> HIDE DEF draft
<1>3. /\ proc' \in [Process -> ProcType]
      /\ proc'[p].pc = "journal" /\ proc'[p].draft = draft
      /\ \A q \in Process \ {p} : proc'[q] = proc[q]
    BY <1>1, <1>2 DEF TypeOK, Drafted, ProcType, Pc, draft
<1> QED
    BY <1>1, <1>3 DEF draft

LEMMA RollBackType ==
    ASSUME TypeOK, NEW p \in Process, NEW intent \in Intent, RollBack(p, intent)
    PROVE  /\ proc' \in [Process -> ProcType]
           /\ proc'[p].pc = "discard" /\ proc'[p].at = N
           /\ proc'[p].intent = intent
           /\ \A q \in Process \ {p} : proc'[q] = proc[q]
<1>1. N \in File /\ "discard" \in Pc
    BY FileAssumption DEF File, Pc
<1> QED
    BY <1>1 DEF TypeOK, RollBack, ProcType

LEMMA ReleaseType ==
    ASSUME TypeOK, NEW p \in Process, Release(p)
    PROVE  /\ proc' \in [Process -> ProcType]
           /\ proc'[p].pc = "idle"
           /\ \A q \in Process \ {p} : proc'[q] = proc[q]
           /\ exclusive' \in {None, exclusive} /\ exclusive' # p
           /\ exclusive # p => exclusive' = exclusive
           /\ shared' = shared \ {p}
<1>1. Idle \in ProcType
    BY FileAssumption DEF Idle, ProcType, Pc, Intent, NoDraft, Draft, File
<1> QED
    BY <1>1, NoneAssumption DEF TypeOK, Release, ProcType, Idle

(* What follows a recovery. *)
LEMMA GoOnType ==
    ASSUME TypeOK, NEW p \in Process, NEW intent \in Intent, GoOn(p, intent)
    PROVE  \/ Release(p)
           \/ /\ proc' \in [Process -> ProcType]
              /\ proc'[p].pc \in {"staging", "migrating"}
              /\ \A q \in Process \ {p} : proc'[q] = proc[q]
              /\ UNCHANGED <<exclusive, shared>>
    BY EnterType DEF GoOn, Pc, Intent

-----------------------------------------------------------------------------
(* Types. *)

LEMMA TypeStep ==
    ASSUME TypeOK, [Next]_vars
    PROVE  TypeOK'
<1>1. CASE UNCHANGED vars
    BY <1>1 DEF TypeOK, vars, places
<1>2. ASSUME NEW p \in Process, Step(p)
      PROVE  TypeOK'
  <2> USE DEF places
  <2> SUFFICES /\ proc' \in [Process -> ProcType]
               /\ exclusive' \in Process \cup {None} /\ shared' \in SUBSET Process
               /\ journal' \in [state : {"none", "prepared", "committed", "rolled_back"},
                                draft : Draft]
               /\ live' \in [File -> Content \cup {None}]
               /\ staged' \in [File -> Content \cup {None}]
               /\ old' \in [File -> Content \cup {None}]
               /\ failed' \in [File -> Content \cup {None}]
      BY DEF TypeOK, ProcType
  <2>0. NoFiles \in [File -> Content \cup {None}]
      BY DEF NoFiles
  <2>p. proc[p] \in ProcType /\ proc[p].at \in File /\ proc[p].intent \in Intent
      BY DEF TypeOK, ProcType
  <2>1. CASE \E intent \in {"restore", "start", "recover"} : Lock(p, intent)
    <3>1. PICK intent \in Intent : Lock(p, intent)
        BY <2>1 DEF Intent
    <3>2. proc' \in [Process -> ProcType]
        BY <3>1, EnterType DEF Lock, Pc
    <3> QED
        BY <3>1, <3>2 DEF Lock, TypeOK
  <2>2. CASE \E pc \in {"serving", "reading"} : Share(p, pc)
      BY <2>2 DEF TypeOK, ProcType, Share, Pc
  <2>3. CASE Recover(p)
    <3>1. CASE RollBack(p, proc[p].intent) /\ UNCHANGED <<exclusive, shared>>
        BY <2>3, <2>p, <3>1, RollBackType DEF Recover, TypeOK
    <3>2. CASE GoOn(p, proc[p].intent)
        BY <2>3, <2>p, <3>2, GoOnType, ReleaseType DEF Recover, TypeOK
    <3> QED
        BY <2>3, <3>1, <3>2 DEF Recover
  <2>4. CASE Migrate(p)
    <3>1. 1 \in File
        BY FileAssumption DEF File
    <3> QED
        BY <2>4, <3>1 DEF Migrate, TypeOK, ProcType, Pc
  <2>5. CASE Serve(p)
      BY <2>5 DEF Serve, TypeOK, ProcType
  <2>6. CASE End(p)
      BY <2>6, ReleaseType DEF End, TypeOK
  <2>7. CASE Stage(p)
    <3>1. proc' \in [Process -> ProcType]
        BY <2>7, StageEffect
    <3>2. staged' \in [File -> Content \cup {None}]
        BY <2>7 DEF Stage
    <3> QED
        BY <2>7, <2>0, <3>1, <3>2 DEF Stage, TypeOK
  <2>8. CASE Prepare(p)
      BY <2>8, GotoType, FileAssumption DEF Prepare, TypeOK, ProcType, File, Pc
  <2>9. CASE Aside(p)
    <3>1. proc' \in [Process -> ProcType]
        BY <2>9, <2>p, GotoType, RollBackType DEF Aside, Pc, Intent
    <3> QED
        BY <2>9, <2>p, <3>1 DEF Aside, TypeOK
  <2>10. CASE Install(p)
    <3>1. proc[p].at < N => proc[p].at + 1 \in File
        BY <2>p, FileAssumption DEF File
    <3>2. proc' \in [Process -> ProcType]
        BY <2>10, <2>p, <3>1, GotoType, RollBackType DEF Install, Pc, Intent
    <3> QED
        BY <2>10, <2>p, <3>2 DEF Install, TypeOK
  <2>11. CASE MoveFails(p)
      BY <2>11, RollBackType DEF MoveFails, TypeOK, Intent
  <2>12. CASE Commit(p)
      BY <2>12, ReleaseType DEF Commit, TypeOK
  <2>13. CASE Discard(p)
    <3>1. proc' \in [Process -> ProcType]
        BY <2>13, <2>p, GotoType DEF Discard, Pc
    <3> QED
        BY <2>13, <2>p, <3>1 DEF Discard, TypeOK
  <2>14. CASE PutBack(p)
    <3>1. proc[p].at > 1 => proc[p].at - 1 \in File
        BY <2>p, FileAssumption DEF File
    <3>2. proc' \in [Process -> ProcType]
        BY <2>14, <2>p, <3>1, GotoType DEF PutBack, Pc
    <3> QED
        BY <2>14, <2>p, <3>2 DEF PutBack, TypeOK
  <2>15. CASE RolledBack(p)
      BY <2>15, <2>p, GoOnType, ReleaseType DEF RolledBack, TypeOK
  <2> QED
      BY <1>2, <2>1, <2>2, <2>3, <2>4, <2>5, <2>6, <2>7, <2>8, <2>9, <2>10,
         <2>11, <2>12, <2>13, <2>14, <2>15 DEF Step
<1> QED
    BY <1>1, <1>2 DEF Next, Step

(* For any number of files, backups and processes, the places, the journal *)
(* and the lock keep their types.                                          *)
THEOREM TypeCorrect == Spec => []TypeOK
<1> QED
    BY InitType, TypeStep, PTL DEF Spec

-----------------------------------------------------------------------------
(* The lock. *)

LEMMA Labels ==
    /\ Exclusive \cap Sharing = {}
    /\ "idle" \notin Exclusive \cup Sharing
    /\ Pc = Exclusive \cup Sharing \cup {"idle"}
    BY DEF Exclusive, Sharing, Unmoved, Forward, Backward, Pc

(* Who holds the lock exclusively is the only one at work. *)
LEMMA Alone ==
    ASSUME TypeOK, LockInv, NEW p \in Process, proc[p].pc \in Exclusive
    PROVE  /\ exclusive = p /\ shared = {}
           /\ \A q \in Process \ {p} : proc[q].pc = "idle"
<1>1. exclusive = p /\ shared = {}
    BY NoneAssumption DEF LockInv
<1>2. ASSUME NEW q \in Process \ {p} PROVE proc[q].pc = "idle"
  <2>1. proc[q].pc \in Pc /\ proc[q].pc \notin Exclusive
      BY <1>1 DEF TypeOK, LockInv
  <2>2. proc[q].pc \notin Sharing
      BY <1>1 DEF LockInv
  <2> QED
      BY <2>1, <2>2, Labels
<1> QED
    BY <1>1, <1>2

LEMMA Quiet ==
    ASSUME LockInv, exclusive = None
    PROVE  \A q \in Process : proc[q].pc \notin Exclusive
    BY NoneAssumption DEF LockInv

(* A step of the one at work, which goes on. *)
LEMMA HolderGoesOn ==
    ASSUME TypeOK, LockInv, NEW p \in Process, proc[p].pc \in Exclusive,
           UNCHANGED <<exclusive, shared>>, proc'[p].pc \in Exclusive,
           \A q \in Process \ {p} : proc'[q] = proc[q]
    PROVE  LockInv'
    BY Alone, Labels DEF LockInv

LEMMA ReleaseKeepsLock ==
    ASSUME TypeOK, LockInv, NEW p \in Process, Release(p)
    PROVE  LockInv'
<1>1. /\ proc'[p].pc = "idle" /\ \A q \in Process \ {p} : proc'[q] = proc[q]
      /\ exclusive' \in {None, exclusive}
      /\ exclusive # p => exclusive' = exclusive
      /\ shared' = shared \ {p}
    BY ReleaseType
<1>2. \A q \in Process : proc'[q].pc \in Exclusive => exclusive' = q
    BY <1>1, Labels DEF LockInv
<1>3. \A q \in Process : q \in shared' <=> proc'[q].pc \in Sharing
    BY <1>1, Labels DEF LockInv
<1>4. exclusive' # None => shared' = {}
    BY <1>1 DEF LockInv
<1> QED
    BY <1>2, <1>3, <1>4 DEF LockInv

(* What the steps of the one at work do to its place in the program. *)
LEMMA HolderSteps ==
    ASSUME TypeOK, NEW p \in Process,
           \/ Stage(p) \/ Prepare(p) \/ Aside(p) \/ Install(p) \/ MoveFails(p)
           \/ Discard(p) \/ PutBack(p)
           \/ Recover(p) /\ UNCHANGED <<exclusive, shared>>
           \/ RolledBack(p) /\ UNCHANGED <<exclusive, shared>>
    PROVE  \/ Release(p)
           \/ /\ proc[p].pc \in Exclusive /\ proc'[p].pc \in Exclusive
              /\ \A q \in Process \ {p} : proc'[q] = proc[q]
              /\ UNCHANGED <<exclusive, shared>>
<1> USE DEF At
<1>0. /\ {"staging", "journal", "aside", "install", "commit", "discard", "putback",
          "closing", "migrating", "loading"} \subseteq Exclusive \cap Pc
      /\ proc[p].at \in File /\ proc[p].intent \in Intent
      /\ 1 \in File /\ "raise" \in Intent
    BY FileAssumption DEF Exclusive, Unmoved, Forward, Backward, TypeOK, Pc, Intent, File
<1>1. CASE Stage(p)
    BY <1>0, <1>1, StageEffect DEF Stage
<1>2. CASE Prepare(p)
    BY <1>0, <1>2, GotoType DEF Prepare
<1>3. CASE Aside(p)
    BY <1>0, <1>3, GotoType, RollBackType DEF Aside
<1>4. CASE Install(p)
  <2>1. proc[p].at < N => proc[p].at + 1 \in File
      BY <1>0, FileAssumption DEF File
  <2> QED
      BY <1>0, <1>4, <2>1, GotoType, RollBackType DEF Install
<1>5. CASE MoveFails(p)
    BY <1>0, <1>5, RollBackType DEF MoveFails
<1>6. CASE Discard(p)
    BY <1>0, <1>6, GotoType DEF Discard
<1>7. CASE PutBack(p)
  <2>1. proc[p].at > 1 => proc[p].at - 1 \in File
      BY <1>0, FileAssumption DEF File
  <2> QED
      BY <1>0, <1>7, <2>1, GotoType DEF PutBack
<1>8. CASE Recover(p) /\ UNCHANGED <<exclusive, shared>>
    BY <1>0, <1>8, RollBackType, GoOnType DEF Recover
<1>9. CASE RolledBack(p) /\ UNCHANGED <<exclusive, shared>>
    BY <1>0, <1>9, GoOnType DEF RolledBack
<1> QED
    BY <1>1, <1>2, <1>3, <1>4, <1>5, <1>6, <1>7, <1>8, <1>9

LEMMA LockStep ==
    ASSUME TypeOK, LockInv, [Next]_vars
    PROVE  LockInv'
<1>1. CASE UNCHANGED vars
    BY <1>1 DEF LockInv, vars
<1>2. ASSUME NEW p \in Process, Step(p)
      PROVE  LockInv'
  <2>1. CASE \E intent \in {"restore", "start", "recover"} : Lock(p, intent)
    <3>1. PICK intent \in Intent : Lock(p, intent)
        BY <2>1 DEF Intent
    <3>2. /\ proc'[p].pc = "loading"
          /\ \A q \in Process \ {p} : proc'[q] = proc[q]
        BY <3>1, EnterType DEF Lock, Pc
    <3>3. "loading" \in Exclusive /\ "loading" \notin Sharing
        BY DEF Exclusive, Sharing
    <3>4. /\ exclusive' = p /\ shared' = {}
          /\ \A q \in Process : proc[q].pc \notin Exclusive \cup Sharing
        BY <3>1, Quiet DEF Lock, LockInv
    <3> QED
        BY <3>2, <3>3, <3>4, Labels DEF LockInv
  <2>2. CASE \E pc \in {"serving", "reading"} : Share(p, pc)
    <3>1. PICK pc \in {"serving", "reading"} : Share(p, pc)
        BY <2>2
    <3>2. /\ proc'[p].pc \in Sharing
          /\ \A q \in Process \ {p} : proc'[q] = proc[q]
        BY <3>1 DEF Share, TypeOK, Sharing
    <3>3. /\ shared' = shared \cup {p} /\ exclusive = None /\ exclusive' = None
          /\ \A q \in Process : proc[q].pc \notin Exclusive
        BY <3>1, Quiet DEF Share
    <3> QED
        BY <3>2, <3>3, Labels DEF LockInv
  <2>3. CASE Migrate(p)
    <3>1. /\ proc'[p].pc \in Sharing
          /\ \A q \in Process \ {p} : proc'[q] = proc[q]
        BY <2>3 DEF Migrate, TypeOK, Sharing
    <3>2. proc[p].pc \in Exclusive
        BY <2>3 DEF Migrate, At, Exclusive, Unmoved
    <3>3. exclusive' = None /\ shared' = shared \cup {p}
        BY <2>3 DEF Migrate
    <3> QED
        BY <3>1, <3>2, <3>3, Alone, Labels DEF LockInv
  <2>4. CASE Serve(p)
      BY <2>4 DEF Serve, LockInv
  <2>5. CASE End(p) \/ Commit(p)
      BY <2>5, ReleaseKeepsLock DEF End, Commit
  <2>6. CASE Recover(p) \/ RolledBack(p)
    <3>1. Release(p) \/ UNCHANGED <<exclusive, shared>>
        BY <2>6 DEF Recover, RolledBack, GoOn
    <3> QED
        BY <2>6, <3>1, HolderSteps, HolderGoesOn, ReleaseKeepsLock
  <2>7. CASE \/ Stage(p) \/ Prepare(p) \/ Aside(p) \/ Install(p) \/ MoveFails(p)
             \/ Discard(p) \/ PutBack(p)
      BY <2>7, HolderSteps, HolderGoesOn, ReleaseKeepsLock
  <2> QED
      BY <1>2, <2>1, <2>2, <2>3, <2>4, <2>5, <2>6, <2>7 DEF Step
<1> QED
    BY <1>1, <1>2 DEF Next, Step

-----------------------------------------------------------------------------
(* The files. *)

FilesInv == JournalInv /\ StagedInv /\ PlacesInv /\ ForwardInv /\ BackwardInv

(* When the one at work steps, only its own part of FilesInv is at stake. *)
LEMMA Assemble ==
    ASSUME TypeOK, LockInv, NEW p \in Process, proc[p].pc \in Exclusive,
           \A q \in Process \ {p} : proc'[q] = proc[q],
           proc'[p].pc \in Forward \cup Backward => journal'.state = "prepared",
           proc'[p].pc \in Unmoved \cup Sharing => journal'.state # "prepared",
           proc'[p].pc = "journal" => Ready(proc[p].draft)',
           proc'[p].pc \in Forward => Exchanging(proc[p].pc, proc[p].at)',
           proc'[p].pc \in Backward => Restoring(proc[p].pc, proc[p].at)',
           PlacesInv'
    PROVE  FilesInv'
<1>1. \A q \in Process \ {p} : proc'[q].pc = "idle"
    BY Alone
<1>2. "idle" \notin Forward \cup Backward \cup Unmoved \cup Sharing /\ "idle" # "journal"
    BY DEF Forward, Backward, Unmoved, Sharing
<1>3. JournalInv'
    BY <1>1, <1>2 DEF JournalInv
<1>4. StagedInv'
    BY <1>1, <1>2 DEF StagedInv, At
<1>5. ForwardInv'
    BY <1>1, <1>2 DEF ForwardInv
<1>6. BackwardInv'
    BY <1>1, <1>2 DEF BackwardInv
<1> QED
    BY <1>3, <1>4, <1>5, <1>6 DEF FilesInv

(* Nothing is restored yet when a rollback begins. *)
LEMMA RollBackBegins ==
    ASSUME TypeOK, TypeOK', NEW p \in Process, NEW intent \in Intent, RollBack(p, intent)
    PROVE  /\ Restoring(proc[p].pc, proc[p].at)'
           /\ proc'[p].pc = "discard"
           /\ \A q \in Process \ {p} : proc'[q] = proc[q]
<1>1. /\ proc'[p].pc = "discard" /\ proc'[p].at = N
      /\ \A q \in Process \ {p} : proc'[q] = proc[q]
    BY RollBackType
<1>2. \A e \in Covered' : e \in 1..N
    BY DEF TypeOK, Covered, Draft, File
<1> QED
    BY <1>1, <1>2, FileAssumption DEF Restoring

LEMMA EffectiveKept ==
    ASSUME \A e \in File : Effective'[e] = Effective[e]
    PROVE  Effective' = Effective
    BY DEF Effective

LEMMA EffectiveAt ==
    ASSUME NEW e \in File
    PROVE  Effective[e] = IF journal.state # "prepared" \/ e \notin Covered THEN live[e]
                          ELSE IF old[e] # None THEN old[e]
                          ELSE IF e \in Originals THEN live[e]
                          ELSE None
    BY DEF Effective

(* What holds of the files when a move forward is next. *)
LEMMA WhenForward ==
    ASSUME TypeOK, FilesInv, NEW p \in Process, NEW pc \in {"aside", "install", "commit"}, At(p, pc)
    PROVE  /\ proc[p].pc = pc /\ pc \in Exclusive /\ pc \in Forward
           /\ journal.state = "prepared" /\ proc[p].at \in 1..N
           /\ Covered \subseteq File /\ Originals \subseteq Covered
           /\ failed = NoFiles /\ Exchanging(pc, proc[p].at)
<1>1. proc[p].pc = pc /\ pc \in Exclusive /\ pc \in Forward
    BY DEF At, Exclusive, Forward
<1>2. journal.state = "prepared" /\ Exchanging(pc, proc[p].at)
    BY <1>1 DEF FilesInv, JournalInv, ForwardInv
<1>3. Covered \subseteq File /\ Originals \subseteq Covered /\ proc[p].at \in 1..N
    BY <1>2 DEF FilesInv, PlacesInv, TypeOK, Covered, Draft, File
<1> QED
    BY <1>1, <1>2, <1>3 DEF Exchanging

LEMMA AsideStep ==
    ASSUME TypeOK, TypeOK', LockInv, FilesInv, NEW p \in Process, Aside(p)
    PROVE  FilesInv' /\ Effective' = Effective
<1>0. PICK e \in File : e = proc[p].at
    BY DEF TypeOK
<1>1. /\ proc[p].pc = "aside" /\ "aside" \in Exclusive
      /\ journal.state = "prepared" /\ e \in 1..N
      /\ Covered \subseteq File /\ Originals \subseteq Covered
      /\ failed = NoFiles /\ Exchanging("aside", e)
    BY <1>0, WhenForward DEF Aside
<1>2. UNCHANGED <<staged, failed, journal, exclusive, shared, Covered, Originals>>
    BY DEF Aside, Covered, Originals
<1>3. PICK c \in Content : \A x \in Covered :
         /\ x < e => live[x] = Fresh(x, c) /\ staged[x] = None
                     /\ (x \in Originals <=> old[x] # None)
         /\ ~(x < e) => staged[x] = Fresh(x, c) /\ old[x] = None
                        /\ (x \in Originals <=> live[x] # None)
    BY <1>1 DEF Exchanging
<1>4. /\ \A x \in File \ {e} : live'[x] = live[x] /\ old'[x] = old[x]
      /\ e \notin Covered => live'[e] = live[e] /\ old'[e] = old[e]
      /\ e \in Covered => live'[e] = None /\ old'[e] = live[e]
  <2>1. e \in Covered => old[e] = None
      BY <1>1, <1>3
  <2>2. CASE e \in Covered /\ live[e] # None
      BY <1>0, <2>1, <2>2 DEF Aside, TypeOK
  <2>3. CASE ~(e \in Covered /\ live[e] # None)
      BY <1>0, <2>1, <2>3 DEF Aside
  <2> QED
      BY <2>2, <2>3
<1>5. Exchanging("install", e)'
  <2>1. failed' = NoFiles
      BY <1>1, <1>2
  <2>2. ASSUME NEW x \in Covered
        PROVE  /\ x < e => live'[x] = Fresh(x, c) /\ staged'[x] = None
               /\ ~(x < e) => staged'[x] = Fresh(x, c)
               /\ x < e \/ x = e => (x \in Originals <=> old'[x] # None)
               /\ x = e => live'[x] = None
               /\ ~(x < e \/ x = e) => old'[x] = None /\ (x \in Originals <=> live'[x] # None)
    <3>1. CASE x = e
        BY <1>1, <1>2, <1>3, <1>4, <3>1
    <3>2. CASE x # e
        BY <1>1, <1>2, <1>3, <1>4, <3>2
    <3> QED
        BY <3>1, <3>2
  <2> QED
      BY <1>1, <1>2, <2>1, <2>2 DEF Exchanging
<1>6. PlacesInv'
    BY <1>1, <1>2, <1>3, <1>4, NoneAssumption DEF FilesInv, PlacesInv, New, NoFiles
<1>7. Effective' = Effective
    BY <1>1, <1>2, <1>3, <1>4 DEF Effective
<1>8. CASE Goto(p, "install", e)
  <2>1. /\ proc'[p].pc = "install" /\ proc'[p].at = e
        /\ \A q \in Process \ {p} : proc'[q] = proc[q]
      BY <1>1, <1>8, GotoType DEF Pc, File
  <2>2. Exchanging(proc[p].pc, proc[p].at)'
      BY <1>5, <2>1 DEF Exchanging
  <2> QED
      BY <1>1, <1>2, <1>6, <1>7, <2>1, <2>2, Assemble DEF Forward, Backward, Unmoved, Sharing
<1>9. CASE RollBack(p, "raise")
    BY <1>1, <1>2, <1>6, <1>7, <1>9, RollBackBegins, Assemble
       DEF Intent, Forward, Backward, Unmoved, Sharing
<1> QED
    BY <1>0, <1>8, <1>9 DEF Aside

LEMMA InstallStep ==
    ASSUME TypeOK, TypeOK', LockInv, FilesInv, NEW p \in Process, Install(p)
    PROVE  FilesInv' /\ Effective' = Effective
<1>0. PICK e \in File : e = proc[p].at
    BY DEF TypeOK
<1>1. /\ proc[p].pc = "install" /\ "install" \in Exclusive
      /\ journal.state = "prepared" /\ e \in 1..N
      /\ Covered \subseteq File /\ Originals \subseteq Covered
      /\ failed = NoFiles /\ Exchanging("install", e)
    BY <1>0, WhenForward DEF Install
<1>2. UNCHANGED <<old, failed, journal, exclusive, shared, Covered, Originals>>
    BY DEF Install, Covered, Originals
<1>3. PICK c \in Content : \A x \in Covered :
         /\ x < e => live[x] = Fresh(x, c) /\ staged[x] = None
         /\ ~(x < e) => staged[x] = Fresh(x, c)
         /\ x < e \/ x = e => (x \in Originals <=> old[x] # None)
         /\ x = e => live[x] = None
         /\ ~(x < e \/ x = e) => old[x] = None /\ (x \in Originals <=> live[x] # None)
    BY <1>1 DEF Exchanging
<1>4. /\ \A x \in File \ {e} : live'[x] = live[x] /\ staged'[x] = staged[x]
      /\ staged'[e] = None
      /\ e \notin Covered => live'[e] = live[e]
      /\ e \in Covered => live'[e] = Fresh(e, c)
  <2>1. /\ e \notin Covered => staged[e] = None
        /\ e \in Covered => staged[e] = Fresh(e, c) /\ live[e] = None
      BY <1>1, <1>3 DEF FilesInv, PlacesInv
  <2>2. CASE staged[e] # None
      BY <1>0, <2>1, <2>2 DEF Install, TypeOK
  <2>3. CASE staged[e] = None
      BY <1>0, <2>1, <2>3 DEF Install, TypeOK
  <2> QED
      BY <2>2, <2>3
<1>5. \A x \in Covered :
         /\ x < e + 1 => live'[x] = Fresh(x, c) /\ staged'[x] = None
                         /\ (x \in Originals <=> old'[x] # None)
         /\ ~(x < e + 1) => staged'[x] = Fresh(x, c) /\ old'[x] = None
                            /\ (x \in Originals <=> live'[x] # None)
  <2>1. ASSUME NEW x \in Covered
        PROVE  x \in Nat /\ e \in Nat /\ (x < e + 1 <=> x < e \/ x = e)
      BY <1>1 DEF File
  <2> QED
      BY <1>1, <1>2, <1>3, <1>4, <2>1
<1>6. PlacesInv'
    BY <1>1, <1>2, <1>3, <1>4, NoneAssumption DEF FilesInv, PlacesInv, New, NoFiles
<1>7. Effective' = Effective
    BY <1>1, <1>2, <1>3, <1>4 DEF Effective
<1>8. CASE e < N /\ Goto(p, "aside", e + 1)
  <2>1. e + 1 \in File
      BY <1>1, <1>8, FileAssumption DEF File
  <2>2. /\ proc'[p].pc = "aside" /\ proc'[p].at = e + 1
        /\ \A q \in Process \ {p} : proc'[q] = proc[q]
      BY <1>8, <2>1, GotoType DEF Pc
  <2>3. Exchanging(proc[p].pc, proc[p].at)'
      BY <1>1, <1>2, <1>5, <2>2 DEF Exchanging
  <2> QED
      BY <1>1, <1>2, <1>6, <1>7, <2>2, <2>3, Assemble DEF Forward, Backward, Unmoved, Sharing
<1>9. CASE e = N /\ Goto(p, "commit", e)
  <2>1. /\ proc'[p].pc = "commit" /\ proc'[p].at = e
        /\ \A q \in Process \ {p} : proc'[q] = proc[q]
      BY <1>9, GotoType DEF Pc
  <2>2. \A x \in Covered : x < e + 1
      BY <1>1, <1>9, FileAssumption DEF File
  <2>3. Exchanging(proc[p].pc, proc[p].at)'
      BY <1>1, <1>2, <1>5, <2>1, <2>2 DEF Exchanging
  <2> QED
      BY <1>1, <1>2, <1>6, <1>7, <2>1, <2>3, Assemble DEF Forward, Backward, Unmoved, Sharing
<1>10. CASE RollBack(p, "raise")
    BY <1>1, <1>2, <1>6, <1>7, <1>10, RollBackBegins, Assemble
       DEF Intent, Forward, Backward, Unmoved, Sharing
<1> QED
    BY <1>0, <1>8, <1>9, <1>10 DEF Install

(* Nothing moves, so only the rollback begins. *)
LEMMA PlacesKept ==
    ASSUME UNCHANGED <<live, staged, old, failed, journal>>
    PROVE  /\ Effective' = Effective /\ UNCHANGED <<Covered, Originals>>
           /\ PlacesInv => PlacesInv'
    BY DEF Effective, Covered, Originals, PlacesInv, New

LEMMA MoveFailsStep ==
    ASSUME TypeOK, TypeOK', LockInv, FilesInv, NEW p \in Process, MoveFails(p)
    PROVE  FilesInv' /\ Effective' = Effective
<1>1. /\ proc[p].pc \in Exclusive /\ journal.state = "prepared"
      /\ UNCHANGED <<live, staged, old, failed, journal>> /\ RollBack(p, "raise")
    BY WhenForward DEF MoveFails, places, At
<1>2. PlacesInv' /\ Effective' = Effective
    BY <1>1, PlacesKept DEF FilesInv
<1> QED
    BY <1>1, <1>2, RollBackBegins, Assemble DEF Intent, Forward, Backward, Unmoved, Sharing

(* What holds of the files when a rollback is at work. *)
LEMMA WhenBackward ==
    ASSUME TypeOK, FilesInv, NEW p \in Process,
           NEW pc \in {"discard", "putback", "closing"}, At(p, pc)
    PROVE  /\ proc[p].pc = pc /\ pc \in Exclusive
           /\ journal.state = "prepared" /\ proc[p].at \in 1..N
           /\ Covered \subseteq File /\ Originals \subseteq Covered
           /\ Restoring(pc, proc[p].at)
<1>1. proc[p].pc = pc /\ pc \in Exclusive /\ pc \in Backward
    BY DEF At, Exclusive, Backward
<1>2. journal.state = "prepared" /\ Restoring(pc, proc[p].at)
    BY <1>1 DEF FilesInv, JournalInv, BackwardInv
<1> QED
    BY <1>1, <1>2 DEF FilesInv, PlacesInv, TypeOK, Covered, Draft, File

LEMMA DiscardStep ==
    ASSUME TypeOK, TypeOK', LockInv, FilesInv, NEW p \in Process, Discard(p)
    PROVE  FilesInv' /\ Effective' = Effective
<1>0. PICK e \in File : e = proc[p].at
    BY DEF TypeOK
<1>1. /\ proc[p].pc = "discard" /\ "discard" \in Exclusive
      /\ journal.state = "prepared" /\ e \in 1..N
      /\ Covered \subseteq File /\ Originals \subseteq Covered
      /\ Restoring("discard", e)
    BY <1>0, WhenBackward DEF Discard
<1>2. /\ UNCHANGED <<staged, old, journal, exclusive, shared, Covered, Originals>>
      /\ proc'[p].pc = "putback" /\ proc'[p].at = e
      /\ \A q \in Process \ {p} : proc'[q] = proc[q]
  <2>1. UNCHANGED <<staged, old, journal, exclusive, shared, Covered, Originals>>
      BY DEF Discard, Covered, Originals
  <2> QED
      BY <1>0, <2>1, GotoType DEF Discard, Pc
<1>3. /\ \A x \in File \ {e} : live'[x] = live[x] /\ failed'[x] = failed[x]
      /\ New(e) => live'[e] = None
      /\ ~New(e) => live'[e] = live[e] /\ failed'[e] = failed[e]
    BY <1>0 DEF Discard, TypeOK
<1>4. \A x \in Covered :
         /\ x > e => old[x] = None /\ (x \notin Originals => live[x] = None)
         /\ x \in Originals => old[x] # None \/ live[x] # None
         /\ x \notin Originals => old[x] = None /\ (live[x] = None \/ staged[x] = None)
    BY <1>1 DEF Restoring, FilesInv, PlacesInv
<1>5. \A x \in File : New(x)' => x # e /\ New(x)
    BY <1>1, <1>2, <1>3 DEF New
<1>6. PlacesInv'
  <2>1. \A x \in Covered :
           /\ x \in Originals => old'[x] # None \/ live'[x] # None
           /\ x \notin Originals => old'[x] = None /\ (live'[x] = None \/ staged'[x] = None)
    <3>1. New(e) /\ e \in Originals => old[e] # None
        BY DEF New
    <3> QED
        BY <1>1, <1>2, <1>3, <1>4, <3>1
  <2>2. \A x \in File : New(x)' => failed'[x] = None
      BY <1>1, <1>3, <1>5 DEF FilesInv, PlacesInv
  <2> QED
      BY <1>1, <1>2, <2>1, <2>2 DEF FilesInv, PlacesInv
<1>7. Effective' = Effective
  <2>1. New(e) => e \in Covered /\ (old[e] # None \/ e \notin Originals)
      BY DEF New
  <2> QED
      BY <1>1, <1>2, <1>3, <2>1 DEF Effective
<1>8. Restoring("putback", e)'
  <2>1. ASSUME e \in Covered
        PROVE  /\ e \in Originals => old[e] = None \/ live'[e] = None
               /\ e \notin Originals => live'[e] = None
      BY <1>3, <1>4, <2>1 DEF New
  <2> QED
      BY <1>1, <1>2, <1>3, <1>4, <2>1 DEF Restoring, File
<1> QED
    BY <1>1, <1>2, <1>6, <1>7, <1>8, Assemble DEF Restoring, Forward, Backward, Unmoved, Sharing

LEMMA PutBackStep ==
    ASSUME TypeOK, TypeOK', LockInv, FilesInv, NEW p \in Process, PutBack(p)
    PROVE  FilesInv' /\ Effective' = Effective
<1>0. PICK e \in File : e = proc[p].at
    BY DEF TypeOK
<1>1. /\ proc[p].pc = "putback" /\ "putback" \in Exclusive
      /\ journal.state = "prepared" /\ e \in 1..N
      /\ Covered \subseteq File /\ Originals \subseteq Covered
      /\ Restoring("putback", e)
    BY <1>0, WhenBackward DEF PutBack
<1>2. UNCHANGED <<staged, failed, journal, exclusive, shared, Covered, Originals>>
    BY DEF PutBack, Covered, Originals
<1>3. \A x \in Covered :
         /\ x > e => old[x] = None /\ (x \notin Originals => live[x] = None)
         /\ x = e => (x \in Originals => old[x] = None \/ live[x] = None)
                     /\ (x \notin Originals => live[x] = None)
         /\ x \in Originals => old[x] # None \/ live[x] # None
         /\ x \notin Originals => old[x] = None
    BY <1>1 DEF Restoring, FilesInv, PlacesInv
<1>4. /\ \A x \in File \ {e} : live'[x] = live[x] /\ old'[x] = old[x]
      /\ e \in Covered /\ old[e] # None => live'[e] = old[e] /\ old'[e] = None
      /\ ~(e \in Covered /\ old[e] # None) => live'[e] = live[e] /\ old'[e] = old[e]
    BY <1>0 DEF PutBack, TypeOK
<1>5. \A x \in File : New(x)' => New(x)
    BY <1>1, <1>2, <1>3, <1>4 DEF New
<1>6. PlacesInv'
    BY <1>1, <1>2, <1>3, <1>4, <1>5 DEF FilesInv, PlacesInv
<1>7. Effective' = Effective
    BY <1>1, <1>2, <1>3, <1>4 DEF Effective
<1>8. \A x \in Covered : x > e \/ x = e =>
         old'[x] = None /\ (x \notin Originals => live'[x] = None)
    BY <1>1, <1>3, <1>4
<1>9. CASE e > 1 /\ Goto(p, "discard", e - 1)
  <2>1. e - 1 \in File
      BY <1>1, <1>9, FileAssumption DEF File
  <2>2. /\ proc'[p].pc = "discard" /\ proc'[p].at = e - 1
        /\ \A q \in Process \ {p} : proc'[q] = proc[q]
      BY <1>9, <2>1, GotoType DEF Pc
  <2>3. \A x \in Covered : x > e - 1 => x > e \/ x = e
    <3>1. ASSUME NEW x \in Covered PROVE x \in Nat /\ e \in Nat
        BY <1>1, FileAssumption DEF File
    <3> QED
        BY <3>1
  <2>4. Restoring(proc[p].pc, proc[p].at)'
      BY <1>2, <1>8, <2>2, <2>3 DEF Restoring
  <2> QED
      BY <1>1, <1>2, <1>6, <1>7, <2>2, <2>4, Assemble DEF Forward, Backward, Unmoved, Sharing
<1>10. CASE e = 1 /\ Goto(p, "closing", e)
  <2>1. /\ proc'[p].pc = "closing"
        /\ \A q \in Process \ {p} : proc'[q] = proc[q]
      BY <1>10, GotoType DEF Pc
  <2>2. \A x \in Covered : x > e \/ x = e
    <3>1. ASSUME NEW x \in Covered PROVE x \in Nat /\ x >= 1
        BY <1>1, FileAssumption DEF File
    <3> QED
        BY <1>10, <3>1
  <2>3. Restoring(proc[p].pc, proc[p].at)'
      BY <1>2, <1>8, <2>1, <2>2 DEF Restoring
  <2> QED
      BY <1>1, <1>2, <1>6, <1>7, <2>1, <2>3, Assemble DEF Forward, Backward, Unmoved, Sharing
<1> QED
    BY <1>0, <1>9, <1>10 DEF PutBack

(* When nobody is at work, the invariants of a restore say nothing. *)
LEMMA NobodyMoves ==
    ASSUME \A q \in Process : proc'[q].pc \in Sharing \cup {"idle", "loading"},
           journal'.state = "prepared" => \A q \in Process : proc'[q].pc \notin Sharing,
           PlacesInv'
    PROVE  FilesInv'
<1>1. (Sharing \cup {"idle", "loading"}) \cap (Forward \cup Backward \cup Unmoved) = {}
    BY DEF Sharing, Forward, Backward, Unmoved
<1>2. JournalInv'
    BY <1>1 DEF JournalInv
<1>3. StagedInv'
    BY <1>1 DEF StagedInv, At, Unmoved
<1>4. ForwardInv' /\ BackwardInv'
    BY <1>1 DEF ForwardInv, BackwardInv
<1> QED
    BY <1>2, <1>3, <1>4 DEF FilesInv

LEMMA Calm ==
    ASSUME TypeOK, LockInv, FilesInv, exclusive = None
    PROVE  /\ \A q \in Process : proc[q].pc \in Sharing \cup {"idle"}
           /\ shared # {} => journal.state # "prepared"
<1>1. \A q \in Process : proc[q].pc \in Sharing \cup {"idle"}
    BY Quiet, Labels DEF TypeOK
<1>2. ASSUME NEW q \in shared PROVE journal.state # "prepared"
    BY DEF TypeOK, LockInv, FilesInv, JournalInv
<1> QED
    BY <1>1, <1>2

(* A process leaves the lock. *)
LEMMA ReleaseFiles ==
    ASSUME TypeOK, LockInv, FilesInv, NEW p \in Process, Release(p), PlacesInv',
           proc[p].pc \in Exclusive \/ (p \in shared /\ UNCHANGED journal)
    PROVE  FilesInv'
<1>1. proc'[p].pc = "idle" /\ \A q \in Process \ {p} : proc'[q] = proc[q]
    BY ReleaseType
<1>2. CASE proc[p].pc \in Exclusive
  <2>1. \A q \in Process : proc'[q].pc = "idle"
      BY <1>1, <1>2, Alone
  <2> QED
      BY <2>1, Labels, NobodyMoves
<1>3. CASE p \in shared /\ UNCHANGED journal
  <2>1. exclusive = None /\ journal'.state # "prepared"
      BY <1>3, Calm DEF LockInv
  <2> QED
      BY <1>1, <2>1, Calm, NobodyMoves
<1> QED
    BY <1>2, <1>3

LEMMA EndStep ==
    ASSUME TypeOK, LockInv, FilesInv, NEW p \in Process, End(p)
    PROVE  FilesInv' /\ Effective' = Effective
<1>1. proc[p].pc \in Exclusive \/ p \in shared
    BY Labels DEF TypeOK, End, At, LockInv
<1>2. Release(p) /\ UNCHANGED <<live, staged, old, failed, journal>>
    BY DEF End, places
<1> QED
    BY <1>1, <1>2, PlacesKept, ReleaseFiles DEF FilesInv

LEMMA LockFiles ==
    ASSUME TypeOK, LockInv, FilesInv, NEW p \in Process, NEW intent \in Intent,
           Lock(p, intent)
    PROVE  FilesInv' /\ Effective' = Effective
<1>1. /\ exclusive = None /\ shared = {}
      /\ UNCHANGED <<live, staged, old, failed, journal>>
    BY DEF Lock, places
<1>2. proc'[p].pc = "loading" /\ \A q \in Process \ {p} : proc'[q] = proc[q]
    BY EnterType DEF Lock, Pc
<1>3. \A q \in Process : proc[q].pc = "idle"
    BY <1>1, Calm DEF LockInv
<1>4. "loading" \notin Sharing
    BY DEF Sharing
<1> QED
    BY <1>1, <1>2, <1>3, <1>4, PlacesKept, Labels, NobodyMoves DEF FilesInv

LEMMA ShareFiles ==
    ASSUME TypeOK, LockInv, FilesInv, NEW p \in Process,
           NEW pc \in {"serving", "reading"}, Share(p, pc)
    PROVE  FilesInv' /\ Effective' = Effective
<1>1. /\ exclusive = None /\ journal.state # "prepared"
      /\ UNCHANGED <<live, staged, old, failed, journal>>
    BY DEF Share, places
<1>2. proc'[p].pc \in Sharing /\ \A q \in Process \ {p} : proc'[q] = proc[q]
    BY DEF Share, TypeOK, Sharing
<1> QED
    BY <1>1, <1>2, PlacesKept, Calm, NobodyMoves DEF FilesInv

LEMMA RecoverStep ==
    ASSUME TypeOK, TypeOK', LockInv, FilesInv, NEW p \in Process, Recover(p)
    PROVE  FilesInv' /\ Effective' = Effective
<1>1. /\ proc[p].pc \in Exclusive /\ proc[p].intent \in Intent
      /\ UNCHANGED <<live, staged, old, failed, journal>>
    BY DEF Recover, places, At, Exclusive, TypeOK
<1>2. PlacesInv' /\ Effective' = Effective
    BY <1>1, PlacesKept DEF FilesInv
<1>3. CASE journal.state = "prepared" /\ RollBack(p, proc[p].intent)
  <2>1. PICK intent \in Intent : RollBack(p, intent)
      BY <1>1, <1>3
  <2> QED
      BY <1>1, <1>2, <1>3, <2>1, RollBackBegins, Assemble
         DEF Forward, Backward, Unmoved, Sharing
<1>4. CASE journal.state # "prepared" /\ GoOn(p, proc[p].intent)
  <2>1. CASE Release(p)
      BY <1>1, <1>2, <2>1, ReleaseFiles
  <2>2. CASE ~Release(p)
    <3>1. /\ proc'[p].pc \in {"staging", "migrating"}
          /\ \A q \in Process \ {p} : proc'[q] = proc[q]
        BY <1>1, <1>4, <2>2, GoOnType
    <3> QED
        BY <1>1, <1>2, <1>4, <3>1, Assemble DEF Forward, Backward, Unmoved, Sharing
  <2> QED
      BY <2>1, <2>2
<1> QED
    BY <1>3, <1>4 DEF Recover

LEMMA StageStep ==
    ASSUME TypeOK, TypeOK', LockInv, FilesInv, NEW p \in Process, Stage(p)
    PROVE  FilesInv' /\ Effective' = Effective
<1>1. /\ proc[p].pc \in Exclusive /\ journal.state # "prepared"
      /\ old' = NoFiles /\ failed' = NoFiles /\ UNCHANGED <<live, journal>>
    BY DEF Stage, At, Exclusive, Unmoved, FilesInv, JournalInv
<1>2. PICK b \in Bundles, c \in Content :
         /\ staged' = [e \in File |-> IF e \in b \ Sidecar THEN c ELSE None]
         /\ proc'[p].pc = "journal"
         /\ proc'[p].draft = [covered |-> b, originals |-> {e \in b : live[e] # None}]
         /\ \A q \in Process \ {p} : proc'[q] = proc[q]
    BY StageEffect
<1>3. PlacesInv' /\ Effective' = Effective
    BY <1>1 DEF PlacesInv, Effective
<1>4. Ready(proc[p].draft)'
  <2>1. \A e \in File : staged'[e] = IF e \in b THEN Fresh(e, c) ELSE None
      BY <1>2 DEF Fresh
  <2> QED
      BY <1>1, <1>2, <2>1 DEF Ready
<1> QED
    BY <1>1, <1>2, <1>3, <1>4, Assemble DEF Forward, Backward, Unmoved, Sharing

LEMMA PrepareStep ==
    ASSUME TypeOK, TypeOK', LockInv, FilesInv, NEW p \in Process, Prepare(p)
    PROVE  FilesInv' /\ Effective' = Effective
<1>1. /\ proc[p].pc = "journal" /\ proc[p].pc \in Exclusive /\ journal.state # "prepared"
      /\ Ready(proc[p].draft) /\ proc[p].draft \in Draft
      /\ UNCHANGED <<live, staged, old, failed>>
    BY DEF Prepare, places, At, Exclusive, Unmoved, FilesInv, JournalInv, StagedInv, TypeOK
<1>2. /\ proc'[p].pc = "aside" /\ proc'[p].at = 1
      /\ \A q \in Process \ {p} : proc'[q] = proc[q]
    BY GotoType, FileAssumption DEF Prepare, Pc, File
<1>3. /\ journal'.state = "prepared"
      /\ Covered' = proc[p].draft.covered /\ Originals' = proc[p].draft.originals
    BY DEF Prepare, Covered, Originals
<1>4. PICK c \in Content : \A e \in File :
         staged[e] = IF e \in Covered' THEN Fresh(e, c) ELSE None
    BY <1>1, <1>3 DEF Ready
<1>5. /\ Covered' \in Bundles /\ Covered' \subseteq File
      /\ Originals' = {e \in Covered' : live[e] # None}
      /\ old = NoFiles /\ failed = NoFiles
    BY <1>1, <1>3 DEF Ready, Draft
<1>6. /\ \A e \in File : old'[e] = None /\ failed'[e] = None
      /\ failed' = NoFiles
    BY <1>1, <1>5 DEF NoFiles
<1>7. PlacesInv'
    BY <1>1, <1>4, <1>5, <1>6 DEF PlacesInv
<1>8. Exchanging("aside", 1)'
  <2>1. \A e \in Covered' : ~(e < 1)
      BY <1>5, FileAssumption DEF File
  <2> QED
      BY <1>1, <1>4, <1>5, <1>6, <2>1 DEF Exchanging
<1>9. Exchanging(proc[p].pc, proc[p].at)'
    BY <1>2, <1>8 DEF Exchanging
<1>10. Effective' = Effective
    BY <1>1, <1>5, <1>6 DEF Effective
<1> QED
    BY <1>1, <1>2, <1>3, <1>7, <1>9, <1>10, Assemble DEF Forward, Backward, Unmoved, Sharing

LEMMA RolledBackStep ==
    ASSUME TypeOK, TypeOK', LockInv, FilesInv, NEW p \in Process, RolledBack(p)
    PROVE  FilesInv' /\ Effective' = Effective
<1>1. /\ proc[p].pc \in Exclusive /\ journal.state = "prepared" /\ proc[p].intent \in Intent
      /\ Covered \subseteq File /\ Restoring("closing", proc[p].at)
    BY WhenBackward DEF RolledBack, TypeOK
<1>2. journal'.state = "rolled_back" /\ UNCHANGED <<live, staged, old, failed>>
    BY DEF RolledBack, places, TypeOK
<1>3. PlacesInv'
    BY <1>2 DEF PlacesInv
<1>4. Effective' = Effective
    BY <1>1, <1>2 DEF Effective, Restoring
<1>5. CASE Release(p)
    BY <1>1, <1>3, <1>4, <1>5, ReleaseFiles
<1>6. CASE ~Release(p)
  <2>1. /\ proc'[p].pc \in {"staging", "migrating"}
        /\ \A q \in Process \ {p} : proc'[q] = proc[q]
      BY <1>1, <1>6, GoOnType DEF RolledBack
  <2> QED
      BY <1>1, <1>2, <1>3, <1>4, <2>1, Assemble DEF Forward, Backward, Unmoved, Sharing
<1> QED
    BY <1>5, <1>6

(* The commit is the one step at which a restore takes effect. *)
LEMMA CommitStep ==
    ASSUME TypeOK, LockInv, FilesInv, NEW p \in Process, Commit(p)
    PROVE  FilesInv' /\ LogsInv' /\ Store!Replace
<1>1. /\ proc[p].pc \in Exclusive /\ journal.state = "prepared"
      /\ Covered \subseteq File /\ Exchanging("commit", proc[p].at)
    BY WhenForward DEF Commit
<1>2. /\ journal'.state # "prepared" /\ UNCHANGED <<live, staged, old, failed>>
      /\ Release(p)
    BY DEF Commit, places, TypeOK
<1>3. FilesInv'
    BY <1>1, <1>2, ReleaseFiles DEF PlacesInv
<1>4. PICK c \in Content : \A e \in Covered : live[e] = Fresh(e, c)
    BY <1>1 DEF Exchanging
<1>5. \A e \in File : Effective'[e] = IF e \in Covered THEN Fresh(e, c) ELSE Effective[e]
    BY <1>1, <1>2, <1>4 DEF Effective
<1>6. Covered \in Bundles /\ Sidecar \subseteq Covered /\ 1 \in Covered
    BY <1>1, BundleAssumption DEF FilesInv, PlacesInv
<1>7. LogsInv'
    BY <1>1, <1>5, <1>6 DEF LogsInv, Fresh
<1>8. shared = {} /\ shared' = shared
    BY <1>1, <1>2, Alone, ReleaseType
<1>9. Effective' = [e \in Store!File |-> IF e \in Covered THEN Store!Generation(Covered, c)[e]
                                         ELSE Effective[e]]
  <2>1. Effective' = [e \in File |-> Effective'[e]]
      BY DEF Effective
  <2>2. \A e \in Covered : Store!Generation(Covered, c)[e] = Fresh(e, c)
      BY DEF Store!Generation, Fresh
  <2> QED
      BY <1>5, <2>1, <2>2 DEF Store!File, File
<1> QED
    BY <1>3, <1>6, <1>7, <1>8, <1>9 DEF Store!Replace

LEMMA DatabaseFirst == 1 \in File /\ 1 \notin Sidecar /\ Sidecar \subseteq File
    BY FileAssumption DEF File

LEMMA MigrateStep ==
    ASSUME TypeOK, LockInv, FilesInv, LogsInv, NEW p \in Process, Migrate(p)
    PROVE  FilesInv' /\ LogsInv' /\ Store!Open(p)
<1>1. /\ proc[p].pc \in Exclusive /\ journal.state # "prepared" /\ journal' = journal
      /\ shared' = shared \cup {p}
    BY DEF Migrate, At, Exclusive, Unmoved, FilesInv, JournalInv
<1>2. /\ proc'[p].pc \in Sharing
      /\ \A q \in Process \ {p} : proc'[q] = proc[q]
    BY DEF Migrate, TypeOK, Sharing
<1>3. FilesInv'
    BY <1>1, <1>2, Alone, NobodyMoves DEF PlacesInv
<1>4. Effective = live /\ Effective' = live'
  <2>1. live' \in [File -> Content \cup {None}]
      BY DatabaseFirst DEF Migrate, TypeOK
  <2> QED
      BY <1>1, <2>1 DEF Effective, TypeOK
<1>5. \/ live' = live
      \/ live[1] = None /\ \E c \in Content : live' = [live EXCEPT ![1] = c]
    BY DEF Migrate
<1>6. LogsInv'
    BY <1>4, <1>5, DatabaseFirst DEF LogsInv, TypeOK
<1>7. shared = {}
    BY <1>1, Alone
<1> QED
    BY <1>1, <1>3, <1>4, <1>5, <1>6, <1>7 DEF Store!Open

LEMMA ServeStep ==
    ASSUME TypeOK, LockInv, FilesInv, LogsInv, NEW p \in Process, Serve(p)
    PROVE  FilesInv' /\ LogsInv' /\ Store!Use
<1>1. PICK e \in File, c \in Content \cup {None} :
         /\ live[e] = None \/ e \in Sidecar
         /\ e \in Sidecar => c \in {None, live[1]}
         /\ live' = [live EXCEPT ![e] = c]
    BY DEF Serve
<1>2. UNCHANGED <<staged, old, failed, journal, exclusive, shared, proc>>
    BY DEF Serve
<1>3. p \in shared
    BY DEF Serve, At, LockInv, Sharing
<1>4. exclusive = None /\ journal.state # "prepared"
    BY <1>3, Calm DEF LockInv
<1>5. FilesInv'
    BY <1>2, <1>4, Calm, NobodyMoves DEF PlacesInv
<1>6. Effective = live /\ Effective' = live'
    BY <1>1, <1>2, <1>4 DEF Effective, TypeOK
<1>7. LogsInv'
    BY <1>1, <1>6, DatabaseFirst DEF LogsInv, TypeOK
<1>8. Store!Use
    BY <1>1, <1>2, <1>3, <1>6 DEF Store!Use, Store!File, File
<1> QED
    BY <1>5, <1>7, <1>8

LEMMA LogsKept ==
    ASSUME LogsInv, Effective' = Effective
    PROVE  LogsInv'
    BY DEF LogsInv

-----------------------------------------------------------------------------
(* The inductive invariant, and the abstract step of each step. *)

LEMMA InitInv == Init => IInv
<1> SUFFICES ASSUME Init PROVE IInv
    OBVIOUS
<1>1. TypeOK
    BY InitType
<1>2. \A p \in Process : proc[p].pc = "idle"
    BY DEF Init, Idle
<1>3. journal.state = "none" /\ exclusive = None /\ shared = {}
    BY DEF Init
<1>4. LockInv
    BY <1>2, <1>3, Labels DEF LockInv
<1>5. JournalInv /\ StagedInv /\ ForwardInv /\ BackwardInv
    BY <1>2 DEF JournalInv, StagedInv, ForwardInv, BackwardInv, Forward, Backward, Unmoved,
                Sharing, At
<1>6. PlacesInv
    BY <1>3 DEF PlacesInv
<1>7. LogsInv
    BY <1>3, DatabaseFirst DEF LogsInv, Effective, Init
<1> QED
    BY <1>1, <1>4, <1>5, <1>6, <1>7 DEF IInv

LEMMA InvStep ==
    ASSUME IInv, [Next]_vars
    PROVE  IInv' /\ [Store!Next]_(Store!store)
<1> USE DEF IInv
<1>0. TypeOK' /\ LockInv' /\ FilesInv
    BY TypeStep, LockStep DEF FilesInv
<1>s. ASSUME FilesInv', Effective' = Effective,
             shared' = shared \/ \E p \in Process : shared' \in {shared \cup {p}, shared \ {p}}
      PROVE  IInv' /\ [Store!Next]_(Store!store)
  <2>1. CASE shared' = shared
      BY <1>0, <1>s, <2>1, LogsKept DEF FilesInv, Store!store
  <2>2. ASSUME NEW p \in Process, shared' = shared \cup {p}
        PROVE  IInv' /\ [Store!Next]_(Store!store)
      BY <1>0, <1>s, <2>2, LogsKept DEF FilesInv, Store!Next, Store!Open
  <2>3. ASSUME NEW p \in Process, shared' = shared \ {p}
        PROVE  IInv' /\ [Store!Next]_(Store!store)
      BY <1>0, <1>s, <2>3, LogsKept DEF FilesInv, Store!Next, Store!Close
  <2> QED
      BY <1>s, <2>1, <2>2, <2>3
<1>1. CASE UNCHANGED vars
  <2>1. FilesInv'
      BY <1>0, <1>1, PlacesKept DEF vars, places, FilesInv, JournalInv, StagedInv, ForwardInv,
         BackwardInv, Ready, Exchanging, Restoring, At
  <2> QED
      BY <1>1, <1>s, <2>1, PlacesKept DEF vars, places
<1>2. ASSUME NEW p \in Process, Step(p)
      PROVE  IInv' /\ [Store!Next]_(Store!store)
  <2>1. CASE \E intent \in {"restore", "start", "recover"} : Lock(p, intent)
    <3>1. PICK intent \in Intent : Lock(p, intent)
        BY <2>1 DEF Intent
    <3> QED
        BY <1>0, <1>s, <3>1, LockFiles DEF Lock
  <2>2. CASE \E pc \in {"serving", "reading"} : Share(p, pc)
      BY <1>0, <1>s, <2>2, ShareFiles DEF Share
  <2>3. CASE Recover(p)
      BY <1>0, <1>s, <2>3, RecoverStep DEF Recover, GoOn, Release
  <2>4. CASE Migrate(p)
      BY <1>0, <2>4, MigrateStep DEF Store!Next, FilesInv
  <2>5. CASE Serve(p)
      BY <1>0, <2>5, ServeStep DEF Store!Next, FilesInv
  <2>6. CASE End(p)
      BY <1>0, <1>s, <2>6, EndStep DEF End, Release
  <2>7. CASE Stage(p)
      BY <1>0, <1>s, <2>7, StageStep DEF Stage
  <2>8. CASE Prepare(p)
      BY <1>0, <1>s, <2>8, PrepareStep DEF Prepare
  <2>9. CASE Aside(p)
      BY <1>0, <1>s, <2>9, AsideStep DEF Aside
  <2>10. CASE Install(p)
      BY <1>0, <1>s, <2>10, InstallStep DEF Install
  <2>11. CASE MoveFails(p)
      BY <1>0, <1>s, <2>11, MoveFailsStep DEF MoveFails
  <2>12. CASE Commit(p)
      BY <1>0, <2>12, CommitStep DEF Store!Next, FilesInv
  <2>13. CASE Discard(p)
      BY <1>0, <1>s, <2>13, DiscardStep DEF Discard
  <2>14. CASE PutBack(p)
      BY <1>0, <1>s, <2>14, PutBackStep DEF PutBack
  <2>15. CASE RolledBack(p)
      BY <1>0, <1>s, <2>15, RolledBackStep DEF RolledBack, GoOn, Release
  <2> QED
      BY <1>2, <2>1, <2>2, <2>3, <2>4, <2>5, <2>6, <2>7, <2>8, <2>9, <2>10,
         <2>11, <2>12, <2>13, <2>14, <2>15 DEF Step
<1> QED
    BY <1>1, <1>2 DEF Next, Step

(* For any number of files, backups and processes, a restore that is cut   *)
(* off anywhere keeps the invariant from which the rest follows.           *)
THEOREM Inductive == Spec => []IInv
<1>1. IInv /\ [Next]_vars => IInv'
    BY InvStep
<1> QED
    BY InitInv, <1>1, PTL DEF Spec

(* Who opens the files never finds half of a restore, nor the sidecar of   *)
(* another database: restore_apply and the start-up against the lock.      *)
THEOREM WholeGenerations == Spec => []OpensWholeGeneration
<1>1. IInv => OpensWholeGeneration
  <2> SUFFICES ASSUME IInv, shared # {} PROVE live = Effective /\ LogsInv
      BY DatabaseFirst DEF OpensWholeGeneration, LogsInv
  <2>1. journal.state # "prepared" /\ LogsInv
      BY Calm DEF IInv, FilesInv, LockInv
  <2> QED
      BY <2>1 DEF Effective, IInv, TypeOK
<1> QED
    BY Inductive, <1>1, PTL

(* No move of a restore or of a rollback ever meets a file at its          *)
(* destination: what _move refuses never happens.                          *)
THEOREM WayIsClear == Spec => []NothingInTheWay
<1>1. ASSUME IInv, NEW p \in Process
      PROVE  LET e == proc[p].at
             IN  /\ At(p, "aside") /\ e \in Covered /\ live[e] # None => old[e] = None
                 /\ At(p, "install") /\ staged[e] # None => live[e] = None
                 /\ At(p, "discard") /\ New(e) => failed[e] = None
                 /\ At(p, "putback") /\ e \in Covered /\ old[e] # None => live[e] = None
  <2> DEFINE e == proc[p].at
  <2>0. TypeOK /\ FilesInv /\ e \in File
      BY <1>1 DEF IInv, FilesInv, TypeOK
  <2>1. ASSUME At(p, "aside"), e \in Covered PROVE old[e] = None
    <3>1. Exchanging("aside", e) /\ e \in 1..N
        BY <2>0, <2>1, WhenForward
    <3> QED
        BY <2>1, <3>1 DEF Exchanging
  <2>2. ASSUME At(p, "install"), staged[e] # None PROVE live[e] = None
    <3>1. Exchanging("install", e) /\ e \in 1..N /\ journal.state = "prepared"
        BY <2>0, <2>2, WhenForward
    <3>2. e \in Covered
        BY <2>0, <2>2, <3>1 DEF FilesInv, PlacesInv
    <3> QED
        BY <3>1, <3>2 DEF Exchanging
  <2>3. ASSUME At(p, "discard"), New(e) PROVE failed[e] = None
      BY <2>0, <2>3, WhenBackward DEF FilesInv, PlacesInv
  <2>4. ASSUME At(p, "putback"), e \in Covered, old[e] # None PROVE live[e] = None
    <3>1. Restoring("putback", e) /\ journal.state = "prepared"
        BY <2>0, <2>4, WhenBackward
    <3> QED
        BY <2>0, <2>4, <3>1 DEF Restoring, FilesInv, PlacesInv
  <2> QED
      BY <2>1, <2>2, <2>3, <2>4
<1>2. IInv => NothingInTheWay
    BY <1>1 DEF NothingInTheWay
<1> QED
    BY Inductive, <1>2, PTL

(* Both at once, as the runs check them: no restore is ever seen by half,  *)
(* and none, nor its rollback, is ever stopped by a file in its way.       *)
THEOREM RestoresAreWhole == Spec => []RestoreIsWhole
<1> QED
    BY WholeGenerations, WayIsClear, PTL DEF RestoreIsWhole

(* restore_apply, the recovery and the lock together implement a store     *)
(* whose content changes all at once and only while nobody has it open.    *)
THEOREM RestoreIsAtomic == Spec => ImplementsStore
<1>1. Init => Store!Init
  <2> SUFFICES ASSUME Init PROVE Store!Init
      OBVIOUS
  <2>1. Effective = live
      BY DEF Effective, Init
  <2> QED
      BY <2>1 DEF Init, Store!Init, Store!File, File
<1>2. IInv /\ [Next]_vars => [Store!Next]_(Store!store)
    BY InvStep
<1> QED
    BY Inductive, <1>1, <1>2, PTL DEF Spec, ImplementsStore, Store!Spec
=============================================================================
