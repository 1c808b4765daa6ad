----------------------------- MODULE FileTools -----------------------------
(* The tools that change or send files (tools/files.py): each is prepared   *)
(* for its approval, checked again when it is executed, and only then takes *)
(* effect; other programs and other tools use the same files in between.    *)
(* A file's state is a number: what its inode, size, mtime and digest tell  *)
(* apart. Directories and symbolic links are resolved before and left out.  *)
EXTENDS Integers, FiniteSets

CONSTANTS
    Tool,       \* calls of a tool
    ToolFile,       \* resolved paths
    MaxState    \* bound on the states files go through

ASSUME ToolFileAssumption ==
    /\ MaxState \in Nat \ {0}
    /\ IsFiniteSet(ToolFile)
    /\ Cardinality(ToolFile) <= MaxState

VARIABLES
    job,       \* what each call asks for
    phase,     \* how far it is
    approved,  \* the parameters its approval is bound to
    disk,      \* state of each file, 0 when there is none
    made,      \* states so far
    observed,      \* what the file it replaces or sends was at its last check
    trash,     \* states in the Trash, and the call that put it there
    replaced,  \* state overwritten, and by which call
    uploaded,  \* state sent to the owner, and by which call
    outside    \* states another program removed or overwrote

fileVars == <<job, phase, approved, disk, made, observed, trash, replaced, uploaded, outside>>
-----------------------------------------------------------------------------
Nothing == 0
Jobs == [what : {"create", "write", "delete", "send"}, from : ToolFile, to : {"-"}, over : {FALSE}]
            \cup [what : {"move"}, from : ToolFile, to : ToolFile, over : BOOLEAN]
Unprepared == [from |-> Nothing, to |-> Nothing]

(* The file whose content the call replaces, removes or sends.              *)
Target(t) == IF job[t].what = "move" THEN job[t].to ELSE job[t].from
(* The state of that file the approval names.                               *)
ApprovedState(t) == IF job[t].what = "move" THEN approved[t].to ELSE approved[t].from

FilesTypeOK ==
    /\ job \in [Tool -> Jobs]
    /\ phase \in [Tool -> {"new", "prepared", "checked", "done", "failed"}]
    /\ approved \in [Tool -> [from : 0..MaxState, to : 0..MaxState]]
    /\ disk \in [ToolFile -> 0..made]
    /\ made \in 0..MaxState
    /\ observed \in [Tool -> 0..MaxState]
    /\ trash \subseteq (1..made) \X Tool
    /\ outside \subseteq 1..made
    /\ replaced \subseteq (1..made) \X Tool
    /\ uploaded \subseteq (1..made) \X Tool

FilesInit ==
    /\ job \in [Tool -> Jobs]
    /\ phase = [t \in Tool |-> "new"]
    /\ approved = [t \in Tool |-> Unprepared]
    /\ made = Cardinality(ToolFile)
    /\ disk \in {d \in [ToolFile -> 0..Cardinality(ToolFile)] :
                    \A p, q \in ToolFile : d[p] = d[q] => p = q \/ d[p] = Nothing}
    /\ observed = [t \in Tool |-> Nothing]
    /\ trash = {}
    /\ replaced = {}
    /\ uploaded = {}
    /\ outside = (1..made) \ {disk[p] : p \in ToolFile}
-----------------------------------------------------------------------------
Reached(t, s) == phase' = [phase EXCEPT ![t] = s]

(* What approval_metadata refuses. A new file may be there already: that is *)
(* part of what the owner approves.                                         *)
MovePrepares(j) ==
    /\ disk[j.from] # Nothing
    /\ j.from # j.to
    /\ disk[j.to] # Nothing => j.over
Prepares(j) ==
    CASE j.what = "move" -> MovePrepares(j)
      [] j.what = "create" -> TRUE
      [] OTHER -> disk[j.from] # Nothing

(* approval_metadata: the fingerprints become parameters of the call.       *)
PrepareDelete(t) ==
    /\ phase[t] = "new"
    /\ IF Prepares(job[t])
       THEN /\ approved' = [approved EXCEPT ![t] =
                               [from |-> disk[job[t].from],
                                to |-> IF job[t].what = "move" THEN disk[job[t].to] ELSE Nothing]]
            /\ Reached(t, "prepared")
       ELSE /\ Reached(t, "failed")
            /\ UNCHANGED approved
    /\ UNCHANGED <<job, disk, made, observed, trash, replaced, uploaded, outside>>

(* The conditions of execute. A move is prepared again first, with the      *)
(* approved fingerprints kept.                                              *)
(* Fault: the destination is only checked for existence. *)
FaultMoveHolds(t) ==
    /\ MovePrepares(job[t])
    /\ disk[job[t].from] = approved[t].from
    /\ (disk[job[t].to] = Nothing) = (approved[t].to = Nothing)
MoveHolds(t) ==
    /\ MovePrepares(job[t])
    /\ disk[job[t].from] = approved[t].from
    /\ disk[job[t].to] = approved[t].to
CreateHolds(t) ==
    /\ disk[job[t].from] = Nothing
    /\ approved[t].from = Nothing
Unchanged(t) ==
    /\ disk[job[t].from] # Nothing
    /\ disk[job[t].from] = approved[t].from
Holds(t) ==
    CASE job[t].what = "move" -> MoveHolds(t)
      [] job[t].what = "create" -> CreateHolds(t)
      [] OTHER -> Unchanged(t)

Check(t) ==
    /\ phase[t] = "prepared"
    /\ Reached(t, IF Holds(t) THEN "checked" ELSE "failed")
    /\ observed' = [observed EXCEPT ![t] = disk[Target(t)]]
    /\ UNCHANGED <<job, approved, disk, made, trash, replaced, uploaded, outside>>
-----------------------------------------------------------------------------
Overwritten(t, p) == replaced' = replaced \cup (IF disk[p] = Nothing THEN {} ELSE {<<disk[p], t>>})

(* write_text of FileCreateTool and FileWriteTool: truncates what is there  *)
(* now, and creates the file when it is gone.                               *)
WriteText(t) ==
    /\ phase[t] = "checked"
    /\ job[t].what \in {"create", "write"}
    /\ made < MaxState
    /\ made' = made + 1
    /\ disk' = [disk EXCEPT ![job[t].from] = made']
    /\ Overwritten(t, job[t].from)
    /\ Reached(t, "done")
    /\ UNCHANGED <<job, approved, observed, trash, uploaded, outside>>

(* shutil.move within a volume: a rename.                                   *)
MoveFile(t) ==
    /\ phase[t] = "checked"
    /\ job[t].what = "move"
    /\ IF disk[job[t].from] = Nothing
       THEN /\ Reached(t, "failed")
            /\ UNCHANGED <<disk, replaced>>
       ELSE /\ disk' = [disk EXCEPT ![job[t].to] = disk[job[t].from], ![job[t].from] = Nothing]
            /\ Overwritten(t, job[t].to)
            /\ Reached(t, "done")
    /\ UNCHANGED <<job, approved, made, observed, trash, uploaded, outside>>

(* _move_to_trash_via_finder; a Finder that answers too late may have moved *)
(* the file all the same.                                                   *)
Trash(t) ==
    /\ disk' = [disk EXCEPT ![job[t].from] = Nothing]
    /\ trash' = trash \cup {<<disk[job[t].from], t>>}
DeleteFile(t) ==
    /\ phase[t] = "checked"
    /\ job[t].what = "delete"
    /\ \/ /\ disk[job[t].from] # Nothing
          /\ Trash(t)
          /\ \E s \in {"done", "failed"} : Reached(t, s)
       \/ /\ Reached(t, "failed")
          /\ UNCHANGED <<disk, trash>>
    /\ UNCHANGED <<job, approved, made, observed, replaced, uploaded, outside>>

(* ChannelFileSendTool: the upload reads the path again, and one that fails *)
(* may have arrived.                                                        *)
SendFile(t) ==
    /\ phase[t] = "checked"
    /\ job[t].what = "send"
    /\ \/ /\ disk[job[t].from] # Nothing
          /\ uploaded' = uploaded \cup {<<disk[job[t].from], t>>}
          /\ \E s \in {"done", "failed"} : Reached(t, s)
       \/ /\ Reached(t, "failed")
          /\ UNCHANGED uploaded
    /\ UNCHANGED <<job, approved, disk, made, observed, trash, replaced, outside>>

(* Another program writes or removes a file.                                *)
ChangeOutside(p) ==
    /\ \/ /\ made < MaxState
          /\ made' = made + 1
          /\ disk' = [disk EXCEPT ![p] = made']
       \/ /\ disk[p] # Nothing
          /\ disk' = [disk EXCEPT ![p] = Nothing]
          /\ UNCHANGED made
    /\ outside' = outside \cup ({disk[p]} \ {Nothing})
    /\ UNCHANGED <<job, phase, approved, observed, trash, replaced, uploaded>>

FilesNext ==
    \/ \E t \in Tool : \/ PrepareDelete(t) \/ Check(t) \/ WriteText(t) \/ MoveFile(t)
                       \/ DeleteFile(t) \/ SendFile(t)
    \/ \E p \in ToolFile : ChangeOutside(p)

FilesSpec == FilesInit /\ [][FilesNext]_fileVars
-----------------------------------------------------------------------------
(* What a call replaced, trashed or sent is what was approved, unless it    *)
(* was put there after the last check; and what ever was a file is still on *)
(* disk, in the Trash, or was overwritten by someone: a tool never removes  *)
(* content for good (tools/files.py:4-5).                                   *)
ApprovedOrNewer(pairs) ==
    \A pair \in pairs : \/ pair[1] = ApprovedState(pair[2])
                        \/ pair[1] # observed[pair[2]]
OnlyApprovedContent ==
    /\ ApprovedOrNewer(replaced)
    /\ ApprovedOrNewer(uploaded)
    /\ ApprovedOrNewer(trash)
    /\ 1..made \subseteq {disk[p] : p \in ToolFile} \cup outside
                              \cup {pair[1] : pair \in trash \cup replaced}
=============================================================================
