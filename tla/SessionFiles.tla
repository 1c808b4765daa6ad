---------------------------- MODULE SessionFiles ----------------------------
(* Received files and the messages they belong to: uploads over HTTP that   *)
(* hold SQLite's writer lock from the ownership check to the receipt, files *)
(* downloaded from the channel, messages that bind receipts, and sessions   *)
(* deleted with everything they own (storage/receipts.py,                   *)
(* storage/sessions.py, api/resources.py).                                  *)
EXTENDS Integers, FiniteSets

CONSTANTS
    Room,       \* sessions
    Upload,     \* received files, and their receipts
    Turn,       \* messages
    Workers     \* uploads received at a time (2)

ASSUME SessionFilesAssumption ==
    /\ Workers \in Nat \ {0}
    /\ "nobody" \notin Upload
    /\ {"none", "unbound"} \cap Turn = {}

VARIABLES
    owner,      \* the session each upload and each message is for
    carries,    \* the attachments each message is sent with
    rooms,      \* sessions that exist
    upload,     \* how far each upload is
    writer,     \* the upload that holds the writer lock
    stored,     \* the file on disk: absent, as received, or changed
    receipt,    \* none, unbound, or the message it is bound to
    turn        \* how far each message is

sessionVars == <<owner, carries, rooms, upload, writer, stored, receipt, turn>>
-----------------------------------------------------------------------------
Nobody == "nobody"

SessionFilesTypeOK ==
    /\ owner \in [Upload \cup Turn -> Room]
    /\ carries \in [Turn -> SUBSET Upload]
    /\ rooms \subseteq Room
    /\ upload \in [Upload -> {"new", "streaming", "owned", "created", "written", "downloaded",
                              "kept", "refused", "failed", "lost"}]
    /\ writer \in Upload \cup {Nobody}
    /\ stored \in [Upload -> {"absent", "intact", "changed"}]
    /\ receipt \in [Upload -> {"none", "unbound"} \cup Turn]
    /\ turn \in [Turn -> {"new", "verified", "sent", "read", "failed"}]

SessionFilesInit ==
    /\ owner \in [Upload \cup Turn -> Room]
    /\ carries \in [Turn -> SUBSET Upload]
    /\ rooms = Room
    /\ upload = [u \in Upload |-> "new"]
    /\ writer = Nobody
    /\ stored = [u \in Upload |-> "absent"]
    /\ receipt = [u \in Upload |-> "none"]
    /\ turn = [t \in Turn |-> "new"]
-----------------------------------------------------------------------------
Moves(u, s) == upload' = [upload EXCEPT ![u] = s]
Receiving(u) == upload[u] \in {"streaming", "owned", "created", "written"}

(* upload: the session is looked up before the body is received.            *)
StartUpload(u) ==
    /\ upload[u] = "new"
    /\ Cardinality({v \in Upload : Receiving(v)}) < Workers
    /\ Moves(u, IF owner[u] \in rooms THEN "streaming" ELSE "refused")
    /\ UNCHANGED <<owner, carries, rooms, writer, stored, receipt, turn>>

(* receive_bytes: the conditional update is the first statement of the      *)
(* transaction, so it takes the writer lock.                                *)
(* Fault: the session is only read. *)
FaultOwnSession(u) ==
    /\ upload[u] = "streaming"
    /\ Moves(u, IF owner[u] \in rooms THEN "owned" ELSE "refused")
    /\ UNCHANGED <<owner, carries, rooms, writer, stored, receipt, turn>>
OwnSession(u) ==
    /\ upload[u] = "streaming"
    /\ writer = Nobody
    /\ IF owner[u] \in rooms
       THEN Moves(u, "owned") /\ writer' = u
       ELSE Moves(u, "refused") /\ UNCHANGED writer
    /\ UNCHANGED <<owner, carries, rooms, stored, receipt, turn>>

(* The file is there, with nothing or a part of the body in it, before all  *)
(* of it is written.                                                        *)
CreateFile(u) ==
    /\ upload[u] = "owned"
    /\ Moves(u, "created")
    /\ stored' = [stored EXCEPT ![u] = "changed"]
    /\ UNCHANGED <<owner, carries, rooms, writer, receipt, turn>>

WriteFile(u) ==
    /\ upload[u] = "created"
    /\ Moves(u, "written")
    /\ stored' = [stored EXCEPT ![u] = IF @ = "absent" THEN "absent" ELSE "intact"]
    /\ UNCHANGED <<owner, carries, rooms, writer, receipt, turn>>

ReleaseUpload(u) == writer' = IF writer = u THEN Nobody ELSE writer

(* record and commit: the receipt is of the file as it is now, and the      *)
(* session is looked up once more.                                          *)
KeepFile(u) ==
    /\ upload[u] = "written"
    /\ stored[u] # "absent"
    /\ ReleaseUpload(u)
    /\ IF owner[u] \in rooms
       THEN /\ Moves(u, "kept")
            /\ receipt' = [receipt EXCEPT ![u] = "unbound"]
            /\ stored' = [stored EXCEPT ![u] = "intact"]
       ELSE /\ Moves(u, "refused")
            /\ UNCHANGED <<receipt, stored>>
    /\ UNCHANGED <<owner, carries, rooms, turn>>

(* A name that is not accepted, a connection that breaks, a body that is    *)
(* too large, a full disk, a file that cannot be read back, a commit that   *)
(* fails: what is on disk by then stays there, nothing unlinks it.          *)
FailUpload(u) ==
    /\ upload[u] = "new" \/ Receiving(u)
    /\ Moves(u, "failed")
    /\ ReleaseUpload(u)
    /\ UNCHANGED <<owner, carries, rooms, stored, receipt, turn>>
-----------------------------------------------------------------------------
(* _save_qq_file: a file that cannot be written leaves what was written.    *)
Download(u) ==
    /\ upload[u] = "new"
    /\ owner[u] \in rooms
    /\ \/ Moves(u, "downloaded") /\ stored' = [stored EXCEPT ![u] = "intact"]
       \/ /\ Moves(u, "failed")
          /\ \E s \in {"absent", "changed"} : stored' = [stored EXCEPT ![u] = s]
    /\ UNCHANGED <<owner, carries, rooms, writer, receipt, turn>>

(* record_attachment_message: the message and its receipt are one           *)
(* transaction. A name that is not accepted, a file or a session that is    *)
(* gone, or a writer that holds the lock for too long fails both, and the   *)
(* file stays.                                                              *)
RecordAttachment(u, t) ==
    /\ upload[u] = "downloaded"
    /\ turn[t] = "new"
    /\ carries[t] = {u}
    /\ owner[t] = owner[u]
    /\ \/ /\ writer = Nobody
          /\ owner[u] \in rooms
          /\ stored[u] # "absent"
          /\ Moves(u, "kept")
          /\ turn' = [turn EXCEPT ![t] = "sent"]
          /\ receipt' = [receipt EXCEPT ![u] = t]
          /\ stored' = [stored EXCEPT ![u] = "intact"]
       \/ /\ Moves(u, "failed")
          /\ turn' = [turn EXCEPT ![t] = "failed"]
          /\ UNCHANGED <<receipt, stored>>
    /\ UNCHANGED <<owner, carries, rooms, writer>>
-----------------------------------------------------------------------------
Turns(t, s) == turn' = [turn EXCEPT ![t] = s]

(* attachments.get: the receipt is of this session and the file is what was *)
(* received.                                                                *)
Verified(t, u) ==
    /\ receipt[u] # "none"
    /\ owner[u] = owner[t]
    /\ stored[u] = "intact"

(* _generate_reply looks at every attachment before it stores the message.  *)
VerifyAttachments(t) ==
    /\ turn[t] = "new"
    /\ Turns(t, IF owner[t] \in rooms /\ \A u \in carries[t] : Verified(t, u)
                THEN "verified" ELSE "failed")
    /\ UNCHANGED <<owner, carries, rooms, upload, writer, stored, receipt>>

(* bind.                                                                    *)
Binds(t, u) == Verified(t, u) /\ receipt[u] = "unbound"

(* add_message: the message and all its attachments, or nothing; a writer   *)
(* that holds the lock for too long fails it.                               *)
AddMessage(t) ==
    /\ turn[t] = "verified"
    /\ IF writer = Nobody /\ owner[t] \in rooms /\ \A u \in carries[t] : Binds(t, u)
       THEN /\ Turns(t, "sent")
            /\ receipt' = [u \in Upload |-> IF u \in carries[t] THEN t ELSE receipt[u]]
       ELSE /\ Turns(t, "failed")
            /\ UNCHANGED receipt
    /\ UNCHANGED <<owner, carries, rooms, upload, writer, stored>>

(* The attachments are verified again when the prompt is built.             *)
ReadAttachments(t) ==
    /\ turn[t] = "sent"
    /\ Turns(t, IF owner[t] \in rooms /\ \A u \in carries[t] : Verified(t, u)
                THEN "read" ELSE "failed")
    /\ UNCHANGED <<owner, carries, rooms, upload, writer, stored, receipt>>
-----------------------------------------------------------------------------
(* delete_session: messages and receipts go with it, their files stay.      *)
DeleteRoom(r) ==
    /\ r \in rooms
    /\ writer = Nobody
    /\ rooms' = rooms \ {r}
    /\ receipt' = [u \in Upload |-> IF owner[u] = r THEN "none" ELSE receipt[u]]
    /\ UNCHANGED <<owner, carries, upload, writer, stored, turn>>

(* Another program, or a tool, changes or removes a stored file.            *)
ChangeStored(u) ==
    /\ stored[u] # "absent"
    /\ \E s \in {"absent", "changed"} \ {stored[u]} : stored' = [stored EXCEPT ![u] = s]
    /\ UNCHANGED <<owner, carries, rooms, upload, writer, receipt, turn>>

(* Transactions that are not committed are rolled back.                     *)
CrashUploads ==
    /\ \E u \in Upload : Receiving(u) \/ upload[u] = "downloaded"
    /\ upload' = [u \in Upload |-> IF Receiving(u) \/ upload[u] = "downloaded"
                                   THEN "lost" ELSE upload[u]]
    /\ writer' = Nobody
    /\ turn' = [t \in Turn |-> IF turn[t] = "verified" THEN "failed" ELSE turn[t]]
    /\ UNCHANGED <<owner, carries, rooms, stored, receipt>>

SessionFilesNext ==
    \/ \E u \in Upload : \/ StartUpload(u) \/ OwnSession(u) \/ CreateFile(u) \/ WriteFile(u)
                         \/ KeepFile(u) \/ FailUpload(u) \/ Download(u) \/ ChangeStored(u)
                         \/ \E t \in Turn : RecordAttachment(u, t)
    \/ \E t \in Turn : VerifyAttachments(t) \/ AddMessage(t) \/ ReadAttachments(t)
    \/ \E r \in Room : DeleteRoom(r)
    \/ CrashUploads

SessionFilesSpec == SessionFilesInit /\ [][SessionFilesNext]_sessionVars
-----------------------------------------------------------------------------
(* Deleting a session while an upload for it runs cannot orphan an upload   *)
(* that would have succeeded (storage/receipts.py:105-107): one that is     *)
(* refused because its session is gone has left no file, and one that is    *)
(* kept has its receipt for as long as its session is there. A message that *)
(* is stored has every attachment it was sent with to itself. What a        *)
(* failure or a crash between the file and its receipt leaves on disk is    *)
(* not promised an owner: nothing in the code removes it.                   *)
FilesHaveOwners ==
    /\ \A u \in Upload :
          /\ upload[u] \in {"new", "streaming", "owned", "refused"} => stored[u] = "absent"
          /\ upload[u] = "kept" /\ owner[u] \in rooms => receipt[u] # "none"
    /\ \A t \in Turn :
          turn[t] \in {"sent", "read"} /\ owner[t] \in rooms =>
              \A u \in carries[t] : receipt[u] = t
    /\ \A u \in Upload :
          receipt[u] \in Turn => /\ owner[u] \in rooms
                                 /\ owner[u] = owner[receipt[u]]
                                 /\ u \in carries[receipt[u]]
=============================================================================
