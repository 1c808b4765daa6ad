------------------------------ MODULE AtomicStore ------------------------------
(***************************************************************************)
(* What a restore promises (docs/ADR/0005): the managed files, the         *)
(* database first, change all at once from the old generation to the new   *)
(* one or not at all, and never while a process has them open.             *)
(***************************************************************************)
EXTENDS Naturals

CONSTANTS
    N,          \* the managed files are numbered 1..N; the database is 1
    Sidecar,    \* the database's -wal and -shm
    Bundles,    \* the sets of files a backup may cover
    Content, Process, None

VARIABLES
    content,    \* [file -> content, None while it does not exist]
    users       \* processes that have the files open

store == <<content, users>>

File == 1..N

(* The files of a generation: no sidecar is ever part of a backup. *)
Generation(bundle, c) == [e \in bundle |-> IF e \in Sidecar THEN None ELSE c]

Init ==
    /\ content \in [File -> Content \cup {None}]
    /\ users = {}

Replace ==
    /\ users = {}
    /\ \E bundle \in Bundles, c \in Content :
          content' = [e \in File |-> IF e \in bundle THEN Generation(bundle, c)[e]
                                     ELSE content[e]]
    /\ UNCHANGED users

(* A start-up without a database makes one before it serves. *)
Open(p) ==
    /\ users' = users \cup {p}
    /\ \/ UNCHANGED content
       \/ /\ users = {} /\ content[1] = None
          /\ \E c \in Content : content' = [content EXCEPT ![1] = c]

(* A user creates files that do not exist yet; sidecars come and go. *)
Use ==
    /\ users # {}
    /\ \E e \in File, c \in Content \cup {None} :
          /\ content[e] = None \/ e \in Sidecar
          /\ content' = [content EXCEPT ![e] = c]
    /\ UNCHANGED users

Close(p) == users' = users \ {p} /\ UNCHANGED content

Next ==
    \/ Replace \/ Use
    \/ \E p \in Process : Open(p) \/ Close(p)

Spec == Init /\ [][Next]_store
=============================================================================
