---------------------------- MODULE Personality ----------------------------
(* Characters, the Persona, prompt profiles and lorebooks with their        *)
(* revisions (personality/store.py), and the traces generations leave       *)
(* (PromptCompiler.compile). The operations are handlers of one event loop  *)
(* without awaits: each is a step; a generation is cut by awaits. Every     *)
(* edit brings a text of its own; Default is the character of the set-up.   *)
EXTENDS Integers, Sequences, FiniteSets, SequencesExt

CONSTANTS
    Character,   \* characters that may exist
    Default,     \* the default one
    Lorebook,    \* lorebooks that may exist
    Chat,        \* sessions
    MaxEdits,    \* bound on the edits
    MaxTraces    \* bound on the generations

ASSUME PersonalityAssumption ==
    /\ Default \in Character
    /\ "none" \notin Character
    /\ {MaxEdits, MaxTraces} \subseteq Nat

VARIABLES
    edits,     \* edits so far
    cards,     \* revisions of every character
    active,    \* the revision in use
    archived,  \* archived characters
    blocks,    \* revisions of every prompt profile
    profile,   \* the profile in use: revision and text
    selves,    \* revisions of the Persona
    self,      \* the Persona in use
    books,     \* revisions of every lorebook
    book,      \* the lorebook in use
    shelved,   \* archived lorebooks
    attached,  \* lorebooks of characters
    identity,  \* character of a session
    generating,      \* generation of a session
    traces     \* traces, each with the texts that went into the prompt

editVars == <<edits, cards, active, archived, blocks, profile, selves, self, books, book,
              shelved, attached>>
personVars == <<editVars, identity, generating, traces>>
-----------------------------------------------------------------------------
Absent == 0
NoChat == "none"
Row == [revision : Nat, text : Nat]
First(text) == [revision |-> 1, text |-> text]
Exists(c) == cards[c] # <<>>

PersonalityTypeOK ==
    /\ edits \in 0..MaxEdits
    /\ cards \in [Character -> Seq(0..MaxEdits)]
    /\ active \in [Character -> Nat]
    /\ \A c \in Character : active[c] \in 0..Len(cards[c])
    /\ archived \subseteq {c \in Character : Exists(c)}
    /\ blocks \in [Character -> Seq(0..MaxEdits)]
    /\ profile \in [Character -> Row]
    /\ selves \in Seq(0..MaxEdits)
    /\ self \in Row
    /\ books \in [Lorebook -> Seq(0..MaxEdits)]
    /\ book \in [Lorebook -> Row]
    /\ shelved \subseteq Lorebook
    /\ attached \subseteq Character \X Lorebook
    /\ identity \in [Chat -> Character \cup {NoChat}]
    /\ generating \in [Chat -> [at : {"idle", "recalling", "answering"}, trace : 0..Len(traces)]]
    /\ Len(traces) <= MaxTraces

PersonalityInit ==
    /\ edits = 0
    /\ cards = [c \in Character |-> IF c = Default THEN <<0>> ELSE <<>>]
    /\ active = [c \in Character |-> IF c = Default THEN 1 ELSE Absent]
    /\ archived = {}
    /\ blocks = [c \in Character |-> IF c = Default THEN <<0>> ELSE <<>>]
    /\ profile = [c \in Character |-> IF c = Default THEN First(0)
                                      ELSE [revision |-> Absent, text |-> 0]]
    /\ selves = <<0>>
    /\ self = First(0)
    /\ books = [b \in Lorebook |-> <<>>]
    /\ book = [b \in Lorebook |-> [revision |-> Absent, text |-> 0]]
    /\ shelved = {}
    /\ attached = {}
    /\ identity = [s \in Chat |-> NoChat]
    /\ generating = [s \in Chat |-> [at |-> "idle", trace |-> Absent]]
    /\ traces = <<>>
-----------------------------------------------------------------------------
Edit ==
    /\ edits < MaxEdits
    /\ edits' = edits + 1
    /\ UNCHANGED <<identity, generating, traces>>

CreateCharacter(c) ==
    /\ ~Exists(c)
    /\ Edit
    /\ cards' = [cards EXCEPT ![c] = <<edits'>>]
    /\ active' = [active EXCEPT ![c] = 1]
    /\ blocks' = [blocks EXCEPT ![c] = <<0>>]
    /\ profile' = [profile EXCEPT ![c] = First(0)]
    /\ UNCHANGED <<archived, selves, self, books, book, shelved, attached>>

(* Revisions are numbered after the highest one there is.                   *)
UpdateCharacter(c) ==
    /\ Exists(c)
    /\ Edit
    /\ cards' = [cards EXCEPT ![c] = Append(@, edits')]
    /\ active' = [active EXCEPT ![c] = Len(cards'[c])]
    /\ UNCHANGED <<archived, blocks, profile, selves, self, books, book, shelved, attached>>

(* An old revision of a character is used again as it is.                   *)
RestoreCharacterRevision(c, n) ==
    /\ n \in DOMAIN cards[c]
    /\ Edit
    /\ active' = [active EXCEPT ![c] = n]
    /\ UNCHANGED <<cards, archived, blocks, profile, selves, self, books, book, shelved,
                   attached>>

ArchiveCharacter(c) ==
    /\ Exists(c)
    /\ c # Default
    /\ Edit
    /\ archived' = archived \cup {c}
    /\ UNCHANGED <<cards, active, blocks, profile, selves, self, books, book, shelved, attached>>
-----------------------------------------------------------------------------
(* The others append what they restore: the row counts its revisions.       *)
Revised(row, text) == [revision |-> row.revision + 1, text |-> text]
(* Fault: a restored profile takes up the number of its revision again. *)
FaultWithBlocks(c, text) ==
    IF \E n \in DOMAIN blocks[c] : blocks[c][n] = text
    THEN /\ profile' = [profile EXCEPT ![c] = [revision |-> SelectInSeq(blocks[c],
                                                   LAMBDA t : t = text), text |-> text]]
         /\ UNCHANGED blocks
    ELSE /\ profile' = [profile EXCEPT ![c] = Revised(@, text)]
         /\ blocks' = [blocks EXCEPT ![c] = Append(@, text)]
WithBlocks(c, text) ==
    /\ profile' = [profile EXCEPT ![c] = Revised(@, text)]
    /\ blocks' = [blocks EXCEPT ![c] = Append(@, text)]

UpdatePromptProfile(c) ==
    /\ Exists(c)
    /\ Edit
    /\ WithBlocks(c, edits')
    /\ UNCHANGED <<cards, active, archived, selves, self, books, book, shelved, attached>>

RestorePromptRevision(c, n) ==
    /\ n \in DOMAIN blocks[c]
    /\ Edit
    /\ WithBlocks(c, blocks[c][n])
    /\ UNCHANGED <<cards, active, archived, selves, self, books, book, shelved, attached>>

WithSelf(text) ==
    /\ self' = Revised(self, text)
    /\ selves' = Append(selves, text)
    /\ UNCHANGED <<cards, active, archived, blocks, profile, books, book, shelved, attached>>

UpdatePersona == Edit /\ WithSelf(edits')
RestorePersonaRevision(n) == n \in DOMAIN selves /\ Edit /\ WithSelf(selves[n])

(* create_lorebook and, for an import, attach_lorebook: two transactions    *)
(* that a crash may separate. A book may also be for everyone.              *)
CreateLorebook(b, owner) ==
    /\ books[b] = <<>>
    /\ Edit
    /\ books' = [books EXCEPT ![b] = <<edits'>>]
    /\ book' = [book EXCEPT ![b] = First(edits')]
    /\ attached' \in {attached, attached \cup {<<owner, b>>}, attached \cup (Character \X {b})}
    /\ UNCHANGED <<cards, active, archived, blocks, profile, selves, self, shelved>>

WithBook(b, text) ==
    /\ book' = [book EXCEPT ![b] = Revised(@, text)]
    /\ books' = [books EXCEPT ![b] = Append(@, text)]
    /\ UNCHANGED <<cards, active, archived, blocks, profile, selves, self, shelved, attached>>

UpdateLorebook(b) == books[b] # <<>> /\ Edit /\ WithBook(b, edits')
RestoreLorebookRevision(b, n) == n \in DOMAIN books[b] /\ Edit /\ WithBook(b, books[b][n])

ArchiveLorebook(b) ==
    /\ books[b] # <<>>
    /\ Edit
    /\ shelved' = shelved \cup {b}
    /\ UNCHANGED <<cards, active, archived, blocks, profile, selves, self, books, book, attached>>
-----------------------------------------------------------------------------
Generates(s, at, n) == generating' = [generating EXCEPT ![s] = [at |-> at, trace |-> n]]

(* A session is bound to its character when it is created.                  *)
NewSession(s, c) ==
    /\ identity[s] = NoChat
    /\ Exists(c)
    /\ identity' = [identity EXCEPT ![s] = c]
    /\ UNCHANGED <<editVars, generating, traces>>

(* compile_async: memories are fetched first, and edits may come meanwhile. *)
StartGeneration(s) ==
    /\ identity[s] # NoChat
    /\ generating[s].at = "idle"
    /\ Len(traces) < MaxTraces
    /\ Generates(s, "recalling", Absent)
    /\ UNCHANGED <<editVars, identity, traces>>

ActiveLorebooks(c) == {b \in Lorebook : <<c, b>> \in attached /\ b \notin shelved}

(* The rest reads everything at one moment, and keeps a trace of it.        *)
Compile(s) ==
    LET c == identity[s] IN
    /\ generating[s].at = "recalling"
    /\ Len(traces) < MaxTraces
    /\ traces' = Append(traces,
          [chat |-> s, character |-> c, card |-> active[c], prompt |-> profile[c].revision,
           message |-> FALSE,
           used |-> [card |-> cards[c][active[c]], blocks |-> profile[c].text,
                     self |-> self.text,
                     lore |-> {<<b, book[b].text>> : b \in ActiveLorebooks(c)}]])
    /\ Generates(s, "answering", Len(traces'))
    /\ UNCHANGED <<editVars, identity>>

(* bind_trace_message, after the reply is stored.                           *)
KeepReply(s) ==
    /\ generating[s].at = "answering"
    /\ traces' = [traces EXCEPT ![generating[s].trace].message = TRUE]
    /\ Generates(s, "idle", Absent)
    /\ UNCHANGED <<editVars, identity>>

(* The model fails, the owner cancels, or the process stops.                *)
FailGeneration(s) ==
    /\ generating[s].at # "idle"
    /\ Generates(s, "idle", Absent)
    /\ UNCHANGED <<editVars, identity, traces>>

PersonalityNext ==
    \/ \E c \in Character :
          \/ CreateCharacter(c) \/ UpdateCharacter(c) \/ ArchiveCharacter(c)
          \/ UpdatePromptProfile(c)
          \/ \E n \in 1..(MaxEdits + 1) : RestoreCharacterRevision(c, n)
                                          \/ RestorePromptRevision(c, n)
    \/ UpdatePersona
    \/ \E n \in 1..(MaxEdits + 1) : RestorePersonaRevision(n)
    \/ \E b \in Lorebook :
          \/ \E c \in {x \in Character : Exists(x)} : CreateLorebook(b, c)
          \/ UpdateLorebook(b) \/ ArchiveLorebook(b)
          \/ \E n \in 1..(MaxEdits + 1) : RestoreLorebookRevision(b, n)
    \/ \E s \in Chat :
          \/ \E c \in Character : NewSession(s, c)
          \/ StartGeneration(s) \/ Compile(s) \/ KeepReply(s) \/ FailGeneration(s)

PersonalitySpec == PersonalityInit /\ [][PersonalityNext]_personVars
-----------------------------------------------------------------------------
(* The revisions a trace names are, at any later time, those its prompt was *)
(* made from: no edit, restore or archiving in between, before or after the *)
(* generation, gives a number a second meaning, and a row in use is always  *)
(* one of its revisions (docs/contracts/personality-prompt.md:6-8).         *)
TracesTellWhatWasUsed ==
    /\ \A n \in DOMAIN traces :
          LET t == traces[n] IN
          /\ t.card \in DOMAIN cards[t.character]
          /\ cards[t.character][t.card] = t.used.card
          /\ t.prompt \in DOMAIN blocks[t.character]
          /\ blocks[t.character][t.prompt] = t.used.blocks
          /\ \E r \in DOMAIN selves : selves[r] = t.used.self
          /\ \A entry \in t.used.lore :
                \E r \in DOMAIN books[entry[1]] : books[entry[1]][r] = entry[2]
    /\ self = [revision |-> Len(selves), text |-> Last(selves)]
    /\ \A c \in Character : Exists(c) => profile[c].text = blocks[c][profile[c].revision]
    /\ \A b \in Lorebook : books[b] # <<>> => book[b].text = books[b][book[b].revision]
=============================================================================
