-------------------------- MODULE MemoryGovernance --------------------------
(* Durable memory (memory/memory-governance.ts, memory/md-memory-store.ts).   *)
(* A decision is staged in the index database, journaled, written to the      *)
(* memory's Markdown file, indexed, and unstaged: five steps under a lock     *)
(* that every process takes, any of which may be the last of a process.  The  *)
(* files belong to the owner, who edits, moves, breaks and deletes them       *)
(* without asking for the lock.                                               *)
(*                                                                            *)
(* A file is what its front matter and text say: `body` the summary and       *)
(* content, `meta` the sensitivity (and with it type and confidence, which    *)
(* are treated alike).                                                        *)
EXTENDS Options

CONSTANTS
  Memories,      \* ids of memories
  Bodies,        \* texts
  Personal,      \* the texts redactMemoryPii finds something in
  Candidates,    \* mined candidates, all proposed
  MaxMutations,  \* bound on the mutations that are staged
  MaxEdits,      \* bound on the edits of the owner
  MaxHalts       \* bound on the processes that die

ASSUME GovernanceAssumption == MaxMutations \in Nat /\ MaxEdits \in Nat /\ MaxHalts \in Nat

VARIABLES
  files,     \* files[m][s]: the file of m in the directory of status s
  rows,      \* rows[m]: the row of m in the index
  staged,    \* the row of memory_mutations, if there is one
  phase,     \* where the holder of the lock is
  cause,     \* what the holder is about to journal
  recorded,  \* the staged mutation is named by a decision of the journal
  waived,    \* ... and by a memory.mutation.discarded
  verdicts,  \* verdicts[c]: what the journal says was decided of candidate c
  ruled,     \* ruled[m]: the row the journaled decisions amount to (history)
  raced,     \* the owner edited the memory after its files were checked (history)
  spent      \* what was used of the bounds

governanceVars == <<files, rows, staged, phase, cause, recorded, waived,
                    verdicts, ruled, raced, spent>>

Statuses == {"active", "archived"}
Metas == {"private", "secret"}
Broken == "broken"        \* a file parseMemoryFile makes nothing of
Redacted == "redacted"    \* what redactMemoryPii leaves of a personal text
Texts == Bodies \cup {Redacted}
File == [body : Texts \cup {Broken}, meta : Metas]
Row == [body : Texts, meta : Metas, status : Statuses]

Mutation == [memory : Memories, entry : Row, from : Statuses,
             source : Optional(File), target : Optional(File)]

GovernanceTypeOK ==
  /\ files \in [Memories -> [Statuses -> Optional(File)]]
  /\ rows \in [Memories -> Optional(Row)] /\ ruled \in [Memories -> Optional(Row)]
  /\ AtMostOne(staged, Mutation)
  /\ phase \in {"free", "staged", "recorded", "writing", "indexing", "unlinking",
                "unstaging", "waived"}
  /\ cause \subseteq Candidates
  /\ {recorded, waived, raced} \subseteq BOOLEAN
  /\ verdicts \in [Candidates -> SUBSET {"promoted", "rejected"}]
  /\ spent \in [mutations : 0 .. MaxMutations, edits : 0 .. MaxEdits, halts : 0 .. MaxHalts]

GovernanceInit ==
  /\ files = [m \in Memories |-> [s \in Statuses |-> {}]]
  /\ rows = [m \in Memories |-> {}]
  /\ ruled = [m \in Memories |-> {}]
  /\ staged = {} /\ cause = {}
  /\ phase = "free"
  /\ recorded = FALSE /\ waived = FALSE /\ raced = FALSE
  /\ verdicts = [c \in Candidates |-> {}]
  /\ spent = [mutations |-> 0, edits |-> 0, halts |-> 0]

Spend(what) == spent' = [spent EXCEPT ![what] = @ + 1]

\* renderMemoryFile, parseMemoryFile
Render(row) == {[body |-> row.body, meta |-> row.meta]}
Parsed(file) == {f \in file : f.body # Broken}

-----------------------------------------------------------------------------
\* stageMutation refuses when the file is not what the index says it is, or
\* when another file is in the way of a move; a fold of the owner's own edits
\* is not refused.
Stageable(m, entry, acceptFileEdit) ==
  LET from == IF rows[m] = {} THEN entry.status ELSE The(rows[m]).status IN
  acceptFileEdit \/
    /\ rows[m] # {} => Parsed(files[m][from]) = Render(The(rows[m]))
    /\ (from # entry.status /\ files[m][entry.status] # {})
          => files[m][entry.status] = Render(entry)

\* applyRecorded, first step.  Every operation recovers before anything else:
\* nothing is staged when it begins.
Stage(m, entry, acceptFileEdit, why) ==
  /\ phase = "free" /\ staged = {}
  /\ spent.mutations < MaxMutations /\ Spend("mutations")
  /\ Stageable(m, entry, acceptFileEdit)
  /\ LET from == IF rows[m] = {} THEN entry.status ELSE The(rows[m]).status IN
     staged' = {[memory |-> m, entry |-> entry, from |-> from,
                 source |-> files[m][from], target |-> files[m][entry.status]]}
  /\ phase' = "staged"
  /\ cause' = why
  /\ UNCHANGED <<files, rows, recorded, waived, verdicts, ruled, raced>>

Fresh(m) == rows[m] = {} /\ \A s \in Statuses : files[m][s] = {}
Changed(m, body, meta, status) == [body |-> body, meta |-> meta, status |-> status]
Redact(body) == IF body \in Personal THEN Redacted ELSE body

\* promote: pending, not the text of an active memory, redacted and secret when
\* it is personal.
Promote(c, m, body, meta) ==
  /\ verdicts[c] = {}
  /\ Fresh(m)
  /\ \A n \in Memories : \A row \in rows[n] : row.status = "active" => row.body # body
  /\ Stage(m, Changed(m, Redact(body), IF body \in Personal THEN "secret" ELSE meta, "active"),
           FALSE, {c})

Author(m, body, meta) == Fresh(m) /\ Stage(m, Changed(m, body, meta, "active"), FALSE, {})

\* update, archive, restore, expireDue and archiveIdle (for the active ones).
Update(m, body, meta) ==
  \E row \in rows[m] : Stage(m, Changed(m, body, meta, row.status), FALSE, {})
SetStatus(m, status) ==
  \E row \in rows[m] : Stage(m, Changed(m, row.body, row.meta, status), FALSE, {})

\* syncFromFiles: a file the index does not know, a file whose text or place
\* differs from its row, and an active row that has no (readable) file.
Differs(m) == {s \in Statuses : \E file \in Parsed(files[m][s]) :
                 \A row \in rows[m] : row.body # file.body \/ row.status # s}
Vanished(m) == /\ \A s \in Statuses : Parsed(files[m][s]) = {}
               /\ \E row \in rows[m] : row.status = "active"
Sync(m) ==
  \/ \E s \in Differs(m) : \E file \in files[m][s] :
       Stage(m, Changed(m, file.body, file.meta, s), TRUE, {})
  \/ /\ Vanished(m)
     /\ \E row \in rows[m] : Stage(m, [row EXCEPT !.status = "archived"], TRUE, {})

\* reject: one append.
Reject(c) ==
  /\ phase = "free" /\ staged = {}
  /\ verdicts[c] = {}
  /\ verdicts' = [verdicts EXCEPT ![c] = {"rejected"}]
  /\ UNCHANGED <<files, rows, staged, phase, cause, recorded, waived, ruled, raced, spent>>

-----------------------------------------------------------------------------
Here == The(staged)
SameFiles == /\ files[Here.memory][Here.from] = Here.source
             /\ files[Here.memory][Here.entry.status] = Here.target

\* The decision enters the journal, and with it the candidate's verdict.
Record ==
  /\ phase = "staged"
  /\ recorded' = TRUE
  /\ verdicts' = [c \in Candidates |-> verdicts[c] \cup IF c \in cause THEN {"promoted"} ELSE {}]
  /\ ruled' = [ruled EXCEPT ![Here.memory] = {Here.entry}]
  /\ phase' = "recorded"
  /\ UNCHANGED <<files, rows, staged, cause, waived, raced, spent>>

\* applyMutation compares the files with what was staged; a mutation that was
\* written before the process died is recognised by its target.
AlreadyWritten ==
  /\ files[Here.memory][Here.entry.status] = Render(Here.entry)
  /\ \/ Here.from = Here.entry.status
     \/ files[Here.memory][Here.from] \in {Here.source, {}}

Check ==
  /\ phase = "recorded"
  /\ phase' = IF SameFiles \/ AlreadyWritten THEN "writing" ELSE "free"
  /\ raced' = FALSE
  /\ UNCHANGED <<files, rows, staged, cause, recorded, waived, verdicts, ruled, spent>>

\* writeEntry: rename over the target, one transaction, unlink of the source.
Rename ==
  /\ phase = "writing"
  /\ files' = [files EXCEPT ![Here.memory][Here.entry.status] = Render(Here.entry)]
  /\ phase' = "indexing"
  /\ UNCHANGED <<rows, staged, cause, recorded, waived, verdicts, ruled, raced, spent>>

Index ==
  /\ phase = "indexing"
  /\ rows' = [rows EXCEPT ![Here.memory] = {Here.entry}]
  /\ phase' = "unlinking"
  /\ UNCHANGED <<files, staged, cause, recorded, waived, verdicts, ruled, raced, spent>>

Unlink ==
  /\ phase = "unlinking"
  /\ files' = IF Here.from = Here.entry.status THEN files
              ELSE [files EXCEPT ![Here.memory][Here.from] = {}]
  /\ phase' = "unstaging"
  /\ UNCHANGED <<rows, staged, cause, recorded, waived, verdicts, ruled, raced, spent>>

\* discardMutation and the end of applyMutation.
Unstage ==
  /\ phase \in {"unstaging", "waived"}
  /\ staged' = {} /\ cause' = {}
  /\ recorded' = FALSE /\ waived' = FALSE
  /\ phase' = "free"
  /\ UNCHANGED <<files, rows, verdicts, ruled, raced, spent>>

-----------------------------------------------------------------------------
\* Mutant of Recover: what the journal does not know is applied too.
RecoverAnyway ==
  /\ phase = "free" /\ staged # {}
  /\ phase' = IF waived THEN "waived" ELSE "recorded"
  /\ UNCHANGED <<files, rows, staged, cause, recorded, waived, verdicts, ruled, raced, spent>>

\* recoverUnlocked, which every operation begins with: a mutation the owner
\* gave up is discarded, a journaled one is applied, any other never counted.
Recover ==
  /\ phase = "free" /\ staged # {}
  /\ phase' = IF waived \/ ~recorded THEN "waived" ELSE "recorded"
  /\ UNCHANGED <<files, rows, staged, cause, recorded, waived, verdicts, ruled, raced, spent>>

\* keepConflictingFile: the owner prefers the file to the journaled change.
KeepFile ==
  /\ phase = "free" /\ staged # {} /\ recorded /\ ~waived
  /\ waived' = TRUE
  /\ ruled' = [ruled EXCEPT ![Here.memory] = rows[Here.memory]]
  /\ phase' = "waived"
  /\ UNCHANGED <<files, rows, staged, cause, recorded, verdicts, raced, spent>>

\* The process that holds the lock dies; the lock goes with it.
Halt ==
  /\ phase # "free"
  /\ spent.halts < MaxHalts /\ Spend("halts")
  /\ phase' = "free"
  /\ cause' = {}
  /\ UNCHANGED <<files, rows, staged, recorded, waived, verdicts, ruled, raced>>

\* The owner and a text editor: a new file, another text, another front matter,
\* a broken one, a file moved to the other directory, a file deleted.
Edit(m, s) ==
  /\ spent.edits < MaxEdits /\ Spend("edits")
  /\ \/ \E file \in Optional(File) :
          /\ files[m][s] # {} \/ Fresh(m)
          /\ files' = [files EXCEPT ![m][s] = file]
     \/ \E t \in Statuses \ {s} :
          /\ files[m][s] # {} /\ files[m][t] = {}
          /\ files' = [files EXCEPT ![m] = [x \in Statuses |-> IF x = t THEN files[m][s] ELSE {}]]
  /\ files' # files
  /\ raced' = (raced \/ (phase \in {"writing", "indexing", "unlinking"} /\ Here.memory = m))
  /\ UNCHANGED <<rows, staged, phase, cause, recorded, waived, verdicts, ruled>>

Govern ==
  \/ Record \/ Check \/ Rename \/ Index \/ Unlink \/ Unstage \/ Recover

GovernanceNext ==
  \/ \E c \in Candidates : Reject(c) \/ \E m \in Memories, b \in Bodies, k \in Metas : Promote(c, m, b, k)
  \/ \E m \in Memories, b \in Bodies, k \in Metas : Author(m, b, k) \/ Update(m, b, k)
  \/ \E m \in Memories, s \in Statuses : SetStatus(m, s) \/ Edit(m, s)
  \/ \E m \in Memories : Sync(m)
  \/ Govern \/ KeepFile \/ Halt

GovernanceSpec == GovernanceInit /\ [][GovernanceNext]_governanceVars

-----------------------------------------------------------------------------
\* The index is what the journaled decisions amount to whenever no mutation is
\* open, and until then it differs at most in the memory of the open one, whose
\* decision the journal has: a process may die at any step in between
\* ("every governance action is journaled first, then applied").
IndexFollowsJournal ==
  \A m \in Memories : rows[m] # ruled[m] =>
    /\ recorded
    /\ \E mutation \in staged : mutation.memory = m

\* What the owner did to a file between a decision and its application is not
\* overwritten: whatever is replaced or removed is what the decision was made
\* on, or was written for it.  (An edit in the instants after the check is lost.)
OnlyKnownFilesReplaced ==
  (phase \in {"writing", "indexing", "unlinking"} /\ ~raced) =>
    /\ files[Here.memory][Here.from] \in {Here.source, {}, Render(Here.entry)}
    /\ files[Here.memory][Here.entry.status] \in {Here.target, Render(Here.entry)}

\* A candidate is decided once, over all crashes and recoveries, and one that
\* was promoted stays decided when its memory conflicts with a file.
DecidedOnce == \A c \in Candidates : verdicts[c] # {"promoted", "rejected"}

\* A journaled decision takes effect, or is handed to the owner as a conflict.
RecordedTakesEffect ==
  (staged # {} /\ recorded) ~> (staged = {} \/ ~(SameFiles \/ AlreadyWritten))

\* Over a death at any of the five steps of a mutation and the owner's edits:
\* the index is what the journaled decisions amount to, a candidate is decided
\* once, and no file is replaced that the decision did not know
\* (memory-governance.ts).
GovernanceInv ==
  /\ GovernanceTypeOK
  /\ IndexFollowsJournal
  /\ OnlyKnownFilesReplaced
  /\ DecidedOnce
=============================================================================
