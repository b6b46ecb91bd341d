--------------------------- MODULE WorkspaceFiles ---------------------------
(***************************************************************************)
(* Workspaces, which are a row and a directory, and the editing of their   *)
(* files (core/workspace-manager.py, core/hcl-file-manager.py,             *)
(* api/routes/hcl-file-routes.py and hcl-directory-routes.py), with the    *)
(* fixes that an AI proposes for a file (core/ai-remediation-engine.py).   *)
(*                                                                         *)
(* The content of a file is the set of edits it has.  An editor adds an    *)
(* edit to what it has read, and saves with the checksum of that.  A       *)
(* request on a file looks the workspace up in the database, which takes   *)
(* time, and then changes the directory at once: which request it is does  *)
(* not matter until then.                                                  *)
(***************************************************************************)
EXTENDS Naturals, Sequences

CONSTANTS
  Workspaces, Files,
  Directories,    \* subdirectories
  InDirectory(_, _),
  TopFiles,       \* the .tf files at the top, in alphabetical order
  Edits, Sessions,
  Fixers,         \* users to whom a fix may be proposed at a time
  ManagerRequests \* creations and deletions of workspaces at a time

ASSUME TopFilesAssumption == TopFiles \in Seq(Files) /\ "main.tf" \in Files
\* What marks the absence of something is none of the things there may be.
ASSUME MarksAssumption == "no file" \notin Edits /\ "none" \notin Workspaces

VARIABLES
  wsRows,      \* table workspaces
  wsDirs,      \* directories on disk
  wsFiles,     \* their files
  managing,    \* requests that have changed the disk and not yet the row
  fileReq,     \* per session: the workspace that its request has found
  editor,      \* per session: the file that it has open
  fix,         \* the fixes proposed
  saved        \* history: edits that somebody saved and nobody has discarded

wsVars == <<wsRows, wsDirs, wsFiles, managing, fileReq, editor, fix, saved>>

NoFile == {"no file"}
Contents == SUBSET Edits

Managing == [op : {"create", "delete"}, ws : Workspaces]
NotManaging == [op |-> "none", ws |-> "none"]
Open == [ws : Workspaces, file : Files, seen : Contents]
NotOpen == [ws |-> "none", file |-> "none", seen |-> {}]
Fix == [ws : Workspaces, file : Files, content : Contents]
NoFix == [ws |-> "none", file |-> "none", content |-> {}]
NoWorkspace == "none"

WorkspaceTypeOK ==
  /\ wsRows \subseteq Workspaces /\ wsDirs \subseteq Workspaces
  /\ wsFiles \in [Workspaces -> [Files -> Contents \cup {NoFile}]]
  /\ \A w \in Workspaces \ wsDirs, f \in Files : wsFiles[w][f] = NoFile
  /\ managing \in [ManagerRequests -> Managing \cup {NotManaging}]
  /\ fileReq \in [Sessions -> Workspaces \cup {NoWorkspace}]
  /\ editor \in [Sessions -> Open \cup {NotOpen}]
  /\ fix \in [Fixers -> Fix \cup {NoFix}]
  /\ saved \in [Workspaces -> [Files -> Contents]]

WorkspaceInit ==
  /\ wsRows = {} /\ wsDirs = {}
  /\ wsFiles = [w \in Workspaces |-> [f \in Files |-> NoFile]]
  /\ managing = [r \in ManagerRequests |-> NotManaging]
  /\ fileReq = [s \in Sessions |-> NoWorkspace]
  /\ editor = [s \in Sessions |-> NotOpen]
  /\ fix = [u \in Fixers |-> NoFix]
  /\ saved = [w \in Workspaces |-> [f \in Files |-> {}]]

-----------------------------------------------------------------------------
(***************************************************************************)
(* WorkspaceManager                                                        *)
(***************************************************************************)
managerRest == <<fileReq, editor, fix>>

\* create makes the directory, or finds it, ...
CreateWorkspace(r, w) ==
  /\ managing[r] = NotManaging
  /\ wsDirs' = wsDirs \cup {w}
  /\ managing' = [managing EXCEPT ![r] = [op |-> "create", ws |-> w]]
  /\ UNCHANGED <<wsRows, wsFiles, saved, managerRest>>
\* ... delete removes it with all that is in it ...
DeleteWorkspace(r, w) ==
  /\ managing[r] = NotManaging
  /\ wsDirs' = wsDirs \ {w}
  /\ wsFiles' = [wsFiles EXCEPT ![w] = [f \in Files |-> NoFile]]
  /\ saved' = [saved EXCEPT ![w] = [f \in Files |-> {}]]
  /\ managing' = [managing EXCEPT ![r] = [op |-> "delete", ws |-> w]]
  /\ UNCHANGED <<wsRows, managerRest>>
\* ... and the row follows (_upsert_db, or a delete that cascades), ...
FollowWithRow(r) ==
  LET w == managing[r].ws IN
  /\ managing[r] # NotManaging
  /\ wsRows' = IF managing[r].op = "create" THEN wsRows \cup {w} ELSE wsRows \ {w}
  /\ managing' = [managing EXCEPT ![r] = NotManaging]
  /\ UNCHANGED <<wsDirs, wsFiles, saved, managerRest>>
\* ... unless the database fails, which is logged and answered with success.
RowIsLost(r) ==
  /\ managing[r] # NotManaging
  /\ managing' = [managing EXCEPT ![r] = NotManaging]
  /\ UNCHANGED <<wsRows, wsDirs, wsFiles, saved, managerRest>>

-----------------------------------------------------------------------------
(***************************************************************************)
(* HCLFileManager                                                          *)
(***************************************************************************)
fileRest == <<wsRows, managing, fix>>

\* _get_workspace_dir: the row is there.
Lookup(s, w) ==
  /\ fileReq[s] = NoWorkspace /\ w \in wsRows
  /\ fileReq' = [fileReq EXCEPT ![s] = w]
  /\ UNCHANGED <<wsDirs, wsFiles, editor, saved, fileRest>>

Serves(s, w) == fileReq[s] = w /\ fileReq' = [fileReq EXCEPT ![s] = NoWorkspace]

\* read_file.
ReadFile(s, w, f) ==
  /\ Serves(s, w) /\ wsFiles[w][f] # NoFile
  /\ editor' = [editor EXCEPT ![s] = [ws |-> w, file |-> f, seen |-> wsFiles[w][f]]]
  /\ UNCHANGED <<wsDirs, wsFiles, saved, fileRest>>

\* Mutant: the missing directories are not made.
WriteAsIs(w, f, content) == wsFiles' = [wsFiles EXCEPT ![w][f] = content] /\ UNCHANGED wsDirs
\* Writing makes the missing directories, that of the workspace included.
Write(w, f, content) ==
  /\ wsDirs' = wsDirs \cup {w}
  /\ wsFiles' = [wsFiles EXCEPT ![w][f] = content]

\* Mutant: the checksum is not compared.
AnyContent(current, seen) == TRUE
\* The optimistic lock of write_file: a file that has gone is written again.
Unmodified(current, seen) == current \in {seen, NoFile}

\* write_file with the checksum of what the editor has read or last saved.
SaveFile(s, w, f, e) ==
  LET new == editor[s].seen \cup {e} IN
  /\ Serves(s, w) /\ editor[s].ws = w /\ editor[s].file = f
  /\ \A v \in Workspaces, g \in Files : e \notin wsFiles[v][g]   \* a new edit
  /\ Unmodified(wsFiles[w][f], editor[s].seen)
  /\ Write(w, f, new)
  /\ editor' = [editor EXCEPT ![s].seen = new]
  /\ saved' = [saved EXCEPT ![w][f] = @ \cup {e}]
  /\ UNCHANGED fileRest

\* write_file without a checksum: POST makes an empty file, and empties one
\* that is there.
CreateFile(s, w, f) ==
  /\ Serves(s, w)
  /\ Write(w, f, {})
  /\ saved' = [saved EXCEPT ![w][f] = {}]
  /\ UNCHANGED <<editor, fileRest>>

\* Files are removed on purpose, with their saved edits.
Remove(w, fs) ==
  /\ wsFiles' = [wsFiles EXCEPT ![w] = [f \in Files |-> IF f \in fs THEN NoFile ELSE @[f]]]
  /\ saved' = [saved EXCEPT ![w] = [f \in Files |-> IF f \in fs THEN {} ELSE @[f]]]
  /\ UNCHANGED <<wsDirs, editor, fileRest>>

\* delete_file, delete_directory.
DeleteFile(s, w, f) == Serves(s, w) /\ wsFiles[w][f] # NoFile /\ Remove(w, {f})
DeleteDirectory(s, w, d) ==
  Serves(s, w) /\ w \in wsDirs /\ Remove(w, {f \in Files : InDirectory(f, d)})
\* create_directory.
CreateDirectory(s, w) ==
  /\ Serves(s, w)
  /\ wsDirs' = wsDirs \cup {w}
  /\ UNCHANGED <<wsFiles, editor, saved, fileRest>>

\* rename_file: the source exists and the destination does not.
RenameFile(s, w, from, to) ==
  /\ Serves(s, w)
  /\ wsFiles[w][from] # NoFile /\ wsFiles[w][to] = NoFile
  /\ wsFiles' = [wsFiles EXCEPT ![w][to] = wsFiles[w][from], ![w][from] = NoFile]
  /\ saved' = [saved EXCEPT ![w][to] = saved[w][from], ![w][from] = {}]
  /\ UNCHANGED <<wsDirs, editor, fileRest>>

\* A check fails, and nothing is changed.
FileFails(s) ==
  /\ fileReq[s] # NoWorkspace
  /\ fileReq' = [fileReq EXCEPT ![s] = NoWorkspace]
  /\ UNCHANGED <<wsDirs, wsFiles, editor, saved, fileRest>>

-----------------------------------------------------------------------------
(***************************************************************************)
(* AIRemediationEngine                                                     *)
(***************************************************************************)
Exists(w, f) == wsFiles[w][f] # NoFile
\* _build_fixes: whatever the error is in, the fix is for the first file.
IsTarget(w, f) ==
  LET there == {i \in DOMAIN TopFiles : Exists(w, TopFiles[i])} IN
  \/ there = {} /\ f = "main.tf"
  \/ \E i \in there : f = TopFiles[i] /\ \A j \in there : i <= j

\* POST /workspaces/{id}/remediate collects the files at the top, which it
\* truncates, and proposes a text for one, made of any of what the AI was shown.
Collected(w) == UNION {wsFiles[w][TopFiles[i]] : i \in {j \in DOMAIN TopFiles : Exists(w, TopFiles[j])}}
Remediate(u, w) ==
  /\ fix[u] = NoFix /\ w \in wsDirs
  /\ \E f \in Files, content \in SUBSET Collected(w) :
       /\ IsTarget(w, f)
       /\ fix' = [fix EXCEPT ![u] = [ws |-> w, file |-> f, content |-> content]]
  /\ UNCHANGED <<wsRows, wsDirs, wsFiles, managing, fileReq, editor, saved>>

\* apply_fixes writes the text over what the file holds by then.
ApplyFix(u) ==
  LET w == fix[u].ws f == fix[u].file IN
  /\ fix[u] # NoFix /\ w \in wsDirs
  /\ Write(w, f, fix[u].content)
  /\ saved' = [saved EXCEPT ![w][f] = @ \cap fix[u].content]
  /\ fix' = [fix EXCEPT ![u] = NoFix]
  /\ UNCHANGED <<wsRows, managing, fileReq, editor>>
DismissFix(u) ==
  /\ fix[u] # NoFix
  /\ fix' = [fix EXCEPT ![u] = NoFix]
  /\ UNCHANGED <<wsRows, wsDirs, wsFiles, managing, fileReq, editor, saved>>

WorkspaceNext ==
  \/ \E r \in ManagerRequests :
       \/ \E w \in Workspaces : CreateWorkspace(r, w) \/ DeleteWorkspace(r, w)
       \/ FollowWithRow(r) \/ RowIsLost(r)
  \/ \E s \in Sessions, w \in Workspaces :
       \/ Lookup(s, w)
       \/ \E f \in Files :
            \/ ReadFile(s, w, f) \/ CreateFile(s, w, f) \/ DeleteFile(s, w, f)
            \/ \E e \in Edits : SaveFile(s, w, f, e)
            \/ \E to \in Files : RenameFile(s, w, f, to)
       \/ CreateDirectory(s, w)
       \/ \E d \in Directories : DeleteDirectory(s, w, d)
  \/ \E s \in Sessions : FileFails(s)
  \/ \E u \in Fixers :
       \/ \E w \in Workspaces : Remediate(u, w)
       \/ ApplyFix(u) \/ DismissFix(u)

WorkspaceSpec == WorkspaceInit /\ [][WorkspaceNext]_wsVars

-----------------------------------------------------------------------------
\* What somebody has saved is in the file until somebody deletes the file,
\* empties it or applies a fix to it: no editor ever saves over an edit that
\* it has not seen, whatever is saved, renamed and deleted meanwhile
\* (write_file, rename_file).
SavedEditsStay ==
  \A w \in Workspaces, f \in Files : saved[w][f] \subseteq wsFiles[w][f]
=============================================================================
