----------------------------- MODULE GDriveSync -----------------------------
(***************************************************************************)
(* scripts/gdrive_export: runs that copy a Google Drive folder into the    *)
(* lore tree, one Markdown file per document, presentation or spreadsheet  *)
(* tab, one PNG per picture, and a sidecar directory of images per         *)
(* document.  The state file remembers what was exported and where.        *)
(*                                                                         *)
(* The folder changes at any time, also in the middle of a run.  A run     *)
(* works from one listing; a file that fails is counted and skipped; the   *)
(* process may die between any two writes, and the tree keeps what was     *)
(* written.                                                                *)
(***************************************************************************)
EXTENDS Integers, Sequences, FiniteSets, TLC

CONSTANTS
  Order,       \* the source ids, in the order a run sorts them
  Kind,        \* "gdoc", "gslide", "tab" or "png", for each source id
  Names,       \* the slugs a file has over time, for each source id; a slug
               \* is the sequence of its parts, so that one may be another
               \* and the id that one is suffixed with
  Initial,     \* the files that are in the folder at first
  Large,       \* the files whose text may come to exceed 1 MiB
  Images,      \* the images a document may embed, by their MD5
  MaxChanges,  \* bound on the changes made to the folder
  MaxFaults    \* bound on failed calls and killed runs

Files == {Order[i] : i \in DOMAIN Order}

None == "none"
Failed == "failed"
\* What becomes of an image: its MD5 once compressed, or a placeholder.
ImageResult == Images \cup {None, Failed}

ASSUME SyncAssumption ==
  /\ \A i, j \in DOMAIN Order : Order[i] = Order[j] => i = j
  /\ \A f \in Files : /\ Kind[f] \in {"gdoc", "gslide", "tab", "png"}
                      /\ Len(Names[f]) > 0
  /\ Initial \cup Large \subseteq Files
  /\ {None, Failed} \cap (Images \cup Files) = {}
  /\ MaxChanges \in Nat /\ MaxFaults \in Nat

VARIABLES
  drive,    \* the folder: where a file is, its name, text version and image,
            \* and whether the text exceeds 1 MiB
  disk,     \* the exported files: a function on the paths that exist
  sidecar,  \* the images next to each path
  state,    \* .gdrive_state.json: a function on the source ids recorded
  pc,       \* the step of the run, "idle" between runs
  dry,      \* --dry-run
  listing,  \* list_folder_recursive, as read when the run started
  todo,     \* the files the current phase has not reached
  taken,    \* taken_paths
  new,      \* new_state
  work,     \* the file in hand: its local path and what was fetched
  exit,     \* how the last run that was not dry has ended, or would now:
            \* "ok" (exit code 0), "errors" or "raised" (an exception)
  missed,   \* the documents whose image that run could not get (images_failed)
  lost,     \* those whose image was missed by a run that saved no state
  changes, faults,
  quiet     \* runs that have ended by themselves since the last change or
            \* fault (a missed image aside); -1 inside the run that met it

run == <<pc, dry, listing, todo, taken, new, work>>
tree == <<disk, sidecar>>
vars == <<drive, disk, sidecar, state, run, exit, missed, lost, changes, faults, quiet>>

Extension(f) == IF Kind[f] \in {"tab", "png"} THEN Kind[f] ELSE "md"

\* A path is an extension and a slug.  The slug of a tab holds "--", which no
\* other slug does.
Path(f, slug) == <<Extension(f), slug>>
Suffixed(f, slug) == Path(f, Append(slug, f))
Paths == UNION {UNION {{Path(f, Names[f][i]), Suffixed(f, Names[f][i])} :
                         i \in DOMAIN Names[f]} : f \in Files}

Sig == (0 .. MaxChanges + 1) \X ImageResult
Empty == <<0, None>>      \* the body of a file that was opened and not written
StateEntry == [path : Paths, sig : Sig, archived : BOOLEAN, images : SUBSET Images]
Export == [src : Files, sig : Sig, archived : BOOLEAN]

Unlisted == [name |-> <<>>, md5 |-> 0]
NoWork == [path |-> <<>>, sig |-> Empty, body |-> Empty, big |-> FALSE, images |-> {}]

Put(fn, x, v) == (x :> v) @@ fn
Del(fn, x) == [y \in DOMAIN fn \ {x} |-> fn[y]]

-----------------------------------------------------------------------------
(* The folder.  A change makes a text or a name the file did not have       *)
(* before.  A trashed file leaves the listing and can still be fetched.     *)

Present(f) == drive[f].at \in {"listed", "restored"}

Change(f, d) ==
  /\ changes < MaxChanges
  /\ changes' = changes + 1
  /\ drive' = [drive EXCEPT ![f] = d]
  /\ quiet' = IF pc = "idle" THEN 0 ELSE -1
  /\ UNCHANGED <<tree, state, run, exit, missed, lost, faults>>

Embeds(f) == IF Kind[f] = "gdoc" THEN Images \cup {None} ELSE {None}

Create(f) ==
  /\ drive[f].at = "absent"
  /\ \E i \in Embeds(f) : Change(f, [drive[f] EXCEPT !.at = "listed", !.img = i])

Edit(f) ==
  /\ Present(f)
  /\ \E i \in Embeds(f), b \in {FALSE} \cup {f \in Large} :
       Change(f, [drive[f] EXCEPT !.ver = @ + 1, !.img = i, !.big = b])

Rename(f) ==
  /\ Present(f) /\ drive[f].name < Len(Names[f])
  /\ Change(f, [drive[f] EXCEPT !.name = @ + 1])

\* A tab goes with its workbook or leaves a workbook that stays.
Trash(f) ==
  /\ Present(f)
  /\ \E gone \in {"trashed"} \cup (IF Kind[f] = "tab" THEN {"tabless"} ELSE {}) :
       Change(f, [drive[f] EXCEPT !.at = gone])

Restore(f) ==
  /\ drive[f].at \in {"trashed", "tabless"}
  /\ Change(f, [drive[f] EXCEPT !.at = "restored"])

-----------------------------------------------------------------------------
(* The run.                                                                 *)

Rank == [f \in Files |-> CHOOSE i \in DOMAIN Order : Order[i] = f]
First(S) == CHOOSE f \in S : \A g \in S : Rank[f] <= Rank[g]

list_folder_recursive ==
  [f \in Files |->
     IF drive[f].at \in {"absent", "trashed"} THEN Unlisted
     ELSE [name |-> Names[f][drive[f].name],
           md5  |-> IF Kind[f] = "png" THEN drive[f].ver ELSE 0]]

Listed(l) == {f \in Files : l[f] # Unlisted}

\* The entries _handle_archived looks at: those absent from Drive, and every tab.
MayBeGone(l) == {f \in DOMAIN state : f \notin Listed(l) \/ Kind[f] = "tab"}

Phase(gone, l) ==
  IF gone # {} THEN "archive" ELSE IF Listed(l) # {} THEN "file" ELSE "save"

run_sync(d) ==
  /\ pc = "idle"
  /\ LET l == list_folder_recursive
         gone == MayBeGone(l)
     IN  /\ listing' = l
         /\ pc' = Phase(gone, l)
         /\ todo' = IF gone # {} THEN gone ELSE Listed(l)
  /\ dry' = d
  /\ taken' = {}
  /\ new' = <<>>
  /\ exit' = IF d THEN exit ELSE "ok"
  /\ missed' = IF d THEN missed ELSE {}
  /\ UNCHANGED <<drive, tree, state, work, lost, changes, faults, quiet>>

NoFault == UNCHANGED <<faults, quiet, missed>>
Fault ==
  /\ faults < MaxFaults
  /\ faults' = faults + 1
  /\ quiet' = -1
  /\ UNCHANGED missed

Archived(f) == [state[f] EXCEPT !.archived = @ \/ ~dry]

\* Mutant: the front matter of tabs is forgotten.
SetArchivedDocs(f) ==
  LET p == state[f].path
  IN  IF Kind[f] \in {"gdoc", "gslide"} /\ p \in DOMAIN disk /\ disk[p].sig # Empty
      THEN [disk EXCEPT ![p].archived = TRUE]
      ELSE disk

\* The disk after _set_archived_frontmatter: a Markdown file gets its flag unless
\* it is missing or has no front matter.
SetArchived(f) ==
  LET p == state[f].path
  IN  IF Kind[f] # "png" /\ p \in DOMAIN disk /\ disk[p].sig # Empty
      THEN [disk EXCEPT ![p].archived = TRUE]
      ELSE disk

ArchiveDone(f) ==
  /\ todo' = IF todo = {f} THEN Listed(listing) ELSE todo \ {f}
  /\ pc' = IF todo = {f} THEN Phase({}, listing) ELSE "archive"
  /\ UNCHANGED <<drive, sidecar, state, dry, listing, taken, work, exit, lost, changes>>

archive_entry(f) ==
  /\ f \notin Listed(listing) \/ drive[f].at = "tabless"
  /\ new' = Put(new, f, Archived(f))
  /\ disk' = IF dry \/ state[f].archived THEN disk ELSE SetArchived(f)
  /\ ArchiveDone(f)
  /\ NoFault

\* A tab that is still there, or whose workbook cannot be read, keeps its entry.
keep_tab(f) ==
  /\ f \in Listed(listing)
  /\ \/ drive[f].at # "tabless" /\ NoFault
     \/ Fault
  /\ new' = Put(new, f, state[f])
  /\ ArchiveDone(f)
  /\ UNCHANGED disk

handle_archived ==
  /\ pc = "archive"
  /\ LET f == First(todo) IN archive_entry(f) \/ keep_tab(f)

-----------------------------------------------------------------------------
(* One file.                                                                *)

\* The paths of tabs are built without resolve_local_path.
resolve_local_path(f) ==
  LET plain == Path(f, listing[f].name)
  IN  IF plain \in taken /\ Kind[f] # "tab"
      THEN Suffixed(f, listing[f].name)
      ELSE plain

\* Both candidates are taken, and resolve_local_path raises a ValueError.
Unresolvable(f) ==
  /\ Kind[f] # "tab"
  /\ {Path(f, listing[f].name), Suffixed(f, listing[f].name)} \subseteq taken

cur == First(todo)
existing == state[cur]
Known == cur \in DOMAIN state
Moved == Known /\ existing.path # work.path

AtFile(kind) == pc = "file" /\ Kind[cur] = kind /\ ~Unresolvable(cur)

\* The loop goes on to the next file.
FileDone ==
  /\ todo' = todo \ {cur}
  /\ pc' = IF todo = {cur} THEN "save" ELSE "file"
  /\ work' = NoWork
  /\ UNCHANGED <<drive, state, dry, listing, lost, changes>>

\* Mutant: a file that failed keeps its entry.
FileErrorKeeps ==
  /\ exit' = IF dry THEN exit ELSE "errors"
  /\ FileDone
  /\ new' = IF Known THEN Put(new, cur, existing) ELSE new

\* What _process_file does with an exception: no entry is put into new_state.
FileError ==
  /\ exit' = IF dry THEN exit ELSE "errors"
  /\ FileDone
  /\ UNCHANGED new

FileKept(e) ==
  /\ new' = Put(new, cur, e)
  /\ FileDone
  /\ UNCHANGED exit

Continue(step) ==
  /\ pc' = step
  /\ UNCHANGED <<drive, state, dry, listing, todo, new, exit, lost, changes>>

PngUnchanged == Kind[cur] = "png" /\ Known /\ existing.sig = <<listing[cur].md5, None>>

\* Reading the file fails: 404, 429, 5xx or a timeout.
FetchFails ==
  /\ AtFile(Kind[cur]) /\ ~PngUnchanged
  /\ taken' = taken \cup {resolve_local_path(cur)}
  /\ Fault
  /\ FileError
  /\ UNCHANGED tree

Fetched(p, sig, body) ==
  work' = [path |-> p, sig |-> sig, body |-> body, big |-> drive[cur].big, images |-> {}]

SidecarMoves(p) ==
  /\ Known /\ existing.path # p /\ ~dry
  /\ sidecar[existing.path] # {}

\* get_document, then rename_sidecar, which fails on a directory that has files.
process_gdoc ==
  /\ AtFile("gdoc")
  /\ NoFault
  /\ LET p == resolve_local_path(cur)
         b == <<drive[cur].ver, drive[cur].img>>
         move == SidecarMoves(p)
     IN  /\ taken' = taken \cup {p}
         /\ UNCHANGED disk
         /\ \/ /\ move /\ sidecar[p] # {}
               /\ FileError
               /\ UNCHANGED sidecar
            \/ /\ ~(move /\ sidecar[p] # {})
               /\ sidecar' = IF move
                             THEN [sidecar EXCEPT ![p] = sidecar[existing.path],
                                                  ![existing.path] = {}]
                             ELSE sidecar
               /\ Fetched(p, b, b)
               /\ Continue("images")

\* Mutant: an image that failed is registered like the others.
ManifestOfAll(ref) == {ref} \ {None}

\* images_manifest: the images that were written.
Manifest(ref) == {ref} \ {None, Failed}

\* _resolve_one_image and _compress_and_register: an image that cannot be had
\* leaves a placeholder in the text and nothing in the manifest, and is not an
\* error of the run.
process_doc_images ==
  /\ pc = "images"
  /\ UNCHANGED <<disk, taken>>
  /\ Continue("decide")
  /\ LET img == work.body[2]
         resolved(ref) == [work EXCEPT !.sig = <<@[1], ref>>, !.body = <<@[1], ref>>,
                                       !.images = Manifest(ref)]
     IN  \/ /\ img = None \/ dry
            /\ NoFault
            /\ UNCHANGED <<sidecar, work>>
         \/ /\ img # None /\ ~dry
            /\ NoFault
            /\ sidecar' = [sidecar EXCEPT ![work.path] = @ \cup {img}]
            /\ work' = resolved(img)
         \/ /\ img # None /\ ~dry
            /\ faults < MaxFaults /\ faults' = faults + 1
            /\ missed' = missed \cup {cur}
            /\ work' = resolved(Failed)
            /\ UNCHANGED <<sidecar, quiet>>

process_gslide ==
  /\ AtFile("gslide")
  /\ NoFault
  /\ LET p == resolve_local_path(cur)
         b == <<drive[cur].ver, None>>
     IN  taken' = taken \cup {p} /\ Fetched(p, b, b)
  /\ Continue("decide")
  /\ UNCHANGED tree

\* A workbook without the tab has nothing to export.
process_gsheet ==
  /\ AtFile("tab")
  /\ NoFault
  /\ UNCHANGED tree
  /\ \/ /\ drive[cur].at = "tabless"
        /\ FileDone
        /\ UNCHANGED <<taken, new, exit>>
     \/ /\ drive[cur].at # "tabless"
        /\ LET p == resolve_local_path(cur)
               b == <<drive[cur].ver, None>>
           IN  taken' = taken \cup {p} /\ Fetched(p, b, b)
        /\ Continue("decide")

\* The signature is the MD5 of the listing, the bytes are those of the download.
\* An unchanged signature ends it, also when the name has changed.
process_png ==
  /\ AtFile("png")
  /\ NoFault
  /\ UNCHANGED tree
  /\ LET p == resolve_local_path(cur)
     IN  /\ taken' = taken \cup {p}
         /\ \/ PngUnchanged /\ FileKept(existing)
            \/ /\ ~PngUnchanged
               /\ Fetched(p, <<listing[cur].md5, None>>, <<drive[cur].ver, None>>)
               /\ Continue("decide")

\* Mutant: the destination is looked up among the paths taken in this run, which
\* hold the path of the file itself.
CanRenameTaken == existing.path \in DOMAIN disk /\ work.path \notin taken

\* rename_local_file refuses a missing source and a destination that exists.
CanRename == existing.path \in DOMAIN disk /\ work.path \notin DOMAIN disk

NewEntry == [path |-> work.path, sig |-> work.sig, archived |-> FALSE,
             images |-> work.images]

\* Mutant: only the content is compared, as for a PNG.
UnchangedContent ==
  /\ Known
  /\ existing.sig = work.sig
  /\ existing.images = work.images

Unchanged ==
  /\ Known
  /\ existing.sig = work.sig
  /\ existing.images = work.images
  /\ ~Moved

\* What was fetched exceeds 1 MiB, as it will in the next run.  The sidecar of a
\* document has been moved and filled by then.
TooLarge ==
  /\ pc = "decide" /\ work.big
  /\ NoFault
  /\ FileError
  /\ UNCHANGED <<tree, taken>>

\* The comparison with the state file, and the rename of the exported file.
decide ==
  /\ pc = "decide" /\ ~work.big
  /\ NoFault
  /\ UNCHANGED <<sidecar, taken>>
  /\ \/ /\ Unchanged
        /\ FileKept(existing)
        /\ UNCHANGED disk
     \/ /\ ~Unchanged /\ dry
        /\ FileKept(IF Known THEN existing ELSE NewEntry)
        /\ UNCHANGED disk
     \/ /\ ~Unchanged /\ ~dry /\ Moved /\ ~CanRename /\ Kind[cur] # "tab"
        /\ FileError
        /\ UNCHANGED disk
     \/ /\ ~Unchanged /\ ~dry /\ (Moved => CanRename)
        /\ disk' = IF Moved
                   THEN Put(Del(disk, existing.path), work.path, disk[existing.path])
                   ELSE disk
        /\ Continue(IF Kind[cur] = "gdoc" THEN "cleanup" ELSE "write")
        /\ UNCHANGED work

cleanup_orphans ==
  /\ pc = "cleanup"
  /\ sidecar' = [sidecar EXCEPT ![work.path] = @ \cap work.images]
  /\ NoFault
  /\ Continue("write")
  /\ UNCHANGED <<disk, taken, work>>

write_gdoc ==
  /\ pc = "write"
  /\ disk' = Put(disk, work.path, [src |-> cur, sig |-> work.body, archived |-> FALSE])
  /\ FileKept(NewEntry)
  /\ NoFault
  /\ UNCHANGED <<sidecar, taken>>

\* The file was opened, which empties it, and not written.
Truncated == Put(disk, work.path, [src |-> cur, sig |-> Empty, archived |-> FALSE])

WriteFails ==
  /\ pc = "write" /\ Kind[cur] # "tab"
  /\ disk' \in {disk, Truncated}
  /\ Fault
  /\ FileError
  /\ UNCHANGED <<sidecar, taken>>

-----------------------------------------------------------------------------
Idle ==
  /\ pc' = "idle" /\ dry' = FALSE
  /\ listing' = [f \in Files |-> Unlisted]
  /\ todo' = {} /\ taken' = {}
  /\ new' = <<>>
  /\ work' = NoWork

\* The run ends by itself.
Ended ==
  /\ quiet' = IF quiet = -1 \/ (~dry /\ quiet < 2) THEN quiet + 1 ELSE quiet
  /\ Idle
  /\ UNCHANGED <<drive, tree, missed, changes, faults>>

save_state ==
  /\ pc = "save"
  /\ state' = IF dry THEN state ELSE new
  /\ Ended
  /\ UNCHANGED <<exit, lost>>

\* An exception ends the run, and the state file is not saved.
Raises ==
  /\ exit' = IF dry THEN exit ELSE "raised"
  /\ lost' = IF dry THEN lost ELSE lost \cup missed
  /\ Ended
  /\ UNCHANGED state

\* Nothing around _process_gsheet catches what rename_local_file raises.
TabRenameRaises ==
  /\ pc = "decide" /\ ~work.big /\ Kind[cur] = "tab"
  /\ ~Unchanged /\ ~dry /\ Moved /\ ~CanRename
  /\ Raises

\* Nor anything around resolve_local_path.
CollisionRaises ==
  /\ pc = "file" /\ Unresolvable(cur)
  /\ Raises

\* The process is killed, or a call raises what no handler expects.
Abort ==
  /\ pc # "idle"
  /\ faults < MaxFaults
  /\ faults' = faults + 1
  /\ disk' \in {disk} \cup (IF pc = "write" THEN {Truncated} ELSE {})
  /\ lost' = IF dry THEN lost ELSE lost \cup missed
  /\ quiet' = 0
  /\ Idle
  /\ UNCHANGED <<drive, sidecar, state, exit, missed, changes>>

Init ==
  /\ drive \in [Files -> [at : {"absent", "listed"}, name : {1}, ver : {1},
                          img : Images \cup {None}, big : {FALSE}]]
  /\ \A f \in Files :
       IF f \in Initial
       THEN drive[f].at = "listed" /\ (Kind[f] = "gdoc") = (drive[f].img # None)
       ELSE drive[f].at = "absent" /\ drive[f].img = None
  /\ disk = <<>>
  /\ sidecar = [p \in Paths |-> {}]
  /\ state = <<>>
  /\ pc = "idle" /\ dry = FALSE
  /\ listing = [f \in Files |-> Unlisted]
  /\ todo = {} /\ taken = {} /\ new = <<>> /\ work = NoWork
  /\ exit = "ok" /\ missed = {} /\ lost = {} /\ changes = 0 /\ faults = 0 /\ quiet = 0

DriveStep == \E f \in Files : Create(f) \/ Edit(f) \/ Rename(f) \/ Trash(f) \/ Restore(f)

FileStep ==
  \/ FetchFails \/ process_gdoc \/ process_doc_images \/ process_gslide
  \/ process_gsheet \/ process_png \/ TooLarge \/ decide \/ cleanup_orphans \/ write_gdoc
  \/ WriteFails

Next ==
  \/ DriveStep
  \/ \E d \in BOOLEAN : run_sync(d)
  \/ handle_archived \/ FileStep \/ save_state
  \/ TabRenameRaises \/ CollisionRaises \/ Abort

Spec == Init /\ [][Next]_vars

-----------------------------------------------------------------------------
\* Every variable has its type; in particular a path in the state file is one
\* resolve_local_path can return.
TypeOK ==
  /\ drive \in [Files -> [at : {"absent", "listed", "trashed", "tabless", "restored"},
                          name : 1 .. MaxChanges + 1, ver : 1 .. MaxChanges + 1,
                          img : Images \cup {None}, big : BOOLEAN]]
  /\ DOMAIN disk \subseteq Paths /\ \A p \in DOMAIN disk : disk[p] \in Export
  /\ sidecar \in [Paths -> SUBSET Images]
  /\ \A s \in {state, new} :
       DOMAIN s \subseteq Files /\ \A f \in DOMAIN s : s[f] \in StateEntry
  /\ pc \in {"idle", "archive", "file", "images", "decide", "cleanup", "write", "save"}
  /\ todo \subseteq Files /\ taken \subseteq Paths
  /\ exit \in {"ok", "errors", "raised"} /\ missed \subseteq Files /\ lost \subseteq Files
  /\ quiet \in -1 .. 2

Slug(f) == Names[f][drive[f].name]

\* The export of a file that was never trashed: recorded, and on disk under the
\* recorded path with the present text and exactly the images of that text, or
\* with a placeholder for an image that was missed.  The path follows the name,
\* except for a PNG.
Exported(f) ==
  LET e == state[f]
      img == IF f \in missed THEN Failed ELSE drive[f].img
  IN  /\ f \in DOMAIN state
      /\ Kind[f] # "png" => e.path \in {Path(f, Slug(f)), Suffixed(f, Slug(f))}
      /\ e.sig = <<drive[f].ver, img>> /\ e.images = {img} \ {None, Failed}
      /\ e.path \in DOMAIN disk
      /\ disk[e.path] \in [src : {f}, archived : {FALSE},
                           sig : {e.sig} \cup (IF f \in lost THEN {<<drive[f].ver, Failed>>} ELSE {})]
      /\ f \notin missed => sidecar[e.path] = e.images

\* A tab has a name that another tab has or had.  Only tabs that are of one name
\* in one workbook at one time get a suffix; else _process_gsheet writes over the
\* other file, or refuses to rename.
NameReused(f) ==
  /\ Kind[f] = "tab" /\ drive[f].at # "absent"
  /\ \E g \in Files \ {f} :
       /\ drive[g].at # "absent"
       /\ \E i \in 1 .. drive[g].name : Path(g, Names[g][i]) = Path(f, Slug(f))

\* Two files have the slugs resolve_local_path would give to f.
Crowded(f) ==
  \E g, h \in Files \ {f} : /\ \A x \in {f, g, h} : Present(x) /\ Kind[x] # "tab"
                           /\ Path(g, Slug(g)) = Path(f, Slug(f))
                           /\ Path(h, Slug(h)) = Suffixed(f, Slug(f))

Settled == pc = "idle" /\ quiet > 0

\* __main__ exits 0 when no file failed.  After such a run, with no change of the
\* folder during it, the tree mirrors the folder, whatever runs failed or were
\* killed before: every listed file is exported as it is, and only an image this
\* very run could not get, which costs no exit code, is a placeholder.  A
\* placeholder that was written by a run which then saved no state may stay: the
\* next run compares the text with its record, not with the file.  Tabs of one
\* name are left out.
ExitZeroMeansMirrored ==
  Settled /\ exit = "ok" =>
    \A f \in Files : drive[f].at = "listed" /\ ~NameReused(f) => Exported(f)

\* A failed or killed run needs no repair by hand: of two runs without a change
\* or a failed call the second reports no error.  Only four things keep failing:
\* a text over 1 MiB, a tab that has come to the name of another, a file both of
\* whose paths are taken, and a tab that a killed run had moved without recording
\* it (what the state file names is no longer there).
RecoversInTwoRuns ==
  Settled /\ quiet = 2 =>
    \/ exit = "ok"
    \/ \E f \in Files : Present(f) /\ (drive[f].big \/ NameReused(f) \/ Crowded(f))
    \/ \E f \in DOMAIN state : Kind[f] = "tab" /\ state[f].path \notin DOMAIN disk

\* A file that left the folder while it was recorded is recorded as archived by
\* the next run that saves its state, and the Markdown under its recorded path, if
\* still its own, says so.
GoneIsArchived ==
  Settled /\ exit # "raised" => \A f \in DOMAIN state : drive[f].at \in {"trashed", "tabless"} =>
    LET p == state[f].path
    IN  /\ state[f].archived
        /\ Kind[f] # "png" /\ p \in DOMAIN disk =>
             disk[p].src # f \/ disk[p].sig = Empty \/ disk[p].archived

\* A run fails to save its state file only when it, or a run before it, was killed
\* or met a failed call, or when two files want one path: a tab that has come to
\* the name of another tab, or a file both of whose paths are taken.
CompletesUnlessDisturbed ==
  [][pc # "idle" /\ pc' = "idle" /\ faults' = 0 =>
       pc = "save" \/ \E f \in Files : NameReused(f) \/ Crowded(f)]_vars

-----------------------------------------------------------------------------
(* What a test says, and a sequence of runs refutes.                        *)

\* test_sync_integration.py:437: "two files with same slug" have a
\* "deterministic suffix resolution".  After a run without errors every listed
\* file, of whatever name, has an export of its own at its recorded path.
CollisionResolved ==
  Settled /\ exit = "ok" => \A f \in Files : drive[f].at = "listed" =>
    /\ f \in DOMAIN state
    /\ state[f].path \in DOMAIN disk
    /\ disk[state[f].path].src = f
=============================================================================
