---------------------------- MODULE RegistryIndex ----------------------------
(***************************************************************************)
(* The SQLite registry index (evergreenctl/src/registry_index.rs), a cache *)
(* of the image directories: the commands "evergreenctl index" (a full     *)
(* build) and "evergreenctl index-update" (incremental), run by processes  *)
(* that may overlap, be killed or fail at any statement, while files are   *)
(* edited.  No transaction spans two statements: each row is written by a  *)
(* statement that commits on its own.                                      *)
(*                                                                         *)
(* Abstractions.  A row keeps what it was derived from: eight columns are  *)
(* functions of the Dockerfile's text, six of the manifest, so a row holds *)
(* the text and the manifest they describe, or Defaults when the file was  *)
(* missing or unreadable.  A SHA-256 is the text it was computed from.     *)
(* Listing the directories is one step: each later step concerns one image *)
(* only, so the moments at which the others were listed do not matter.     *)
(* The columns of record_build and record_violations are left out: no      *)
(* command calls these two functions.                                      *)
(***************************************************************************)
EXTENDS Naturals, FiniteSets

CONSTANTS
    Image,      \* image directories, present and future
    Text,       \* contents of a Dockerfile
    Manifest,   \* contents of a manifest.toml
    Missing,    \* no such file
    Defaults,   \* the columns written for a missing or unreadable file
    NoRow,      \* no row has this name
    Process,    \* processes that run index and index-update
    MaxEdits    \* bound: edits of files in a behaviour

ASSUME IndexAssumption ==
    /\ Missing \notin Text \cup Manifest \cup Image
    /\ Defaults \notin Text \cup Manifest
    /\ MaxEdits \in Nat

VARIABLES
    dockerfile, \* the Dockerfile of each image
    manifest,   \* its manifest.toml
    sbom,       \* does it have sbom.spdx.json?
    images,     \* the table images, keyed by name
    at,         \* the next step of each process
    kind,       \* the command it runs
    todo,       \* the listed images it has still to handle
    listed,     \* what the listing saw: the images with a manifest, an sbom
    image,      \* the image it handles
    sha,        \* current_sha of that image
    meta,       \* the manifest columns of that image
    flags,      \* the Dockerfile columns of that image
    edits,      \* number of edits so far
    alone,      \* history: has nothing else happened since it started?
    verdict,    \* history: the last command completed, if it ran alone and
                \*   nothing has happened since
    apart,      \* history: no two commands have overlapped, and no file has
                \*   changed while one ran
    mixed       \* history: a full build has run over rows with a sha

fileVars  == <<dockerfile, manifest, sbom>>
scanVars  == <<kind, todo, listed, image, sha, meta, flags>>
ghostVars == <<edits, alone, verdict, apart, mixed>>
vars      == <<dockerfile, manifest, sbom, images, at, kind, todo, listed,
               image, sha, meta, flags, edits, alone, verdict, apart, mixed>>

NoSha   == Missing   \* the default '' of the column dockerfile_sha
NoImage == Missing

Row == [docker : Text \cup {Defaults},
        manifest : Manifest \cup {Defaults},
        sbom : BOOLEAN,
        sha : Text \cup {NoSha}]

ASSUME RowAssumption == NoRow \notin Row

Indexed == {i \in Image : images[i] # NoRow}
Active  == {p \in Process : at[p] # "idle"}

\* Mutant of Columns: no defaults.
ColumnsRaw(content) == content

\* What reading a file yields: its columns, or the defaults.
Columns(content) == IF content = Missing THEN Defaults ELSE content

Init ==
    /\ dockerfile \in [Image -> Text \cup {Missing}]
    /\ manifest \in [Image -> Manifest \cup {Missing}]
    /\ sbom \in [Image -> BOOLEAN]
    /\ images = [i \in Image |-> NoRow]
    /\ at = [p \in Process |-> "idle"]
    /\ kind = [p \in Process |-> "index"]
    /\ todo = [p \in Process |-> {}]
    /\ listed = [p \in Process |-> [manifest |-> {}, sbom |-> {}]]
    /\ image = [p \in Process |-> NoImage]
    /\ sha = [p \in Process |-> NoSha]
    /\ meta = [p \in Process |-> Defaults]
    /\ flags = [p \in Process |-> Defaults]
    /\ edits = 0
    /\ alone = [p \in Process |-> FALSE]
    /\ verdict = "none"
    /\ apart = TRUE
    /\ mixed = FALSE

TypeOK ==
    /\ dockerfile \in [Image -> Text \cup {Missing}]
    /\ manifest \in [Image -> Manifest \cup {Missing}]
    /\ sbom \in [Image -> BOOLEAN]
    /\ images \in [Image -> Row \cup {NoRow}]
    /\ at \in [Process -> {"idle", "next", "select", "manifest", "docker", "write"}]
    /\ kind \in [Process -> {"index", "index-update"}]
    /\ todo \in [Process -> SUBSET Image]
    /\ listed \in [Process -> [manifest : SUBSET Image, sbom : SUBSET Image]]
    /\ image \in [Process -> Image \cup {NoImage}]
    /\ sha \in [Process -> Text \cup {NoSha}]
    /\ meta \in [Process -> Manifest \cup {Defaults}]
    /\ flags \in [Process -> Text \cup {Defaults}]
    /\ edits \in Nat
    /\ alone \in [Process -> BOOLEAN]
    /\ verdict \in {"none", "index", "index-update"}
    /\ apart \in BOOLEAN
    /\ mixed \in BOOLEAN

-----------------------------------------------------------------------------
(* The files change: an editor, bump, generate or auto-version.            *)

Edited ==
    /\ edits < MaxEdits
    /\ edits' = edits + 1
    /\ alone' = [p \in Process |-> FALSE]
    /\ verdict' = "none"
    /\ apart' = (apart /\ Active = {})
    /\ UNCHANGED <<images, at, scanVars, mixed>>

\* bump of an image without a manifest, or an editor; Missing removes it.
EditDockerfile(i, text) ==
    /\ dockerfile[i] # text
    /\ dockerfile' = [dockerfile EXCEPT ![i] = text]
    /\ UNCHANGED <<manifest, sbom>>
    /\ Edited

\* auto-version and bump write the manifest and leave the Dockerfile alone.
EditManifest(i, m) ==
    /\ manifest[i] # m
    /\ manifest' = [manifest EXCEPT ![i] = m]
    /\ UNCHANGED <<dockerfile, sbom>>
    /\ Edited

EditSbom(i, has) ==
    /\ sbom[i] # has
    /\ sbom' = [sbom EXCEPT ![i] = has]
    /\ UNCHANGED <<dockerfile, manifest>>
    /\ Edited

-----------------------------------------------------------------------------
(* One command, one image at a time.                                       *)

Goto(p, label) == at' = [at EXCEPT ![p] = label]
Undisturbed    == UNCHANGED <<fileVars, ghostVars>>

\* The locals of the loop's body end with it, those of the command with it.
EndOfBody(p) ==
    /\ image' = [image EXCEPT ![p] = NoImage]
    /\ sha' = [sha EXCEPT ![p] = NoSha]
    /\ meta' = [meta EXCEPT ![p] = Defaults]
    /\ flags' = [flags EXCEPT ![p] = Defaults]

EndOfCommand(p) ==
    /\ Goto(p, "idle")
    /\ kind' = [kind EXCEPT ![p] = "index"]
    /\ todo' = [todo EXCEPT ![p] = {}]
    /\ listed' = [listed EXCEPT ![p] = [manifest |-> {}, sbom |-> {}]]
    /\ EndOfBody(p)

\* open_index and iter_image_dirs: directories without a Dockerfile are skipped.
Start(p, k) ==
    /\ at[p] = "idle"
    /\ Goto(p, "next")
    /\ kind' = [kind EXCEPT ![p] = k]
    /\ todo' = [todo EXCEPT ![p] = {i \in Image : dockerfile[i] # Missing}]
    /\ listed' = [listed EXCEPT ![p] =
                    [manifest |-> {i \in Image : manifest[i] # Missing},
                     sbom |-> {i \in Image : sbom[i]}]]
    /\ alone' = [q \in Process |-> q = p /\ Active = {}]
    /\ verdict' = "none"
    /\ apart' = (apart /\ Active = {})
    /\ mixed' = (mixed \/ (k = "index" /\ \E i \in Indexed : images[i].sha # NoSha))
    /\ UNCHANGED <<fileVars, images, image, sha, meta, flags, edits>>

\* index: the next listed image.
NextImage(p, i) ==
    /\ at[p] = "next" /\ kind[p] = "index"
    /\ i \in todo[p]
    /\ todo' = [todo EXCEPT ![p] = @ \ {i}]
    /\ image' = [image EXCEPT ![p] = i]
    /\ Goto(p, "manifest")
    /\ UNCHANGED <<images, kind, listed, sha, meta, flags>> /\ Undisturbed

\* index-update: the next listed image, with sha256_file of its Dockerfile;
\* an image whose Dockerfile has gone is skipped.
HashImage(p, i) ==
    /\ at[p] = "next" /\ kind[p] = "index-update"
    /\ i \in todo[p]
    /\ todo' = [todo EXCEPT ![p] = @ \ {i}]
    /\ IF dockerfile[i] = Missing
       THEN UNCHANGED <<at, image, sha>>
       ELSE /\ Goto(p, "select")
            /\ image' = [image EXCEPT ![p] = i]
            /\ sha' = [sha EXCEPT ![p] = dockerfile[i]]
    /\ UNCHANGED <<images, kind, listed, meta, flags>> /\ Undisturbed

\* Mutant of SameSha: any row will do.
SameShaAnyRow(p) == image[p] \in Indexed

\* SELECT dockerfile_sha FROM images WHERE name = ?1
SameSha(p) == image[p] \in Indexed /\ images[image[p]].sha = sha[p]

\* An image whose sha is in the table is unchanged; any other, and one whose
\* query fails (.ok() makes no row of an error), is read again.
SelectSha(p) ==
    /\ at[p] = "select"
    /\ \/ SameSha(p) /\ Goto(p, "next") /\ EndOfBody(p)
       \/ Goto(p, "manifest") /\ UNCHANGED <<image, sha, meta, flags>>
    /\ UNCHANGED <<images, kind, todo, listed>> /\ Undisturbed

\* Manifest::from_file, if the listing saw one.
ReadManifest(p) ==
    /\ at[p] = "manifest"
    /\ meta' = [meta EXCEPT ![p] =
                    IF image[p] \in listed[p].manifest
                    THEN Columns(manifest[image[p]]) ELSE Defaults]
    /\ Goto(p, "docker")
    /\ UNCHANGED <<images, kind, todo, listed, image, sha, flags>> /\ Undisturbed

\* read_to_string of the Dockerfile.
ReadDockerfile(p) ==
    /\ at[p] = "docker"
    /\ flags' = [flags EXCEPT ![p] = Columns(dockerfile[image[p]])]
    /\ Goto(p, "write")
    /\ UNCHANGED <<images, kind, todo, listed, image, sha, meta>> /\ Undisturbed

RowRead(p, s) ==
    [docker |-> flags[p], manifest |-> meta[p],
     sbom |-> image[p] \in listed[p].sbom, sha |-> s]

\* A statement that writes one row and commits.
WriteRow(p, k, row) ==
    /\ at[p] = "write" /\ kind[p] = k
    /\ images' = [images EXCEPT ![image[p]] = row]
    /\ Goto(p, "next") /\ EndOfBody(p)
    /\ UNCHANGED <<kind, todo, listed>> /\ Undisturbed

\* The columns of a full build have no dockerfile_sha: an existing row keeps
\* its own, a new one gets the default.
KeptSha(p) == IF image[p] \in Indexed THEN images[image[p]].sha ELSE NoSha

\* Mutant of Upsert: ON CONFLICT(name) DO NOTHING.
UpsertNothing(p) ==
    WriteRow(p, "index", IF image[p] \in Indexed THEN images[image[p]]
                         ELSE RowRead(p, NoSha))

\* index: INSERT ... ON CONFLICT(name) DO UPDATE.
Upsert(p) == WriteRow(p, "index", RowRead(p, KeptSha(p)))

\* Mutant of Replace: only the sha is updated.
ReplaceShaOnly(p) ==
    WriteRow(p, "index-update", IF image[p] \in Indexed
                                THEN [images[image[p]] EXCEPT !.sha = sha[p]]
                                ELSE RowRead(p, sha[p]))

\* index-update: INSERT OR REPLACE with the sha computed before.
Replace(p) == WriteRow(p, "index-update", RowRead(p, sha[p]))

\* Every listed image has been handled.
Finish(p) ==
    /\ at[p] = "next"
    /\ todo[p] = {}
    /\ EndOfCommand(p)
    /\ verdict' = IF alone[p] THEN kind[p] ELSE "none"
    /\ alone' = [alone EXCEPT ![p] = FALSE]
    /\ UNCHANGED <<fileVars, images, edits, apart, mixed>>

\* The process is killed, or a statement fails (the database is locked): the
\* rows written so far are committed, the others are not written.
Abort(p) ==
    /\ at[p] # "idle"
    /\ EndOfCommand(p)
    /\ alone' = [alone EXCEPT ![p] = FALSE]
    /\ UNCHANGED <<fileVars, images, edits, verdict, apart, mixed>>

Step(p) ==
    \/ \E k \in {"index", "index-update"} : Start(p, k)
    \/ \E i \in Image : NextImage(p, i) \/ HashImage(p, i)
    \/ SelectSha(p) \/ ReadManifest(p) \/ ReadDockerfile(p)
    \/ Upsert(p) \/ Replace(p)
    \/ Finish(p) \/ Abort(p)

Next ==
    \/ \E p \in Process : Step(p)
    \/ \E i \in Image :
          \/ \E text \in Text \cup {Missing} : EditDockerfile(i, text)
          \/ \E m \in Manifest \cup {Missing} : EditManifest(i, m)
          \/ \E has \in BOOLEAN : EditSbom(i, has)

Spec == Init /\ [][Next]_vars

-----------------------------------------------------------------------------
(* Properties.                                                             *)

\* The row of image i describes its files, or at least its Dockerfile.
DockerExact(i) == i \in Indexed /\ images[i].docker = Columns(dockerfile[i])

ManifestExact(i) == i \in Indexed /\ images[i].manifest = Columns(manifest[i])

RowExact(i) ==
    DockerExact(i) /\ ManifestExact(i) /\ images[i].sbom = sbom[i]

\* A full build that ran alone, killed and aborted predecessors or not, leaves
\* an exact row for every image directory (build_index).
RebuildExact ==
    verdict = "index" => \A i \in Image : dockerfile[i] # Missing => RowExact(i)

\* While commands and edits do not overlap and no full build has run over the
\* rows of an incremental update, a stored sha vouches for the columns beside
\* it, even after crashes at any statement (update_index_incremental).
ShaVouches ==
    apart /\ ~mixed =>
        \A i \in Indexed : images[i].sha # NoSha => images[i].docker = images[i].sha

DockerColumnsExact ==
    \A i \in Image : dockerfile[i] # Missing => DockerExact(i)

\* So an incremental update of such an index leaves no image with stale
\* Dockerfile columns.
UnmixedUpdateExact ==
    apart /\ ~mixed /\ verdict = "index-update" => DockerColumnsExact

\* The comment of update_index_incremental (registry_index.rs:272-273) makes no
\* exception for full builds: an update leaves no image with stale Dockerfile
\* columns when commands and edits do not overlap.
UpdateExact ==
    apart /\ verdict = "index-update" => DockerColumnsExact

\* "Incremental updates (only re-scan changed images)" (registry_index.rs:10):
\* an image whose manifest changed, as auto-version and bump change it, is
\* scanned again, so its version column follows.
UpdateSeesManifest ==
    apart /\ ~mixed /\ verdict = "index-update" =>
        \A i \in Image : dockerfile[i] # Missing => ManifestExact(i)
=============================================================================
