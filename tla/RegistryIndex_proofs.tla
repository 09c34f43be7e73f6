------------------------ MODULE RegistryIndex_proofs ------------------------
(***************************************************************************)
(* Proofs about RegistryIndex, for every set of images, file contents and  *)
(* processes, and any number of edits.                                     *)
(***************************************************************************)
EXTENDS RegistryIndex, TLAPS

(* The inductive invariant, in six parts besides the types.                *)

\* The steps of the loop's body, in which the locals describe an image.
Body == {"select", "manifest", "docker", "write"}

\* A command that is alone is the only one; a verdict outlives no command.
Solitude ==
    /\ \A p \in Process : alone[p] => Active = {p}
    /\ verdict # "none" => Active = {}
    /\ apart => \A p, q \in Active : p = q

\* A body has an image, and only an update hashes it.
Bodies ==
    \A p \in Process :
        at[p] \in Body => /\ image[p] \in Image
                          /\ at[p] = "select" => kind[p] = "index-update"

\* An image is still to do, in the works, or as it should be.
Pending(p, i) == i \in todo[p] \/ (at[p] \in Body /\ image[p] = i)

\* What a full build that is alone has achieved so far.
Building ==
    /\ \A p \in Process : alone[p] /\ kind[p] = "index" =>
          /\ listed[p].manifest = {i \in Image : manifest[i] # Missing}
          /\ listed[p].sbom = {i \in Image : sbom[i]}
          /\ at[p] \in {"docker", "write"} => meta[p] = Columns(manifest[image[p]])
          /\ at[p] = "write" => flags[p] = Columns(dockerfile[image[p]])
          /\ \A i \in Image : dockerfile[i] # Missing => Pending(p, i) \/ RowExact(i)
    /\ RebuildExact

\* While nothing overlaps, an update works on the text it has hashed, and a
\* full build on rows without a sha.
Hashing ==
    apart => \A p \in Active :
        /\ kind[p] = "index-update" /\ at[p] \in Body =>
              /\ sha[p] = dockerfile[image[p]] /\ sha[p] # Missing
              /\ at[p] = "write" => flags[p] = sha[p]
        /\ kind[p] = "index" /\ ~mixed => \A i \in Indexed : images[i].sha = NoSha

\* What an update that is alone has achieved so far.
Updating ==
    apart /\ ~mixed =>
        /\ \A p \in Process : alone[p] /\ kind[p] = "index-update" =>
              \A i \in Image : dockerfile[i] # Missing => Pending(p, i) \/ DockerExact(i)
        /\ UnmixedUpdateExact

IInv ==
    /\ TypeOK /\ Solitude /\ Bodies /\ Building
    /\ Hashing /\ ShaVouches /\ Updating

-----------------------------------------------------------------------------
\* The invariant holds of an empty table and idle processes.
LEMMA InitIInv == Init => IInv
<1> SUFFICES ASSUME Init PROVE IInv
    OBVIOUS
<1> USE IndexAssumption, RowAssumption DEF Init
<1>1. TypeOK
    BY DEF TypeOK, NoSha, NoImage
<1>2. Active = {} /\ Indexed = {}
    BY DEF Active, Indexed
<1>3. Solitude /\ Bodies /\ Building
    BY <1>2 DEF Solitude, Bodies, Body, Building, RebuildExact
<1>4. Hashing /\ ShaVouches /\ Updating
    BY <1>2 DEF Hashing, ShaVouches, Updating, UnmixedUpdateExact
<1> QED BY <1>1, <1>3, <1>4 DEF IInv

-----------------------------------------------------------------------------
(* One lemma per action.                                                   *)

\* A new command: it is alone if nothing else runs, and nothing is done yet.
LEMMA StartStep ==
    ASSUME IInv, NEW p \in Process, NEW k \in {"index", "index-update"}, Start(p, k)
    PROVE  IInv'
<1> USE DEF IInv
<1>1. TypeOK'
    BY DEF Start, Goto, fileVars, TypeOK, Row, NoSha, NoImage, Indexed, Columns, Active
<1>2. Solitude'
  <2>1. Active' = Active \cup {p}
      BY DEF Start, Goto, TypeOK, Active
  <2> QED BY <2>1 DEF Start, Solitude, TypeOK
<1>3. Bodies'
    BY DEF Start, Goto, fileVars, Bodies, TypeOK, Body
<1>4. Building'
    BY IndexAssumption DEF Start, Goto, fileVars, Building, RebuildExact, Pending,
                           Active, Solitude, Bodies, TypeOK, Row, Body, RowExact,
                           DockerExact, ManifestExact, Indexed, Columns
<1>5. Hashing'
    BY IndexAssumption DEF Start, Goto, fileVars, Hashing, TypeOK, Row, Indexed,
                           NoSha, Bodies, Solitude, Body, Active, Columns
<1>6. ShaVouches'
    BY IndexAssumption DEF Start, Goto, fileVars, ShaVouches, Hashing, TypeOK, Row,
                           Bodies, Active, Indexed, NoSha, Body
<1>7. Updating'
    BY IndexAssumption DEF Start, Goto, fileVars, Updating, UnmixedUpdateExact,
                           DockerColumnsExact, Pending, Active, Solitude, Bodies,
                           Hashing, ShaVouches, NoSha, TypeOK, Row, Body, DockerExact,
                           Indexed, Columns
<1> QED BY <1>1, <1>2, <1>3, <1>4, <1>5, <1>6, <1>7

\* A full build moves an image from todo to the works.
LEMMA NextImageStep ==
    ASSUME IInv, NEW p \in Process, NEW i \in Image, NextImage(p, i)
    PROVE  IInv'
<1> USE DEF IInv
<1>1. TypeOK'
    BY DEF NextImage, Goto, Undisturbed, fileVars, ghostVars, TypeOK, Row, NoSha,
           NoImage, Indexed, Columns, Active
<1>2. Solitude'
    BY DEF NextImage, Goto, Undisturbed, fileVars, ghostVars, Solitude, TypeOK, Active
<1>3. Bodies'
    BY DEF NextImage, Goto, Undisturbed, fileVars, ghostVars, Bodies, TypeOK, Body
<1>4. Building'
    BY IndexAssumption DEF NextImage, Goto, Undisturbed, fileVars, ghostVars,
                           Building, RebuildExact, Pending, Active, Solitude, Bodies,
                           TypeOK, Row, Body, RowExact, DockerExact, ManifestExact,
                           Indexed, Columns
<1>5. Hashing'
    BY IndexAssumption DEF NextImage, Goto, Undisturbed, fileVars, ghostVars, Hashing,
                           TypeOK, Row, Indexed, NoSha, Bodies, Solitude, Body,
                           Active, Columns
<1>6. ShaVouches'
    BY IndexAssumption DEF NextImage, Goto, Undisturbed, fileVars, ghostVars,
                           ShaVouches, Hashing, TypeOK, Row, Bodies, Active, Indexed,
                           NoSha, Body
<1>7. Updating'
    BY IndexAssumption DEF NextImage, Goto, Undisturbed, fileVars, ghostVars,
                           Updating, UnmixedUpdateExact, DockerColumnsExact, Pending,
                           Active, Solitude, Bodies, Hashing, ShaVouches, NoSha,
                           TypeOK, Row, Body, DockerExact, Indexed, Columns
<1> QED BY <1>1, <1>2, <1>3, <1>4, <1>5, <1>6, <1>7

\* An update moves one there too, and knows its text, or skips one that is gone.
LEMMA HashImageStep ==
    ASSUME IInv, NEW p \in Process, NEW i \in Image, HashImage(p, i)
    PROVE  IInv'
<1> USE DEF IInv
<1>1. TypeOK'
  <2>1. CASE dockerfile[i] = Missing
      BY <2>1 DEF HashImage, Undisturbed, fileVars, ghostVars, TypeOK
  <2>2. CASE dockerfile[i] # Missing
      BY <2>2 DEF HashImage, Goto, Undisturbed, fileVars, ghostVars, TypeOK, NoSha,
                  NoImage
  <2> QED BY <2>1, <2>2
<1>2. Solitude'
    BY DEF HashImage, Goto, Undisturbed, fileVars, ghostVars, Solitude, TypeOK, Active
<1>3. Bodies'
    BY DEF HashImage, Goto, Undisturbed, fileVars, ghostVars, Bodies, TypeOK, Body
<1>4. Building'
    BY IndexAssumption DEF HashImage, Goto, Undisturbed, fileVars, ghostVars,
                           Building, RebuildExact, Pending, Active, Solitude, Bodies,
                           TypeOK, Row, Body, RowExact, DockerExact, ManifestExact,
                           Indexed, Columns
<1>5. Hashing'
    BY IndexAssumption DEF HashImage, Goto, Undisturbed, fileVars, ghostVars, Hashing,
                           TypeOK, Row, Indexed, NoSha, Bodies, Solitude, Body,
                           Active, Columns
<1>6. ShaVouches'
    BY IndexAssumption DEF HashImage, Goto, Undisturbed, fileVars, ghostVars,
                           ShaVouches, Hashing, TypeOK, Row, Bodies, Active, Indexed,
                           NoSha, Body
<1>7. Updating'
    BY IndexAssumption DEF HashImage, Goto, Undisturbed, fileVars, ghostVars,
                           Updating, UnmixedUpdateExact, DockerColumnsExact, Pending,
                           Active, Solitude, Bodies, Hashing, ShaVouches, NoSha,
                           TypeOK, Row, Body, DockerExact, Indexed, Columns
<1> QED BY <1>1, <1>2, <1>3, <1>4, <1>5, <1>6, <1>7

\* An image is dropped as unchanged: its sha must vouch for its columns.
LEMMA SelectShaStep ==
    ASSUME IInv, NEW p \in Process, SelectSha(p)
    PROVE  IInv'
<1> USE DEF IInv
<1>1. TypeOK'
  <2>1. CASE SameSha(p) /\ Goto(p, "next") /\ EndOfBody(p)
      BY <2>1 DEF SelectSha, Goto, EndOfBody, Undisturbed, fileVars, ghostVars,
                  TypeOK, NoSha, NoImage
  <2>2. CASE Goto(p, "manifest") /\ UNCHANGED <<image, sha, meta, flags>>
      BY <2>2 DEF SelectSha, Goto, Undisturbed, fileVars, ghostVars, TypeOK
  <2> QED BY <2>1, <2>2 DEF SelectSha
<1>2. Solitude'
  <2>1. Active' = Active
      BY DEF SelectSha, Goto, TypeOK, Active
  <2> QED BY <2>1 DEF SelectSha, Undisturbed, ghostVars, Solitude
<1>3. Bodies'
    BY DEF SelectSha, SameSha, Goto, EndOfBody, Undisturbed, fileVars, ghostVars,
           Bodies, TypeOK, Body
<1>4. Building'
  <2>1. kind[p] # "index"
      BY DEF SelectSha, Bodies, Body
  <2>2. ASSUME NEW q \in Process, q # p
        PROVE  UNCHANGED <<at[q], image[q], meta[q], flags[q]>>
      BY <2>2 DEF SelectSha, Goto, EndOfBody, TypeOK
  <2> QED BY <2>1, <2>2
          DEF SelectSha, Undisturbed, fileVars, ghostVars, Building, RebuildExact, Pending,
              RowExact, DockerExact, ManifestExact, Indexed
<1>5. Hashing'
    BY IndexAssumption DEF SelectSha, SameSha, Goto, EndOfBody, Undisturbed, fileVars,
                           ghostVars, Hashing, TypeOK, Row, Indexed, NoSha, Bodies,
                           Solitude, Body, Active, Columns
<1>6. ShaVouches'
    BY IndexAssumption DEF SelectSha, SameSha, Goto, EndOfBody, Undisturbed, fileVars,
                           ghostVars, ShaVouches, Hashing, TypeOK, Row, Bodies,
                           Active, Indexed, NoSha, Body
<1>7. Updating'
    BY IndexAssumption DEF SelectSha, SameSha, Goto, EndOfBody, Undisturbed, fileVars,
                           ghostVars, Updating, UnmixedUpdateExact,
                           DockerColumnsExact, Pending, Active, Solitude, Bodies,
                           Hashing, ShaVouches, NoSha, TypeOK, Row, Body, DockerExact,
                           Indexed, Columns
<1> QED BY <1>1, <1>2, <1>3, <1>4, <1>5, <1>6, <1>7

\* A lone full build now holds the manifest's columns.
LEMMA ReadManifestStep ==
    ASSUME IInv, NEW p \in Process, ReadManifest(p)
    PROVE  IInv'
<1> USE DEF IInv
<1>1. TypeOK'
    BY DEF ReadManifest, Goto, Undisturbed, fileVars, ghostVars, Columns, TypeOK, Row,
           NoSha, NoImage, Indexed, Active
<1>2. Solitude'
    BY DEF ReadManifest, Goto, Undisturbed, fileVars, ghostVars, Columns, Solitude,
           TypeOK, Active
<1>3. Bodies'
    BY DEF ReadManifest, Goto, Undisturbed, fileVars, ghostVars, Columns, Bodies,
           TypeOK, Body
<1>4. Building'
    BY IndexAssumption DEF ReadManifest, Goto, Undisturbed, fileVars, ghostVars,
                           Columns, Building, RebuildExact, Pending, Active, Solitude,
                           Bodies, TypeOK, Row, Body, RowExact, DockerExact,
                           ManifestExact, Indexed
<1>5. Hashing'
    BY IndexAssumption DEF ReadManifest, Goto, Undisturbed, fileVars, ghostVars,
                           Columns, Hashing, TypeOK, Row, Indexed, NoSha, Bodies,
                           Solitude, Body, Active
<1>6. ShaVouches'
    BY IndexAssumption DEF ReadManifest, Goto, Undisturbed, fileVars, ghostVars,
                           Columns, ShaVouches, Hashing, TypeOK, Row, Bodies, Active,
                           Indexed, NoSha, Body
<1>7. Updating'
    BY IndexAssumption DEF ReadManifest, Goto, Undisturbed, fileVars, ghostVars,
                           Columns, Updating, UnmixedUpdateExact, DockerColumnsExact,
                           Pending, Active, Solitude, Bodies, Hashing, ShaVouches,
                           NoSha, TypeOK, Row, Body, DockerExact, Indexed
<1> QED BY <1>1, <1>2, <1>3, <1>4, <1>5, <1>6, <1>7

\* ... and the Dockerfile's; an update those of the text it has hashed.
LEMMA ReadDockerfileStep ==
    ASSUME IInv, NEW p \in Process, ReadDockerfile(p)
    PROVE  IInv'
<1> USE DEF IInv
<1>1. TypeOK'
  <2>1. Columns(dockerfile[image[p]]) \in Text \cup {Defaults}
      BY DEF ReadDockerfile, Bodies, Body, TypeOK, Columns
  <2> QED BY <2>1 DEF ReadDockerfile, Goto, Undisturbed, fileVars, ghostVars, TypeOK
<1>2. Solitude'
    BY DEF ReadDockerfile, Goto, Undisturbed, fileVars, ghostVars, Columns, Solitude,
           TypeOK, Active
<1>3. Bodies'
    BY DEF ReadDockerfile, Goto, Undisturbed, fileVars, ghostVars, Columns, Bodies,
           TypeOK, Body
<1>4. Building'
    BY IndexAssumption DEF ReadDockerfile, Goto, Undisturbed, fileVars, ghostVars,
                           Columns, Building, RebuildExact, Pending, Active, Solitude,
                           Bodies, TypeOK, Row, Body, RowExact, DockerExact,
                           ManifestExact, Indexed
<1>5. Hashing'
    BY IndexAssumption DEF ReadDockerfile, Goto, Undisturbed, fileVars, ghostVars,
                           Columns, Hashing, TypeOK, Row, Indexed, NoSha, Bodies,
                           Solitude, Body, Active
<1>6. ShaVouches'
    BY IndexAssumption DEF ReadDockerfile, Goto, Undisturbed, fileVars, ghostVars,
                           Columns, ShaVouches, Hashing, TypeOK, Row, Bodies, Active,
                           Indexed, NoSha, Body
<1>7. Updating'
    BY IndexAssumption DEF ReadDockerfile, Goto, Undisturbed, fileVars, ghostVars,
                           Columns, Updating, UnmixedUpdateExact, DockerColumnsExact,
                           Pending, Active, Solitude, Bodies, Hashing, ShaVouches,
                           NoSha, TypeOK, Row, Body, DockerExact, Indexed
<1> QED BY <1>1, <1>2, <1>3, <1>4, <1>5, <1>6, <1>7

\* A full build writes a row and keeps its sha: exact, if it is alone.
LEMMA UpsertStep ==
    ASSUME IInv, NEW p \in Process, Upsert(p)
    PROVE  IInv'
<1> USE DEF IInv
<1>1. TypeOK'
  <2>1. image[p] \in Image
      BY DEF Upsert, WriteRow, Bodies, Body
  <2>2. KeptSha(p) \in Text \cup {NoSha}
      BY <2>1 DEF TypeOK, Row, KeptSha, Indexed, NoSha
  <2>3. RowRead(p, KeptSha(p)) \in Row
      BY <2>2 DEF RowRead, Row, TypeOK
  <2> QED BY <2>1, <2>3
          DEF Upsert, WriteRow, Goto, EndOfBody, Undisturbed, fileVars, ghostVars,
              TypeOK,
              NoSha, NoImage
<1>2. Solitude'
    BY DEF Upsert, WriteRow, RowRead, KeptSha, Goto, EndOfBody, Undisturbed, fileVars,
           ghostVars, Solitude, TypeOK, Active
<1>3. Bodies'
    BY DEF Upsert, WriteRow, RowRead, KeptSha, Goto, EndOfBody, Undisturbed, fileVars,
           ghostVars, Bodies, TypeOK, Body
<1>4. Building'
    BY IndexAssumption, RowAssumption
        DEF Upsert, WriteRow, RowRead, KeptSha, Goto, EndOfBody, Undisturbed,
            fileVars, ghostVars, Building, RebuildExact, Pending, Active, Solitude,
            Bodies, TypeOK, Row, Body, RowExact, DockerExact, ManifestExact, Indexed,
            Columns
<1>5. Hashing'
    BY IndexAssumption, RowAssumption
        DEF Upsert, WriteRow, RowRead, KeptSha, Goto, EndOfBody, Undisturbed,
            fileVars, ghostVars, Hashing, TypeOK, Row, Indexed, NoSha, Bodies,
            Solitude, Body, Active, Columns
<1>6. ShaVouches'
    BY IndexAssumption, RowAssumption
        DEF Upsert, WriteRow, RowRead, KeptSha, Goto, EndOfBody, Undisturbed,
            fileVars, ghostVars, ShaVouches, Hashing, TypeOK, Row, Bodies, Active,
            Indexed, NoSha, Body
<1>7. Updating'
    BY IndexAssumption, RowAssumption
        DEF Upsert, WriteRow, RowRead, KeptSha, Goto, EndOfBody, Undisturbed,
            fileVars, ghostVars, Updating, UnmixedUpdateExact, DockerColumnsExact,
            Pending, Active, Solitude, Bodies, Hashing, ShaVouches, NoSha, TypeOK,
            Row, Body, DockerExact, Indexed, Columns
<1> QED BY <1>1, <1>2, <1>3, <1>4, <1>5, <1>6, <1>7

\* An update writes a row with the sha of the text that the columns describe.
LEMMA ReplaceStep ==
    ASSUME IInv, NEW p \in Process, Replace(p)
    PROVE  IInv'
<1> USE DEF IInv
<1>1. TypeOK'
  <2>1. image[p] \in Image
      BY DEF Replace, WriteRow, Bodies, Body
  <2>2. sha[p] \in Text \cup {NoSha}
      BY <2>1 DEF TypeOK, Row, NoSha
  <2>3. RowRead(p, sha[p]) \in Row
      BY <2>2 DEF RowRead, Row, TypeOK
  <2> QED BY <2>1, <2>3
          DEF Replace, WriteRow, Goto, EndOfBody, Undisturbed, fileVars, ghostVars,
              TypeOK,
              NoSha, NoImage
<1>2. Solitude'
    BY DEF Replace, WriteRow, RowRead, Goto, EndOfBody, Undisturbed, fileVars,
           ghostVars, Solitude, TypeOK, Active
<1>3. Bodies'
    BY DEF Replace, WriteRow, RowRead, Goto, EndOfBody, Undisturbed, fileVars,
           ghostVars, Bodies, TypeOK, Body
<1>4. Building'
    BY IndexAssumption, RowAssumption
        DEF Replace, WriteRow, RowRead, Goto, EndOfBody, Undisturbed, fileVars,
            ghostVars, Building, RebuildExact, Pending, Active, Solitude, Bodies,
            TypeOK, Row, Body, RowExact, DockerExact, ManifestExact, Indexed, Columns
<1>5. Hashing'
    BY IndexAssumption, RowAssumption
        DEF Replace, WriteRow, RowRead, Goto, EndOfBody, Undisturbed, fileVars,
            ghostVars, Hashing, TypeOK, Row, Indexed, NoSha, Bodies, Solitude, Body,
            Active, Columns
<1>6. ShaVouches'
    BY IndexAssumption, RowAssumption
        DEF Replace, WriteRow, RowRead, Goto, EndOfBody, Undisturbed, fileVars,
            ghostVars, ShaVouches, Hashing, TypeOK, Row, Bodies, Active, Indexed,
            NoSha, Body
<1>7. Updating'
    BY IndexAssumption, RowAssumption
        DEF Replace, WriteRow, RowRead, Goto, EndOfBody, Undisturbed, fileVars,
            ghostVars, Updating, UnmixedUpdateExact, DockerColumnsExact, Pending,
            Active, Solitude, Bodies, Hashing, ShaVouches, NoSha, TypeOK, Row, Body,
            DockerExact, Indexed, Columns
<1> QED BY <1>1, <1>2, <1>3, <1>4, <1>5, <1>6, <1>7

\* Nothing is left to do or in the works: the verdict of a lone command.
LEMMA FinishStep ==
    ASSUME IInv, NEW p \in Process, Finish(p)
    PROVE  IInv'
<1> USE DEF IInv
<1>1. TypeOK'
    BY DEF Finish, EndOfCommand, Goto, EndOfBody, fileVars, TypeOK, Row, NoSha,
           NoImage, Indexed, Columns, Active
<1>2. Solitude'
    BY DEF Finish, EndOfCommand, Goto, EndOfBody, fileVars, Solitude, TypeOK, Active
<1>3. Bodies'
    BY DEF Finish, EndOfCommand, Goto, EndOfBody, fileVars, Bodies, TypeOK, Body
<1>4. Building'
  <2>1. ASSUME NEW q \in Process, alone'[q] PROVE FALSE
      BY <2>1 DEF Finish, Solitude, Active, TypeOK
  <2>2. verdict' = "index" => alone[p] /\ kind[p] = "index"
      BY DEF Finish
  <2>3. \A i \in Image : ~Pending(p, i)
      BY DEF Finish, Pending, Body
  <2>4. UNCHANGED <<dockerfile, manifest, sbom, images, apart, mixed>>
      BY DEF Finish, fileVars
  <2> QED BY <2>1, <2>2, <2>3, <2>4
          DEF Building, RebuildExact, RowExact, DockerExact, ManifestExact, Indexed
<1>5. Hashing'
    BY IndexAssumption DEF Finish, EndOfCommand, Goto, EndOfBody, fileVars, Hashing,
                           TypeOK, Row, Indexed, NoSha, Bodies, Solitude, Body,
                           Active, Columns
<1>6. ShaVouches'
    BY IndexAssumption DEF Finish, EndOfCommand, Goto, EndOfBody, fileVars,
                           ShaVouches, Hashing, TypeOK, Row, Bodies, Active, Indexed,
                           NoSha, Body
<1>7. Updating'
  <2>1. ASSUME NEW q \in Process, alone'[q] PROVE FALSE
      BY <2>1 DEF Finish, Solitude, Active, TypeOK
  <2>2. verdict' = "index-update" => alone[p] /\ kind[p] = "index-update"
      BY DEF Finish
  <2>3. \A i \in Image : ~Pending(p, i)
      BY DEF Finish, Pending, Body
  <2>4. UNCHANGED <<dockerfile, manifest, sbom, images, apart, mixed>>
      BY DEF Finish, fileVars
  <2> QED BY <2>1, <2>2, <2>3, <2>4
          DEF Updating, UnmixedUpdateExact, DockerColumnsExact, DockerExact, Indexed
<1> QED BY <1>1, <1>2, <1>3, <1>4, <1>5, <1>6, <1>7

\* A command that ends half way leaves no verdict and no wrong sha.
LEMMA AbortStep ==
    ASSUME IInv, NEW p \in Process, Abort(p)
    PROVE  IInv'
<1> USE DEF IInv
<1>1. TypeOK'
    BY DEF Abort, EndOfCommand, Goto, EndOfBody, fileVars, TypeOK, Row, NoSha,
           NoImage, Indexed, Columns, Active
<1>2. Solitude'
    BY DEF Abort, EndOfCommand, Goto, EndOfBody, fileVars, Solitude, TypeOK, Active
<1>3. Bodies'
    BY DEF Abort, EndOfCommand, Goto, EndOfBody, fileVars, Bodies, TypeOK, Body
<1>4. Building'
    BY IndexAssumption DEF Abort, EndOfCommand, Goto, EndOfBody, fileVars, Building,
                           RebuildExact, Pending, Active, Solitude, Bodies, TypeOK,
                           Row, Body, RowExact, DockerExact, ManifestExact, Indexed,
                           Columns
<1>5. Hashing'
    BY IndexAssumption DEF Abort, EndOfCommand, Goto, EndOfBody, fileVars, Hashing,
                           TypeOK, Row, Indexed, NoSha, Bodies, Solitude, Body,
                           Active, Columns
<1>6. ShaVouches'
    BY IndexAssumption DEF Abort, EndOfCommand, Goto, EndOfBody, fileVars, ShaVouches,
                           Hashing, TypeOK, Row, Bodies, Active, Indexed, NoSha, Body
<1>7. Updating'
    BY IndexAssumption DEF Abort, EndOfCommand, Goto, EndOfBody, fileVars, Updating,
                           UnmixedUpdateExact, DockerColumnsExact, Pending, Active,
                           Solitude, Bodies, Hashing, ShaVouches, NoSha, TypeOK, Row,
                           Body, DockerExact, Indexed, Columns
<1> QED BY <1>1, <1>2, <1>3, <1>4, <1>5, <1>6, <1>7

\* An edit ends every claim about the files: none is alone, none has a verdict.
LEMMA EditDockerfileStep ==
    ASSUME IInv, NEW i \in Image, NEW text \in Text \cup {Missing}, EditDockerfile(i,
           text)
    PROVE  IInv'
<1> USE DEF IInv
<1>1. TypeOK'
    BY DEF EditDockerfile, Edited, scanVars, TypeOK, Row, NoSha, NoImage, Indexed,
           Columns, Active
<1>2. Solitude'
    BY DEF EditDockerfile, Edited, scanVars, Solitude, TypeOK, Active
<1>3. Bodies'
    BY DEF EditDockerfile, Edited, scanVars, Bodies, TypeOK, Body
<1>4. Building'
    BY IndexAssumption DEF EditDockerfile, Edited, scanVars, Building, RebuildExact,
                           Pending, Active, Solitude, Bodies, TypeOK, Row, Body,
                           RowExact, DockerExact, ManifestExact, Indexed, Columns
<1>5. Hashing'
    BY IndexAssumption DEF EditDockerfile, Edited, scanVars, Hashing, TypeOK, Row,
                           Indexed, NoSha, Bodies, Solitude, Body, Active, Columns
<1>6. ShaVouches'
    BY IndexAssumption DEF EditDockerfile, Edited, scanVars, ShaVouches, Hashing,
                           TypeOK, Row, Bodies, Active, Indexed, NoSha, Body
<1>7. Updating'
    BY IndexAssumption DEF EditDockerfile, Edited, scanVars, Updating,
                           UnmixedUpdateExact, DockerColumnsExact, Pending, Active,
                           Solitude, Bodies, Hashing, ShaVouches, NoSha, TypeOK, Row,
                           Body, DockerExact, Indexed, Columns
<1> QED BY <1>1, <1>2, <1>3, <1>4, <1>5, <1>6, <1>7

\* The same for a manifest, which no sha vouches for.
LEMMA EditManifestStep ==
    ASSUME IInv, NEW i \in Image, NEW m \in Manifest \cup {Missing}, EditManifest(i, m)
    PROVE  IInv'
<1> USE DEF IInv
<1>1. TypeOK'
    BY DEF EditManifest, Edited, scanVars, TypeOK, Row, NoSha, NoImage, Indexed,
           Columns, Active
<1>2. Solitude'
    BY DEF EditManifest, Edited, scanVars, Solitude, TypeOK, Active
<1>3. Bodies'
    BY DEF EditManifest, Edited, scanVars, Bodies, TypeOK, Body
<1>4. Building'
    BY IndexAssumption DEF EditManifest, Edited, scanVars, Building, RebuildExact,
                           Pending, Active, Solitude, Bodies, TypeOK, Row, Body,
                           RowExact, DockerExact, ManifestExact, Indexed, Columns
<1>5. Hashing'
    BY IndexAssumption DEF EditManifest, Edited, scanVars, Hashing, TypeOK, Row,
                           Indexed, NoSha, Bodies, Solitude, Body, Active, Columns
<1>6. ShaVouches'
    BY IndexAssumption DEF EditManifest, Edited, scanVars, ShaVouches, Hashing,
                           TypeOK, Row, Bodies, Active, Indexed, NoSha, Body
<1>7. Updating'
    BY IndexAssumption DEF EditManifest, Edited, scanVars, Updating,
                           UnmixedUpdateExact, DockerColumnsExact, Pending, Active,
                           Solitude, Bodies, Hashing, ShaVouches, NoSha, TypeOK, Row,
                           Body, DockerExact, Indexed, Columns
<1> QED BY <1>1, <1>2, <1>3, <1>4, <1>5, <1>6, <1>7

\* The same for an SBOM.
LEMMA EditSbomStep ==
    ASSUME IInv, NEW i \in Image, NEW has \in BOOLEAN, EditSbom(i, has)
    PROVE  IInv'
<1> USE DEF IInv
<1>1. TypeOK'
    BY DEF EditSbom, Edited, scanVars, TypeOK, Row, NoSha, NoImage, Indexed, Columns,
           Active
<1>2. Solitude'
    BY DEF EditSbom, Edited, scanVars, Solitude, TypeOK, Active
<1>3. Bodies'
    BY DEF EditSbom, Edited, scanVars, Bodies, TypeOK, Body
<1>4. Building'
    BY IndexAssumption DEF EditSbom, Edited, scanVars, Building, RebuildExact,
                           Pending, Active, Solitude, Bodies, TypeOK, Row, Body,
                           RowExact, DockerExact, ManifestExact, Indexed, Columns
<1>5. Hashing'
    BY IndexAssumption DEF EditSbom, Edited, scanVars, Hashing, TypeOK, Row, Indexed,
                           NoSha, Bodies, Solitude, Body, Active, Columns
<1>6. ShaVouches'
    BY IndexAssumption DEF EditSbom, Edited, scanVars, ShaVouches, Hashing, TypeOK,
                           Row, Bodies, Active, Indexed, NoSha, Body
<1>7. Updating'
    BY IndexAssumption DEF EditSbom, Edited, scanVars, Updating, UnmixedUpdateExact,
                           DockerColumnsExact, Pending, Active, Solitude, Bodies,
                           Hashing, ShaVouches, NoSha, TypeOK, Row, Body, DockerExact,
                           Indexed, Columns
<1> QED BY <1>1, <1>2, <1>3, <1>4, <1>5, <1>6, <1>7
-----------------------------------------------------------------------------
\* Every step preserves the invariant.
LEMMA NextIInv ==
    ASSUME IInv, [Next]_vars
    PROVE  IInv'
<1>1. CASE Next
    BY <1>1, StartStep, NextImageStep, HashImageStep, SelectShaStep, ReadManifestStep,
       ReadDockerfileStep, UpsertStep, ReplaceStep, FinishStep, AbortStep,
       EditDockerfileStep, EditManifestStep, EditSbomStep, Zenon
       DEF Next, Step
<1>2. CASE UNCHANGED vars
    BY <1>2 DEF vars, IInv, TypeOK, Solitude, Bodies, Building, Hashing, ShaVouches,
       Updating, Pending, Active, Indexed, RebuildExact, UnmixedUpdateExact,
       DockerColumnsExact, RowExact, DockerExact, ManifestExact
<1> QED BY <1>1, <1>2

\* Every reachable state satisfies the inductive invariant.
THEOREM Invariance == Spec => []IInv
<1>1. Init => IInv BY InitIInv
<1>2. IInv /\ [Next]_vars => IInv' BY NextIInv
<1> QED BY <1>1, <1>2, PTL DEF Spec

-----------------------------------------------------------------------------
(* The theorems.                                                           *)

\* Every variable keeps its type: no row is written with the contents of a
\* file that was not there (the Err arms of both commands).
THEOREM TypeCorrect == Spec => []TypeOK
BY Invariance, PTL DEF IInv

\* A full build that ran alone is exact, whatever was in the table and however
\* many commands were killed before it (build_index).
THEOREM RebuildIsExact == Spec => []RebuildExact
BY Invariance, PTL DEF IInv, Building

\* A stored sha vouches for its row while commands and edits do not overlap and
\* full builds stay away from the rows of updates (update_index_incremental).
THEOREM ShaIsHonest == Spec => []ShaVouches
BY Invariance, PTL DEF IInv

\* Under the same discipline an update leaves no stale Dockerfile columns.
THEOREM UpdateIsExact == Spec => []UnmixedUpdateExact
<1>1. IInv => UnmixedUpdateExact
    BY DEF IInv, Updating, UnmixedUpdateExact
<1> QED BY Invariance, <1>1, PTL
=============================================================================
