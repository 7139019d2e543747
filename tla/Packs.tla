---------------------------------- MODULE Packs ----------------------------------
(***************************************************************************)
(* Campaign packs on disk (master/internal/campaignpack).  The Host saves  *)
(* a generated pack (WriteAndValidate) or adds a chapter to one            *)
(* (AddFilesAndValidate), file by file and in place; a library archive     *)
(* (InstallLibrary) is unpacked beside and moved in.  All of them keep     *)
(* only what LoadPack can read, and the process may end between any two    *)
(* steps.  A file's content is a number; what its text says is left out,   *)
(* and so is how the files were generated.                                 *)
(***************************************************************************)
EXTENDS Naturals, Sequences

CONSTANTS
  Slugs,      \* pack directories
  Savers,     \* requests to save
  Installs,   \* library packs being installed: requests, one pack each
  Uploads,    \* bound: the lists of files the Host saves, and archives hold
  DiskFails   \* whether a write may fail

\* The files of a pack; without campaign.md it does not load.  A file that is
\* there has a content, which is readable, or bad.
Files == {"campaign.md", "other.md"}
NoFile == 0
Bad == 3
Contents == {1, 2, Bad}

ASSUME UploadsAssumption == Uploads \subseteq Seq([path : Files, text : Contents])

VARIABLES
  disk,      \* each slug's directory; one without files is empty or absent
  save,      \* what each saving request is doing
  install,   \* what each installation is doing
  \* history
  handmade,  \* slugs the Host saved to
  replaced   \* slugs whose pack an installation began to remove

packVars == <<disk, save, install, handmade, replaced>>

Empty == [f \in Files |-> NoFile]
Parses(pack) == pack["campaign.md"] # NoFile /\ \A f \in Files : pack[f] # Bad

Put(pack, file) == [pack EXCEPT ![file.path] = file.text]

\* The pack after a list of files was written to it: the last one of a path
\* stays.
Written(pack, files) ==
  [f \in Files |->
     LET last == {i \in DOMAIN files : files[i].path = f /\ \A j \in DOMAIN files : files[j].path = f => j <= i}
     IN IF last = {} THEN pack[f] ELSE files[CHOOSE i \in last : TRUE].text]

\* The pack that a list of files makes.
Unpacked(files) == Written(Empty, files)

PacksInit ==
  /\ disk = [s \in Slugs |-> Empty]
  /\ save = [v \in Savers |-> [pc |-> "idle"]]
  /\ install = [i \in Installs |-> [pc |-> "idle"]]
  /\ handmade = {} /\ replaced = {}

--------------------------------------------------------------------------------
(* Saving in place.                                                        *)

SaveEnds(v, pc) == save' = [save EXCEPT ![v] = [pc |-> pc]]

\* handleSaveCampaignPack.  A new pack may have any slug, one that is taken
\* included, whose files are then overwritten; campaign.md cannot be added.
StartSave(v, s, adding, files) ==
  /\ save[v].pc # "write" /\ files # <<>>
  /\ adding => \A i \in DOMAIN files : files[i].path # "campaign.md"
  /\ save' = [save EXCEPT ![v] =
       [pc |-> "write", slug |-> s, adding |-> adding, files |-> files, undo |-> <<>>]]
  /\ handmade' = handmade \cup {s}
  /\ UNCHANGED <<disk, install, replaced>>

\* rollback, in the order of writing; WriteAndValidate removes the directory,
\* with the pack that was there before.
Undone(v, pack) == IF save[v].adding THEN Written(pack, save[v].undo) ELSE Empty

\* A save that fails undoes what it did, and answers the Host.
FailSave(v, pack) ==
  /\ disk' = [disk EXCEPT ![save[v].slug] = Undone(v, pack)]
  /\ SaveEnds(v, "failed")

\* The next file: its old content is remembered once it is overwritten.
WriteFile(v) ==
  /\ save[v].pc = "write" /\ save[v].files # <<>>
  /\ LET s == save[v].slug
         file == Head(save[v].files)
     IN \/ /\ disk' = [disk EXCEPT ![s] = Put(@, file)]
           /\ save' = [save EXCEPT ![v].files = Tail(@),
                                   ![v].undo = Append(@, [path |-> file.path, text |-> disk[s][file.path]])]
        \/ /\ DiskFails
           /\ \E torn \in {disk[s][file.path], Bad} : FailSave(v, [disk[s] EXCEPT ![file.path] = torn])
  /\ UNCHANGED <<install, handmade, replaced>>

ValidateSave(v) ==
  /\ save[v].pc = "write" /\ save[v].files = <<>>
  /\ LET pack == disk[save[v].slug] IN
     IF Parses(pack) THEN SaveEnds(v, "done") /\ UNCHANGED disk ELSE FailSave(v, pack)
  /\ UNCHANGED <<install, handmade, replaced>>

--------------------------------------------------------------------------------
(* Installing from a library.                                              *)

InstallGoto(i, next) == install' = [install EXCEPT ![i] = next]

\* Mutant: unpacked where it belongs, and validated there.
StageInPlace(i, s, files, overwrite) ==
  /\ install[i].pc = "idle"
  /\ disk' = [disk EXCEPT ![s] = Unpacked(files)]
  /\ InstallGoto(i, [pc |-> IF Parses(Unpacked(files)) THEN "done" ELSE "failed"])
  /\ UNCHANGED <<save, handmade, replaced>>

\* installOnePack: unpacked into a directory of its own and validated there.
StagePack(i, s, files, overwrite) ==
  /\ install[i].pc = "idle"
  /\ InstallGoto(i, IF Parses(Unpacked(files))
       THEN [pc |-> "place", slug |-> s, pack |-> Unpacked(files), overwrite |-> overwrite] ELSE [pc |-> "failed"])
  /\ UNCHANGED <<disk, save, handmade, replaced>>

\* A directory that is there is skipped, or removed.
MakeRoom(i) ==
  /\ install[i].pc = "place"
  /\ LET s == install[i].slug
         Then(pc) == InstallGoto(i, [install[i] EXCEPT !.pc = pc])
     IN \/ disk[s] = Empty /\ Then("rename") /\ UNCHANGED replaced
        \/ disk[s] # Empty /\ ~install[i].overwrite /\ InstallGoto(i, [pc |-> "skipped"]) /\ UNCHANGED replaced
        \/ disk[s] # Empty /\ install[i].overwrite /\ Then("remove") /\ replaced' = replaced \cup {s}
  /\ UNCHANGED <<disk, save, handmade>>

\* os.RemoveAll, a file at a time, in whatever order the directory has them.
RemoveOld(i) ==
  /\ install[i].pc = "remove"
  /\ LET s == install[i].slug IN
     \/ \E f \in Files : disk[s][f] # NoFile /\ disk' = [disk EXCEPT ![s][f] = NoFile] /\ UNCHANGED install
     \/ disk[s] = Empty /\ InstallGoto(i, [install[i] EXCEPT !.pc = "rename"]) /\ UNCHANGED disk
     \/ DiskFails /\ InstallGoto(i, [pc |-> "failed"]) /\ UNCHANGED disk
  /\ UNCHANGED <<save, handmade, replaced>>

\* A rename does not replace a directory.
RenamePack(i) ==
  /\ install[i].pc = "rename"
  /\ IF disk[install[i].slug] = Empty
       THEN disk' = [disk EXCEPT ![install[i].slug] = install[i].pack] /\ InstallGoto(i, [pc |-> "done"])
       ELSE UNCHANGED disk /\ InstallGoto(i, [pc |-> "failed"])
  /\ UNCHANGED <<save, handmade, replaced>>

\* The process ends: nothing is undone.
PacksRestart ==
  /\ save' = [v \in Savers |-> IF save[v].pc = "write" THEN [pc |-> "cut"] ELSE save[v]]
  /\ install' = [i \in Installs |-> IF install[i].pc \in {"place", "remove", "rename"} THEN [pc |-> "cut"] ELSE install[i]]
  /\ UNCHANGED <<disk, handmade, replaced>>

PacksNext ==
  \/ \E v \in Savers :
       \/ \E s \in Slugs, adding \in BOOLEAN, files \in Uploads : StartSave(v, s, adding, files)
       \/ WriteFile(v) \/ ValidateSave(v)
  \/ \E i \in Installs :
       \/ \E s \in Slugs, files \in Uploads, overwrite \in BOOLEAN : StagePack(i, s, files, overwrite)
       \/ MakeRoom(i) \/ RemoveOld(i) \/ RenamePack(i)
  \/ PacksRestart

PacksSpec == PacksInit /\ [][PacksNext]_packVars

--------------------------------------------------------------------------------
(* Properties.                                                             *)

Pack == [Files -> Contents \cup {NoFile}]

PacksTypeOK ==
  /\ disk \in [Slugs -> Pack]
  /\ \A v \in Savers :
       \/ save[v].pc \in {"idle", "done", "failed", "cut"}
       \/ /\ save[v].pc = "write"
          /\ save[v].slug \in Slugs
          /\ save[v].undo \in Seq([path : Files, text : Contents \cup {NoFile}])
  /\ \A i \in Installs :
       \/ install[i].pc \in {"idle", "done", "failed", "skipped", "cut"}
       \/ install[i].pc \in {"place", "remove", "rename"} /\ install[i].slug \in Slugs /\ Parses(install[i].pack)
  /\ handmade \subseteq Slugs /\ replaced \subseteq Slugs

PartOf(pack, whole) == \A f \in Files : pack[f] \in {NoFile, whole[f]}

\* A pack that only the library writes is there as a whole or not at all, and
\* can be read, whatever is installed at the same time and wherever the process
\* ends; only the removal of a pack that is to be overwritten can be cut short,
\* and what is there then is a part of one pack, never of two.
InstallsAreWhole ==
  \A s \in Slugs \ handmade :
    \/ disk[s] = Empty
    \/ \E files \in Uploads :
         /\ Parses(Unpacked(files))
         /\ disk[s] = Unpacked(files) \/ (s \in replaced /\ PartOf(disk[s], Unpacked(files)))
================================================================================
