----------------------------- MODULE PictureUploads -----------------------------
(***************************************************************************)
(* Pictures on their way to Cloudinary: the profile picture, uploaded from *)
(* several tabs of the form that also saves it, and the photos of a        *)
(* listing, picked in batches.                                             *)
(*                                                                         *)
(* The limiter, the usage guard, the database and Cloudinary may each fail *)
(* a request, and a request may die between any two of its steps.          *)
(***************************************************************************)
EXTENDS Naturals, Sequences, SequencesExt

CONSTANTS
    FormTabs,
    MaxAssets,                  \* bound: pictures ever stored
    MAX_SELLER_UPLOAD_IMAGES

ASSUME PictureAssumption == MaxAssets \in Nat /\ MAX_SELLER_UPLOAD_IMAGES \in Nat

VARIABLES
    album,        \* what is being illustrated: a profile or a listing
    allowance,    \* the account's credits: "low", or at the threshold
    usageCached,  \* the snapshot kept for a minute
    uploadsPaused,
    assets,       \* pictures stored now
    stored,         \* pictures ever stored
    avatar,       \* the profile's picture
    tab,          \* each tab: the request it has in flight, and its form
    grid,         \* the listing's photos as its form shows them
    batch,        \* the photos being uploaded into it
    lostWrite,    \* a profile write failed after its upload
    staleSave     \* a form saved a picture the profile had ceased to show

pictureVars == <<album, allowance, usageCached, uploadsPaused, assets, stored, avatar, tab,
                 grid, batch, lostWrite, staleSave>>
guardVars == <<allowance, usageCached, uploadsPaused>>
listingVars == <<grid, batch>>

NoPicture == 0
Pictures == 1 .. MaxAssets
NoProfile == MaxAssets + 1

NoBatch == [pc |-> "idle"]

\* The profile exists, or the first save of the form creates it.
PicturesInit ==
    /\ album \in {"profile", "listing"}
    /\ allowance = "low" /\ usageCached = "none" /\ uploadsPaused \in BOOLEAN
    /\ assets = {} /\ stored = 0
    /\ avatar \in {NoProfile, NoPicture}
    /\ tab = [t \in FormTabs |-> [pc |-> "idle", form |-> NoPicture,
                              previous |-> NoPicture, picture |-> NoPicture]]
    /\ grid = <<>> /\ batch = NoBatch
    /\ lostWrite = FALSE /\ staleSave = FALSE

\* getCloudinaryUsage, then the threshold; "unknown" is a failed request.
UsageAnswers(answer) ==
    \/ /\ uploadsPaused
       /\ answer = "blocked"
       /\ UNCHANGED usageCached
    \/ /\ ~uploadsPaused /\ usageCached # "none"
       /\ answer = IF usageCached = "threshold" THEN "blocked" ELSE "allowed"
       /\ UNCHANGED usageCached
    \/ /\ ~uploadsPaused /\ usageCached = "none"
       /\ usageCached' = allowance
       /\ answer = IF allowance = "threshold" THEN "blocked" ELSE "allowed"
    \/ /\ ~uploadsPaused
       /\ answer = "unknown"
       /\ UNCHANGED usageCached

AllowanceRuns ==
    /\ allowance = "low"
    /\ allowance' = "threshold"
    /\ UNCHANGED <<usageCached, uploadsPaused, assets, stored, avatar, tab, listingVars,
                   lostWrite, staleSave>>

SnapshotExpires ==
    /\ usageCached # "none"
    /\ usageCached' = "none"
    /\ UNCHANGED <<allowance, uploadsPaused, assets, stored, avatar, tab, listingVars,
                   lostWrite, staleSave>>

TabAt(t, pc) == tab[t].pc = pc
Set(t, state) == tab' = [tab EXCEPT ![t] = state]
Shows(t, picture) == Set(t, [pc |-> "idle", form |-> picture, previous |-> NoPicture,
                             picture |-> NoPicture])
Ends(t) == Shows(t, tab[t].form)

ShownPicture == IF avatar = NoProfile THEN NoPicture ELSE avatar

\* A page reload: the form shows the profile's picture.
OpenForm(t) ==
    /\ TabAt(t, "idle")
    /\ Shows(t, ShownPicture)
    /\ UNCHANGED <<guardVars, assets, stored, avatar, listingVars, lostWrite, staleSave>>

\* Origin, session, limiter and size pass; the guard decides.
AskAvatar(t) ==
    /\ TabAt(t, "idle")
    /\ \E answer \in {"allowed", "blocked", "unknown"} :
         /\ UsageAnswers(answer)
         /\ Set(t, [tab[t] EXCEPT !.pc = IF answer = "allowed" THEN "read" ELSE "idle"])
    /\ UNCHANGED <<allowance, uploadsPaused, assets, stored, avatar, listingVars, lostWrite, staleSave>>

\* The image is sound; what it replaces is read from the profile.
ReadPrevious(t) ==
    /\ TabAt(t, "read")
    /\ Set(t, [tab[t] EXCEPT !.pc = "store", !.previous = ShownPicture])
    /\ UNCHANGED <<guardVars, assets, stored, avatar, listingVars, lostWrite, staleSave>>

Stores == /\ stored < MaxAssets
          /\ stored' = stored + 1
          /\ assets' = assets \cup {stored'}

UploadAvatar(t) ==
    /\ TabAt(t, "store")
    /\ Stores
    /\ Set(t, [tab[t] EXCEPT !.pc = "write", !.picture = stored'])
    /\ UNCHANGED <<guardVars, avatar, listingVars, lostWrite, staleSave>>

\* A failed write is taken for a profile that does not exist yet.
WriteProfile(t) ==
    /\ TabAt(t, "write")
    /\ Set(t, [tab[t] EXCEPT !.pc = "delete"])
    /\ \/ avatar # NoProfile /\ avatar' = tab[t].picture /\ UNCHANGED lostWrite
       \/ UNCHANGED avatar /\ lostWrite' = (lostWrite \/ avatar # NoProfile)
    /\ UNCHANGED <<guardVars, assets, stored, listingVars, staleSave>>

\* Mutant of Outdated: what the profile shows now is what was replaced.
OutdatedNow(t) == {ShownPicture}

Outdated(t) == {tab[t].previous}

\* Best effort; then the form holds the new picture.
DeletePrevious(t) ==
    /\ TabAt(t, "delete")
    /\ \/ assets' = assets \ Outdated(t)
       \/ UNCHANGED assets
    /\ Shows(t, tab[t].picture)
    /\ UNCHANGED <<guardVars, stored, avatar, listingVars, lostWrite, staleSave>>

\* The image is refused, Cloudinary or the database fails, or the request
\* dies; what was stored stays.
UploadEnds(t) ==
    /\ tab[t].pc \in {"read", "store", "write", "delete"}
    /\ Ends(t)
    /\ UNCHANGED <<guardVars, assets, stored, avatar, listingVars, lostWrite, staleSave>>

RemovePicture(t) ==
    /\ TabAt(t, "idle") /\ tab[t].form # NoPicture
    /\ Shows(t, NoPicture)
    /\ UNCHANGED <<guardVars, assets, stored, avatar, listingVars, lostWrite, staleSave>>

\* Saving stores whatever the form holds, an upload in flight or not.
SaveForm(t) ==
    /\ avatar' = tab[t].form
    /\ staleSave' = (staleSave \/ (tab[t].form # NoPicture /\ avatar \notin {NoProfile, tab[t].form}))
    /\ UNCHANGED <<guardVars, assets, stored, tab, listingVars, lostWrite>>

\* The batch remembers the photos shown when it was picked.
SelectFiles ==
    /\ batch.pc = "idle"
    /\ \E files \in 1 .. MAX_SELLER_UPLOAD_IMAGES - Len(grid) :
         batch' = [pc |-> "uploading", images |-> grid, left |-> files, got |-> <<>>]
    /\ UNCHANGED <<guardVars, assets, stored, avatar, tab, grid, lostWrite, staleSave>>

\* One file after another; a platform admin passes an unknown allowance.
UploadListingImage ==
    /\ batch.pc = "uploading" /\ batch.left > 0
    /\ \E answer \in {"allowed", "blocked", "unknown"}, superAdmin \in BOOLEAN :
         /\ UsageAnswers(answer)
         /\ \/ /\ answer = "allowed" \/ (answer = "unknown" /\ superAdmin)
               /\ Stores
               /\ batch' = [batch EXCEPT !.left = @ - 1, !.got = Append(@, stored')]
            \/ /\ UNCHANGED <<assets, stored>>
               /\ batch' = [batch EXCEPT !.left = @ - 1]
    /\ UNCHANGED <<allowance, uploadsPaused, avatar, tab, grid, lostWrite, staleSave>>

\* The photos picked with the batch, whatever the grid shows by now.
FilesUploaded ==
    /\ batch.pc = "uploading" /\ batch.left = 0
    /\ grid' = IF batch.got = <<>> THEN grid ELSE batch.images \o batch.got
    /\ batch' = NoBatch
    /\ UNCHANGED <<guardVars, assets, stored, avatar, tab, lostWrite, staleSave>>

\* Both work while a batch uploads.
RemovePhoto ==
    /\ \E i \in DOMAIN grid : grid' = RemoveAt(grid, i)
    /\ UNCHANGED <<guardVars, assets, stored, avatar, tab, batch, lostWrite, staleSave>>

MakeCover ==
    /\ \E i \in DOMAIN grid \ {1} : grid' = <<grid[i]>> \o RemoveAt(grid, i)
    /\ UNCHANGED <<guardVars, assets, stored, avatar, tab, batch, lostWrite, staleSave>>

PicturesNext ==
    /\ UNCHANGED album
    /\ \/ AllowanceRuns \/ SnapshotExpires
       \/ /\ album = "profile"
          /\ \E t \in FormTabs :
               \/ OpenForm(t) \/ AskAvatar(t) \/ ReadPrevious(t) \/ UploadAvatar(t)
               \/ WriteProfile(t) \/ DeletePrevious(t) \/ UploadEnds(t) \/ RemovePicture(t) \/ SaveForm(t)
       \/ /\ album = "listing"
          /\ SelectFiles \/ UploadListingImage \/ FilesUploaded \/ RemovePhoto \/ MakeCover

PicturesSpec == PicturesInit /\ [][PicturesNext]_pictureVars

(***************************************************************************)
(* The picture a profile shows exists, however uploads of several tabs     *)
(* interleave, fail or die: each deletes only what it replaced.  A failed  *)
(* profile write and a stale form are the two ways it can go missing       *)
(* (avatar/upload/route.ts).                                               *)
(***************************************************************************)
ShownPictureExists ==
    ~lostWrite /\ ~staleSave /\ avatar \in Pictures => avatar \in assets

(***************************************************************************)
(* A listing's grid shows each photo once, only stored ones, and never     *)
(* more than the limit, although a batch restores the photos it saw        *)
(* (image-upload-grid.tsx).                                                *)
(***************************************************************************)
GridIsSound ==
    /\ Len(grid) <= MAX_SELLER_UPLOAD_IMAGES
    /\ \A i, j \in DOMAIN grid : grid[i] = grid[j] => i = j
    /\ ToSet(grid) \subseteq assets

PicturesSound == ShownPictureExists /\ GridIsSound
===============================================================================
