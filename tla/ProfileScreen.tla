---------------------------- MODULE ProfileScreen ---------------------------
(***************************************************************************)
(* The profile of the mobile app (screens/profile/ProfileScreen.js), the   *)
(* employee that AuthContext keeps for every screen, and the record and    *)
(* the storage they stand for.  A phone number is saved and a picture is   *)
(* uploaded each by its own press, and the two may overlap.                *)
(***************************************************************************)
EXTENDS Naturals

CONSTANTS Phones, MaxSaves, MaxUploads    \* numbers, and bounds on the presses

VARIABLES record,      \* the employee as the server has it
          pictures,      \* the pictures that are in the storage
          employee,    \* user.employee of AuthContext
          phone,       \* what is typed
          pictureUrl,  \* the picture on screen
          saving,      \* handleSavePhone
          upload,      \* handlePickPicture
          unheard,     \* a save was done and its answer was lost
          saves, uploads

profileVars ==
    <<record, pictures, employee, phone, pictureUrl, saving, upload, unheard, saves, uploads>>

\* Every upload has a path of its own, and picture 0 is none.
Pictures == 0..MaxUploads
Employee == [phone: Phones, picture: Pictures]

ProfileTypeOK ==
    /\ record \in Employee /\ employee \in Employee /\ phone \in Phones
    /\ pictures \subseteq Pictures /\ pictureUrl \in Pictures
    /\ saving \in [stage: {"idle", "sent", "done", "failed"}, phone: Phones, seen: Employee]
    /\ upload \in [stage: {"idle", "picking", "asking", "putting", "done", "failed"},
                   picture: Pictures, seen: Employee]
    /\ unheard \in BOOLEAN /\ saves \in 0..MaxSaves /\ uploads \in Pictures

ProfileInit ==
    /\ record \in [phone: Phones, picture: {0}] /\ employee = record
    /\ phone = employee.phone /\ pictureUrl = employee.picture /\ pictures = {}
    /\ saving = [stage |-> "idle", phone |-> phone, seen |-> employee]
    /\ upload = [stage |-> "idle", picture |-> 0, seen |-> employee]
    /\ unheard = FALSE /\ saves = 0 /\ uploads = 0

server == <<record, pictures>>
Saving(stage) == saving' = [saving EXCEPT !.stage = stage]
Upload(stage) == upload' = [upload EXCEPT !.stage = stage]

\* Mutation of updateEmployee: the patch is laid over the employee of the press.
OverTheOld(seen, field, value) == [seen EXCEPT ![field] = value]

\* The patch is laid over whatever the employee is by now.
updateEmployee(seen, field, value) == [employee EXCEPT ![field] = value]

-----------------------------------------------------------------------------
(* handleSavePhone *)

Type(p) ==
    /\ p # phone /\ phone' = p
    /\ UNCHANGED <<server, employee, pictureUrl, saving, upload, unheard, saves, uploads>>

handleSavePhone ==
    /\ saving.stage = "idle" /\ saves < MaxSaves /\ saves' = saves + 1
    /\ saving' = [stage |-> "sent", phone |-> phone, seen |-> employee]
    /\ UNCHANGED <<server, employee, phone, pictureUrl, upload, unheard, uploads>>

ServePhone ==
    /\ saving.stage = "sent"
    /\ \/ record' = [record EXCEPT !.phone = saving.phone] /\ Saving("done") /\ UNCHANGED unheard
       \/ record' = [record EXCEPT !.phone = saving.phone] /\ Saving("failed") /\ unheard' = TRUE
       \/ Saving("failed") /\ UNCHANGED <<record, unheard>>
    /\ UNCHANGED <<pictures, employee, phone, pictureUrl, upload, saves, uploads>>

\* The number that was sent, whatever is typed by now.
PhoneSaved ==
    /\ saving.stage = "done" /\ Saving("idle")
    /\ employee' = updateEmployee(saving.seen, "phone", saving.phone)
    /\ unheard' = FALSE
    /\ UNCHANGED <<server, phone, pictureUrl, upload, saves, uploads>>
PhoneNotSaved ==
    /\ saving.stage = "failed" /\ Saving("idle")
    /\ UNCHANGED <<server, employee, phone, pictureUrl, upload, unheard, saves, uploads>>

-----------------------------------------------------------------------------
(* handlePickPicture *)

\* The links are replaced by a spinner until the upload is over.
handlePickPicture ==
    /\ upload.stage = "idle" /\ uploads < MaxUploads /\ uploads' = uploads + 1
    /\ upload' = [stage |-> "picking", picture |-> uploads', seen |-> employee]
    /\ UNCHANGED <<server, employee, phone, pictureUrl, saving, unheard, saves>>

\* A picture is taken or chosen; or the permission is refused, or the user cancels.
pickerFn ==
    /\ upload.stage = "picking"
    /\ Upload("asking") \/ Upload("idle")
    /\ UNCHANGED <<server, employee, phone, pictureUrl, saving, unheard, saves, uploads>>

\* The server points the record at the picture before there is one.
ServeUploadRequest ==
    /\ upload.stage = "asking"
    /\ \/ /\ record' = [record EXCEPT !.picture = upload.picture]
          /\ Upload("putting") \/ Upload("failed")
       \/ Upload("failed") /\ UNCHANGED record
    /\ UNCHANGED <<pictures, employee, phone, pictureUrl, saving, unheard, saves, uploads>>

\* uploadToSignedUrl: the storage takes the picture or does not; an answer that is
\* lost is an error too.
uploadToSignedUrl ==
    /\ upload.stage = "putting"
    /\ \/ pictures' = pictures \cup {upload.picture} /\ (Upload("done") \/ Upload("failed"))
       \/ Upload("failed") /\ UNCHANGED pictures
    /\ UNCHANGED <<record, employee, phone, pictureUrl, saving, unheard, saves, uploads>>

PictureUploaded ==
    /\ upload.stage = "done" /\ Upload("idle")
    /\ pictureUrl' = upload.picture
    /\ employee' = updateEmployee(upload.seen, "picture", upload.picture)
    /\ UNCHANGED <<server, phone, saving, unheard, saves, uploads>>
PictureNotUploaded ==
    /\ upload.stage = "failed" /\ Upload("idle")
    /\ UNCHANGED <<server, employee, phone, pictureUrl, saving, unheard, saves, uploads>>

ProfilePresses == handleSavePhone \/ handlePickPicture \/ \E p \in Phones : Type(p)
PhoneAnswers == ServePhone \/ PhoneSaved \/ PhoneNotSaved
PictureAnswers ==
    ServeUploadRequest \/ uploadToSignedUrl \/ PictureUploaded \/ PictureNotUploaded
ProfileNext == ProfilePresses \/ pickerFn \/ PhoneAnswers \/ PictureAnswers

-----------------------------------------------------------------------------
\* With no save under way and none whose answer was lost, every screen has the
\* number of the server, even when an upload began before the save and ended after
\* it; and a picture that a screen shows is in the storage (updateEmployee of
\* AuthContext, the order of handlePickPicture).
ProfileAgrees ==
    /\ saving.stage = "idle" /\ ~unheard => employee.phone = record.phone
    /\ {pictureUrl, employee.picture} \subseteq pictures \cup {0}

\* Both end, unless the user never leaves the picker.
ProfileEnds ==
    /\ saving.stage # "idle" ~> saving.stage = "idle"
    /\ upload.stage \notin {"idle", "picking"} ~> upload.stage = "idle"
=============================================================================
