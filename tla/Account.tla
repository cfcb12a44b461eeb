-------------------------------- MODULE Account --------------------------------
(***************************************************************************)
(* The deletion of an account, beside the sessions of Sessions, the stays  *)
(* the user books and the handlers that write for the user.  Each of those *)
(* checks once that the account is active and writes later, however long   *)
(* that takes and however many others do; the deletion may read, take its  *)
(* snapshots and commit at any moment in between.  Whoever has passed the  *)
(* check may still write anything: one flag stands for all of them.        *)
(***************************************************************************)
EXTENDS Sessions

CONSTANT Handlers   \* what the handlers of a run write beside the requests
ASSUME AccountAssumption == Handlers \subseteq {"name", "image", "vehicle", "booking"}

VARIABLES
    edit,           \* is a handler in flight that found the account active?
                    \* any number of them, whatever they write
    profile,        \* personal data in the row of the user
    added,          \* is there a vehicle that the deletion under way, or the one
                    \* committed, has not seen?
    rides,          \* vehicles that bookings of any age refer to
    booked          \* has the user an active booking: pending or confirmed, not over?

acctVars == <<edit, profile, added, rides, booked>>
allVars == <<vars, acctVars>>

(* A user registers with a name.  The vehicles are those of before, and one*)
(* inserted since the deletion has read.                                   *)
Vehicles == {"usual", "added"}
ProfileData == {"name", "image"}

AcctTypeOK ==
    /\ TypeOK
    /\ edit \in BOOLEAN /\ profile \subseteq ProfileData
    /\ added \in BOOLEAN /\ rides \subseteq Vehicles /\ booked \in BOOLEAN
    /\ "added" \in rides => added

AcctInit == /\ Init
            /\ edit = FALSE /\ profile = {"name"} /\ added = FALSE /\ rides = {} /\ booked = FALSE

-------------------------------------------------------------------------------
(* update_me, the upload of a profile image, add_vehicle, and checkouts.   *)
AccountDeleted == account = "deleted"
Erasing == \E c \in Calls : At(c, "delete", "deleting")
ActiveAccount == account = "active"

EditRead == /\ ActiveAccount /\ ~edit /\ edit' = TRUE
            /\ UNCHANGED <<vars, profile, added, rides, booked>>

(* A row is written all the same; a vehicle stays if it is inserted after  *)
(* the deletion has read those that are there.                             *)
ProfileWrite(k) == /\ edit /\ k \in Handlers \cap ProfileData
                   /\ profile' = profile \cup {k}
                   /\ UNCHANGED <<vars, edit, added, rides, booked>>

VehicleWrite == /\ edit /\ "vehicle" \in Handlers /\ (Erasing \/ AccountDeleted)
                /\ added' = TRUE
                /\ UNCHANGED <<vars, edit, profile, rides, booked>>

(* A booking refers to its vehicle: it waits for a deletion that is erasing*)
(* that vehicle, and fails when it is gone.                                *)
NoForeignKey(v) == TRUE
VehicleThere(v) == IF v = "usual" THEN ~Erasing /\ ~AccountDeleted ELSE added

BookingWrite(v) == /\ edit /\ "booking" \in Handlers /\ VehicleThere(v)
                   /\ rides' = rides \cup {v} /\ booked' = TRUE
                   /\ UNCHANGED <<vars, edit, profile, added>>

(* The last handler is done, refuses, fails or dies.                       *)
EditEnds == /\ edit /\ edit' = FALSE
            /\ UNCHANGED <<vars, profile, added, rides, booked>>

BookingEnds == /\ booked /\ booked' = FALSE
               /\ UNCHANGED <<vars, edit, profile, added, rides>>

-------------------------------------------------------------------------------
(* delete_account: the check for active bookings, then the deletion.  A    *)
(* vehicle that a booking of any age refers to cannot be deleted           *)
(* (bookings.vehicle_id), and the profile image is not.                    *)
DeletionRead(c, d) == PasswordRead(c, d, "delete") /\ ~booked /\ UNCHANGED acctVars
Anonymised == profile \ {"name"}
VehiclesKept == TRUE
VehiclesUnused == "usual" \notin rides

DeletionCommit(c) == /\ VehiclesUnused
                     /\ DeleteCommit(c)
                     /\ profile' = Anonymised
                     /\ UNCHANGED <<edit, added, rides, booked>>

(* The vehicle added beside a deletion that failed is one like the others. *)
Settled == IF AccountDeleted' \/ Erasing' THEN UNCHANGED <<added, rides>>
           ELSE /\ added' = FALSE
                /\ rides' = IF rides = {} THEN {} ELSE {"usual"}
DeletionRefused(c) == /\ ~VehiclesUnused
                      /\ DeleteFails(c)
                      /\ Settled /\ UNCHANGED <<edit, profile, booked>>

AcctNext ==
    \/ SessionStep /\ Settled /\ UNCHANGED <<edit, profile, booked>>
    \/ \E c \in Calls :
        \/ \E d \in Devices : DeletionRead(c, d)
        \/ DeletionCommit(c) \/ DeletionRefused(c)
    \/ EditRead \/ EditEnds \/ \E k \in Handlers : ProfileWrite(k)
    \/ VehicleWrite \/ (\E v \in Vehicles : BookingWrite(v)) \/ BookingEnds

AcctSpec == AcctInit /\ [][AcctNext]_allVars

-------------------------------------------------------------------------------
(* Safety: a deleted account has an active booking as a renter only for a  *)
(* vehicle inserted beside the deletion, however many checkouts had passed *)
(* their checks before the deletion, or it its check before theirs.        *)
NoBookingOfDeleted == AccountDeleted /\ booked => "added" \in rides

(* Safety (account_controls_screen.dart:153): the profile of a deleted     *)
(* account is anonymised.                                                  *)
ProfileAnonymised == AccountDeleted => profile = {}

(* Action property (account_controls_screen.dart:359): whoever has no      *)
(* active booking any more can delete the account.                         *)
DeletableWithoutBooking ==
    [][\A c \in Calls :
        /\ At(c, "delete", "deleting") /\ call'[c].op = "delete"
        /\ call'[c].pc = "answered" /\ ~call'[c].ok
        => booked]_allVars
===============================================================================
