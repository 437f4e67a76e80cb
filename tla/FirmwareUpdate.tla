--------------------------- MODULE FirmwareUpdate ---------------------------
(***************************************************************************)
(* What an update of the firmware promises: the application is touched     *)
(* only while the complete new image is kept elsewhere, and the image is   *)
(* given up only while the application is complete.  The promise has one   *)
(* exception: the test that precedes the copy may be passed by something   *)
(* that is not the image (misled), until a complete program runs again.    *)
(* There is no server, no chip and no flash memory here; Loader implements *)
(* this specification.                                                     *)
(***************************************************************************)
VARIABLES
    app,        \* the program in the region the processor starts from
    image,      \* the complete new image is stored
    running,    \* what the processor runs; "stone" when it has nothing to run
    misled      \* the application is being replaced by something else

updateVars == <<app, image, running, misled>>

Init == app = "old" /\ image = FALSE /\ running = "loader" /\ misled = FALSE

\* The image becomes complete, or makes room for the next one.
ChangeImage ==
    /\ running = "loader" /\ (app # "damaged" \/ misled)
    /\ image' = ~image
    /\ UNCHANGED <<app, running, misled>>

\* Something that is not the image passes the test.
Mislead ==
    /\ running = "loader" /\ app # "damaged"
    /\ misled' = TRUE
    /\ UNCHANGED <<app, image, running>>

\* A step of the copy: the application falls apart or becomes the new one.
ChangeApp ==
    /\ running = "loader"
    /\ \/ image /\ app' \in {"damaged", "new"}
       \/ misled /\ app' \in {"old", "damaged", "new"}
    /\ UNCHANGED <<image, running, misled>>

\* The update is over, one way or another, and the application is whole.
StartApp ==
    /\ running = "loader" /\ app # "damaged"
    /\ running' = "application" /\ misled' = FALSE
    /\ UNCHANGED <<app, image>>

\* The damaged application is started, by a reset or by a misled loader.
StartDamaged ==
    /\ running = "loader" /\ app = "damaged"
    /\ running' = "stone"
    /\ UNCHANGED <<app, image, misled>>

StartLoader ==
    /\ running = "application"
    /\ running' = "loader"
    /\ UNCHANGED <<app, image, misled>>

Next == ChangeImage \/ Mislead \/ ChangeApp \/ StartApp \/ StartDamaged \/ StartLoader

Spec == Init /\ [][Next]_updateVars
=============================================================================
