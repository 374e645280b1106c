------------------------------ MODULE MCViewer ------------------------------
(* TLC instance of what a viewer shows and what the core captures for it: the *)
(* picture, annotations and device switches of the review app (ReviewApp),    *)
(* its transfers of the element tree (TreeTransfer), its pointer inputs       *)
(* (PointerQueue), the server's bookkeeping of clients, capture and           *)
(* screenshots (CaptureServer) and the video of an Android device             *)
(* (AndroidVideo).  A behaviour is one of these, whichever part is chosen at  *)
(* the start; the variables of the others stay as they are.  The parts are    *)
(* extended, so that what their theorems state is what is checked here.       *)
EXTENDS AndroidVideo, CaptureServer, PointerQueue, ReviewApp, TreeTransfer, TLC

VARIABLE part

ASSUME CaptureAssumption /\ AndroidAssumption /\ AppAssumption /\ TransferAssumption

----------------------------------------------------------------------------
\* The forms of a part vary only in behaviours of that part.
OnlyIn(p, forms) == IF part = p THEN forms ELSE {CHOOSE x \in forms : TRUE}

ViewerInit ==
    /\ part \in {"app", "tree", "pointer", "capture", "video"}
    /\ embedded \in OnlyIn("app", BOOLEAN) /\ served \in OnlyIn("app", Devices)
    /\ codec \in IF part = "app" /\ ~embedded THEN {"h264", "mjpeg"} ELSE {"h264"}
    /\ bridged \in OnlyIn("tree", BOOLEAN) /\ treeDevice \in OnlyIn("tree", TreeDevices)
    /\ raw \in OnlyIn("pointer", BOOLEAN)
    /\ AppInit /\ TransferInit /\ PointerInit /\ CaptureInit
    /\ AndroidInit

In(p, step, others) == part = p /\ step /\ UNCHANGED <<part, others>>

ViewerNext ==
    \/ In("app", AppNext, <<transferVars, pointerVars, captureVars, androidVars>>)
    \/ In("tree", TransferNext, <<appVars, pointerVars, captureVars, androidVars>>)
    \/ In("pointer", PointerNext, <<appVars, transferVars, captureVars, androidVars>>)
    \/ In("capture", CaptureNext, <<appVars, transferVars, pointerVars, androidVars>>)
    \/ In("video", AndroidNext, <<appVars, transferVars, pointerVars, captureVars>>)

ViewerSpec ==
    ViewerInit /\ [][ViewerNext]_<<part, appVars, transferVars, pointerVars, captureVars, androidVars>>

\* ReviewApp does not distinguish one device, nor CaptureServer one screenshot
\* request, from the other.
Symmetry == Permutations(Devices) \cup Permutations(Screenshots)

----------------------------------------------------------------------------
\* Every variable of the five modules holds a value of its kind.
ViewerTypeOK ==
    /\ AppTypeOK /\ TransferTypeOK /\ PointerTypeOK
    /\ CaptureTypeOK /\ AndroidTypeOK
=============================================================================
