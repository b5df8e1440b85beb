--------------------------- MODULE MCDisplayConfig ---------------------------
(* Three configurations of two resolutions; 8 and 16 are the periods, in   *)
(* milliseconds, of 120 and 60 Hz.                                         *)
EXTENDS DisplayConfig, TLC

CONSTANTS fast, slow, small, dozing, dozingSmall

MCGroup == fast :> "wqhd" @@ slow :> "wqhd" @@ small :> "fhd"
MCDozeMode == [wqhd |-> dozing, fhd |-> dozingSmall]
MCPeriod == fast :> 8 @@ slow :> 16 @@ small :> 8 @@ dozing :> 33 @@ dozingSmall :> 33

(***************************************************************************)
(* What two states are told apart by.  Blob ids are only compared with     *)
(* each other and the modes in old and lost blobs are never set: the ids   *)
(* of the four references, all distinct as BlobsOwned says, and the modes  *)
(* in blobs make no difference.  Nor do later unless a request is pending, *)
(* as the next one writes it, the type of a postponed request that there   *)
(* is not, and which period waits unless one is requested.  A lost blob is *)
(* never used again, only the bound of LoseBlob reads it: it is seen while *)
(* the display is off, from where all goes on as with one blob less.       *)
(***************************************************************************)
ToldApart ==
  [dpy EXCEPT !.actBlob = 0, !.actOld = (@ # 0), !.desBlob = 0, !.desOld = (@ # 0),
              !.blobs = 0,
              !.lost = IF dpy.power = "off" THEN Cardinality(@) ELSE 0,
              !.later = @ /\ dpy.request = "pending",
              !.pendType = IF dpy.isPending THEN @ ELSE "free",
              !.period = IF dpy.request = "requested" \/ @ = None THEN @ ELSE 0]
=============================================================================
